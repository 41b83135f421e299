--------------------------- MODULE CanonicalFile ---------------------------
(***************************************************************************)
(* canonical.bin as a file and a mapping: CanonicalDenseFile and           *)
(* CanonicalBin.  The unit of length is one slot of 32 bytes.  A call of   *)
(* the store commits CF_CANONICAL first and then updates the file slot by  *)
(* slot; the process may end between any two of these steps, and a resize  *)
(* may fail.  The mapping is shared: what is written through it is in the  *)
(* file, also after the process has died.                                  *)
(***************************************************************************)
EXTENDS HeightIndex

CONSTANTS
  Batches,       \* bound: lists of blocks that one call makes canonical
  CanFail        \* bound: set_len and mmap may return an error

ASSUME BatchesAssumption == Batches \subseteq Seq(Blocks)
ASSUME CanFailAssumption == CanFail \in BOOLEAN

VARIABLES
  cf,            \* the rows of CF_CANONICAL
  floor,         \* the pruning floor
  mode,          \* CanonicalBin, and the mmap of CanonicalDenseFile
  writable,      \* open, or open_readonly
  file,          \* the file: does it exist, its length, its slots
  span,          \* length of the mapping
  pending,       \* updates that the call in progress still has to make
  torn           \* history: an update has failed since the store was opened

fileVars == <<cf, floor, mode, writable, file, span, pending, torn>>

Files == [there : BOOLEAN, len : 0..(MaxHeight + 1), slot : Index]
NoFile == [there |-> FALSE, len |-> 0, slot |-> NoIndex]
Updates == [kind : {"write"}, h : Heights, b : Blocks]
           \cup [kind : {"truncate"}, h : Heights, b : {NoBlock}]

WriteAt(b) == [kind |-> "write", h |-> Height[b], b |-> b]
TruncateAt(h) == [kind |-> "truncate", h |-> h, b |-> NoBlock]

-----------------------------------------------------------------------------
\* File::set_len: cut, or zero-filled.
SetLen(f, n) ==
  [there |-> TRUE, len |-> n,
   slot |-> [h \in Heights |-> IF h < n /\ h < f.len THEN f.slot[h] ELSE NoBlock]]

\* dense_bytes_from_cf: up to the highest row, zero in the gaps.
DenseLength(rows) == IF Held(rows) = {} THEN 0
                     ELSE 1 + CHOOSE h \in Held(rows) : \A k \in Held(rows) : k <= h
Dense(rows) == [there |-> TRUE, len |-> DenseLength(rows), slot |-> DenseFromCf(rows)]

\* read_hash_bytes: a slot inside the mapping that is not zero.  Without a
\* mapping after a resize that failed the code panics instead of answering.
ReadSlot(h) == IF mode \in {"rw", "ro"} /\ h < span THEN file.slot[h] ELSE NoBlock

FileInit ==
  /\ cf = NoIndex /\ floor = 0
  /\ mode = "closed" /\ writable = FALSE
  /\ file = NoFile /\ span = 0
  /\ pending = << >> /\ torn = FALSE

-----------------------------------------------------------------------------
(***************************************************************************)
(* open_synced.                                                            *)
(***************************************************************************)

\* Mutant: a file of the right length is taken for good.
InSyncLength == file.len = DenseLength(cf)

\* on_disk = expected; a missing file reads as an empty one.
InSync == file.len = DenseLength(cf) /\ file.slot = DenseFromCf(cf)

\* map_file: the whole file is mapped.
Map(m, f) == mode' = m /\ file' = f /\ span' = f.len

\* A file that matches is mapped; a missing one of a store without canonical
\* blocks is created first.
OpenMatching(rw) ==
  /\ mode = "closed" /\ InSync
  /\ IF file.there \/ rw
       THEN Map(IF rw THEN "rw" ELSE "ro", [file EXCEPT !.there = TRUE])
       ELSE mode' = "disabled" /\ UNCHANGED <<file, span>>
  /\ writable' = rw /\ torn' = FALSE
  /\ UNCHANGED <<cf, floor, pending>>

\* open_readonly writes nothing: lookups use CF_CANONICAL.
OpenDisabled ==
  /\ mode = "closed" /\ ~InSync
  /\ mode' = "disabled" /\ writable' = FALSE /\ torn' = FALSE
  /\ UNCHANGED <<cf, floor, file, span, pending>>

\* open with truncate(true), then write_all of the dense bytes.
StartRebuild ==
  /\ mode = "closed" /\ ~InSync
  /\ mode' = "rebuild" /\ writable' = TRUE /\ torn' = FALSE
  /\ file' = SetLen(file, 0)
  /\ UNCHANGED <<cf, floor, span, pending>>

RebuildPart ==
  /\ mode = "rebuild"
  /\ \E n \in (file.len + 1)..(DenseLength(cf) - 1) : file' = SetLen(Dense(cf), n)
  /\ UNCHANGED <<cf, floor, mode, writable, span, pending, torn>>

FinishRebuild ==
  /\ mode = "rebuild"
  /\ Map("rw", Dense(cf))
  /\ UNCHANGED <<cf, floor, writable, pending, torn>>

-----------------------------------------------------------------------------
(***************************************************************************)
(* Calls of the store: the commit of CF_CANONICAL and the updates of the   *)
(* file that follow it.                                                    *)
(***************************************************************************)
Ready == writable /\ mode \in {"rw", "disabled", "unmapped"} /\ pending = << >>

\* put_block, a pipeline flush, set_canonical and set_canonical_batch.
SetCanonical(bs) ==
  /\ Ready
  /\ cf' = PutAll(cf, bs, DOMAIN bs)
  /\ pending' = [i \in DOMAIN bs |-> WriteAt(bs[i])]
  /\ UNCHANGED <<floor, mode, writable, file, span, torn>>

\* rollback_to_height, from the tip's height old: rows above it stay, while the
\* file is cut at top.  (The tip is not part of this module.)
Rollback(top, old) ==
  /\ Ready /\ top < old
  /\ cf' = Without(cf, (top + 1)..old)
  /\ pending' = <<TruncateAt(top)>>
  /\ UNCHANGED <<floor, mode, writable, file, span, torn>>

\* Mutant: the new slots are written over the old chain.
ReorgUpdatesNoCut(ancestor, bs) == [i \in DOMAIN bs |-> WriteAt(bs[i])]

ReorgUpdates(ancestor, bs) ==
  [i \in 1..(Len(bs) + 1) |-> IF i = 1 THEN TruncateAt(ancestor) ELSE WriteAt(bs[i - 1])]

\* apply_reorg, from the tip's height old, which may be below the ancestor.
Reorg(ancestor, old, bs) ==
  /\ Ready
  /\ cf' = PutAll(Without(cf, (ancestor + 1)..old), bs, DOMAIN bs)
  /\ pending' = ReorgUpdates(ancestor, bs)
  /\ UNCHANGED <<floor, mode, writable, file, span, torn>>

\* prune_before_height: the rows from the old floor up go, the slots stay.
Prune(height) ==
  /\ Ready /\ floor < height
  /\ cf' = Without(cf, floor..(height - 1))
  /\ floor' = height
  /\ UNCHANGED <<mode, writable, file, span, pending, torn>>

-----------------------------------------------------------------------------
(***************************************************************************)
(* extend_write and truncate_to_height.                                    *)
(***************************************************************************)
Due(kind) == pending # << >> /\ Head(pending).kind = kind

\* Without a writable mapping there is nothing to update.
SkipUpdate ==
  /\ pending # << >> /\ mode = "disabled"
  /\ pending' = Tail(pending)
  /\ UNCHANGED <<cf, floor, mode, writable, file, span, torn>>

\* write_hash: the file grows to hold the slot.
WriteHash ==
  LET u == Head(pending)
      f == IF u.h + 1 > span THEN SetLen(file, u.h + 1) ELSE file
  IN  /\ Due("write") /\ mode = "rw"
      /\ Map("rw", [f EXCEPT !.slot[u.h] = u.b])
      /\ pending' = Tail(pending)
      /\ UNCHANGED <<cf, floor, writable, torn>>

\* truncate: set_len and a new mapping, whatever there was before; a file that
\* is shorter is zero-filled.
Truncate ==
  /\ Due("truncate") /\ mode \in {"rw", "unmapped"}
  /\ Map("rw", SetLen(file, Head(pending).h + 1))
  /\ pending' = Tail(pending)
  /\ UNCHANGED <<cf, floor, writable, torn>>

\* set_len or the new mapping fails: the old mapping is gone, and the call ends
\* with an error before its other updates.
ResizeFails ==
  LET u == Head(pending)
  IN  /\ CanFail
      /\ \/ Due("write") /\ mode = "rw" /\ u.h + 1 > span
         \/ Due("truncate") /\ mode \in {"rw", "unmapped"}
      /\ file' \in {file, SetLen(file, u.h + 1)}
      /\ mode' = "unmapped" /\ torn' = TRUE
      /\ pending' = << >>
      /\ UNCHANGED <<cf, floor, writable, span>>

\* write_hash without a mapping panics: the thread is gone, with its call.
WritePanics ==
  /\ Due("write") /\ mode = "unmapped"
  /\ pending' = << >> /\ torn' = TRUE
  /\ UNCHANGED <<cf, floor, mode, writable, file, span>>

\* disable_canonical_bin_acceleration, also on a read-only store.
Disable ==
  /\ mode \in {"rw", "ro", "disabled", "unmapped"} /\ pending = << >>
  /\ mode' = "disabled"
  /\ UNCHANGED <<cf, floor, writable, file, span, pending, torn>>

-----------------------------------------------------------------------------
\* The process ends, between two calls or in the middle of one.
Stop ==
  /\ mode # "closed"
  /\ mode' = "closed" /\ pending' = << >>
  /\ UNCHANGED <<cf, floor, writable, file, span, torn>>

\* While the store is closed the file is removed, or comes back from a power
\* failure with another length or with another value in a slot.
Tamper ==
  /\ mode = "closed"
  /\ \/ file' = NoFile
     \/ \E n \in 0..(MaxHeight + 1) : file' = SetLen(file, n)
     \/ \E h \in 0..(file.len - 1), s \in Slot : file' = [file EXCEPT !.slot[h] = s]
  /\ UNCHANGED <<cf, floor, mode, writable, span, pending, torn>>

Update == SkipUpdate \/ WriteHash \/ Truncate \/ ResizeFails \/ WritePanics
Call ==
  \/ \E bs \in Batches : SetCanonical(bs) \/ \E h, old \in Heights : Reorg(h, old, bs)
  \/ \E h \in Heights : Prune(h) \/ \E old \in Heights : Rollback(h, old)
Open ==
  \/ \E rw \in BOOLEAN : OpenMatching(rw)
  \/ OpenDisabled \/ StartRebuild \/ RebuildPart \/ FinishRebuild

FileNext == Open \/ Call \/ Update \/ Disable \/ Stop \/ Tamper

FileSpec == FileInit /\ [][FileNext]_fileVars

-----------------------------------------------------------------------------
(***************************************************************************)
(* Properties.                                                             *)
(***************************************************************************)

\* The types; past its end the file holds nothing.
FileTypeOK ==
  /\ cf \in Index /\ floor \in Heights
  /\ mode \in {"closed", "rebuild", "rw", "ro", "disabled", "unmapped"}
  /\ writable \in BOOLEAN /\ torn \in BOOLEAN
  /\ file \in Files /\ \A h \in Heights : h >= file.len => file.slot[h] = NoBlock
  /\ span \in 0..(MaxHeight + 1)
  /\ pending \in Seq(Updates)

\* "Current mapped span (equals on-disk length for this exclusive file
\* handle)": no read through the mapping can fall behind the end of the file.
SpanIsLength == mode \in {"rw", "ro"} => span = file.len

\* An update that the call in progress still has to make concerns height h.
Awaited(h) ==
  \E i \in DOMAIN pending :
    IF pending[i].kind = "write" THEN pending[i].h = h ELSE pending[i].h < h

\* Where no update is due, a slot that is read holds the row of CF_CANONICAL,
\* above the pruning floor: through crashes between the commit and the updates,
\* a crash in the middle of a rebuild, a lost or damaged file, a truncation that
\* lengthens the file.  After a resize that failed this waits for the next open.
SlotsSound ==
  ~torn => \A h \in Heights :
             h >= floor /\ ~Awaited(h) => ReadSlot(h) \in {NoBlock, cf[h]}

\* The updates still due end with the committed rows: the last write that is
\* due at a height carries the row that CF_CANONICAL has there.
DueWritesRows ==
  \A i \in DOMAIN pending :
    LET u == pending[i]
        later == {j \in DOMAIN pending : i < j /\ pending[j].kind = "write" /\ pending[j].h = u.h}
    IN  u.kind = "write" /\ later = {} => u.b = cf[u.h]

\* Why the slots are sound at every step of a call: what the call has not yet
\* written it is going to write from the rows it has committed, only a writer
\* has something to write, and a mapping is lost only by a resize that failed.
FileInv ==
  /\ FileTypeOK /\ SpanIsLength /\ SlotsSound
  /\ DueWritesRows
  /\ pending # << >> => mode \in {"rw", "disabled", "unmapped"}
  /\ mode = "unmapped" => torn

\* "Any mismatch (missing file, wrong length, wrong hash at any indexed height)
\* triggers a full rewrite": whatever the file was, an open that maps it serves
\* CF_CANONICAL at every height.
OpenServesRows ==
  [][(mode \in {"closed", "rebuild"} /\ mode' \in {"rw", "ro"})
       => \A h \in Heights : ReadSlot(h)' = cf[h]]_fileVars

\* The file and its mapping are the height->hash map that the other modules
\* take canonical.bin for.
Slots == INSTANCE BinSlots WITH
  cfRows <- cf,
  binMode <- IF mode = "rebuild" THEN "closed" ELSE mode,
  bin <- [h \in Heights |-> ReadSlot(h)]

ImplementsSlots == Slots!BinSpec

=============================================================================
