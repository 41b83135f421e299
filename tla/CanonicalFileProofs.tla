------------------------ MODULE CanonicalFileProofs ------------------------
(***************************************************************************)
(* Proofs about CanonicalFile, for any set of blocks, any heights and any  *)
(* batches: canonical.bin serves the rows of CF_CANONICAL, and the file    *)
(* with its mapping implements the height->hash map of BinSlots.           *)
(***************************************************************************)
EXTENDS CanonicalFile, HeightIndexProofs, SequenceTheorems

-----------------------------------------------------------------------------
(***************************************************************************)
(* The operators on files.                                                 *)
(***************************************************************************)

\* The dense form of the rows ends behind the highest row.
LEMMA DenseLengthBound ==
  ASSUME NEW rows \in Index
  PROVE  /\ DenseLength(rows) \in 0..(MaxHeight + 1)
         /\ \A h \in Heights : h >= DenseLength(rows) => rows[h] = NoBlock
<1>1. CASE Held(rows) = {}
  BY <1>1, MaxHeightAssumption DEF DenseLength, Held
<1>2. CASE Held(rows) # {}
  <2> DEFINE top == CHOOSE h \in Held(rows) : \A k \in Held(rows) : k <= h
  <2>1. Held(rows) \subseteq Heights BY DEF Held
  <2>2. top \in Held(rows) /\ \A k \in Held(rows) : k <= top
    BY <1>2, <2>1, HighestOf
  <2>3. DenseLength(rows) = 1 + top BY <1>2 DEF DenseLength
  <2> HIDE DEF top
  <2>4. top \in 0..MaxHeight BY <2>1, <2>2 DEF Heights
  <2>5. \A h \in Heights : h > top => h \notin Held(rows)
    BY <2>2, <2>4, MaxHeightAssumption DEF Heights
  <2>6. \A h \in Heights : h > top => rows[h] = NoBlock
    BY <2>5 DEF Held
  <2> QED BY <2>3, <2>4, <2>6, MaxHeightAssumption DEF Heights
<1> QED BY <1>1, <1>2

\* A file and what is past its end.
WellFormed(f) == f \in Files /\ \A h \in Heights : h >= f.len => f.slot[h] = NoBlock

LEMMA NoFileFacts == WellFormed(NoFile)
BY NoIndexType, MaxHeightAssumption DEF WellFormed, NoFile, Files

LEMMA SetLenFacts ==
  ASSUME NEW f \in Files, NEW n \in 0..(MaxHeight + 1)
  PROVE  /\ WellFormed(SetLen(f, n))
         /\ SetLen(f, n).len = n
         /\ \A h \in Heights : SetLen(f, n).slot[h]
                                 = IF h < n /\ h < f.len THEN f.slot[h] ELSE NoBlock
<1> DEFINE s == [h \in Heights |-> IF h < n /\ h < f.len THEN f.slot[h] ELSE NoBlock]
<1>1. s \in Index BY DEF Files, Index, Slot
<1>2. SetLen(f, n) = [there |-> TRUE, len |-> n, slot |-> s] BY DEF SetLen
<1>3. \A h \in Heights : s[h] = IF h < n /\ h < f.len THEN f.slot[h] ELSE NoBlock OBVIOUS
<1> HIDE DEF s
<1>4. SetLen(f, n) \in Files /\ SetLen(f, n).len = n /\ SetLen(f, n).slot = s
  BY <1>1, <1>2 DEF Files
<1> QED BY <1>3, <1>4, MaxHeightAssumption DEF WellFormed, Heights

LEMMA DenseFacts ==
  ASSUME NEW rows \in Index
  PROVE  WellFormed(Dense(rows)) /\ Dense(rows).slot = rows
                                 /\ Dense(rows).len = DenseLength(rows)
<1>1. Dense(rows) = [there |-> TRUE, len |-> DenseLength(rows), slot |-> rows]
  BY DenseFromCfIsRows DEF Dense
<1> QED BY <1>1, DenseLengthBound DEF WellFormed, Files

\* One slot of the file is written.
LEMMA SlotWriteFacts ==
  ASSUME NEW f, WellFormed(f), NEW h \in Heights, h < f.len, NEW s \in Slot
  PROVE  LET g == [f EXCEPT !.slot[h] = s]
         IN  /\ WellFormed(g) /\ g.len = f.len
             /\ \A k \in Heights : g.slot[k] = IF k = h THEN s ELSE f.slot[k]
<1> DEFINE g == [f EXCEPT !.slot[h] = s]
           t == [f.slot EXCEPT ![h] = s]
<1>1. f.slot \in Index /\ f.len \in 0..(MaxHeight + 1) /\ f.there \in BOOLEAN
  BY DEF WellFormed, Files
<1>2. t \in Index /\ \A k \in Heights : t[k] = IF k = h THEN s ELSE f.slot[k]
  BY <1>1 DEF Index
<1>3. g = [there |-> f.there, len |-> f.len, slot |-> t]
  BY DEF WellFormed, Files
<1> HIDE DEF t
<1>4. g \in Files /\ g.len = f.len /\ g.slot = t
  BY <1>1, <1>2, <1>3 DEF Files
<1> HIDE DEF g
<1>5. WellFormed(g)
  BY <1>1, <1>2, <1>4, MaxHeightAssumption DEF WellFormed, Heights
<1> QED BY <1>2, <1>4, <1>5 DEF g

-----------------------------------------------------------------------------
(***************************************************************************)
(* The updates that a call leaves to make.                                 *)
(***************************************************************************)
LEMMA WriteAtFacts ==
  ASSUME NEW b \in Blocks
  PROVE  /\ WriteAt(b) \in Updates /\ WriteAt(b).kind = "write"
         /\ WriteAt(b).h = Height[b] /\ WriteAt(b).b = b
BY BlockHeight DEF WriteAt, Updates

LEMMA TruncateAtFacts ==
  ASSUME NEW h \in Heights
  PROVE  /\ TruncateAt(h) \in Updates /\ TruncateAt(h).kind = "truncate"
         /\ TruncateAt(h).h = h
BY DEF TruncateAt, Updates

\* Updates are writes or truncations, at a height; a write carries a block.
LEMMA UpdateFacts ==
  ASSUME NEW u \in Updates
  PROVE  /\ u.kind \in {"write", "truncate"} /\ u.h \in Heights
         /\ u.kind = "write" => u.b \in Blocks
BY DEF Updates

\* The updates after set_canonical_batch.
LEMMA WritesFacts ==
  ASSUME NEW bs \in Batches
  PROVE  LET us == [i \in DOMAIN bs |-> WriteAt(bs[i])]
         IN  /\ us \in Seq(Updates) /\ DOMAIN us = DOMAIN bs
             /\ \A i \in DOMAIN bs : us[i] = WriteAt(bs[i])
<1> DEFINE us == [i \in DOMAIN bs |-> WriteAt(bs[i])]
<1>1. bs \in Seq(Blocks) BY BatchesAssumption
<1>2. DOMAIN bs = 1..Len(bs) /\ Len(bs) \in Nat /\ \A i \in DOMAIN bs : bs[i] \in Blocks
  BY <1>1
<1>3. us \in [1..Len(bs) -> Updates]
  BY <1>2, WriteAtFacts
<1>4. us \in Seq(Updates)
  BY <1>2, <1>3
<1> QED BY <1>2, <1>3, <1>4

\* The updates after apply_reorg: the truncation first.
LEMMA ReorgUpdatesFacts ==
  ASSUME NEW bs \in Batches, NEW a \in Heights
  PROVE  /\ ReorgUpdates(a, bs) \in Seq(Updates)
         /\ DOMAIN ReorgUpdates(a, bs) = 1..(Len(bs) + 1)
         /\ Len(bs) \in Nat /\ DOMAIN bs = 1..Len(bs)
         /\ ReorgUpdates(a, bs)[1] = TruncateAt(a)
         /\ \A i \in DOMAIN bs : ReorgUpdates(a, bs)[i + 1] = WriteAt(bs[i])
         /\ \A i \in 1..(Len(bs) + 1) : i # 1 => i - 1 \in DOMAIN bs
<1> DEFINE us == [i \in 1..(Len(bs) + 1) |->
                    IF i = 1 THEN TruncateAt(a) ELSE WriteAt(bs[i - 1])]
<1>1. bs \in Seq(Blocks) BY BatchesAssumption
<1>2. DOMAIN bs = 1..Len(bs) /\ Len(bs) \in Nat /\ \A i \in DOMAIN bs : bs[i] \in Blocks
  BY <1>1
<1>3. \A i \in 1..(Len(bs) + 1) :
        (IF i = 1 THEN TruncateAt(a) ELSE WriteAt(bs[i - 1])) \in Updates
  BY <1>2, WriteAtFacts, TruncateAtFacts
<1>4. us \in [1..(Len(bs) + 1) -> Updates]
  BY <1>3
<1>5. us \in Seq(Updates)
  <2>1. Len(bs) + 1 \in Nat BY <1>2
  <2> HIDE DEF us
  <2> QED BY <1>4, <2>1
<1>6. ReorgUpdates(a, bs) = us BY DEF ReorgUpdates
<1>7. us[1] = TruncateAt(a) /\ \A i \in DOMAIN bs : us[i + 1] = WriteAt(bs[i])
  BY <1>2
<1> HIDE DEF us
<1> QED BY <1>2, <1>4, <1>5, <1>6, <1>7

-----------------------------------------------------------------------------
(***************************************************************************)
(* Types, and the length of the mapping.                                   *)
(***************************************************************************)

\* What FileTypeOK says of the state, in the form the steps use.
LEMMA TypeFacts ==
  FileTypeOK <=>
    /\ cf \in Index /\ floor \in Heights
    /\ mode \in {"closed", "rebuild", "rw", "ro", "disabled", "unmapped"}
    /\ writable \in BOOLEAN /\ torn \in BOOLEAN
    /\ WellFormed(file)
    /\ span \in 0..(MaxHeight + 1)
    /\ pending \in Seq(Updates)
BY DEF FileTypeOK, WellFormed

LEMMA TypeFactsNext ==
  FileTypeOK' <=>
    /\ cf' \in Index /\ floor' \in Heights
    /\ mode' \in {"closed", "rebuild", "rw", "ro", "disabled", "unmapped"}
    /\ writable' \in BOOLEAN /\ torn' \in BOOLEAN
    /\ WellFormed(file')
    /\ span' \in 0..(MaxHeight + 1)
    /\ pending' \in Seq(Updates)
BY DEF FileTypeOK, WellFormed

\* The first update that is due, and the ones after it.
LEMMA HeadFacts ==
  ASSUME pending \in Seq(Updates), pending # << >>
  PROVE  /\ Head(pending) \in Updates /\ Head(pending).h \in Heights
         /\ Head(pending).h + 1 \in 0..(MaxHeight + 1)
         /\ Head(pending).kind = "write" => Head(pending).b \in Blocks
         /\ Tail(pending) \in Seq(Updates)
<1>1. Head(pending) \in Updates /\ Tail(pending) \in Seq(Updates)
  BY HeadTailProperties
<1>2. Head(pending).h \in Heights /\ (Head(pending).kind = "write" => Head(pending).b \in Blocks)
  BY <1>1, UpdateFacts
<1> QED BY <1>1, <1>2, MaxHeightAssumption DEF Heights

\* The file that write_hash leaves.
LEMMA WriteHashFile ==
  ASSUME FileTypeOK, SpanIsLength, WriteHash
  PROVE  /\ WellFormed(file') /\ span' = file'.len
         /\ \A h \in Heights :
              file'.slot[h] = IF h = Head(pending).h THEN Head(pending).b ELSE file.slot[h]
<1> DEFINE u == Head(pending)
           f == IF u.h + 1 > span THEN SetLen(file, u.h + 1) ELSE file
<1>1. /\ pending # << >> /\ u.kind = "write" /\ mode = "rw"
      /\ file' = [f EXCEPT !.slot[u.h] = u.b] /\ span' = file'.len
  BY DEF WriteHash, Due, Map
<1>2. WellFormed(file) /\ span = file.len /\ pending \in Seq(Updates)
      /\ span \in 0..(MaxHeight + 1)
  BY <1>1, TypeFacts DEF SpanIsLength
<1>3. u.h \in Heights /\ u.h + 1 \in 0..(MaxHeight + 1) /\ u.b \in Slot
  BY <1>1, <1>2, HeadFacts, BlockHeight
<1> HIDE DEF u
<1>4. /\ WellFormed(f) /\ u.h < f.len
      /\ \A h \in Heights : f.slot[h] = file.slot[h]
  <2>1. CASE u.h + 1 > span
    <3>1. f = SetLen(file, u.h + 1) BY <2>1
    <3>2. file \in Files BY <1>2 DEF WellFormed
    <3>3. /\ WellFormed(f) /\ f.len = u.h + 1
          /\ \A h \in Heights : f.slot[h] =
                IF h < u.h + 1 /\ h < file.len THEN file.slot[h] ELSE NoBlock
      BY <1>3, <3>1, <3>2, SetLenFacts
    <3> HIDE DEF f
    <3>4. \A h \in Heights : f.slot[h] = file.slot[h]
      BY <1>2, <1>3, <2>1, <3>3, MaxHeightAssumption DEF WellFormed, Heights
    <3> QED BY <1>3, <3>3, <3>4, MaxHeightAssumption DEF Heights
  <2>2. CASE ~(u.h + 1 > span)
    BY <1>2, <1>3, <2>2, MaxHeightAssumption DEF Heights
  <2> QED BY <2>1, <2>2
<1> HIDE DEF f
<1>5. LET g == [f EXCEPT !.slot[u.h] = u.b]
      IN  /\ WellFormed(g) /\ g.len = f.len
          /\ \A k \in Heights : g.slot[k] = IF k = u.h THEN u.b ELSE f.slot[k]
  BY <1>3, <1>4, SlotWriteFacts
<1> QED BY <1>1, <1>4, <1>5 DEF u

\* The file that a truncation leaves.
LEMMA TruncateFile ==
  ASSUME FileTypeOK, Truncate
  PROVE  /\ WellFormed(file') /\ span' = file'.len
         /\ \A h \in Heights :
              file'.slot[h] = IF h <= Head(pending).h THEN file.slot[h] ELSE NoBlock
<1> DEFINE u == Head(pending)
<1>1. /\ pending # << >> /\ file' = SetLen(file, u.h + 1) /\ span' = file'.len
  BY DEF Truncate, Due, Map
<1>2. WellFormed(file) /\ file \in Files /\ pending \in Seq(Updates)
  BY TypeFacts DEF WellFormed
<1>3. u.h \in Heights /\ u.h + 1 \in 0..(MaxHeight + 1)
  BY <1>1, <1>2, HeadFacts
<1>4. /\ WellFormed(file')
      /\ \A h \in Heights : file'.slot[h] =
            IF h < u.h + 1 /\ h < file.len THEN file.slot[h] ELSE NoBlock
  BY <1>1, <1>2, <1>3, SetLenFacts
<1>5. file.len \in Int BY <1>2 DEF Files
<1> HIDE DEF u
<1>6. \A h \in Heights :
        file'.slot[h] = IF h <= u.h THEN file.slot[h] ELSE NoBlock
  BY <1>2, <1>3, <1>4, <1>5, MaxHeightAssumption DEF WellFormed, Heights
<1> QED BY <1>1, <1>4, <1>6 DEF u

\* open_synced maps a file that holds the rows.
LEMMA OpenFile ==
  ASSUME FileTypeOK,
         \/ mode' \in {"rw", "ro"} /\ (\E rw \in BOOLEAN : OpenMatching(rw))
         \/ FinishRebuild
  PROVE  /\ WellFormed(file') /\ span' = file'.len
         /\ file'.slot = cf
<1>1. cf \in Index /\ WellFormed(file) BY TypeFacts
<1>2. CASE mode' \in {"rw", "ro"} /\ (\E rw \in BOOLEAN : OpenMatching(rw))
  <2>1. /\ file' = [file EXCEPT !.there = TRUE] /\ span' = file'.len
        /\ file.slot = DenseFromCf(cf)
    BY <1>2 DEF OpenMatching, Map, InSync
  <2>2. file \in Files BY <1>1 DEF WellFormed
  <2>3. file' \in Files /\ file'.len = file.len /\ file'.slot = file.slot
    BY <2>1, <2>2 DEF Files
  <2>4. file'.slot = cf BY <1>1, <2>1, <2>3, DenseFromCfIsRows
  <2> QED BY <1>1, <2>1, <2>3, <2>4 DEF WellFormed
<1>3. CASE FinishRebuild
  <2>1. file' = Dense(cf) /\ span' = file'.len BY <1>3 DEF FinishRebuild, Map
  <2> QED BY <1>1, <2>1, DenseFacts
<1> QED BY <1>2, <1>3

\* Commits leave an index and well-formed updates.
LEMMA CallType ==
  ASSUME FileTypeOK, Call
  PROVE  /\ cf' \in Index /\ floor' \in Heights /\ pending' \in Seq(Updates)
         /\ UNCHANGED <<mode, writable, file, span, torn>>
<1>1. cf \in Index /\ floor \in Heights /\ pending \in Seq(Updates) BY TypeFacts
<1>2. ASSUME NEW bs \in Batches
      PROVE  \A i \in DOMAIN bs : bs[i] \in Blocks
  <2>1. bs \in Seq(Blocks) BY BatchesAssumption
  <2> QED BY <2>1
<1>3. ASSUME NEW bs \in Batches, SetCanonical(bs)
      PROVE  cf' \in Index /\ floor' = floor /\ pending' \in Seq(Updates)
             /\ UNCHANGED <<mode, writable, file, span, torn>>
  BY <1>1, <1>2, <1>3, PutAllEntries, WritesFacts DEF SetCanonical
<1>4. ASSUME NEW bs \in Batches, NEW a \in Heights, NEW old \in Heights, Reorg(a, old, bs)
      PROVE  cf' \in Index /\ floor' = floor /\ pending' \in Seq(Updates)
             /\ UNCHANGED <<mode, writable, file, span, torn>>
  <2>1. Without(cf, (a + 1)..old) \in Index BY <1>1, WithoutType
  <2> QED BY <1>2, <1>4, <2>1, PutAllEntries, ReorgUpdatesFacts DEF Reorg
<1>5. ASSUME NEW h \in Heights, NEW old \in Heights, Rollback(h, old)
      PROVE  cf' \in Index /\ floor' = floor /\ pending' \in Seq(Updates)
             /\ UNCHANGED <<mode, writable, file, span, torn>>
  <2>1. pending' = <<TruncateAt(h)>> BY <1>5 DEF Rollback
  <2>2. TruncateAt(h) \in Updates BY TruncateAtFacts
  <2>3. pending' \in Seq(Updates) BY <2>1, <2>2
  <2> QED BY <1>1, <1>5, <2>3, WithoutType DEF Rollback
<1>6. ASSUME NEW h \in Heights, Prune(h)
      PROVE  cf' \in Index /\ floor' = h /\ pending' = pending
             /\ UNCHANGED <<mode, writable, file, span, torn>>
  BY <1>1, <1>6, WithoutType DEF Prune
<1> QED BY <1>1, <1>3, <1>4, <1>5, <1>6 DEF Call

\* What happens to a file while the store is closed leaves a file.
LEMMA TamperFile ==
  ASSUME WellFormed(file), Tamper
  PROVE  WellFormed(file')
<1>1. file \in Files /\ file.len \in 0..(MaxHeight + 1) BY DEF WellFormed, Files
<1>2. CASE file' = NoFile BY <1>2, NoFileFacts
<1>3. CASE \E n \in 0..(MaxHeight + 1) : file' = SetLen(file, n)
  BY <1>1, <1>3, SetLenFacts
<1>4. CASE \E h \in 0..(file.len - 1), s \in Slot : file' = [file EXCEPT !.slot[h] = s]
  <2>1. PICK h \in 0..(file.len - 1), s \in Slot : file' = [file EXCEPT !.slot[h] = s]
    BY <1>4
  <2>2. h \in Heights /\ h < file.len BY <1>1, MaxHeightAssumption DEF Heights
  <2> QED BY <2>1, <2>2, SlotWriteFacts
<1> QED BY <1>2, <1>3, <1>4 DEF Tamper

\* Every step keeps the types and maps the whole file or nothing.
LEMMA StepType ==
  ASSUME FileTypeOK, SpanIsLength, [FileNext]_fileVars
  PROVE  FileTypeOK' /\ SpanIsLength'
<1>1. /\ cf \in Index /\ floor \in Heights
      /\ mode \in {"closed", "rebuild", "rw", "ro", "disabled", "unmapped"}
      /\ writable \in BOOLEAN /\ torn \in BOOLEAN
      /\ WellFormed(file) /\ file \in Files /\ file.len \in 0..(MaxHeight + 1)
      /\ span \in 0..(MaxHeight + 1)
      /\ pending \in Seq(Updates)
  BY TypeFacts DEF WellFormed, Files
<1>2. << >> \in Seq(Updates) BY EmptySeq
<1>3. ASSUME WellFormed(file'), span' = file'.len
      PROVE  span' \in 0..(MaxHeight + 1)
  BY <1>3 DEF WellFormed, Files
<1>4. CASE Open
  <2>1. UNCHANGED <<cf, floor, pending>>
    BY <1>4 DEF Open, OpenMatching, OpenDisabled, StartRebuild, RebuildPart, FinishRebuild
  <2>2. /\ writable' \in BOOLEAN /\ torn' \in BOOLEAN
        /\ mode' \in {"rw", "ro", "disabled", "rebuild"}
    <3>1. ASSUME NEW rw \in BOOLEAN, OpenMatching(rw)
          PROVE  /\ writable' \in BOOLEAN /\ torn' \in BOOLEAN
                 /\ mode' \in {"rw", "ro", "disabled"}
      BY <3>1 DEF OpenMatching, Map
    <3> QED BY <1>1, <1>4, <3>1 DEF Open, OpenDisabled, StartRebuild, RebuildPart,
                                    FinishRebuild, Map
  <2>3. CASE \E rw \in BOOLEAN : OpenMatching(rw)
    <3>1. CASE mode' \in {"rw", "ro"}
      <4>1. WellFormed(file') /\ span' = file'.len BY <2>3, <3>1, OpenFile
      <4> QED BY <1>1, <1>3, <2>1, <2>2, <4>1, TypeFactsNext DEF SpanIsLength
    <3>2. CASE mode' \notin {"rw", "ro"}
      <4>1. mode' = "disabled" /\ UNCHANGED <<file, span>>
        BY <2>3, <3>2 DEF OpenMatching, Map
      <4> QED BY <1>1, <2>1, <2>2, <4>1, TypeFactsNext DEF SpanIsLength
    <3> QED BY <3>1, <3>2
  <2>4. CASE OpenDisabled
    <3>1. mode' = "disabled" /\ UNCHANGED <<file, span>> BY <2>4 DEF OpenDisabled
    <3> QED BY <1>1, <2>1, <2>2, <3>1, TypeFactsNext DEF SpanIsLength
  <2>5. CASE StartRebuild
    <3>1. mode' = "rebuild" /\ file' = SetLen(file, 0) /\ UNCHANGED span
      BY <2>5 DEF StartRebuild
    <3>2. WellFormed(file') BY <1>1, <3>1, SetLenFacts, MaxHeightAssumption
    <3> QED BY <1>1, <2>1, <2>2, <3>1, <3>2, TypeFactsNext DEF SpanIsLength
  <2>6. CASE RebuildPart
    <3>1. /\ mode' = "rebuild" /\ UNCHANGED span
          /\ \E n \in (file.len + 1)..(DenseLength(cf) - 1) : file' = SetLen(Dense(cf), n)
      BY <2>6 DEF RebuildPart
    <3>2. PICK n \in (file.len + 1)..(DenseLength(cf) - 1) : file' = SetLen(Dense(cf), n)
      BY <3>1
    <3>3. DenseLength(cf) \in 0..(MaxHeight + 1) /\ Dense(cf) \in Files
      BY <1>1, DenseLengthBound, DenseFacts DEF WellFormed
    <3>4. n \in 0..(MaxHeight + 1)
      BY <1>1, <3>3, MaxHeightAssumption
    <3>5. WellFormed(file') BY <3>2, <3>3, <3>4, SetLenFacts
    <3> QED BY <1>1, <2>1, <2>2, <3>1, <3>5, TypeFactsNext DEF SpanIsLength
  <2>7. CASE FinishRebuild
    <3>1. WellFormed(file') /\ span' = file'.len BY <2>7, OpenFile
    <3> QED BY <1>1, <1>3, <2>1, <2>2, <3>1, TypeFactsNext DEF SpanIsLength
  <2> QED BY <1>4, <2>3, <2>4, <2>5, <2>6, <2>7 DEF Open
<1>5. CASE Call
  BY <1>1, <1>5, CallType, TypeFactsNext DEF SpanIsLength
<1>6. CASE Update
  <2>1. UNCHANGED <<cf, floor, writable>>
    BY <1>6 DEF Update, SkipUpdate, WriteHash, Truncate, ResizeFails, WritePanics
  <2>2. pending' \in Seq(Updates)
    <3>1. pending' = << >> \/ (pending # << >> /\ pending' = Tail(pending))
      BY <1>6 DEF Update, SkipUpdate, WriteHash, Truncate, ResizeFails, WritePanics, Due
    <3> QED BY <1>1, <1>2, <3>1, HeadFacts
  <2>3. CASE SkipUpdate
    BY <1>1, <2>1, <2>2, <2>3, TypeFactsNext DEF SkipUpdate, SpanIsLength
  <2>4. CASE WriteHash
    <3>1. mode' = "rw" /\ torn' = torn BY <2>4 DEF WriteHash, Map
    <3>2. WellFormed(file') /\ span' = file'.len BY <2>4, WriteHashFile
    <3> QED BY <1>1, <1>3, <2>1, <2>2, <3>1, <3>2, TypeFactsNext DEF SpanIsLength
  <2>5. CASE Truncate
    <3>1. mode' = "rw" /\ torn' = torn BY <2>5 DEF Truncate, Map
    <3>2. WellFormed(file') /\ span' = file'.len BY <2>5, TruncateFile
    <3> QED BY <1>1, <1>3, <2>1, <2>2, <3>1, <3>2, TypeFactsNext DEF SpanIsLength
  <2>6. CASE ResizeFails
    <3>1. /\ mode' = "unmapped" /\ torn' = TRUE /\ span' = span /\ pending # << >>
          /\ file' \in {file, SetLen(file, Head(pending).h + 1)}
      BY <2>6 DEF ResizeFails, Due
    <3>2. WellFormed(file') BY <1>1, <3>1, HeadFacts, SetLenFacts
    <3> QED BY <1>1, <2>1, <2>2, <3>1, <3>2, TypeFactsNext DEF SpanIsLength
  <2>7. CASE WritePanics
    BY <1>1, <2>1, <2>2, <2>7, TypeFactsNext DEF WritePanics, SpanIsLength
  <2> QED BY <1>6, <2>3, <2>4, <2>5, <2>6, <2>7 DEF Update
<1>7. CASE Disable
  BY <1>1, <1>7, TypeFactsNext DEF Disable, SpanIsLength
<1>8. CASE Stop
  BY <1>1, <1>2, <1>8, TypeFactsNext DEF Stop, SpanIsLength
<1>9. CASE Tamper
  <2>1. WellFormed(file') BY <1>1, <1>9, TamperFile
  <2>2. mode = "closed" /\ UNCHANGED <<cf, floor, mode, writable, span, pending, torn>>
    BY <1>9 DEF Tamper
  <2> QED BY <1>1, <2>1, <2>2, TypeFactsNext DEF SpanIsLength
<1>10. CASE UNCHANGED fileVars
  BY <1>1, <1>10, TypeFactsNext DEF fileVars, SpanIsLength
<1> QED BY <1>4, <1>5, <1>6, <1>7, <1>8, <1>9, <1>10 DEF FileNext

LEMMA InitType == FileInit => FileTypeOK /\ SpanIsLength
<1> SUFFICES ASSUME FileInit PROVE FileTypeOK /\ SpanIsLength OBVIOUS
<1>1. pending \in Seq(Updates) BY EmptySeq DEF FileInit
<1>2. writable \in BOOLEAN /\ torn \in BOOLEAN BY DEF FileInit
<1>3. 0 \in Heights /\ 0 \in 0..(MaxHeight + 1) BY MaxHeightAssumption DEF Heights
<1>4. cf \in Index /\ WellFormed(file) BY NoIndexType, NoFileFacts DEF FileInit
<1>5. floor = 0 /\ span = 0 /\ mode = "closed" BY DEF FileInit
<1> QED BY <1>1, <1>2, <1>3, <1>4, <1>5, TypeFacts DEF SpanIsLength

\* The state is well-typed, and a mapping spans exactly its file, through
\* growth, truncation, resizes that fail, crashes and damage: no read through
\* the mapping falls behind the end of the file.
THEOREM FileTypeCorrect == FileSpec => [](FileTypeOK /\ SpanIsLength)
<1>1. FileTypeOK /\ SpanIsLength /\ [FileNext]_fileVars => (FileTypeOK /\ SpanIsLength)'
  BY StepType
<1> QED BY <1>1, InitType, PTL DEF FileSpec

-----------------------------------------------------------------------------
(***************************************************************************)
(* The updates still due, as a list.                                       *)
(***************************************************************************)
Concerns(u, h) == IF u.kind = "write" THEN u.h = h ELSE u.h < h
AwaitedIn(us, h) == \E i \in DOMAIN us : Concerns(us[i], h)
LastWrite(us, i) ==
  /\ us[i].kind = "write"
  /\ \A j \in DOMAIN us : i < j => ~(us[j].kind = "write" /\ us[j].h = us[i].h)
EndsWith(us, rows) == \A i \in DOMAIN us : LastWrite(us, i) => us[i].b = rows[us[i].h]

LEMMA DueFacts ==
  /\ \A h : Awaited(h) <=> AwaitedIn(pending, h)
  /\ DueWritesRows <=> EndsWith(pending, cf)
BY DEF Awaited, AwaitedIn, Concerns, DueWritesRows, EndsWith, LastWrite

LEMMA DueFactsNext ==
  /\ \A h : Awaited(h)' <=> AwaitedIn(pending', h)
  /\ DueWritesRows' <=> EndsWith(pending', cf')
BY DEF Awaited, AwaitedIn, Concerns, DueWritesRows, EndsWith, LastWrite

\* Nothing is due when the list is empty.
LEMMA NothingDue ==
  ASSUME NEW rows
  PROVE  EndsWith(<< >>, rows) /\ \A h : ~AwaitedIn(<< >>, h)
BY DEF EndsWith, AwaitedIn

\* One update is made: the others end with the rows as before, and the block
\* it wrote is the row unless a later write is due at its height.
LEMMA UpdateMade ==
  ASSUME NEW us \in Seq(Updates), us # << >>, NEW rows, EndsWith(us, rows)
  PROVE  /\ EndsWith(Tail(us), rows)
         /\ \A h : AwaitedIn(us, h) <=> Concerns(Head(us), h) \/ AwaitedIn(Tail(us), h)
         /\ Head(us).kind = "write" /\ ~AwaitedIn(Tail(us), Head(us).h)
              => Head(us).b = rows[Head(us).h]
<1> DEFINE ts == Tail(us)
           n == Len(us)
<1>1. /\ n \in Nat /\ n > 0 /\ DOMAIN us = 1..n /\ DOMAIN ts = 1..(n - 1)
      /\ Head(us) = us[1] /\ \A i \in 1..(n - 1) : ts[i] = us[i + 1]
  BY HeadTailProperties, EmptySeq, LenProperties
<1> HIDE DEF ts, n
<1>2. EndsWith(ts, rows)
  <2> SUFFICES ASSUME NEW i \in DOMAIN ts, LastWrite(ts, i)
               PROVE  ts[i].b = rows[ts[i].h]
    BY DEF EndsWith
  <2>1. i + 1 \in DOMAIN us /\ us[i + 1] = ts[i] BY <1>1
  <2>2. \A j \in DOMAIN us : i + 1 < j => j - 1 \in DOMAIN ts /\ ts[j - 1] = us[j] /\ i < j - 1
    BY <1>1
  <2>3. LastWrite(us, i + 1) BY <2>1, <2>2 DEF LastWrite
  <2> QED BY <2>1, <2>3 DEF EndsWith
<1>3. ASSUME NEW h
      PROVE  AwaitedIn(us, h) <=> Concerns(Head(us), h) \/ AwaitedIn(ts, h)
  <2>1. \A i \in DOMAIN us : i = 1 \/ (i - 1 \in DOMAIN ts /\ ts[i - 1] = us[i])
    BY <1>1
  <2>2. \A i \in DOMAIN ts : i + 1 \in DOMAIN us /\ us[i + 1] = ts[i]
    BY <1>1
  <2>3. 1 \in DOMAIN us /\ us[1] = Head(us) BY <1>1
  <2> QED BY <2>1, <2>2, <2>3 DEF AwaitedIn
<1>4. ASSUME Head(us).kind = "write", ~AwaitedIn(ts, Head(us).h)
      PROVE  Head(us).b = rows[Head(us).h]
  <2>1. \A j \in DOMAIN us : 1 < j => j - 1 \in DOMAIN ts /\ ts[j - 1] = us[j]
    BY <1>1
  <2>2. \A i \in DOMAIN ts : ~(ts[i].kind = "write" /\ ts[i].h = Head(us).h)
    BY <1>4 DEF AwaitedIn, Concerns
  <2>3. 1 \in DOMAIN us /\ us[1] = Head(us) BY <1>1
  <2>4. LastWrite(us, 1) BY <1>4, <2>1, <2>2, <2>3 DEF LastWrite
  <2> QED BY <2>3, <2>4 DEF EndsWith
<1> QED BY <1>2, <1>3, <1>4 DEF ts

\* After the commit of a list of blocks the writes due end with the new rows,
\* and the rows at other heights are the old ones.
LEMMA CommitDue ==
  ASSUME NEW rows \in Index, NEW bs \in Batches
  PROVE  LET us == [i \in DOMAIN bs |-> WriteAt(bs[i])]
             new == PutAll(rows, bs, DOMAIN bs)
         IN  /\ EndsWith(us, new)
             /\ \A h \in Heights : ~AwaitedIn(us, h) => new[h] = rows[h]
<1> DEFINE us == [i \in DOMAIN bs |-> WriteAt(bs[i])]
           new == PutAll(rows, bs, DOMAIN bs)
<1>1. /\ DOMAIN us = DOMAIN bs /\ DOMAIN bs \in SUBSET Int
      /\ \A i \in DOMAIN bs : bs[i] \in Blocks /\ us[i] = WriteAt(bs[i])
  <2>1. bs \in Seq(Blocks) BY BatchesAssumption
  <2> QED BY <2>1
<1>2. \A i \in DOMAIN bs : us[i].kind = "write" /\ us[i].h = Height[bs[i]] /\ us[i].b = bs[i]
  BY <1>1, WriteAtFacts
<1> HIDE DEF us
<1>3. /\ \A i \in DOMAIN bs : (\A j \in DOMAIN bs : i < j => Height[bs[j]] # Height[bs[i]])
                                => new[Height[bs[i]]] = bs[i]
      /\ \A h \in Heights : (\A i \in DOMAIN bs : Height[bs[i]] # h) => new[h] = rows[h]
  BY <1>1, PutAllLast
<1> HIDE DEF new
<1>4. EndsWith(us, new)
  BY <1>1, <1>2, <1>3 DEF EndsWith, LastWrite
<1>5. \A h \in Heights : ~AwaitedIn(us, h) => new[h] = rows[h]
  BY <1>1, <1>2, <1>3 DEF AwaitedIn, Concerns
<1> QED BY <1>4, <1>5 DEF us, new

\* The same after a reorg above a, from a tip at old.
LEMMA ReorgDue ==
  ASSUME NEW rows \in Index, NEW bs \in Batches, NEW a \in Heights, NEW old \in Heights
  PROVE  LET us == ReorgUpdates(a, bs)
             new == PutAll(Without(rows, (a + 1)..old), bs, DOMAIN bs)
         IN  /\ EndsWith(us, new)
             /\ \A h \in Heights : ~AwaitedIn(us, h) => new[h] = rows[h]
<1> DEFINE us == ReorgUpdates(a, bs)
           kept == Without(rows, (a + 1)..old)
           new == PutAll(kept, bs, DOMAIN bs)
<1>1. /\ DOMAIN us = 1..(Len(bs) + 1) /\ us[1] = TruncateAt(a)
      /\ Len(bs) \in Nat /\ DOMAIN bs = 1..Len(bs) /\ DOMAIN bs \in SUBSET Int
      /\ \A i \in DOMAIN bs : us[i + 1] = WriteAt(bs[i])
  BY ReorgUpdatesFacts
<1>2. \A i \in DOMAIN bs : bs[i] \in Blocks
  <2>1. bs \in Seq(Blocks) BY BatchesAssumption
  <2> QED BY <2>1
<1>3. /\ \A i \in DOMAIN bs : /\ us[i + 1].kind = "write"
                                /\ us[i + 1].h = Height[bs[i]] /\ us[i + 1].b = bs[i]
      /\ us[1].kind = "truncate" /\ us[1].h = a
  <2> HIDE DEF us
  <2>1. us[1].kind = "truncate" /\ us[1].h = a BY <1>1, TruncateAtFacts
  <2> QED BY <1>1, <1>2, <2>1, WriteAtFacts
<1> HIDE DEF us
<1>4. kept \in Index /\ \A h \in Heights : h <= a => kept[h] = rows[h]
  <2>1. /\ kept \in Index
        /\ \A h \in Heights : kept[h] = IF h \in (a + 1)..old THEN NoBlock ELSE rows[h]
    <3> DEFINE cut == (a + 1)..old
    <3> HIDE DEF cut
    <3>1. /\ Without(rows, cut) \in Index
          /\ \A h \in Heights : Without(rows, cut)[h] = IF h \in cut THEN NoBlock ELSE rows[h]
      BY WithoutType
    <3> QED BY <3>1 DEF cut, kept
  <2> HIDE DEF kept
  <2> QED BY <2>1, MaxHeightAssumption DEF Heights
<1> HIDE DEF kept
<1>5. /\ \A i \in DOMAIN bs : (\A j \in DOMAIN bs : i < j => Height[bs[j]] # Height[bs[i]])
                                => new[Height[bs[i]]] = bs[i]
      /\ \A h \in Heights : (\A i \in DOMAIN bs : Height[bs[i]] # h) => new[h] = kept[h]
  <2>1. DOMAIN bs \in SUBSET Int BY <1>1
  <2> QED BY <1>2, <1>4, <2>1, PutAllLast
<1> HIDE DEF new
<1>6. EndsWith(us, new)
  <2> SUFFICES ASSUME NEW k \in DOMAIN us, LastWrite(us, k)
               PROVE  us[k].b = new[us[k].h]
    BY DEF EndsWith
  <2>1. k # 1 BY <1>3 DEF LastWrite
  <2> DEFINE i == k - 1
  <2>2. i \in DOMAIN bs /\ k = i + 1 BY <1>1, <2>1
  <2> HIDE DEF i
  <2>3. \A j \in DOMAIN bs : i < j => Height[bs[j]] # Height[bs[i]]
    <3> SUFFICES ASSUME NEW j \in DOMAIN bs, i < j PROVE Height[bs[j]] # Height[bs[i]]
      OBVIOUS
    <3>1. j + 1 \in DOMAIN us /\ k < j + 1 BY <1>1, <2>2
    <3>2. us[j + 1].kind = "write" /\ us[j + 1].h = Height[bs[j]] /\ us[k].h = Height[bs[i]]
      BY <1>3, <2>2
    <3> QED BY <3>1, <3>2 DEF LastWrite
  <2> QED BY <1>3, <1>5, <2>2, <2>3
<1>7. ASSUME NEW h \in Heights, ~AwaitedIn(us, h)
      PROVE  new[h] = rows[h]
  <2>1. \A k \in DOMAIN us : ~Concerns(us[k], h) BY <1>7 DEF AwaitedIn
  <2>2. 1 \in DOMAIN us /\ \A i \in DOMAIN bs : i + 1 \in DOMAIN us BY <1>1
  <2>3. ~(a < h) BY <1>3, <2>1, <2>2 DEF Concerns
  <2>4. \A i \in DOMAIN bs : Height[bs[i]] # h BY <1>3, <2>1, <2>2 DEF Concerns
  <2>5. h <= a BY <2>3, MaxHeightAssumption DEF Heights
  <2> QED BY <1>4, <1>5, <2>4, <2>5
<1> QED BY <1>6, <1>7 DEF us, new, kept

-----------------------------------------------------------------------------
(***************************************************************************)
(* The slots hold the rows.                                                *)
(***************************************************************************)

\* Through a mapping of the whole file a read gives the slot.
LEMMA ReadSlotFacts ==
  ASSUME FileTypeOK, SpanIsLength
  PROVE  \A h \in Heights :
           ReadSlot(h) = IF mode \in {"rw", "ro"} THEN file.slot[h] ELSE NoBlock
<1>1. WellFormed(file) /\ file.len \in Int BY TypeFacts DEF WellFormed, Files
<1> QED BY <1>1, MaxHeightAssumption DEF ReadSlot, SpanIsLength, WellFormed, Heights

LEMMA ReadSlotFactsNext ==
  ASSUME FileTypeOK', SpanIsLength'
  PROVE  \A h \in Heights :
           ReadSlot(h)' = IF mode' \in {"rw", "ro"} THEN file'.slot[h] ELSE NoBlock
<1>1. WellFormed(file') /\ file'.len \in Int BY TypeFactsNext DEF WellFormed, Files
<1> QED BY <1>1, MaxHeightAssumption DEF ReadSlot, SpanIsLength, WellFormed, Heights

\* SlotsSound in terms of the file.
LEMMA SoundFacts ==
  ASSUME FileTypeOK, SpanIsLength
  PROVE  SlotsSound <=>
           (~torn /\ mode \in {"rw", "ro"} =>
              \A h \in Heights : h >= floor /\ ~AwaitedIn(pending, h)
                                  => file.slot[h] \in {NoBlock, cf[h]})
BY ReadSlotFacts, DueFacts DEF SlotsSound

LEMMA SoundFactsNext ==
  ASSUME FileTypeOK', SpanIsLength'
  PROVE  SlotsSound' <=>
           (~torn' /\ mode' \in {"rw", "ro"} =>
              \A h \in Heights : h >= floor' /\ ~AwaitedIn(pending', h)
                                  => file'.slot[h] \in {NoBlock, cf'[h]})
BY ReadSlotFactsNext, DueFactsNext DEF SlotsSound

\* What the updates and the modes have to do with each other.
ModesOK ==
  /\ pending # << >> => mode \in {"rw", "disabled", "unmapped"}
  /\ mode = "unmapped" => torn

LEMMA StepSound ==
  ASSUME FileInv, [FileNext]_fileVars
  PROVE  FileInv'
<1>1. FileTypeOK /\ SpanIsLength /\ SlotsSound /\ EndsWith(pending, cf) /\ ModesOK
  BY DueFacts DEF FileInv, ModesOK
<1>2. FileTypeOK' /\ SpanIsLength' BY <1>1, StepType
<1>3. /\ cf \in Index /\ floor \in Heights /\ pending \in Seq(Updates) /\ floor \in Int
  BY <1>1, TypeFacts, MaxHeightAssumption DEF Heights
<1>4. SUFFICES
        /\ EndsWith(pending', cf') /\ ModesOK'
        /\ ~torn' /\ mode' \in {"rw", "ro"} =>
             \A h \in Heights : h >= floor' /\ ~AwaitedIn(pending', h)
                                 => file'.slot[h] \in {NoBlock, cf'[h]}
  BY <1>2, DueFactsNext, SoundFactsNext DEF FileInv, ModesOK
<1>5. ~torn /\ mode \in {"rw", "ro"} =>
        \A h \in Heights : h >= floor /\ ~AwaitedIn(pending, h)
                            => file.slot[h] \in {NoBlock, cf[h]}
  BY <1>1, SoundFacts
<1>6. CASE Open
  <2>1. /\ UNCHANGED <<cf, floor, pending>>
        /\ mode \in {"closed", "rebuild"} /\ mode' # "unmapped"
    <3>1. ASSUME NEW rw \in BOOLEAN, OpenMatching(rw)
          PROVE  UNCHANGED <<cf, floor, pending>> /\ mode = "closed" /\ mode' # "unmapped"
      BY <3>1 DEF OpenMatching, Map
    <3> QED BY <1>6, <3>1 DEF Open, OpenDisabled, StartRebuild, RebuildPart, FinishRebuild, Map
  <2>2. pending = << >> BY <1>1, <2>1 DEF ModesOK
  <2>3. mode' \in {"rw", "ro"} => file'.slot = cf
    <3>1. ASSUME mode' \in {"rw", "ro"}
          PROVE  (\E rw \in BOOLEAN : OpenMatching(rw)) \/ FinishRebuild
      BY <1>6, <3>1 DEF Open, OpenDisabled, StartRebuild, RebuildPart
    <3> QED BY <1>1, <3>1, OpenFile
  <2> QED BY <1>1, <2>1, <2>2, <2>3 DEF ModesOK
<1>7. CASE Call
  <2>1. /\ Ready /\ UNCHANGED <<mode, writable, file, span, torn>>
    BY <1>1, <1>7, CallType DEF Call, SetCanonical, Reorg, Rollback, Prune
  <2>2. pending = << >> /\ mode \in {"rw", "disabled", "unmapped"} BY <2>1 DEF Ready
  <2>3. \A h : ~AwaitedIn(pending, h) BY <2>2, NothingDue
  <2>4. ModesOK' BY <1>1, <2>1, <2>2 DEF ModesOK
  <2>5. SUFFICES /\ EndsWith(pending', cf')
                 /\ floor' \in Int /\ floor <= floor'
                 /\ \A h \in Heights : h >= floor' /\ ~AwaitedIn(pending', h) => cf'[h] = cf[h]
    <3> HIDE DEF Call
    <3>1. \A h \in Heights : h \in Int BY MaxHeightAssumption DEF Heights
    <3> QED BY <1>3, <1>5, <2>1, <2>3, <2>4, <3>1
  <2>6. ASSUME NEW bs \in Batches, SetCanonical(bs)
        PROVE  /\ EndsWith(pending', cf') /\ floor' = floor
               /\ \A h \in Heights : ~AwaitedIn(pending', h) => cf'[h] = cf[h]
    BY <1>3, <2>6, CommitDue DEF SetCanonical
  <2>7. ASSUME NEW bs \in Batches, NEW a \in Heights, NEW old \in Heights, Reorg(a, old, bs)
        PROVE  /\ EndsWith(pending', cf') /\ floor' = floor
               /\ \A h \in Heights : ~AwaitedIn(pending', h) => cf'[h] = cf[h]
    BY <1>3, <2>7, ReorgDue DEF Reorg
  <2>8. ASSUME NEW top \in Heights, NEW old \in Heights, Rollback(top, old)
        PROVE  /\ EndsWith(pending', cf') /\ floor' = floor
               /\ \A h \in Heights : ~AwaitedIn(pending', h) => cf'[h] = cf[h]
    <3>1. /\ pending' = <<TruncateAt(top)>> /\ floor' = floor
          /\ cf' = Without(cf, (top + 1)..old)
      BY <2>8 DEF Rollback
    <3>2. /\ DOMAIN pending' = {1} /\ pending'[1] = TruncateAt(top) BY <3>1
    <3>3. pending'[1].kind = "truncate" /\ pending'[1].h = top BY <3>2, TruncateAtFacts
    <3>4. EndsWith(pending', cf') BY <3>2, <3>3 DEF EndsWith, LastWrite
    <3>5. ASSUME NEW h \in Heights, ~AwaitedIn(pending', h) PROVE cf'[h] = cf[h]
      <4>1. ~(top < h) BY <3>2, <3>3, <3>5 DEF AwaitedIn, Concerns
      <4>2. h \notin (top + 1)..old BY <4>1, MaxHeightAssumption DEF Heights
      <4>3. cf'[h] = IF h \in (top + 1)..old THEN NoBlock ELSE cf[h]
        BY <3>1 DEF Without
      <4> QED BY <4>2, <4>3
    <3> QED BY <3>1, <3>4, <3>5
  <2>9. ASSUME NEW k \in Heights, Prune(k)
        PROVE  /\ EndsWith(pending', cf') /\ floor <= floor' /\ floor' \in Int
               /\ \A h \in Heights : h >= floor' => cf'[h] = cf[h]
    <3>1. /\ floor < k /\ floor' = k /\ pending' = pending
          /\ cf' = Without(cf, floor..(k - 1))
      BY <2>9 DEF Prune
    <3>2. k \in Int BY MaxHeightAssumption DEF Heights
    <3>3. \A h \in Heights : h >= k => h \notin floor..(k - 1)
      BY <3>2, MaxHeightAssumption DEF Heights
    <3>4. \A h \in Heights : h >= k => cf'[h] = cf[h] BY <1>3, <3>1, <3>3, WithoutType
    <3>5. EndsWith(pending', cf') BY <2>2, <3>1, NothingDue
    <3>6. floor <= k BY <1>3, <3>1, <3>2
    <3> QED BY <3>1, <3>2, <3>4, <3>5, <3>6
  <2> QED BY <1>3, <1>7, <2>6, <2>7, <2>8, <2>9 DEF Call
<1>8. CASE Update
  <2>1. UNCHANGED <<cf, floor, writable>> /\ pending # << >>
    BY <1>8 DEF Update, SkipUpdate, WriteHash, Truncate, ResizeFails, WritePanics, Due
  <2> DEFINE u == Head(pending)
  <2>2. /\ EndsWith(Tail(pending), cf)
        /\ \A h : AwaitedIn(pending, h) <=> Concerns(u, h) \/ AwaitedIn(Tail(pending), h)
        /\ u.kind = "write" /\ ~AwaitedIn(Tail(pending), u.h) => u.b = cf[u.h]
    BY <1>1, <1>3, <2>1, UpdateMade
  <2>3. u.h \in Heights /\ u.h \in Int
    BY <1>3, <2>1, HeadFacts, MaxHeightAssumption DEF Heights
  <2> HIDE DEF u
  <2>4. CASE SkipUpdate
    <3>1. pending' = Tail(pending) /\ mode' = "disabled" BY <2>4 DEF SkipUpdate
    <3> QED BY <2>1, <2>2, <3>1 DEF ModesOK
  <2>5. CASE WriteHash
    <3>1. /\ pending' = Tail(pending) /\ mode = "rw" /\ mode' = "rw" /\ torn' = torn
          /\ u.kind = "write"
      BY <2>5 DEF WriteHash, Map, Due, u
    <3>2. \A h \in Heights : file'.slot[h] = IF h = u.h THEN u.b ELSE file.slot[h]
      BY <1>1, <2>5, WriteHashFile DEF u
    <3>3. ModesOK' BY <3>1 DEF ModesOK
    <3>4. ASSUME ~torn, NEW h \in Heights, h >= floor, ~AwaitedIn(Tail(pending), h)
          PROVE  file'.slot[h] \in {NoBlock, cf[h]}
      <4>1. CASE h = u.h BY <2>2, <3>1, <3>2, <3>4, <4>1
      <4>2. CASE h # u.h
        <5>1. ~AwaitedIn(pending, h) BY <2>2, <3>1, <3>4, <4>2 DEF Concerns
        <5> QED BY <1>5, <3>1, <3>2, <3>4, <4>2, <5>1
      <4> QED BY <4>1, <4>2
    <3> QED BY <2>1, <2>2, <3>1, <3>3, <3>4
  <2>6. CASE Truncate
    <3>1. /\ pending' = Tail(pending) /\ mode \in {"rw", "unmapped"} /\ mode' = "rw"
          /\ torn' = torn /\ u.kind = "truncate"
      BY <2>6 DEF Truncate, Map, Due, u
    <3>2. \A h \in Heights : file'.slot[h] = IF h <= u.h THEN file.slot[h] ELSE NoBlock
      BY <1>1, <2>6, TruncateFile DEF u
    <3>3. ModesOK' BY <3>1 DEF ModesOK
    <3>4. ASSUME ~torn, NEW h \in Heights, h >= floor, ~AwaitedIn(Tail(pending), h)
          PROVE  file'.slot[h] \in {NoBlock, cf[h]}
      <4>1. CASE h <= u.h
        <5>1. ~(u.h < h) BY <2>3, <4>1, MaxHeightAssumption DEF Heights
        <5>2. ~AwaitedIn(pending, h) BY <2>2, <3>1, <3>4, <5>1 DEF Concerns
        <5>3. mode = "rw" BY <1>1, <3>1, <3>4 DEF ModesOK
        <5> QED BY <1>5, <3>2, <3>4, <4>1, <5>2, <5>3
      <4>2. CASE ~(h <= u.h) BY <3>2, <4>2
      <4> QED BY <4>1, <4>2
    <3> QED BY <2>1, <2>2, <3>1, <3>3, <3>4
  <2>7. CASE ResizeFails \/ WritePanics
    <3>1. pending' = << >> /\ torn' BY <2>7 DEF ResizeFails, WritePanics
    <3> QED BY <3>1, NothingDue DEF ModesOK
  <2> QED BY <1>8, <2>4, <2>5, <2>6, <2>7 DEF Update
<1>9. CASE Disable
  <2>1. mode' = "disabled" /\ UNCHANGED <<cf, pending>> BY <1>9 DEF Disable
  <2> QED BY <1>1, <2>1 DEF ModesOK
<1>10. CASE Stop
  <2>1. mode' = "closed" /\ pending' = << >> BY <1>10 DEF Stop
  <2> QED BY <2>1, NothingDue DEF ModesOK
<1>11. CASE Tamper
  <2>1. mode = "closed" /\ UNCHANGED <<cf, mode, pending, torn>> BY <1>11 DEF Tamper
  <2> QED BY <1>1, <2>1 DEF ModesOK
<1>12. CASE UNCHANGED fileVars
  BY <1>1, <1>5, <1>12 DEF fileVars, ModesOK
<1> QED BY <1>6, <1>7, <1>8, <1>9, <1>10, <1>11, <1>12 DEF FileNext

LEMMA InitSound == FileInit => FileInv
<1> SUFFICES ASSUME FileInit PROVE FileInv OBVIOUS
<1>1. FileTypeOK /\ SpanIsLength BY InitType
<1>2. pending = << >> /\ mode = "closed" BY DEF FileInit
<1>3. DueWritesRows BY <1>2, DueFacts, NothingDue
<1>4. SlotsSound BY <1>1, <1>2, SoundFacts
<1> QED BY <1>1, <1>2, <1>3, <1>4 DEF FileInv

\* The inductive invariant: at every step of a call the updates still due end
\* with the committed rows, and the slots that none of them concerns hold them.
THEOREM FileInvariant == FileSpec => []FileInv
<1>1. FileInv /\ [FileNext]_fileVars => FileInv' BY StepSound
<1> QED BY <1>1, InitSound, PTL DEF FileSpec

\* A slot that is read and that no update in progress concerns holds the row
\* of CF_CANONICAL, for every crash, rebuild, damage and truncation.
THEOREM SlotsAlwaysSound == FileSpec => []SlotsSound
<1>1. FileInv => SlotsSound BY DEF FileInv
<1> QED BY <1>1, FileInvariant, PTL

\* Whatever the file was, an open that maps it serves exactly the rows.
THEOREM OpenAlwaysServesRows == FileSpec => OpenServesRows
<1>1. ASSUME FileTypeOK /\ SpanIsLength, FileTypeOK' /\ SpanIsLength', [FileNext]_fileVars,
             mode \in {"closed", "rebuild"}, mode' \in {"rw", "ro"},
             NEW h \in Heights
      PROVE  ReadSlot(h)' = cf[h]
  <2>1. (\E rw \in BOOLEAN : OpenMatching(rw)) \/ FinishRebuild
    <3>1. CASE Open
      BY <1>1, <3>1 DEF Open, OpenDisabled, StartRebuild, RebuildPart
    <3>2. ASSUME Call \/ Disable \/ Stop \/ Tamper \/ UNCHANGED fileVars PROVE FALSE
      BY <1>1, <3>2, CallType DEF Disable, Stop, Tamper, fileVars
    <3>3. ASSUME Update PROVE FALSE
      BY <1>1, <3>3 DEF Update, SkipUpdate, WriteHash, Truncate, ResizeFails, WritePanics
    <3> QED BY <1>1, <3>1, <3>2, <3>3 DEF FileNext
  <2>2. file'.slot = cf BY <1>1, <2>1, OpenFile
  <2> QED BY <1>1, <2>2, ReadSlotFactsNext
<1>2. (FileTypeOK /\ SpanIsLength) /\ (FileTypeOK /\ SpanIsLength)' /\ [FileNext]_fileVars
        => [(mode \in {"closed", "rebuild"} /\ mode' \in {"rw", "ro"})
             => \A h \in Heights : ReadSlot(h)' = cf[h]]_fileVars
  BY <1>1
<1> QED BY <1>2, FileTypeCorrect, PTL DEF FileSpec, OpenServesRows

-----------------------------------------------------------------------------
(***************************************************************************)
(* The file implements BinSlots.                                           *)
(***************************************************************************)
LEMMA SlotsSame ==
  /\ Slots!Heights = Heights /\ Slots!Index = Index /\ Slots!NoIndex = NoIndex
  /\ \A f, h : Slots!BinTruncate(f, h) = BinTruncate(f, h)
  /\ \A f : Slots!DenseFromCf(f) = DenseFromCf(f)
BY DEF Slots!Heights, Slots!Index, Slots!NoIndex, Slots!Slot, Slots!BinTruncate,
       Slots!DenseFromCf, Heights, Index, NoIndex, Slot, BinTruncate, DenseFromCf

\* The map and the mode that the rest of the store sees.
SeenSlots == [h \in Heights |-> ReadSlot(h)]
SeenMode == IF mode = "rebuild" THEN "closed" ELSE mode

LEMMA SeenFacts ==
  ASSUME FileTypeOK, SpanIsLength
  PROVE  SeenSlots = IF mode \in {"rw", "ro"} THEN file.slot ELSE NoIndex
<1>1. file.slot \in Index BY TypeFacts DEF WellFormed, Files
<1>2. \A h \in Heights : ReadSlot(h) = IF mode \in {"rw", "ro"} THEN file.slot[h] ELSE NoBlock
  BY ReadSlotFacts
<1> QED BY <1>1, <1>2 DEF SeenSlots, Index, NoIndex

LEMMA SeenFactsNext ==
  ASSUME FileTypeOK', SpanIsLength'
  PROVE  SeenSlots' = IF mode' \in {"rw", "ro"} THEN file'.slot ELSE NoIndex
<1>1. file'.slot \in Index BY TypeFactsNext DEF WellFormed, Files
<1>2. \A h \in Heights :
        ReadSlot(h)' = IF mode' \in {"rw", "ro"} THEN file'.slot[h] ELSE NoBlock
  BY ReadSlotFactsNext
<1> QED BY <1>1, <1>2 DEF SeenSlots, Index, NoIndex

\* The actions of BinSlots in these terms.
LEMMA SlotSteps ==
  /\ /\ SeenMode \in {"rw", "disabled", "unmapped"} /\ cf' \in Index
     /\ UNCHANGED <<SeenMode, SeenSlots>>
     => Slots!CommitRows
  /\ \A h \in Heights, b \in Blocks :
       /\ SeenMode = "rw" /\ SeenSlots' = [SeenSlots EXCEPT ![h] = b]
       /\ UNCHANGED <<cf, SeenMode>>
       => Slots!ExtendWrite(h, b)
  /\ \A h \in Heights :
       /\ SeenMode = "rw" /\ SeenSlots' = BinTruncate(SeenSlots, h)
       /\ UNCHANGED <<cf, SeenMode>>
       => Slots!TruncateTo(h)
  /\ /\ SeenMode = "closed" /\ UNCHANGED cf
     /\ \/ SeenMode' \in {"rw", "ro"} /\ SeenSlots' = DenseFromCf(cf)
        \/ SeenMode' = "disabled" /\ UNCHANGED SeenSlots
     => Slots!Serve
  /\ /\ SeenMode \in {"rw", "unmapped"} /\ UNCHANGED cf
     /\ SeenMode' = "unmapped" /\ SeenSlots' = NoIndex
     => Slots!LoseMapping
  /\ /\ SeenMode = "unmapped" /\ UNCHANGED cf
     /\ SeenMode' = "rw" /\ SeenSlots' \in Index
     => Slots!MapAgain
  /\ /\ SeenMode # "closed" /\ UNCHANGED cf
     /\ SeenMode' = "disabled" /\ SeenSlots' = NoIndex
     => Slots!DisableSlots
  /\ /\ UNCHANGED cf /\ SeenMode' = "closed" /\ SeenSlots' = NoIndex
     => Slots!CloseSlots
BY SlotsSame DEF SeenMode, SeenSlots, Slots!CommitRows, Slots!ExtendWrite, Slots!TruncateTo,
       Slots!Serve, Slots!LoseMapping, Slots!MapAgain, Slots!DisableSlots, Slots!CloseSlots

LEMMA SlotsNextSteps ==
  /\ \/ Slots!CommitRows \/ Slots!Serve \/ Slots!LoseMapping \/ Slots!MapAgain
     \/ Slots!DisableSlots \/ Slots!CloseSlots
     \/ \E h \in Heights : Slots!TruncateTo(h) \/ \E b \in Blocks : Slots!ExtendWrite(h, b)
     => Slots!BinNext
  /\ UNCHANGED <<cf, SeenMode, SeenSlots>> => UNCHANGED Slots!binVars
BY SlotsSame DEF Slots!BinNext, Slots!binVars, SeenMode, SeenSlots

\* Every step of the file is a step of BinSlots or none.
LEMMA StepSlots ==
  ASSUME FileTypeOK, SpanIsLength, FileTypeOK', SpanIsLength', [FileNext]_fileVars
  PROVE  [Slots!BinNext]_(Slots!binVars)
<1>1. /\ SeenSlots = IF mode \in {"rw", "ro"} THEN file.slot ELSE NoIndex
      /\ SeenSlots' = IF mode' \in {"rw", "ro"} THEN file'.slot ELSE NoIndex
  BY SeenFacts, SeenFactsNext
<1>2. /\ cf \in Index /\ cf' \in Index /\ file.slot \in Index /\ file'.slot \in Index
      /\ pending \in Seq(Updates)
  BY TypeFacts, TypeFactsNext DEF WellFormed, Files
<1>3. ASSUME UNCHANGED <<cf, SeenMode, SeenSlots>>
      PROVE  [Slots!BinNext]_(Slots!binVars)
  BY <1>3, SlotsNextSteps
<1>4. CASE Open
  <2>1. cf' = cf BY <1>4 DEF Open, OpenMatching, OpenDisabled, StartRebuild, RebuildPart,
                            FinishRebuild
  <2>2. CASE (\E rw \in BOOLEAN : OpenMatching(rw)) \/ OpenDisabled
    <3>1. mode = "closed" /\ mode' \in {"rw", "ro", "disabled"}
      <4>1. ASSUME NEW rw \in BOOLEAN, OpenMatching(rw)
            PROVE  mode = "closed" /\ mode' \in {"rw", "ro", "disabled"}
        BY <4>1 DEF OpenMatching, Map
      <4> QED BY <2>2, <4>1 DEF OpenDisabled
    <3>2. mode' \in {"rw", "ro"} => file'.slot = DenseFromCf(cf)
      <4>1. ASSUME mode' \in {"rw", "ro"} PROVE \E rw \in BOOLEAN : OpenMatching(rw)
        BY <2>2, <4>1 DEF OpenDisabled
      <4> QED BY <1>2, <4>1, OpenFile, DenseFromCfIsRows
    <3>3. Slots!Serve
      BY <1>1, <2>1, <3>1, <3>2, SlotSteps DEF SeenMode
    <3> QED BY <3>3, SlotsNextSteps
  <2>3. CASE StartRebuild \/ RebuildPart
    <3>1. mode \in {"closed", "rebuild"} /\ mode' = "rebuild"
      BY <2>3 DEF StartRebuild, RebuildPart
    <3> QED BY <1>1, <1>3, <2>1, <3>1 DEF SeenMode
  <2>4. CASE FinishRebuild
    <3>1. mode = "rebuild" /\ mode' = "rw" BY <2>4 DEF FinishRebuild, Map
    <3>2. file'.slot = DenseFromCf(cf) BY <1>2, <2>4, OpenFile, DenseFromCfIsRows
    <3>3. Slots!Serve
      BY <1>1, <2>1, <3>1, <3>2, SlotSteps DEF SeenMode
    <3> QED BY <3>3, SlotsNextSteps
  <2> QED BY <1>4, <2>2, <2>3, <2>4 DEF Open
<1>5. CASE Call
  <2>1. UNCHANGED <<mode, file, span>> BY <1>5, CallType
  <2>2. mode \in {"rw", "disabled", "unmapped"}
    BY <1>5 DEF Call, SetCanonical, Reorg, Rollback, Prune, Ready
  <2>3. Slots!CommitRows
    BY <1>1, <1>2, <2>1, <2>2, SlotSteps DEF SeenMode
  <2> QED BY <2>3, SlotsNextSteps
<1>6. CASE Update
  <2>1. cf' = cf /\ pending # << >>
    BY <1>6 DEF Update, SkipUpdate, WriteHash, Truncate, ResizeFails, WritePanics, Due
  <2> DEFINE u == Head(pending)
  <2>2. u.h \in Heights /\ (u.kind = "write" => u.b \in Blocks) BY <1>2, <2>1, HeadFacts
  <2> HIDE DEF u
  <2>3. CASE SkipUpdate \/ WritePanics
    <3>1. UNCHANGED <<mode, file>> BY <2>3 DEF SkipUpdate, WritePanics
    <3> QED BY <1>1, <1>3, <2>1, <3>1 DEF SeenMode
  <2>4. CASE WriteHash
    <3>1. mode = "rw" /\ mode' = "rw" /\ u.kind = "write"
      BY <2>4 DEF WriteHash, Map, Due, u
    <3>2. \A h \in Heights : file'.slot[h] = IF h = u.h THEN u.b ELSE file.slot[h]
      BY <2>4, WriteHashFile DEF u
    <3>3. file'.slot = [file.slot EXCEPT ![u.h] = u.b]
      BY <1>2, <2>2, <3>2 DEF Index
    <3>4. Slots!ExtendWrite(u.h, u.b)
      BY <1>1, <2>1, <2>2, <3>1, <3>3, SlotSteps DEF SeenMode
    <3> QED BY <2>2, <3>1, <3>4, SlotsNextSteps
  <2>5. CASE Truncate
    <3>1. mode \in {"rw", "unmapped"} /\ mode' = "rw"
      BY <2>5 DEF Truncate, Map
    <3>2. CASE mode = "rw"
      <4>1. \A h \in Heights : file'.slot[h] = IF h <= u.h THEN file.slot[h] ELSE NoBlock
        BY <2>5, TruncateFile DEF u
      <4>2. file'.slot = BinTruncate(file.slot, u.h)
        BY <1>2, <4>1 DEF BinTruncate, Index
      <4>3. Slots!TruncateTo(u.h)
        BY <1>1, <2>1, <2>2, <3>1, <3>2, <4>2, SlotSteps DEF SeenMode
      <4> QED BY <2>2, <4>3, SlotsNextSteps
    <3>3. CASE mode = "unmapped"
      <4>1. Slots!MapAgain
        BY <1>1, <1>2, <2>1, <3>1, <3>3, SlotSteps DEF SeenMode
      <4> QED BY <4>1, SlotsNextSteps
    <3> QED BY <3>1, <3>2, <3>3
  <2>6. CASE ResizeFails
    <3>1. mode \in {"rw", "unmapped"} /\ mode' = "unmapped" BY <2>6 DEF ResizeFails
    <3>2. Slots!LoseMapping BY <1>1, <2>1, <3>1, SlotSteps DEF SeenMode
    <3> QED BY <3>2, SlotsNextSteps
  <2> QED BY <1>6, <2>3, <2>4, <2>5, <2>6 DEF Update
<1>7. CASE Disable
  <2>1. mode \in {"rw", "ro", "disabled", "unmapped"} /\ mode' = "disabled" /\ cf' = cf
    BY <1>7 DEF Disable
  <2>2. Slots!DisableSlots BY <1>1, <2>1, SlotSteps DEF SeenMode
  <2> QED BY <2>2, SlotsNextSteps
<1>8. CASE Stop
  <2>1. mode' = "closed" /\ cf' = cf BY <1>8 DEF Stop
  <2>2. Slots!CloseSlots BY <1>1, <2>1, SlotSteps DEF SeenMode
  <2> QED BY <2>2, SlotsNextSteps
<1>9. CASE Tamper
  <2>1. mode = "closed" /\ UNCHANGED <<cf, mode>> BY <1>9 DEF Tamper
  <2> QED BY <1>1, <1>3, <2>1 DEF SeenMode
<1>10. CASE UNCHANGED fileVars
  BY <1>1, <1>3, <1>10 DEF fileVars, SeenMode
<1> QED BY <1>4, <1>5, <1>6, <1>7, <1>8, <1>9, <1>10 DEF FileNext

\* The file and its mapping are the height->hash map that BlockStore and
\* StoreThreads take canonical.bin for: an open serves the rows or nothing, and
\* each update, failure and crash is a step of BinSlots.
THEOREM FileImplementsSlots == FileSpec => ImplementsSlots
<1>1. FileInit => Slots!BinInit
  <2> SUFFICES ASSUME FileInit PROVE Slots!BinInit OBVIOUS
  <2>1. FileTypeOK /\ SpanIsLength BY InitType
  <2>2. SeenSlots = NoIndex BY <2>1, SeenFacts DEF FileInit
  <2> QED BY <2>2, SlotsSame DEF FileInit, Slots!BinInit, SeenSlots
<1>2. (FileTypeOK /\ SpanIsLength) /\ (FileTypeOK /\ SpanIsLength)' /\ [FileNext]_fileVars
        => [Slots!BinNext]_(Slots!binVars)
  BY StepSlots
<1> QED BY <1>1, <1>2, FileTypeCorrect, PTL DEF FileSpec, ImplementsSlots, Slots!BinSpec

=============================================================================
