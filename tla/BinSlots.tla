------------------------------ MODULE BinSlots ------------------------------
(***************************************************************************)
(* What the rest of the store takes canonical.bin for: a height->hash map  *)
(* that is rebuilt from CF_CANONICAL by an open, changed one slot at a     *)
(* time, cut by a truncation, and read as empty when there is no mapping.  *)
(* CanonicalFile implements it with a file and a mapping.                  *)
(***************************************************************************)
EXTENDS HeightIndex

VARIABLES
  cfRows,      \* CF_CANONICAL
  binMode,     \* "closed", "rw", "ro", "disabled" or "unmapped"
  bin          \* what read_hash_bytes answers

binVars == <<cfRows, binMode, bin>>

BinInit == cfRows = NoIndex /\ binMode = "closed" /\ bin = NoIndex

\* RocksDB commits first; canonical.bin follows slot by slot.
CommitRows ==
  /\ binMode \in {"rw", "disabled", "unmapped"}
  /\ cfRows' \in Index
  /\ UNCHANGED <<binMode, bin>>

ExtendWrite(h, b) ==
  /\ binMode = "rw"
  /\ bin' = [bin EXCEPT ![h] = b]
  /\ UNCHANGED <<cfRows, binMode>>

TruncateTo(top) ==
  /\ binMode = "rw"
  /\ bin' = BinTruncate(bin, top)
  /\ UNCHANGED <<cfRows, binMode>>

\* An open serves the rows of CF_CANONICAL, or nothing.
Serve ==
  /\ binMode = "closed"
  /\ \/ binMode' \in {"rw", "ro"} /\ bin' = DenseFromCf(cfRows)
     \/ binMode' = "disabled" /\ UNCHANGED bin
  /\ UNCHANGED cfRows

\* A resize that fails leaves no mapping; the next truncation brings back what
\* the file holds, of which nothing is promised until the store is reopened.
LoseMapping ==
  /\ binMode \in {"rw", "unmapped"}
  /\ binMode' = "unmapped" /\ bin' = NoIndex
  /\ UNCHANGED cfRows

MapAgain ==
  /\ binMode = "unmapped"
  /\ binMode' = "rw" /\ bin' \in Index
  /\ UNCHANGED cfRows

DisableSlots ==
  /\ binMode # "closed"
  /\ binMode' = "disabled" /\ bin' = NoIndex
  /\ UNCHANGED cfRows

CloseSlots ==
  /\ binMode' = "closed" /\ bin' = NoIndex
  /\ UNCHANGED cfRows

BinNext ==
  \/ CommitRows \/ Serve \/ LoseMapping \/ MapAgain \/ DisableSlots \/ CloseSlots
  \/ \E h \in Heights : TruncateTo(h) \/ \E b \in Blocks : ExtendWrite(h, b)

BinSpec == BinInit /\ [][BinNext]_binVars

=============================================================================
