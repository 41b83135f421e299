------------------------------ MODULE Snapshot ------------------------------
(***************************************************************************)
(* export_snapshot on one node and import_snapshot on another.  The        *)
(* exporter is a live store: blocks arrive, the dictionary gets trained    *)
(* (Dictionary), reorgs and prunings run while the export reads one height *)
(* at a time.  The file may be damaged or cut on its way.  The importer    *)
(* stores block after block and compares the checksum at the end.          *)
(*                                                                         *)
(* An item of the file is the raw CF_BLOCKS value: a block and its         *)
(* encoding.  The checksum is the pair of manifest and items it was        *)
(* computed from: no two files have the same SHA-256.                      *)
(***************************************************************************)
EXTENDS Dictionary, Sequences

CONSTANTS
  NoBlock,
  Height,           \* height in a block's header
  Parent,           \* parent_hash
  MaxHeight,        \* bound: no block is higher
  Chains,           \* bound: lists of hashes that apply_reorg is called with
  Held,             \* bound: sets of blocks the importer may have, not canonical
  Imports           \* bound: imports that are started

Heights == 0..MaxHeight
NoIndex == [h \in Heights |-> NoBlock]

ASSUME SnapHeightAssumption == MaxHeight \in Nat /\ Height \in [Blocks -> Heights]
ASSUME SnapParentAssumption == Parent \in [Blocks -> Blocks \cup {NoBlock}]
ASSUME SnapNoBlockAssumption == NoBlock \notin Blocks
ASSUME SnapChainsAssumption == \A bs \in Chains : bs \in Seq(Blocks) /\ bs # << >>
ASSUME SnapHeldAssumption == Held \subseteq SUBSET Blocks /\ Imports \in Nat

VARIABLES
  canonical,        \* the exporter's height->hash index
  exp,              \* the export: pc, the height it is at, the hash looked up
  file,             \* manifest, items and checksum, as far as written
  damaged,          \* the file is no longer what the exporter wrote
  impRows, impCanonical,
  impDict,          \* the importer's dictionary
  imp,              \* the import: pc, next item, hash of the previous block;
                    \* history: the blocks it found stored and not canonical
  tries             \* imports started

exporter == <<canonical, exp>>
importer == <<impRows, impCanonical, impDict, imp, tries>>
snapVars == <<rows, metaDict, live, useDict, work, canonical, exp, file, damaged,
              impRows, impCanonical, impDict, imp, tries>>

NoSum == << >>
OtherSum == <<NoBlock>>
NoFile == [lo |-> 0, hi |-> 0, root |-> NoBlock, items |-> << >>, sum |-> NoSum]
Garbled == [block |-> NoBlock, enc |-> NoRow]

\* An export and an import that are not under way have no local variables.
ExportRests(pc) == [pc |-> pc, h |-> 0, hash |-> NoBlock]
ImportRests(pc) == [pc |-> pc, pos |-> 1, prev |-> NoBlock, off |-> {}]

\* What the hasher has seen: the manifest and the items.
Hashed(f) == <<f.lo, f.hi, f.root, f.items>>

SnapInit ==
  /\ DictInit
  /\ canonical = NoIndex
  /\ exp = ExportRests("idle")
  /\ file = NoFile /\ damaged = FALSE
  /\ impRows \in Held /\ impCanonical = NoIndex /\ impDict = NoDict
  /\ imp = ImportRests("idle")
  /\ tries = 0

-----------------------------------------------------------------------------
(***************************************************************************)
(* The exporter's other threads.                                           *)
(***************************************************************************)

\* put_block(block, canonical) and the training behind it.
Store ==
  \/ /\ \E t \in Threads : (\E b \in Blocks : Put(t, b)) \/ TrainStep(t) \/ InitDictionary(t)
     /\ UNCHANGED <<exporter, file, damaged, importer>>
  \/ /\ \E t \in Threads :
          /\ Write(t)
          /\ LET b == work[t].block
             IN  canonical' \in {canonical, [canonical EXCEPT ![Height[b]] = b]}
     /\ UNCHANGED <<exp, file, damaged, importer>>

\* apply_reorg above the parent of the first block of bs.
Reorg(bs) ==
  LET first == Height[bs[1]]
      at(h) == {bs[i] : i \in {j \in DOMAIN bs : Height[bs[j]] = h}}
  IN  /\ \A i \in DOMAIN bs : bs[i] \in Stored
      /\ canonical' = [h \in Heights |->
           IF h < first THEN canonical[h]
           ELSE IF at(h) = {} THEN NoBlock ELSE CHOOSE b \in at(h) : TRUE]
      /\ UNCHANGED <<dictVars, exp, file, damaged, importer>>

PruneBefore(height) ==
  /\ rows' = [b \in Blocks |-> IF Height[b] < height THEN NoRow ELSE rows[b]]
  /\ canonical' = [h \in Heights |-> IF h < height THEN NoBlock ELSE canonical[h]]
  /\ UNCHANGED <<metaDict, live, useDict, work, exp, file, damaged, importer>>

\* The exporting process ends, perhaps during an export, and opens the store.
Restart(use) ==
  /\ Reopen(use)
  /\ exp' = IF exp.pc \in {"lookup", "read"} THEN ExportRests("over") ELSE exp
  /\ UNCHANGED <<canonical, file, damaged, importer>>

-----------------------------------------------------------------------------
(***************************************************************************)
(* export_snapshot.                                                        *)
(***************************************************************************)

\* The manifest, with the state root of the block that is at hi now.  (A range
\* with lo > hi, whose file holds no block, is left out.)
ExportStart(lo, hi) ==
  /\ exp.pc = "idle"
  /\ lo <= hi
  /\ canonical[hi] # NoBlock
  /\ file' = [NoFile EXCEPT !.lo = lo, !.hi = hi, !.root = canonical[hi]]
  /\ exp' = [pc |-> "lookup", h |-> lo, hash |-> NoBlock]
  /\ UNCHANGED <<dictVars, canonical, damaged, importer>>

\* A height without canonical block ends the export with an error.
ExportLookup ==
  /\ exp.pc = "lookup"
  /\ exp' = IF canonical[exp.h] = NoBlock THEN ExportRests("over")
            ELSE [exp EXCEPT !.hash = canonical[exp.h], !.pc = "read"]
  /\ UNCHANGED <<dictVars, canonical, file, damaged, importer>>

\* Mutant: the loop over the heights runs one too far.
LastHeightPast == exp.h > file.hi

\* The end of start_height..=end_height.
LastHeight == exp.h = file.hi

\* The raw row, BlockNotFound when it is gone by now; after the last one the
\* checksum of everything written.
ExportRead ==
  LET gone == rows[exp.hash] = NoRow
      with == [file EXCEPT !.items = Append(@, [block |-> exp.hash, enc |-> rows[exp.hash]])]
  IN  /\ exp.pc = "read"
      /\ IF gone \/ LastHeight
           THEN exp' = ExportRests("over")
           ELSE exp' = [exp EXCEPT !.pc = "lookup", !.h = @ + 1, !.hash = NoBlock]
      /\ file' = IF gone THEN file
                 ELSE IF LastHeight THEN [with EXCEPT !.sum = Hashed(with)] ELSE with
      /\ UNCHANGED <<dictVars, canonical, damaged, importer>>

\* Storage or transport changes one item, the range or the state root of the
\* manifest, or the checksum of a file that was written whole, or cuts it after n
\* items.  (Bytes behind the checksum are never read; NoBlock is any other root.)
Damage ==
  /\ exp.pc = "over" /\ imp.pc = "idle" /\ ~damaged /\ file.sum # NoSum
  /\ \/ \E i \in DOMAIN file.items :
          \E x \in {Garbled} \cup {[block |-> b, enc |-> Plain] : b \in Blocks} :
            file' = [file EXCEPT !.items[i] = x]
     \/ \E n \in 0..(Len(file.items) - 1) :
          file' = [file EXCEPT !.items = SubSeq(@, 1, n), !.sum = NoSum]
     \/ \E h \in Heights : file' \in {[file EXCEPT !.lo = h], [file EXCEPT !.hi = h]}
     \/ file' = [file EXCEPT !.root = NoBlock]
     \/ file' = [file EXCEPT !.sum = OtherSum]
  /\ file' # file
  /\ damaged' = TRUE
  /\ UNCHANGED <<dictVars, exporter, importer>>

\* A new export, when the file at hand is of no more use.
ExportAgain ==
  /\ exp.pc = "over" /\ imp.pc \in {"idle", "ok", "err"}
  /\ exp' = ExportRests("idle")
  /\ imp' = ImportRests("idle")
  /\ file' = NoFile /\ damaged' = FALSE
  /\ UNCHANGED <<dictVars, canonical, impRows, impCanonical, impDict, tries>>

-----------------------------------------------------------------------------
(***************************************************************************)
(* import_snapshot.                                                        *)
(***************************************************************************)

\* The manifest is read; the loop over its heights may be empty.
ImportStart ==
  /\ exp.pc = "over" /\ imp.pc = "idle"
  /\ tries < Imports
  /\ tries' = tries + 1
  /\ imp' = [imp EXCEPT !.pc = IF file.lo > file.hi THEN "sum" ELSE "item",
                        !.off = {b \in impRows : impCanonical[Height[b]] # b}]
  /\ UNCHANGED <<dictVars, exporter, file, damaged, impRows, impCanonical, impDict>>

\* Mutant: the parent link is not looked at.
AcceptableUnlinked(x) ==
  /\ x # Garbled
  /\ Decodes(x.enc, TRUE, impDict)
  /\ Height[x.block] = file.lo + imp.pos - 1

\* The item decodes with the importer's dictionary, or plain, and is the next
\* block of the chain.
Acceptable(x) ==
  /\ x # Garbled
  /\ Decodes(x.enc, TRUE, impDict)
  /\ Height[x.block] = file.lo + imp.pos - 1
  /\ imp.prev # NoBlock => Parent[x.block] = imp.prev

\* Mutant: the block is stored as one of a fork.
ImportPutFork(b) ==
  /\ impRows' = impRows \cup {b}
  /\ UNCHANGED <<impCanonical, impDict>>

\* put_block(block, true) on the importer: nothing for a block it has; else it
\* is canonical, and the importer may come to train a dictionary of its own.
ImportPut(b) ==
  IF b \in impRows THEN UNCHANGED <<impRows, impCanonical, impDict>>
  ELSE /\ impRows' = impRows \cup {b}
       /\ impCanonical' = [impCanonical EXCEPT ![Height[b]] = b]
       /\ IF impDict = NoDict /\ Cardinality(impRows') >= Threshold
            THEN impDict' \in Dicts ELSE UNCHANGED impDict

\* The next item is read, checked and stored; one that is missing or not
\* acceptable ends the import with an error, and what is stored stays.
ImportItem ==
  LET x == file.items[imp.pos]
  IN  /\ imp.pc = "item"
      /\ IF imp.pos <= Len(file.items) /\ Acceptable(x)
           THEN /\ ImportPut(x.block)
                /\ imp' = [imp EXCEPT !.pc = IF file.lo + imp.pos > file.hi THEN "sum" ELSE "item",
                                      !.pos = @ + 1, !.prev = x.block]
           ELSE /\ imp' = ImportRests("err")
                /\ UNCHANGED <<impRows, impCanonical, impDict>>
      /\ UNCHANGED <<dictVars, exporter, file, damaged, tries>>

\* The importing process fails, or its dictionary training does.
ImportStops ==
  /\ CanFail
  /\ imp.pc = "item" /\ imp.pos > 1
  /\ imp' = ImportRests("stopped")
  /\ UNCHANGED <<dictVars, exporter, file, damaged, impRows, impCanonical, impDict, tries>>

\* The caller runs the import of the same file again.
Retry ==
  /\ imp.pc = "stopped"
  /\ imp' = ImportRests("idle")
  /\ UNCHANGED <<dictVars, exporter, file, damaged, impRows, impCanonical, impDict, tries>>

\* Mutants: any checksum will do; the checksum of the items alone is compared.
VerifyPresent ==
  /\ imp.pc = "sum"
  /\ imp' = [imp EXCEPT !.pc = IF file.sum # NoSum THEN "ok" ELSE "err"]
  /\ UNCHANGED <<dictVars, exporter, file, damaged, impRows, impCanonical, impDict, tries>>
VerifyItems ==
  /\ imp.pc = "sum"
  /\ imp' = [imp EXCEPT !.pc = IF file.sum = file.items THEN "ok" ELSE "err"]
  /\ UNCHANGED <<dictVars, exporter, file, damaged, impRows, impCanonical, impDict, tries>>

\* The next 32 bytes, which are the checksum when all items have been read,
\* against the hash of the bytes that were read.
Verify ==
  LET fits == imp.pos > Len(file.items) /\ file.sum = Hashed(file)
  IN  /\ imp.pc = "sum"
      /\ imp' = IF fits THEN [imp EXCEPT !.pc = "ok"] ELSE ImportRests("err")
      /\ UNCHANGED <<dictVars, exporter, file, damaged, impRows, impCanonical, impDict, tries>>

ExportNext == (\E lo, hi \in Heights : ExportStart(lo, hi)) \/ ExportLookup \/ ExportRead
              \/ ExportAgain
ImportNext == ImportStart \/ ImportItem \/ ImportStops \/ Retry \/ Verify

\* Once the export is over its file is all that the import sees of the exporter,
\* so that their steps commute: the exporter's store rests until a new export.
ExporterNext ==
  /\ exp.pc # "over"
  /\ \/ Store
     \/ \E bs \in Chains : Reorg(bs)
     \/ \E h \in 1..MaxHeight : PruneBefore(h)
     \/ \E use \in UseDict : Restart(use)

SnapNext == ExporterNext \/ ExportNext \/ Damage \/ ImportNext

SnapSpec == SnapInit /\ [][SnapNext]_snapVars

-----------------------------------------------------------------------------
(***************************************************************************)
(* Properties.                                                             *)
(***************************************************************************)

Items == [block : Blocks, enc : Encodings] \cup {Garbled}

\* The types of both stores, of the file and of the two loops; an export never
\* writes more items than its manifest says.
SnapTypeOK ==
  /\ DictTypeOK
  /\ canonical \in [Heights -> Blocks \cup {NoBlock}]
  /\ exp \in [pc : {"idle", "lookup", "read", "over"}, h : Heights,
             hash : Blocks \cup {NoBlock}]
  /\ imp \in [pc : {"idle", "item", "sum", "ok", "err", "stopped"},
             pos : 1..(MaxHeight + 2), prev : Blocks \cup {NoBlock}, off : SUBSET Blocks]
  /\ impRows \subseteq Blocks /\ impCanonical \in [Heights -> Blocks \cup {NoBlock}]
  /\ impDict \in Dicts \cup {NoDict}
  /\ file = [lo |-> file.lo, hi |-> file.hi, root |-> file.root,
             items |-> file.items, sum |-> file.sum]
  /\ file.lo \in Heights /\ file.hi \in Heights /\ file.items \in Seq(Items)
  /\ damaged \in BOOLEAN
  /\ ~damaged => file.lo <= file.hi /\ Len(file.items) <= file.hi - file.lo + 1

\* The export up to where it is: canonical hashes are at their heights, one
\* item per height has been written, the checksum comes after the last one and
\* no longer fits a file that was damaged.
ExportInv ==
  /\ \A h \in Heights : canonical[h] # NoBlock => Height[canonical[h]] = h
  /\ exp.pc = "read" => exp.hash # NoBlock /\ Height[exp.hash] = exp.h
  /\ exp.pc # "over" => ~damaged /\ file.sum = NoSum /\ imp.pc = "idle"
  /\ exp.pc \in {"lookup", "read"} =>
       file.lo <= exp.h /\ exp.h <= file.hi /\ Len(file.items) = exp.h - file.lo
  /\ file.sum = NoSum \/ (file.sum = Hashed(file) <=> ~damaged)
  /\ ~damaged =>
       /\ \A i \in DOMAIN file.items :
            file.items[i] # Garbled /\ Height[file.items[i].block] = file.lo + i - 1
       /\ file.sum # NoSum => Len(file.items) = file.hi - file.lo + 1

\* Block b is canonical, unless the import found it stored and not canonical:
\* put_block does nothing then.
Canonicalised(b) == b \in imp.off \/ impCanonical[Height[b]] = b

\* The import up to where it is: what it has read so far is stored, linked and
\* canonical, and nothing it has not come to yet has changed.
ImportInv ==
  /\ imp.pc = "idle" => imp.pos = 1
  /\ imp.pc = "item" => file.lo + imp.pos - 1 <= file.hi
  /\ imp.pc \in {"sum", "ok"} => file.lo + imp.pos - 1 > file.hi
  /\ imp.prev = IF imp.pos = 1 THEN NoBlock ELSE file.items[imp.pos - 1].block
  /\ \A i \in 1..(imp.pos - 1) :
       /\ i <= Len(file.items)
       /\ file.items[i].block \in impRows
       /\ Height[file.items[i].block] = file.lo + i - 1
       /\ i > 1 => Parent[file.items[i].block] = file.items[i - 1].block
       /\ Canonicalised(file.items[i].block)
  /\ imp.pc = "item" =>
       \A b \in impRows : Height[b] >= file.lo + imp.pos - 1 => Canonicalised(b)

\* Training, export and import up to where they are.
SnapshotInv == TrainingInv /\ ExportInv /\ ImportInv

\* A file that was damaged, in its items, its manifest or its checksum, that was
\* cut, or whose export failed half-way, is never reported as imported.
DamageRejected == imp.pc = "ok" => ~damaged /\ file.sum # NoSum

\* An import that succeeds has stored one parent-linked block per height of the
\* manifest, also when the exporter reorganised or pruned its chain between the
\* reads of two heights.  "Blocks MUST be stored as canonical" (SNP-002), and
\* are, also after imports that were stopped and imports of rival chains, unless
\* the importer had the block as one of a fork when the import began.
ImportedChainLinked ==
  imp.pc = "ok" =>
    \A i \in DOMAIN file.items :
      LET b == file.items[i].block
      IN  /\ b \in impRows
          /\ Height[b] = file.lo + i - 1
          /\ i > 1 => Parent[b] = file.items[i - 1].block
          /\ Canonicalised(b)

\* A file that holds a whole chain as the exporter wrote it.
Sound ==
  /\ ~damaged /\ file.sum # NoSum
  /\ \A i \in 2..Len(file.items) : Parent[file.items[i].block] = file.items[i - 1].block

\* Nothing but a dictionary of the exporter's that the importer does not have
\* stands in the way of a sound file: also after an import that was stopped
\* half-way, and on a store that has some of the blocks.
SoundFileImports ==
  Sound /\ imp.pc = "err" =>
    \E i \in DOMAIN file.items : file.items[i].enc \notin {Plain, impDict}

-----------------------------------------------------------------------------
(***************************************************************************)
(* What the documentation says and the code does not keep.                 *)
(***************************************************************************)

\* "A new node downloads a snapshot file ... and bulk-inserts into its local
\* store": a sound file can be imported.  The items are raw CF_BLOCKS values,
\* so after the exporter has trained a dictionary no other node decodes them.
NewNodeImports == Sound => imp.pc # "err"

=============================================================================
