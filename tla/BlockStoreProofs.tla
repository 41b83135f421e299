-------------------------- MODULE BlockStoreProofs --------------------------
(***************************************************************************)
(* Proofs about BlockStore, for any set of blocks, any heights, any cache  *)
(* capacity and any batches.                                               *)
(***************************************************************************)
EXTENDS BlockStore, HeightIndexProofs

-----------------------------------------------------------------------------
(***************************************************************************)
(* Types of the operators of BlockStore.                                   *)
(***************************************************************************)

\* The floor is a number, and the two lower tiers form an index.
LEMMA LowerType ==
  ASSUME TypeOK
  PROVE  /\ minRetained \in Int
         /\ Lower \in Index
         /\ \A h \in Heights : Lower[h] = IF bin[h] # NoBlock THEN bin[h] ELSE cfCanonical[h]
BY MaxHeightAssumption DEF TypeOK, Lower, Index, Slot

\* get_hash_by_height answers from one of the three tiers, above the floor.
LEMMA LookupEntries ==
  ASSUME TypeOK, NEW h \in Heights
  PROVE  /\ Lookup(h) \in Slot
         /\ Lookup(h) # NoBlock =>
              h >= minRetained /\ Lookup(h) \in {heightCache[h], bin[h], cfCanonical[h]}
<1>1. heightCache \in Index BY DEF TypeOK
<1> QED BY <1>1, LowerType, LookupInEntries DEF Lookup

\* After a loop of lookups a cache entry comes from one of the three tiers.
LEMMA CacheAfterEntries ==
  ASSUME TypeOK, NEW hs
  PROVE  /\ CacheAfter(hs) \in Index
         /\ \A h \in Heights :
              \/ CacheAfter(hs)[h] \in {NoBlock, heightCache[h]}
              \/ h >= minRetained /\ CacheAfter(hs)[h] = Lower[h]
<1>1. heightCache \in Index BY DEF TypeOK
<1> QED BY <1>1, LowerType, ReadThroughEntries DEF CacheAfter

\* The hashes that a rollback reverts were found at the heights it removes.
LEMMA RevertedEntries ==
  ASSUME TypeOK, NEW bottom \in Int, bottom >= 0, NEW top \in Heights,
         NEW b \in Reverted(bottom, top)
  PROVE  \E h \in Heights : /\ bottom < h /\ h <= top /\ h >= minRetained
                            /\ b # NoBlock
                            /\ b \in {heightCache[h], bin[h], cfCanonical[h]}
<1>1. heightCache \in Index BY DEF TypeOK
<1>2. PICK h \in (bottom + 1)..top :
        b = WalkSees(heightCache, Lower, minRetained, top, h) /\ b # NoBlock
  BY DEF Reverted
<1>3. h \in Heights BY MaxHeightAssumption DEF Heights
<1>4. h >= minRetained /\ b \in {heightCache[h], Lower[h]}
  BY <1>1, <1>2, <1>3, LowerType, WalkSeesEntries
<1> QED BY <1>2, <1>3, <1>4, LowerType DEF Heights

\* The hash that a rollback takes as the new tip, and the cache it leaves.
LEMMA RollbackEntries ==
  ASSUME TypeOK, NEW target \in Heights, CanRollback(target)
  PROVE  /\ RollbackTip(target) \in Slot
         /\ RollbackCache(target) \in Index
         /\ \A h \in Heights :
              \/ RollbackCache(target)[h] \in {NoBlock, heightCache[h]}
              \/ h >= minRetained /\ RollbackCache(target)[h] = Lower[h]
         /\ \A h \in (target + 1)..Height[tip] : h \in Heights
                 => RollbackCache(target)[h] = NoBlock
<1> DEFINE gone == (target + 1)..Height[tip]
           c1 == CacheAfter(gone)
           c2 == ReadThrough(c1, Lower, minRetained, {target})
<1>1. c1 \in Index /\ \A h \in Heights : \/ c1[h] \in {NoBlock, heightCache[h]}
                                         \/ h >= minRetained /\ c1[h] = Lower[h]
  BY CacheAfterEntries
<1> HIDE DEF c1
<1>2. c2 \in Index /\ \A h \in Heights : \/ c2[h] \in {NoBlock, c1[h]}
                                         \/ h >= minRetained /\ c2[h] = Lower[h]
  BY <1>1, LowerType, ReadThroughEntries
<1>3. RollbackTip(target) = LookupIn(c1, Lower, minRetained, target)
  BY DEF RollbackTip, c1
<1>4. RollbackTip(target) \in Slot
  BY <1>1, <1>3, LowerType, LookupInEntries
<1>5. RollbackCache(target) = Without(c2, gone)
  BY DEF RollbackCache, c1
<1> HIDE DEF c2, gone
<1>6. /\ RollbackCache(target) \in Index
      /\ \A h \in Heights : RollbackCache(target)[h] = IF h \in gone THEN NoBlock ELSE c2[h]
  BY <1>2, <1>5, WithoutType
<1>7. \A h \in Heights : \/ c2[h] \in {NoBlock, heightCache[h]}
                         \/ h >= minRetained /\ c2[h] = Lower[h]
  BY <1>1, <1>2
<1>8. \A h \in Heights : \/ RollbackCache(target)[h] \in {NoBlock, heightCache[h]}
                         \/ h >= minRetained /\ RollbackCache(target)[h] = Lower[h]
  BY <1>6, <1>7
<1>9. \A h \in (target + 1)..Height[tip] : h \in Heights
        => RollbackCache(target)[h] = NoBlock
  BY <1>6 DEF gone
<1> QED BY <1>4, <1>6, <1>8, <1>9

\* Writes to canonical.bin.
LEMMA BinWriteType ==
  ASSUME TypeOK, NEW b \in Blocks
  PROVE  /\ BinWrite(bin, Height[b], b) \in Index
         /\ \A h \in Heights :
              BinWrite(bin, Height[b], b)[h] =
                IF binMode = "rw" /\ h = Height[b] THEN b ELSE bin[h]
<1>1. bin \in Index /\ b \in Slot /\ Height[b] \in Heights BY BlockHeight DEF TypeOK
<1> QED BY <1>1 DEF BinWrite, Index

\* A row written to CF_CANONICAL.
LEMMA RowPutType ==
  ASSUME NEW f \in Index, NEW b \in Blocks
  PROVE  /\ [f EXCEPT ![Height[b]] = b] \in Index
         /\ \A h \in Heights :
              [f EXCEPT ![Height[b]] = b][h] = IF h = Height[b] THEN b ELSE f[h]
<1>1. b \in Slot /\ Height[b] \in Heights BY BlockHeight
<1> QED BY <1>1 DEF Index

\* A nonempty list of blocks.
IsList(bs) ==
  /\ \A i \in DOMAIN bs : bs[i] \in Blocks
  /\ Len(bs) \in DOMAIN bs

\* The set of its blocks.
LEMMA ListType ==
  ASSUME NEW bs, IsList(bs)
  PROVE  /\ \A i \in DOMAIN bs : bs[i] \in Blocks
         /\ Listed(bs) \subseteq Blocks
         /\ \A i \in DOMAIN bs : bs[i] \in Listed(bs)
         /\ bs[Len(bs)] \in Listed(bs)
BY DEF IsList, Listed

\* A batch given to set_canonical_batch or apply_reorg is such a list.
LEMMA BatchIsList == ASSUME NEW bs \in Batches PROVE IsList(bs)
<1>1. bs \in Seq(Blocks) /\ bs # << >> BY BatchesAssumption
<1>2. \A i \in DOMAIN bs : bs[i] \in Blocks BY <1>1
<1>3. Len(bs) \in DOMAIN bs BY <1>1
<1> QED BY <1>2, <1>3 DEF IsList

\* Hence it lists blocks.
LEMMA BatchType ==
  ASSUME NEW bs \in Batches
  PROVE  /\ \A i \in DOMAIN bs : bs[i] \in Blocks
         /\ Listed(bs) \subseteq Blocks
         /\ \A i \in DOMAIN bs : bs[i] \in Listed(bs)
         /\ bs[Len(bs)] \in Listed(bs)
BY BatchIsList, ListType

\* A pipeline batch lists blocks; what it stages is among them.
LEMMA JobsType ==
  ASSUME NEW js \in JobBatches
  PROVE  /\ Staged(js) \subseteq DOMAIN js
         /\ \A i \in DOMAIN js : js[i][1] \in Blocks
BY JobsAssumption DEF Staged

-----------------------------------------------------------------------------
(***************************************************************************)
(* Type correctness.                                                       *)
(***************************************************************************)

\* Types of the process memory.
MemoryOK ==
  /\ binMode \in {"rw", "disabled"}
  /\ bin \in Index /\ heightCache \in Index
  /\ recordCache \subseteq Blocks
  /\ inCanonicalChain \subseteq recordCache /\ orphaned \subseteq recordCache
  /\ blockCache \subseteq Blocks /\ headerCache \subseteq Blocks

\* open rebuilds well-typed memory from well-typed durable state, and what it
\* warms the caches with is stored.
LEMMA RecoverType ==
  ASSUME NEW warm, Recover(warm), cfCanonical' \in Index, cfBlocks' \subseteq Blocks,
         metaMin' \in Int
  PROVE  /\ MemoryOK'
         /\ tip' = metaTip' /\ minRetained' = metaMin'
         /\ bin' = cfCanonical'
         /\ \A h \in Heights : heightCache'[h] \in {NoBlock, cfCanonical'[h]}
         /\ recordCache' \subseteq cfBlocks'
         /\ blockCache' = recordCache' /\ headerCache' = recordCache'
         /\ inCanonicalChain' = recordCache' /\ orphaned' = {}
<1> DEFINE hs == IF warm THEN {h \in WarmHeights(metaTip') : h >= metaMin'} ELSE {}
           found == {cfCanonical'[h] : h \in hs} \cap cfBlocks'
           warmed == [h \in Heights |-> IF h \in hs THEN cfCanonical'[h] ELSE NoBlock]
<1>1. /\ tip' = metaTip' /\ minRetained' = metaMin'
      /\ binMode' = "rw" /\ bin' = DenseFromCf(cfCanonical')
      /\ heightCache' = CacheInsert(NoIndex, warmed)
      /\ recordCache' = found /\ inCanonicalChain' = found /\ orphaned' = {}
      /\ blockCache' = found /\ headerCache' = found
  BY DEF Recover
<1> HIDE DEF hs
<1>2. /\ warmed \in Index
      /\ \A h \in Heights : warmed[h] \in {NoBlock, cfCanonical'[h]}
  BY DEF Index, Slot
<1> HIDE DEF warmed
<1>3. /\ heightCache' \in Index
      /\ \A h \in Heights : heightCache'[h] \in {NoBlock, cfCanonical'[h]}
  BY <1>1, <1>2, NoIndexType, CacheInsertEntries
<1>4. bin' = cfCanonical' BY <1>1, DenseFromCfIsRows
<1>5. found \subseteq cfBlocks' OBVIOUS
<1> HIDE DEF found
<1> QED BY <1>1, <1>3, <1>4, <1>5 DEF MemoryOK

\* get_record and the flag updates keep the record types.
LEMMA RecordsType ==
  ASSUME TypeOK, NEW bs \in SUBSET Blocks, NEW unset, NEW set, Records(bs, unset, set)
  PROVE  /\ recordCache' \subseteq Blocks
         /\ inCanonicalChain' \subseteq recordCache' /\ orphaned' \subseteq recordCache'
         /\ headerCache' \subseteq Blocks
BY DEF TypeOK, Records, Derived

\* So do the inserts after a write.
LEMMA CacheStoredType ==
  ASSUME TypeOK, NEW new \in SUBSET Blocks, CacheStored(new)
  PROVE  /\ recordCache' \subseteq Blocks
         /\ inCanonicalChain' \subseteq recordCache' /\ orphaned' \subseteq recordCache'
         /\ blockCache' \subseteq Blocks /\ headerCache' \subseteq Blocks
BY DEF TypeOK, CacheStored

\* The WriteBatch of put_block.
LEMMA StoreRowsType ==
  ASSUME TypeOK, NEW b \in Blocks, NEW canonical \in BOOLEAN, StoreRows(b, canonical)
  PROVE  cfBlocks' \subseteq Blocks /\ cfHeaders' \subseteq Blocks /\ cfCanonical' \in Index
BY RowPutType DEF TypeOK, StoreRows

\* The memory that put_block updates.
LEMMA PutPostCommitType ==
  ASSUME TypeOK, NEW b \in Blocks, NEW canonical \in BOOLEAN,
         PutPostCommit(b, canonical), binMode' = binMode
  PROVE  MemoryOK'
<1>1. bin' \in Index /\ heightCache' \in Index
  <2>1. bin \in Index /\ heightCache \in Index BY DEF TypeOK
  <2> QED BY <2>1, BlockHeight, BinWriteType, CacheInsertOneEntries DEF PutPostCommit
<1>2. CacheStored({b}) BY DEF PutPostCommit
<1> QED BY <1>1, <1>2, CacheStoredType DEF MemoryOK, TypeOK

\* Types of the durable state, and the tip and floor that mirror it.
DurableOK ==
  /\ cfBlocks \subseteq Blocks /\ cfHeaders \subseteq Blocks
  /\ cfAttested \subseteq Blocks
  /\ cfCanonical \in Index
  /\ metaTip \in Slot /\ metaGenesis \in Slot
  /\ metaMin \in 0..(MaxHeight + 1)
  /\ tip = metaTip /\ minRetained = metaMin

\* Reads, invalidation, statuses, attestations and compaction keep the types.
LEMMA BodyStepType ==
  ASSUME TypeOK, BodyNext
  PROVE  TypeOK'
<1>1. ASSUME NEW b \in Blocks, PutBlock(b, FALSE) PROVE TypeOK'
  <2>1. MemoryOK' BY <1>1, PutPostCommitType DEF PutBlock
  <2>2. DurableOK' BY <1>1, StoreRowsType DEF PutBlock, TypeOK, DurableOK, metaVars
  <2> QED BY <2>1, <2>2 DEF TypeOK, DurableOK, MemoryOK
<1>2. ASSUME NEW b \in Blocks, GetBlock(b) \/ GetHeader(b) PROVE TypeOK'
  BY <1>2 DEF TypeOK, GetBlock, GetHeader, durableBlocks, metaVars, indexVars, recordVars
<1>3. ASSUME NEW b \in Blocks, GetRecord(b) PROVE TypeOK'
  BY <1>3, RecordsType DEF TypeOK, GetRecord, durableBlocks, metaVars, indexVars
<1>4. ASSUME NEW b \in Blocks,
             InvalidateBlock(b) \/ InvalidateHeader(b) \/ InvalidateRecord(b)
      PROVE  TypeOK'
  BY <1>4 DEF TypeOK, InvalidateBlock, InvalidateHeader, InvalidateRecord,
              durableBlocks, metaVars, indexVars, recordVars, bodyCaches
<1>5. ASSUME NEW b \in Blocks, NEW s \in BOOLEAN, UpdateStatus(b, s) PROVE TypeOK'
  BY <1>5 DEF TypeOK, UpdateStatus, durableBlocks, metaVars, indexVars, bodyCaches
<1>6. ASSUME NEW b \in Blocks, PutAttestation(b) PROVE TypeOK'
  BY <1>6 DEF TypeOK, PutAttestation, metaVars, indexVars, recordVars, bodyCaches
<1>7. ASSUME NEW b \in Blocks, Compaction(b) PROVE TypeOK'
  BY <1>7 DEF TypeOK, Compaction, metaVars, indexVars, recordVars, bodyCaches
<1>8. ASSUME NEW lo \in Heights, NEW hi \in Heights, StreamBlocks(lo, hi) PROVE TypeOK'
  BY <1>8 DEF TypeOK, StreamBlocks, durableBlocks, metaVars, indexVars, recordVars
<1> QED
  BY <1>1, <1>2, <1>3, <1>4, <1>5, <1>6, <1>7, <1>8, ProbedAssumption, AttestableAssumption,
     StatusesAssumption DEF BodyNext

\* apply_reorg keeps the types, whatever list of known blocks it is given.
LEMMA ReorgType ==
  ASSUME TypeOK, NEW a \in Heights, NEW bs, IsList(bs), ApplyReorg(a, bs)
  PROVE  TypeOK'
<1> DEFINE gone == (a + 1)..Height[tip]
<1>1. /\ cfCanonical' = PutAll(Without(cfCanonical, gone), bs, DOMAIN bs)
      /\ bin' = BinPutAll(BinTruncate(bin, a), bs, DOMAIN bs)
      /\ heightCache' = PutAll(Without(CacheAfter(gone), gone), bs, DOMAIN bs)
  BY DEF ApplyReorg
<1> HIDE DEF gone
<1>2. a \in Int BY DEF Heights
<1>3. /\ Without(cfCanonical, gone) \in Index
      /\ BinTruncate(bin, a) \in Index
      /\ Without(CacheAfter(gone), gone) \in Index
  BY <1>2, WithoutType, BinTruncateType, CacheAfterEntries DEF TypeOK
<1>4. cfCanonical' \in Index /\ bin' \in Index /\ heightCache' \in Index
  <2>1. \A i \in DOMAIN bs : bs[i] \in Blocks BY ListType
  <2>2. \A f \in Index : PutAll(f, bs, DOMAIN bs) \in Index BY <2>1, PutAllEntries
  <2> QED BY <1>1, <1>3, <2>2 DEF BinPutAll
<1>5. Records(Listed(bs), Reverted(a, Height[tip]), Listed(bs)) BY DEF ApplyReorg
<1>6. MemoryOK'
  BY <1>4, <1>5, RecordsType, ListType DEF ApplyReorg, MemoryOK, TypeOK
<1>7. metaTip' \in Slot /\ tip' = metaTip' BY ListType DEF ApplyReorg, Slot
<1>8. DurableOK'
  BY <1>4, <1>7 DEF ApplyReorg, DurableOK, TypeOK, durableBlocks, floorVars
<1> QED BY <1>6, <1>8 DEF TypeOK, DurableOK, MemoryOK

\* So do the operations that write the index and the height cache together,
\* and the crashes inside them.
LEMMA IndexStepType ==
  ASSUME TypeOK, IndexNext
  PROVE  TypeOK'
<1>1. ASSUME NEW b \in Blocks, PutBlock(b, TRUE) PROVE TypeOK'
  <2>1. MemoryOK' BY <1>1, PutPostCommitType DEF PutBlock
  <2>2. DurableOK' BY <1>1, StoreRowsType DEF PutBlock, TypeOK, DurableOK, metaVars
  <2> QED BY <2>1, <2>2 DEF TypeOK, DurableOK, MemoryOK
<1>2. ASSUME NEW b \in Blocks, ExtendChain(b) PROVE TypeOK'
  <2>1. MemoryOK' BY <1>2, PutPostCommitType DEF ExtendChain
  <2>2. DurableOK'
    BY <1>2, StoreRowsType, BlockHeight DEF ExtendChain, TypeOK, DurableOK, floorVars
  <2> QED BY <2>1, <2>2 DEF TypeOK, DurableOK, MemoryOK
<1>3. ASSUME NEW b \in Blocks, SetTip(b) PROVE TypeOK'
  BY <1>3, BlockHeight DEF TypeOK, SetTip, durableBlocks, floorVars, indexVars, recordVars,
                           bodyCaches
<1>4. ASSUME NEW b \in Blocks, SetCanonical(b) PROVE TypeOK'
  <2>1. cfCanonical' \in Index /\ bin' \in Index /\ heightCache' \in Index
    BY <1>4, RowPutType, BinWriteType, BlockHeight, CacheInsertOneEntries
       DEF SetCanonical, TypeOK
  <2>2. MemoryOK'
    BY <1>4, <2>1, RecordsType DEF SetCanonical, MemoryOK, TypeOK
  <2>3. DurableOK'
    BY <1>4, <2>1 DEF SetCanonical, DurableOK, TypeOK, durableBlocks, metaVars
  <2> QED BY <2>2, <2>3 DEF TypeOK, DurableOK, MemoryOK
<1>5. ASSUME NEW t \in Heights, RollbackToHeight(t) PROVE TypeOK'
  <2>1. t \in Int BY DEF Heights
  <2>2. CanRollback(t) BY <1>5 DEF RollbackToHeight
  <2>3. cfCanonical' \in Index /\ bin' \in Index /\ heightCache' \in Index
    <3>1. /\ cfCanonical' = Without(cfCanonical, (t + 1)..Height[tip])
          /\ bin' = BinTruncate(bin, t) /\ heightCache' = RollbackCache(t)
      BY <1>5 DEF RollbackToHeight
    <3>2. cfCanonical \in Index /\ bin \in Index BY DEF TypeOK
    <3>3. cfCanonical' \in Index BY <3>1, <3>2, WithoutType
    <3>4. bin' \in Index BY <2>1, <3>1, <3>2, BinTruncateType
    <3>5. heightCache' \in Index BY <2>2, <3>1, RollbackEntries
    <3> QED BY <3>3, <3>4, <3>5
  <2>4. metaTip' \in Slot /\ tip' = metaTip'
    BY <1>5, <2>2, RollbackEntries DEF RollbackToHeight, TypeOK
  <2>5. MemoryOK'
    BY <1>5, <2>3 DEF RollbackToHeight, MemoryOK, TypeOK, bodyCaches
  <2>6. DurableOK'
    BY <1>5, <2>3, <2>4 DEF RollbackToHeight, DurableOK, TypeOK, durableBlocks, floorVars
  <2> QED BY <2>5, <2>6 DEF TypeOK, DurableOK, MemoryOK
<1>6. ASSUME NEW a \in Heights, NEW bs \in Batches, ApplyReorg(a, bs) PROVE TypeOK'
  BY <1>6, BatchIsList, ReorgType
<1>7. ASSUME NEW p \in 0..(MaxHeight + 1), PruneBeforeHeight(p) PROVE TypeOK'
  <2>1. cfCanonical' \in Index /\ heightCache' \in Index
    BY <1>7, WithoutType, CacheAfterEntries DEF PruneBeforeHeight, TypeOK
  <2>2. MemoryOK' BY <1>7, <2>1 DEF PruneBeforeHeight, MemoryOK, TypeOK
  <2>3. DurableOK' BY <1>7, <2>1 DEF PruneBeforeHeight, DurableOK, TypeOK
  <2> QED BY <2>2, <2>3 DEF TypeOK, DurableOK, MemoryOK
<1>8. ASSUME NEW h \in Heights, GetHashByHeight(h) PROVE TypeOK'
  BY <1>8, CacheAfterEntries DEF TypeOK, GetHashByHeight, durableBlocks, metaVars,
                                 recordVars, bodyCaches
<1>9. ASSUME DisableBin PROVE TypeOK'
  BY <1>9, NoIndexType DEF TypeOK, DisableBin, durableBlocks, metaVars, recordVars, bodyCaches
<1>10. ASSUME NEW warm \in BOOLEAN, Reopen(warm) PROVE TypeOK'
  <2>1. Recover(warm) /\ UNCHANGED <<durableBlocks, cfCanonical, metaVars>>
    BY <1>10 DEF Reopen
  <2>2. metaMin' \in Int BY <2>1, MaxHeightAssumption DEF TypeOK, metaVars
  <2>3. MemoryOK' /\ DurableOK'
    BY <2>1, <2>2, RecoverType DEF TypeOK, DurableOK, durableBlocks, metaVars
  <2> QED BY <2>3 DEF TypeOK, DurableOK, MemoryOK
<1>11. ASSUME NEW b \in Blocks, NEW warm \in BOOLEAN, ExtendChainCrash(b, warm)
       PROVE  TypeOK'
  <2>1. /\ Recover(warm) /\ StoreRows(b, TRUE)
        /\ UNCHANGED <<cfAttested, metaVars>>
    BY <1>11 DEF ExtendChainCrash
  <2>2. metaMin' \in Int BY <2>1, MaxHeightAssumption DEF TypeOK, metaVars
  <2>3. cfBlocks' \subseteq Blocks /\ cfHeaders' \subseteq Blocks /\ cfCanonical' \in Index
    BY <2>1, StoreRowsType
  <2>4. MemoryOK' /\ DurableOK'
    BY <2>1, <2>2, <2>3, RecoverType DEF TypeOK, DurableOK, metaVars
  <2> QED BY <2>4 DEF TypeOK, DurableOK, MemoryOK
<1>12. ASSUME NEW t \in Heights, NEW warm \in BOOLEAN, RollbackCrash(t, warm)
       PROVE  TypeOK'
  <2>1. /\ Recover(warm)
        /\ cfCanonical' = Without(cfCanonical, (t + 1)..Height[tip])
        /\ UNCHANGED <<durableBlocks, metaVars>>
    BY <1>12 DEF RollbackCrash
  <2>2. metaMin' \in Int BY <2>1, MaxHeightAssumption DEF TypeOK, metaVars
  <2>3. cfCanonical' \in Index BY <2>1, WithoutType DEF TypeOK
  <2>4. MemoryOK' /\ DurableOK'
    BY <2>1, <2>2, <2>3, RecoverType DEF TypeOK, DurableOK, durableBlocks, metaVars
  <2> QED BY <2>4 DEF TypeOK, DurableOK, MemoryOK
<1> QED
  BY <1>1, <1>2, <1>3, <1>4, <1>5, <1>6, <1>7, <1>8, <1>9, <1>10, <1>11, <1>12
     DEF IndexNext

\* So do init_genesis, set_canonical_batch and the pipeline's flush.
LEMMA StagingStepType ==
  ASSUME TypeOK, StagingNext
  PROVE  TypeOK'
<1>1. ASSUME NEW b \in Blocks, InitGenesis(b) PROVE TypeOK'
  <2>1. 0 = Height[b] BY <1>1 DEF InitGenesis
  <2>2. cfCanonical' \in Index /\ bin' \in Index
    BY <1>1, <2>1, RowPutType, BinWriteType DEF InitGenesis, TypeOK
  <2>3. MemoryOK' BY <1>1, <2>2, CacheStoredType DEF InitGenesis, MemoryOK, TypeOK
  <2>4. DurableOK'
    BY <1>1, <2>2, BlockHeight DEF InitGenesis, DurableOK, TypeOK, floorVars
  <2> QED BY <2>3, <2>4 DEF TypeOK, DurableOK, MemoryOK
<1>2. ASSUME NEW bs \in Batches, SetCanonicalBatch(bs) PROVE TypeOK'
  <2>1. cfCanonical' \in Index /\ bin' \in Index
    BY <1>2, PutAllEntries, BatchType DEF SetCanonicalBatch, TypeOK, BinPutAll
  <2>2. Records(Listed(bs), {}, Listed(bs)) BY <1>2 DEF SetCanonicalBatch
  <2>3. MemoryOK'
    BY <1>2, <2>1, <2>2, RecordsType, BatchType DEF SetCanonicalBatch, MemoryOK, TypeOK
  <2>4. DurableOK'
    BY <1>2, <2>1 DEF SetCanonicalBatch, DurableOK, TypeOK, durableBlocks, metaVars
  <2> QED BY <2>3, <2>4 DEF TypeOK, DurableOK, MemoryOK
<1>3. ASSUME NEW js \in JobBatches, FlushPipelineBatch(js) PROVE TypeOK'
  <2> DEFINE bs == [i \in DOMAIN js |-> js[i][1]]
             canon == {i \in Staged(js) : js[i][2]}
             new == {js[i][1] : i \in Staged(js)}
  <2>1. \A i \in canon : bs[i] \in Blocks BY JobsType
  <2>2. new \subseteq Blocks BY JobsType
  <2>3. /\ cfCanonical' = PutAll(cfCanonical, bs, canon)
        /\ bin' = BinPutAll(bin, bs, canon)
        /\ cfBlocks' = cfBlocks \cup new /\ cfHeaders' = cfHeaders \cup new
        /\ CacheStored(new)
        /\ UNCHANGED <<cfAttested, metaVars, tip, minRetained, binMode, heightCache>>
    BY <1>3 DEF FlushPipelineBatch
  <2> HIDE DEF bs, canon, new
  <2>4. cfCanonical' \in Index /\ bin' \in Index
    BY <2>1, <2>3, PutAllEntries DEF TypeOK, BinPutAll
  <2>5. MemoryOK' BY <2>2, <2>3, <2>4, CacheStoredType DEF MemoryOK, TypeOK
  <2>6. DurableOK' BY <2>2, <2>3, <2>4 DEF DurableOK, TypeOK, metaVars
  <2> QED BY <2>5, <2>6 DEF TypeOK, DurableOK, MemoryOK
<1> QED BY <1>1, <1>2, <1>3 DEF StagingNext

\* Every step of the store keeps the types.
LEMMA StepType ==
  ASSUME TypeOK, [Next]_vars
  PROVE  TypeOK'
<1>1. CASE UNCHANGED vars BY <1>1 DEF TypeOK, vars
<1> QED BY <1>1, BodyStepType, IndexStepType, StagingStepType DEF Next

\* An empty directory opens with well-typed state.
LEMMA InitType == ASSUME Init PROVE TypeOK
BY NoIndexType, MaxHeightAssumption DEF Init, TypeOK, Slot

\* In every reachable state of the store the state is well typed, every flag
\* belongs to a cached record, and the tip and the pruning floor in memory are
\* the persisted ones: no operation, crash or reopen lets them drift apart.
THEOREM TypeCorrect == Spec => []TypeOK
<1>1. Init => TypeOK BY InitType
<1>2. TypeOK /\ [Next]_vars => TypeOK' BY StepType
<1> QED BY <1>1, <1>2, PTL DEF Spec

-----------------------------------------------------------------------------
(***************************************************************************)
(* Every block that a lookup or a cache names is stored.  The argument: no *)
(* step unbacks a block (rows go only below the floor that the same step   *)
(* leaves), and a new entry of a tier or a cache is an old entry of one of *)
(* them or a block that the step leaves backed.                            *)
(***************************************************************************)

\* Where the entry e of a tier may come from at height h.
OldEntry(e, h) == e \in {NoBlock, cfCanonical[h], bin[h], heightCache[h]}
Cached == blockCache \cup headerCache \cup recordCache

\* An entry that one of the tiers held before a step is at its block's height
\* and backed.
LEMMA OldEntryStored ==
  ASSUME TypeOK, StoredInv, NEW h \in Heights, NEW e, OldEntry(e, h), e # NoBlock
  PROVE  e \in Blocks /\ Height[e] = h /\ Backed(e)
BY DEF TypeOK, StoredInv, OldEntry, EntriesStored, Index, Slot

\* A block that get_record finds is backed.
LEMMA KnownBacked ==
  ASSUME TypeOK, StoredInv, NEW b \in Blocks, Known(b)
  PROVE  Backed(b)
BY DEF StoredInv, CachesBacked, BodiesMatchHeaders, Backed, Known

\* The general step.
LEMMA StoredStep ==
  ASSUME TypeOK, TypeOK', StoredInv,
         \A b \in Blocks : Backed(b) => Backed(b)',
         BodiesMatchHeaders',
         \A h \in Heights : \A e \in {cfCanonical'[h], bin'[h], heightCache'[h]} :
           OldEntry(e, h) \/ (Height[e] = h /\ Backed(e)'),
         \A b \in Cached' : b \in Cached \/ Backed(b)'
  PROVE  StoredInv'
<1>1. \A h \in Heights : \A e \in {cfCanonical'[h], bin'[h], heightCache'[h]} :
        e # NoBlock => Height[e] = h /\ Backed(e)'
  BY OldEntryStored
<1>2. /\ EntriesStored(cfCanonical)' /\ EntriesStored(bin)' /\ EntriesStored(heightCache)'
  BY <1>1 DEF EntriesStored
<1>3. CachesBacked'
  <2>1. \A b \in Cached : b \in Blocks /\ Backed(b)
    BY DEF StoredInv, CachesBacked, TypeOK, Cached
  <2>2. \A b \in Cached' : Backed(b)' BY <2>1
  <2> QED BY <2>2 DEF CachesBacked, Cached
<1> QED BY <1>2, <1>3 DEF StoredInv

\* A step that only adds rows, bodies and headers alike, unbacks no block.
LEMMA RowsAdded ==
  ASSUME TypeOK, StoredInv, NEW new \in SUBSET Blocks,
         cfBlocks' = cfBlocks \cup new, cfHeaders' = cfHeaders \cup new,
         minRetained' = minRetained
  PROVE  /\ \A b \in Blocks : Backed(b) => Backed(b)'
         /\ BodiesMatchHeaders'
         /\ \A b \in new : Backed(b)'
BY DEF StoredInv, BodiesMatchHeaders, Backed

\* A step that leaves bodies, headers and the floor alone.
LEMMA RowsKept ==
  ASSUME TypeOK, StoredInv, UNCHANGED <<cfBlocks, cfHeaders, minRetained>>
  PROVE  /\ \A b \in Blocks : Backed(b) => Backed(b)'
         /\ BodiesMatchHeaders'
BY DEF StoredInv, BodiesMatchHeaders, Backed

\* A step that touches neither the index nor the stored blocks.
LEMMA CachesOnly ==
  ASSUME TypeOK, TypeOK', StoredInv, UNCHANGED <<cfBlocks, cfHeaders, minRetained>>,
         UNCHANGED indexVars,
         \A b \in Cached' : b \in Cached \/ Backed(b)
  PROVE  StoredInv'
<1>1. \A h \in Heights : \A e \in {cfCanonical'[h], bin'[h], heightCache'[h]} : OldEntry(e, h)
  BY DEF OldEntry, indexVars
<1>2. \A b \in Cached' : b \in Cached \/ Backed(b)'
  BY DEF Backed
<1> QED BY <1>1, <1>2, RowsKept, StoredStep

\* Operations that never touch the index keep it backed by stored blocks.
LEMMA BodyStepStored ==
  ASSUME TypeOK, TypeOK', StoredInv, BodyNext
  PROVE  StoredInv'
<1>1. ASSUME NEW b \in Blocks, PutBlock(b, FALSE) PROVE StoredInv'
  <2>1. /\ cfBlocks' = cfBlocks \cup {b} /\ cfHeaders' = cfHeaders \cup {b}
        /\ UNCHANGED <<minRetained, cfCanonical, bin, heightCache>>
        /\ Cached' = Cached \cup {b}
    BY <1>1 DEF PutBlock, StoreRows, PutPostCommit, CacheStored, Cached
  <2>2. /\ \A c \in Blocks : Backed(c) => Backed(c)'
        /\ BodiesMatchHeaders' /\ Backed(b)'
    BY <2>1, RowsAdded
  <2>3. \A h \in Heights : \A e \in {cfCanonical'[h], bin'[h], heightCache'[h]} : OldEntry(e, h)
    BY <2>1 DEF OldEntry
  <2> QED BY <2>1, <2>2, <2>3, StoredStep
<1>2. ASSUME NEW b \in Blocks, GetBlock(b) \/ GetHeader(b) PROVE StoredInv'
  <2>1. /\ b \in cfBlocks \cup cfHeaders
        /\ UNCHANGED <<cfBlocks, cfHeaders, minRetained>> /\ UNCHANGED indexVars
        /\ Cached' \subseteq Cached \cup {b}
    BY <1>2 DEF GetBlock, GetHeader, durableBlocks, recordVars, Cached
  <2>2. Backed(b) BY <2>1 DEF StoredInv, BodiesMatchHeaders, Backed
  <2> QED BY <2>1, <2>2, CachesOnly
<1>3. ASSUME NEW b \in Blocks, GetRecord(b) PROVE StoredInv'
  <2>1. /\ Known(b)
        /\ UNCHANGED <<cfBlocks, cfHeaders, minRetained>> /\ UNCHANGED indexVars
        /\ Cached' \subseteq Cached \cup {b}
    BY <1>3 DEF GetRecord, Records, Derived, durableBlocks, Cached
  <2> QED BY <2>1, KnownBacked, CachesOnly
<1>4. ASSUME NEW b \in Blocks,
             InvalidateBlock(b) \/ InvalidateHeader(b) \/ InvalidateRecord(b)
      PROVE  StoredInv'
  <2>1. /\ UNCHANGED <<cfBlocks, cfHeaders, minRetained>> /\ UNCHANGED indexVars
        /\ Cached' \subseteq Cached
    BY <1>4 DEF InvalidateBlock, InvalidateHeader, InvalidateRecord, durableBlocks,
                recordVars, bodyCaches, Cached
  <2> QED BY <2>1, CachesOnly
<1>5. ASSUME NEW b \in Blocks, NEW s \in BOOLEAN, UpdateStatus(b, s) PROVE StoredInv'
  <2>1. /\ UNCHANGED <<cfBlocks, cfHeaders, minRetained>> /\ UNCHANGED indexVars
        /\ Cached' = Cached
    BY <1>5 DEF UpdateStatus, durableBlocks, bodyCaches, Cached
  <2> QED BY <2>1, CachesOnly
<1>6. ASSUME NEW b \in Blocks, PutAttestation(b) PROVE StoredInv'
  <2>1. /\ UNCHANGED <<cfBlocks, cfHeaders, minRetained>> /\ UNCHANGED indexVars
        /\ Cached' = Cached
    BY <1>6 DEF PutAttestation, recordVars, bodyCaches, Cached
  <2> QED BY <2>1, CachesOnly
<1>7. ASSUME NEW b \in Blocks, Compaction(b) PROVE StoredInv'
  <2>1. /\ Height[b] < minRetained
        /\ cfBlocks \ {b} \subseteq cfBlocks' /\ cfBlocks' \subseteq cfBlocks
        /\ cfHeaders \ {b} \subseteq cfHeaders' /\ cfHeaders' \subseteq cfHeaders
        /\ UNCHANGED <<minRetained, cfCanonical, bin, heightCache>>
        /\ Cached' = Cached
    BY <1>7 DEF Compaction, Expired, indexVars, recordVars, bodyCaches, Cached
  <2>2. ~(Height[b] >= minRetained)
    BY <2>1, BlockHeight, LowerType
  <2>3. (\A c \in Blocks : Backed(c) => Backed(c)') /\ BodiesMatchHeaders'
    BY <2>1, <2>2 DEF StoredInv, BodiesMatchHeaders, Backed
  <2>4. \A h \in Heights : \A e \in {cfCanonical'[h], bin'[h], heightCache'[h]} : OldEntry(e, h)
    BY <2>1 DEF OldEntry
  <2> QED BY <2>1, <2>3, <2>4, StoredStep
<1>8. ASSUME NEW lo \in Heights, NEW hi \in Heights, StreamBlocks(lo, hi) PROVE StoredInv'
  <2>1. /\ UNCHANGED <<cfBlocks, cfHeaders, minRetained>> /\ UNCHANGED indexVars
        /\ Cached' \subseteq Cached \cup cfBlocks
    BY <1>8 DEF StreamBlocks, durableBlocks, recordVars, Cached
  <2>2. \A b \in cfBlocks : Backed(b) BY DEF TypeOK, StoredInv, BodiesMatchHeaders, Backed
  <2> QED BY <2>1, <2>2, CachesOnly
<1> QED
  BY <1>1, <1>2, <1>3, <1>4, <1>5, <1>6, <1>7, <1>8, ProbedAssumption, AttestableAssumption,
     StatusesAssumption DEF BodyNext

\* open: memory holds what the durable state holds.
LEMMA RecoverStored ==
  ASSUME TypeOK, TypeOK', StoredInv, NEW warm, Recover(warm),
         \A b \in Blocks : Backed(b) => Backed(b)',
         BodiesMatchHeaders',
         \A h \in Heights : \A e \in {cfCanonical'[h]} :
           OldEntry(e, h) \/ (Height[e] = h /\ Backed(e)')
  PROVE  StoredInv'
<1>1. /\ bin' = cfCanonical'
      /\ \A h \in Heights : heightCache'[h] \in {NoBlock, cfCanonical'[h]}
      /\ Cached' \subseteq cfBlocks'
  <2>1. cfCanonical' \in Index /\ cfBlocks' \subseteq Blocks /\ metaMin' \in Int
    BY MaxHeightAssumption DEF TypeOK
  <2>2. blockCache' \cup headerCache' \cup recordCache' \subseteq cfBlocks'
    BY <2>1, RecoverType
  <2> QED BY <2>1, <2>2, RecoverType DEF Cached
<1>2. \A b \in Cached' : Backed(b)'
  <2>1. cfBlocks' \subseteq Blocks BY DEF TypeOK
  <2> QED BY <1>1, <2>1 DEF BodiesMatchHeaders, Backed
<1>3. \A h \in Heights : \A e \in {cfCanonical'[h], bin'[h], heightCache'[h]} :
        OldEntry(e, h) \/ (Height[e] = h /\ Backed(e)')
  <2>1. \A h \in Heights : OldEntry(NoBlock, h) BY DEF OldEntry
  <2>2. \A h \in Heights : \A e \in {cfCanonical'[h], bin'[h], heightCache'[h]} :
          e \in {NoBlock, cfCanonical'[h]}
    BY <1>1
  <2> QED BY <2>1, <2>2
<1> QED BY <1>2, <1>3, StoredStep

\* After a loop of lookups the cache still names old entries.
LEMMA CacheAfterOld ==
  ASSUME TypeOK, NEW hs, NEW h \in Heights
  PROVE  OldEntry(CacheAfter(hs)[h], h)
BY CacheAfterEntries, LowerType DEF OldEntry

\* What put_block leaves, with or without the tip update of extend_chain.
LEMMA PutStored ==
  ASSUME TypeOK, TypeOK', StoredInv, NEW b \in Blocks,
         StoreRows(b, TRUE), PutPostCommit(b, TRUE), minRetained' = minRetained
  PROVE  StoredInv'
<1>1. /\ cfBlocks' = cfBlocks \cup {b} /\ cfHeaders' = cfHeaders \cup {b}
      /\ cfCanonical' = [cfCanonical EXCEPT ![Height[b]] = b]
      /\ bin' = BinWrite(bin, Height[b], b)
      /\ heightCache' = CacheInsertOne(heightCache, Height[b], b)
      /\ Cached' = Cached \cup {b}
  BY DEF StoreRows, PutPostCommit, CacheStored, Cached
<1>2. /\ \A c \in Blocks : Backed(c) => Backed(c)'
      /\ BodiesMatchHeaders' /\ Backed(b)'
  BY <1>1, RowsAdded
<1>3. cfCanonical \in Index /\ heightCache \in Index BY DEF TypeOK
<1>4. \A h \in Heights : \A e \in {cfCanonical'[h], bin'[h], heightCache'[h]} :
        OldEntry(e, h) \/ (h = Height[b] /\ e = b)
  BY <1>1, <1>3, RowPutType, BinWriteType, BlockHeight, CacheInsertOneEntries DEF OldEntry
<1> QED BY <1>1, <1>2, <1>4, StoredStep

\* What prune_before_height deletes is below its argument.
LEMMA PrunedBelow ==
  ASSUME TypeOK, StoredInv, NEW p \in Int, NEW b \in Pruned(p)
  PROVE  b \in Blocks /\ Height[b] < p
<1>1. CASE b \in cfHeaders /\ Height[b] < p BY <1>1 DEF TypeOK
<1>2. CASE \E h \in Heights : h < p /\ b = Lookup(h) /\ b # NoBlock
  <2>1. PICK h \in Heights : h < p /\ b = Lookup(h) /\ b # NoBlock BY <1>2
  <2>2. OldEntry(b, h) BY <2>1, LookupEntries DEF OldEntry
  <2> QED BY <2>1, <2>2, OldEntryStored
<1> QED BY <1>1, <1>2 DEF Pruned

\* What prune_before_height removes is below the floor it sets.
LEMMA PruneKeeps ==
  ASSUME TypeOK, TypeOK', StoredInv, NEW p \in Int, PruneBeforeHeight(p)
  PROVE  /\ minRetained' >= minRetained
         /\ \A b \in Blocks : Height[b] >= p =>
              /\ b \in cfBlocks' <=> b \in cfBlocks
              /\ b \in cfHeaders' <=> b \in cfHeaders
         /\ \A b \in Blocks : Backed(b) => Backed(b)'
         /\ BodiesMatchHeaders'
<1>1. /\ p > minRetained /\ minRetained' = p
      /\ cfBlocks' = cfBlocks \ Pruned(p) /\ cfHeaders' = cfHeaders \ Pruned(p)
  BY DEF PruneBeforeHeight
<1>2. \A b \in Blocks : Height[b] >= p => b \notin Pruned(p)
  BY PrunedBelow, BlockHeight
<1>3. \A b \in Blocks : Height[b] >= p => Height[b] >= minRetained
  BY <1>1, BlockHeight, LowerType
<1>4. \A b \in Blocks : Height[b] >= p => /\ b \in cfBlocks' <=> b \in cfBlocks
                                          /\ b \in cfHeaders' <=> b \in cfHeaders
  BY <1>1, <1>2
<1>5. \A b \in Blocks : Backed(b) => Backed(b)'
  BY <1>1, <1>3, <1>4 DEF Backed
<1>6. BodiesMatchHeaders'
  BY <1>1, <1>3, <1>4 DEF BodiesMatchHeaders, StoredInv
<1> QED BY <1>1, <1>4, <1>5, <1>6, LowerType

\* apply_reorg enters known blocks, which are stored, at their own heights.
LEMMA ReorgStored ==
  ASSUME TypeOK, TypeOK', StoredInv, NEW a \in Heights, NEW bs, IsList(bs), ApplyReorg(a, bs)
  PROVE  StoredInv'
<1> DEFINE gone == (a + 1)..Height[tip]
           f1 == Without(cfCanonical, gone)
           f2 == BinTruncate(bin, a)
           f3 == Without(CacheAfter(gone), gone)
<1>1. /\ \A b \in Listed(bs) : Known(b)
      /\ cfCanonical' = PutAll(f1, bs, DOMAIN bs)
      /\ bin' = BinPutAll(f2, bs, DOMAIN bs)
      /\ heightCache' = PutAll(f3, bs, DOMAIN bs)
      /\ Cached' \subseteq Cached \cup Listed(bs)
      /\ UNCHANGED <<cfBlocks, cfHeaders, minRetained>>
  BY DEF ApplyReorg, Records, Derived, durableBlocks, floorVars, Cached
<1> HIDE DEF gone
<1>2. \A b \in Listed(bs) : b \in Blocks /\ Backed(b)'
  BY <1>1, ListType, KnownBacked, RowsKept
<1>3. f1 \in Index /\ \A h \in Heights : OldEntry(f1[h], h)
  BY WithoutType DEF OldEntry, TypeOK
<1>4. f2 \in Index /\ \A h \in Heights : OldEntry(f2[h], h)
  <2>1. bin \in Index /\ a \in Int BY DEF TypeOK, Heights
  <2> QED BY <2>1, BinTruncateType DEF OldEntry
<1>5. f3 \in Index /\ \A h \in Heights : OldEntry(f3[h], h)
  BY WithoutType, CacheAfterEntries, CacheAfterOld DEF OldEntry
<1> HIDE DEF f1, f2, f3
<1>6. ASSUME NEW f \in Index, \A h \in Heights : OldEntry(f[h], h)
      PROVE  \A h \in Heights :
               \/ OldEntry(PutAll(f, bs, DOMAIN bs)[h], h)
               \/ /\ Height[PutAll(f, bs, DOMAIN bs)[h]] = h
                  /\ Backed(PutAll(f, bs, DOMAIN bs)[h])'
  BY <1>2, <1>6, PutAllEntries, ListType
<1>7. \A h \in Heights : \A e \in {cfCanonical'[h], bin'[h], heightCache'[h]} :
        OldEntry(e, h) \/ (Height[e] = h /\ Backed(e)')
  BY <1>1, <1>3, <1>4, <1>5, <1>6 DEF BinPutAll
<1> QED BY <1>1, <1>2, <1>7, RowsKept, StoredStep

\* Operations on the index, reopening and crashes only enter blocks that are
\* stored, at their own heights.
LEMMA IndexStepStored ==
  ASSUME TypeOK, TypeOK', StoredInv, IndexNext
  PROVE  StoredInv'
<1>1. ASSUME NEW b \in Blocks, PutBlock(b, TRUE) \/ ExtendChain(b) PROVE StoredInv'
  BY <1>1, PutStored DEF PutBlock, ExtendChain, floorVars
<1>2. ASSUME NEW b \in Blocks, SetTip(b) PROVE StoredInv'
  <2>1. /\ UNCHANGED <<cfBlocks, cfHeaders, minRetained>> /\ UNCHANGED indexVars
        /\ Cached' = Cached
    BY <1>2 DEF SetTip, durableBlocks, floorVars, recordVars, bodyCaches, Cached
  <2> QED BY <2>1, CachesOnly
<1>3. ASSUME NEW b \in Blocks, SetCanonical(b) PROVE StoredInv'
  <2>1. /\ Known(b)
        /\ cfCanonical' = [cfCanonical EXCEPT ![Height[b]] = b]
        /\ bin' = BinWrite(bin, Height[b], b)
        /\ heightCache' = CacheInsertOne(heightCache, Height[b], b)
        /\ Cached' \subseteq Cached \cup {b}
        /\ UNCHANGED <<cfBlocks, cfHeaders, minRetained>>
    BY <1>3 DEF SetCanonical, Records, Derived, durableBlocks, Cached
  <2>2. Backed(b)' BY <2>1, KnownBacked, RowsKept
  <2>3. cfCanonical \in Index /\ heightCache \in Index BY DEF TypeOK
  <2>4. \A h \in Heights : \A e \in {cfCanonical'[h], bin'[h], heightCache'[h]} :
          OldEntry(e, h) \/ (h = Height[b] /\ e = b)
    BY <2>1, <2>3, RowPutType, BinWriteType, BlockHeight, CacheInsertOneEntries DEF OldEntry
  <2> QED BY <2>1, <2>2, <2>4, RowsKept, StoredStep
<1>4. ASSUME NEW t \in Heights, RollbackToHeight(t) PROVE StoredInv'
  <2>1. /\ CanRollback(t)
        /\ cfCanonical' = Without(cfCanonical, (t + 1)..Height[tip])
        /\ bin' = BinTruncate(bin, t)
        /\ heightCache' = RollbackCache(t)
        /\ Cached' = Cached
        /\ UNCHANGED <<cfBlocks, cfHeaders, minRetained>>
    BY <1>4 DEF RollbackToHeight, durableBlocks, floorVars, bodyCaches, Cached
  <2>2. cfCanonical \in Index /\ bin \in Index /\ t \in Int BY DEF TypeOK, Heights
  <2>3. \A h \in Heights : OldEntry(cfCanonical'[h], h)
    BY <2>1, <2>2, WithoutType DEF OldEntry
  <2>4. \A h \in Heights : OldEntry(bin'[h], h)
    BY <2>1, <2>2, BinTruncateType DEF OldEntry
  <2>5. \A h \in Heights : OldEntry(heightCache'[h], h)
    BY <2>1, RollbackEntries, LowerType DEF OldEntry
  <2> QED BY <2>1, <2>3, <2>4, <2>5, RowsKept, StoredStep
<1>5. ASSUME NEW a \in Heights, NEW bs \in Batches, ApplyReorg(a, bs) PROVE StoredInv'
  BY <1>5, BatchIsList, ReorgStored
<1>6. ASSUME NEW p \in 0..(MaxHeight + 1), PruneBeforeHeight(p) PROVE StoredInv'
  <2> DEFINE walked == {h \in Heights : minRetained <= h /\ h < p}
             below == {h \in Heights : h < p}
  <2>1. /\ cfCanonical' = Without(cfCanonical, walked)
        /\ heightCache' = Without(CacheAfter(walked), below)
        /\ bin' = bin
        /\ Cached' \subseteq Cached
    BY <1>6 DEF PruneBeforeHeight, Cached
  <2> HIDE DEF walked, below
  <2>2. cfCanonical \in Index BY DEF TypeOK
  <2>3. \A h \in Heights : \A e \in {cfCanonical'[h], bin'[h], heightCache'[h]} : OldEntry(e, h)
    BY <2>1, <2>2, WithoutType, CacheAfterEntries, CacheAfterOld DEF OldEntry
  <2>4. p \in Int BY MaxHeightAssumption
  <2> QED BY <1>6, <2>1, <2>3, <2>4, PruneKeeps, StoredStep
<1>7. ASSUME NEW h \in Heights, GetHashByHeight(h) PROVE StoredInv'
  <2>1. /\ heightCache' = CacheAfter({h})
        /\ UNCHANGED <<cfBlocks, cfHeaders, minRetained, cfCanonical, bin>>
        /\ Cached' = Cached
    BY <1>7 DEF GetHashByHeight, durableBlocks, recordVars, bodyCaches, Cached
  <2>2. \A k \in Heights : \A e \in {cfCanonical'[k], bin'[k], heightCache'[k]} : OldEntry(e, k)
    BY <2>1, CacheAfterOld DEF OldEntry
  <2> QED BY <2>1, <2>2, RowsKept, StoredStep
<1>8. ASSUME DisableBin PROVE StoredInv'
  <2>1. /\ bin' = NoIndex
        /\ UNCHANGED <<cfBlocks, cfHeaders, minRetained, cfCanonical, heightCache>>
        /\ Cached' = Cached
    BY <1>8 DEF DisableBin, durableBlocks, recordVars, bodyCaches, Cached
  <2>2. \A h \in Heights : \A e \in {cfCanonical'[h], bin'[h], heightCache'[h]} : OldEntry(e, h)
    BY <2>1, NoIndexType DEF OldEntry
  <2> QED BY <2>1, <2>2, RowsKept, StoredStep
<1>9. ASSUME NEW warm \in BOOLEAN, Reopen(warm) PROVE StoredInv'
  <2>1. /\ Recover(warm)
        /\ UNCHANGED <<cfBlocks, cfHeaders, cfCanonical>> /\ metaMin' = metaMin
    BY <1>9 DEF Reopen, durableBlocks, metaVars
  <2>2. minRetained' = minRetained BY <2>1 DEF TypeOK
  <2>3. \A h \in Heights : \A e \in {cfCanonical'[h]} : OldEntry(e, h)
    BY <2>1 DEF OldEntry
  <2> QED BY <2>1, <2>2, <2>3, RowsKept, RecoverStored
<1>10. ASSUME NEW b \in Blocks, NEW warm \in BOOLEAN, ExtendChainCrash(b, warm)
       PROVE  StoredInv'
  <2>1. /\ Recover(warm) /\ metaMin' = metaMin
        /\ cfBlocks' = cfBlocks \cup {b} /\ cfHeaders' = cfHeaders \cup {b}
        /\ cfCanonical' = [cfCanonical EXCEPT ![Height[b]] = b]
    BY <1>10 DEF ExtendChainCrash, StoreRows, metaVars
  <2>2. minRetained' = minRetained BY <2>1 DEF TypeOK
  <2>3. /\ \A c \in Blocks : Backed(c) => Backed(c)'
        /\ BodiesMatchHeaders' /\ Backed(b)'
    BY <2>1, <2>2, RowsAdded
  <2>4. cfCanonical \in Index BY DEF TypeOK
  <2>5. \A h \in Heights : \A e \in {cfCanonical'[h]} :
          OldEntry(e, h) \/ (Height[e] = h /\ Backed(e)')
    <3>1. \A h \in Heights : cfCanonical'[h] = IF h = Height[b] THEN b ELSE cfCanonical[h]
      BY <2>1, <2>4, RowPutType
    <3> QED BY <2>3, <3>1 DEF OldEntry
  <2> QED BY <2>1, <2>3, <2>5, RecoverStored
<1>11. ASSUME NEW t \in Heights, NEW warm \in BOOLEAN, RollbackCrash(t, warm)
       PROVE  StoredInv'
  <2>1. /\ Recover(warm) /\ metaMin' = metaMin
        /\ cfCanonical' = Without(cfCanonical, (t + 1)..Height[tip])
        /\ UNCHANGED <<cfBlocks, cfHeaders>>
    BY <1>11 DEF RollbackCrash, durableBlocks, metaVars
  <2>2. minRetained' = minRetained BY <2>1 DEF TypeOK
  <2>3. cfCanonical \in Index BY DEF TypeOK
  <2>4. \A h \in Heights : \A e \in {cfCanonical'[h]} : OldEntry(e, h)
    BY <2>1, <2>3, WithoutType DEF OldEntry
  <2> QED BY <2>1, <2>2, <2>4, RowsKept, RecoverStored
<1> QED
  BY <1>1, <1>2, <1>3, <1>4, <1>5, <1>6, <1>7, <1>8, <1>9, <1>10, <1>11 DEF IndexNext

\* So do init_genesis, set_canonical_batch and the pipeline's flush.
LEMMA StagingStepStored ==
  ASSUME TypeOK, TypeOK', StoredInv, StagingNext
  PROVE  StoredInv'
<1>1. ASSUME NEW b \in Blocks, InitGenesis(b) PROVE StoredInv'
  <2>1. /\ cfBlocks' = cfBlocks \cup {b} /\ cfHeaders' = cfHeaders \cup {b}
        /\ cfCanonical' = [cfCanonical EXCEPT ![Height[b]] = b]
        /\ bin' = BinWrite(bin, Height[b], b)
        /\ heightCache' = heightCache
        /\ Cached' = Cached \cup {b}
        /\ minRetained' = minRetained
    BY <1>1 DEF InitGenesis, CacheStored, floorVars, Cached
  <2>2. /\ \A c \in Blocks : Backed(c) => Backed(c)'
        /\ BodiesMatchHeaders' /\ Backed(b)'
    BY <2>1, RowsAdded
  <2>3. cfCanonical \in Index BY DEF TypeOK
  <2>4. \A h \in Heights : \A e \in {cfCanonical'[h], bin'[h], heightCache'[h]} :
          OldEntry(e, h) \/ (h = Height[b] /\ e = b)
    BY <2>1, <2>3, RowPutType, BinWriteType DEF OldEntry
  <2> QED BY <2>1, <2>2, <2>4, StoredStep
<1>2. ASSUME NEW bs \in Batches, SetCanonicalBatch(bs) PROVE StoredInv'
  <2>1. /\ \A b \in Listed(bs) : Known(b)
        /\ cfCanonical' = PutAll(cfCanonical, bs, DOMAIN bs)
        /\ bin' = BinPutAll(bin, bs, DOMAIN bs)
        /\ heightCache' = heightCache
        /\ Cached' \subseteq Cached \cup Listed(bs)
        /\ UNCHANGED <<cfBlocks, cfHeaders, minRetained>>
    BY <1>2 DEF SetCanonicalBatch, Records, Derived, durableBlocks, Cached
  <2>2. \A b \in Listed(bs) : b \in Blocks /\ Backed(b)'
    BY <2>1, BatchType, KnownBacked, RowsKept
  <2>3. cfCanonical \in Index /\ bin \in Index BY DEF TypeOK
  <2>4. ASSUME NEW f \in Index
        PROVE  \A h \in Heights : \A e \in {PutAll(f, bs, DOMAIN bs)[h]} :
                 e = f[h] \/ (Height[e] = h /\ Backed(e)')
    BY <2>2, PutAllEntries, BatchType
  <2>5. \A h \in Heights : \A e \in {cfCanonical'[h], bin'[h], heightCache'[h]} :
          OldEntry(e, h) \/ (Height[e] = h /\ Backed(e)')
    BY <2>1, <2>3, <2>4 DEF BinPutAll, OldEntry
  <2> QED BY <2>1, <2>2, <2>5, RowsKept, StoredStep
<1>3. ASSUME NEW js \in JobBatches, FlushPipelineBatch(js) PROVE StoredInv'
  <2> DEFINE bs == [i \in DOMAIN js |-> js[i][1]]
             canon == {i \in Staged(js) : js[i][2]}
             new == {js[i][1] : i \in Staged(js)}
  <2>1. \A i \in canon : bs[i] \in new /\ bs[i] \in Blocks BY JobsType
  <2>2. new \in SUBSET Blocks BY JobsType
  <2>3. /\ cfCanonical' = PutAll(cfCanonical, bs, canon)
        /\ bin' = BinPutAll(bin, bs, canon)
        /\ heightCache' = heightCache
        /\ cfBlocks' = cfBlocks \cup new /\ cfHeaders' = cfHeaders \cup new
        /\ Cached' = Cached \cup new
        /\ minRetained' = minRetained
    BY <1>3 DEF FlushPipelineBatch, CacheStored, Cached
  <2> HIDE DEF bs, canon, new
  <2>4. /\ \A c \in Blocks : Backed(c) => Backed(c)'
        /\ BodiesMatchHeaders'
        /\ \A b \in new : Backed(b)'
    BY <2>2, <2>3, RowsAdded
  <2>5. cfCanonical \in Index /\ bin \in Index BY DEF TypeOK
  <2>6. ASSUME NEW f \in Index
        PROVE  \A h \in Heights : \A e \in {PutAll(f, bs, canon)[h]} :
                 e = f[h] \/ (Height[e] = h /\ Backed(e)')
    BY <2>1, <2>4, PutAllEntries
  <2>7. \A h \in Heights : \A e \in {cfCanonical'[h], bin'[h], heightCache'[h]} :
          OldEntry(e, h) \/ (Height[e] = h /\ Backed(e)')
    BY <2>3, <2>5, <2>6 DEF BinPutAll, OldEntry
  <2> QED BY <2>3, <2>4, <2>7, StoredStep
<1> QED BY <1>1, <1>2, <1>3 DEF StagingNext

\* Every step of the store keeps the index and the caches backed.
LEMMA StepStored ==
  ASSUME TypeOK, StoredInv, [Next]_vars
  PROVE  StoredInv'
<1>1. TypeOK' BY StepType
<1>2. CASE UNCHANGED vars
  BY <1>2 DEF vars, StoredInv, EntriesStored, BodiesMatchHeaders, CachesBacked, Backed
<1> QED BY <1>1, <1>2, BodyStepStored, IndexStepStored, StagingStepStored DEF Next

\* An empty store has nothing to back.
LEMMA InitStored == ASSUME Init PROVE StoredInv
BY NoIndexType DEF Init, StoredInv, EntriesStored, BodiesMatchHeaders, CachesBacked, Backed

\* A lookup answers from one of the three tiers, so what it returns is stored.
LEMMA StoredGivesLookup == ASSUME TypeOK, StoredInv PROVE LookupIsStored
<1> SUFFICES ASSUME NEW h \in Heights, Lookup(h) # NoBlock
             PROVE  Lookup(h) \in cfBlocks \cap cfHeaders /\ Height[Lookup(h)] = h
  BY DEF LookupIsStored
<1>1. h >= minRetained /\ OldEntry(Lookup(h), h) BY LookupEntries DEF OldEntry
<1>2. Height[Lookup(h)] = h /\ Backed(Lookup(h)) BY <1>1, OldEntryStored
<1> QED BY <1>1, <1>2 DEF Backed

\* The entries of all three index tiers and of all caches name stored blocks,
\* in every reachable state of the store.
THEOREM StoredInvariant == Spec => [](TypeOK /\ StoredInv)
<1>1. Init => TypeOK /\ StoredInv BY InitType, InitStored
<1>2. TypeOK /\ StoredInv /\ [Next]_vars => (TypeOK /\ StoredInv)' BY StepType, StepStored
<1> QED BY <1>1, <1>2, PTL DEF Spec

\* get_hash_by_height never answers with a block that the store does not hold,
\* nor with one of another height.
THEOREM LookupAlwaysStored == Spec => []LookupIsStored
<1>1. TypeOK /\ StoredInv => LookupIsStored BY StoredGivesLookup
<1> QED BY <1>1, StoredInvariant, PTL

\* No cache vouches for a block that was lost.
THEOREM CachesAlwaysBacked == Spec => []CachesBacked
<1>1. TypeOK /\ StoredInv => CachesBacked BY DEF StoredInv
<1> QED BY <1>1, StoredInvariant, PTL

-----------------------------------------------------------------------------
(***************************************************************************)
(* Fork preservation.                                                      *)
(***************************************************************************)

\* The step property of RetainedBlocksKept.
KeepsRetained ==
  /\ minRetained' >= minRetained
  /\ \A b \in (cfBlocks \ cfBlocks') \cup (cfHeaders \ cfHeaders') :
       Height[b] < minRetained'

\* Every step but pruning and compaction.
LEMMA NothingDeleted ==
  ASSUME TypeOK, minRetained' = minRetained,
         cfBlocks \subseteq cfBlocks', cfHeaders \subseteq cfHeaders'
  PROVE  KeepsRetained
BY LowerType DEF KeepsRetained

\* Opening takes the floor from disk.
LEMMA RecoverFloor ==
  ASSUME TypeOK, NEW warm, Recover(warm), metaMin' = metaMin
  PROVE  minRetained' = minRetained
BY DEF TypeOK, Recover

\* No operation, crash or open moves the floor down or loses a retained block.
LEMMA StepKeepsRetained ==
  ASSUME TypeOK, StoredInv, [Next]_vars
  PROVE  KeepsRetained
<1>1. ASSUME NEW p \in 0..(MaxHeight + 1), PruneBeforeHeight(p) PROVE KeepsRetained
  <2>1. p \in Int /\ minRetained' = p BY <1>1, MaxHeightAssumption DEF PruneBeforeHeight
  <2>2. TypeOK' BY <1>1, IndexStepType DEF IndexNext
  <2>3. \A b \in Blocks : Height[b] >= p => /\ b \in cfBlocks' <=> b \in cfBlocks
                                            /\ b \in cfHeaders' <=> b \in cfHeaders
    BY <1>1, <2>1, <2>2, PruneKeeps
  <2>4. \A b \in (cfBlocks \ cfBlocks') \cup (cfHeaders \ cfHeaders') : Height[b] < p
    BY <2>1, <2>3, BlockHeight DEF TypeOK
  <2>5. minRetained' >= minRetained BY <1>1, <2>1, <2>2, PruneKeeps
  <2> QED BY <2>1, <2>4, <2>5 DEF KeepsRetained
<1>2. ASSUME NEW b \in Blocks, Compaction(b) PROVE KeepsRetained
  BY <1>2, LowerType DEF Compaction, Expired, KeepsRetained
<1>3. CASE BodyNext
  <2>1. ASSUME NEW b \in Blocks, PutBlock(b, FALSE) PROVE KeepsRetained
    BY <2>1, NothingDeleted DEF PutBlock, StoreRows
  <2>2. ASSUME NEW b \in Blocks,
               \/ GetBlock(b) \/ GetHeader(b) \/ GetRecord(b)
               \/ InvalidateBlock(b) \/ InvalidateHeader(b) \/ InvalidateRecord(b)
               \/ \E s \in Statuses : UpdateStatus(b, s)
               \/ PutAttestation(b)
        PROVE  KeepsRetained
    BY <2>2, NothingDeleted
       DEF GetBlock, GetHeader, GetRecord, InvalidateBlock, InvalidateHeader,
           InvalidateRecord, UpdateStatus, PutAttestation, durableBlocks
  <2>3. ASSUME NEW lo \in Heights, NEW hi \in Heights, StreamBlocks(lo, hi)
        PROVE  KeepsRetained
    BY <2>3, NothingDeleted DEF StreamBlocks, durableBlocks
  <2> QED BY <1>2, <1>3, <2>1, <2>2, <2>3, ProbedAssumption, AttestableAssumption DEF BodyNext
<1>4. CASE IndexNext
  <2>1. ASSUME NEW b \in Blocks, PutBlock(b, TRUE) \/ ExtendChain(b) PROVE KeepsRetained
    BY <2>1, NothingDeleted DEF PutBlock, ExtendChain, StoreRows, floorVars
  <2>2. ASSUME NEW b \in Blocks, SetTip(b) \/ SetCanonical(b) PROVE KeepsRetained
    BY <2>2, NothingDeleted DEF SetTip, SetCanonical, durableBlocks, floorVars
  <2>3. ASSUME NEW h \in Heights, RollbackToHeight(h) \/ GetHashByHeight(h)
        PROVE  KeepsRetained
    BY <2>3, NothingDeleted DEF RollbackToHeight, GetHashByHeight, durableBlocks, floorVars
  <2>4. ASSUME NEW a \in Heights, NEW bs \in Batches, ApplyReorg(a, bs) PROVE KeepsRetained
    BY <2>4, NothingDeleted DEF ApplyReorg, durableBlocks, floorVars
  <2>5. CASE DisableBin
    BY <2>5, NothingDeleted DEF DisableBin, durableBlocks
  <2>6. ASSUME NEW warm \in BOOLEAN,
               \/ Reopen(warm)
               \/ \E b \in Blocks : ExtendChainCrash(b, warm)
               \/ \E t \in Heights : RollbackCrash(t, warm)
        PROVE  KeepsRetained
    <3>1. /\ Recover(warm) /\ metaMin' = metaMin
          /\ cfBlocks \subseteq cfBlocks' /\ cfHeaders \subseteq cfHeaders'
      BY <2>6 DEF Reopen, ExtendChainCrash, RollbackCrash, StoreRows, durableBlocks, metaVars
    <3> QED BY <3>1, RecoverFloor, NothingDeleted
  <2> QED BY <1>1, <1>4, <2>1, <2>2, <2>3, <2>4, <2>5, <2>6 DEF IndexNext
<1>5. CASE StagingNext
  BY <1>5, NothingDeleted DEF StagingNext, InitGenesis, SetCanonicalBatch,
     FlushPipelineBatch, durableBlocks, floorVars
<1>6. CASE UNCHANGED vars BY <1>6, NothingDeleted DEF vars
<1> QED BY <1>3, <1>4, <1>5, <1>6 DEF Next

\* Rollbacks, reorgs, crashes and reopens keep every block at or above the
\* pruning floor, and the floor never moves down.
THEOREM RetainedAlwaysKept == Spec => RetainedBlocksKept
<1>1. TypeOK /\ StoredInv /\ [Next]_vars => [KeepsRetained]_vars
  BY StepKeepsRetained
<1> QED BY <1>1, StoredInvariant, PTL DEF Spec, RetainedBlocksKept, KeepsRetained

-----------------------------------------------------------------------------
(***************************************************************************)
(* The tiers of the index agree.  A tier agrees with CF_CANONICAL when it  *)
(* has no entry but the row's at every height from the floor up.           *)
(***************************************************************************)

Agrees(f) == \A h \in Heights : h >= minRetained => f[h] \in {NoBlock, cfCanonical[h]}
BinInv == Agrees(bin) /\ (binMode = "disabled" => bin = NoIndex)
CacheInv == Agrees(heightCache)

\* What a step does to CF_CANONICAL and canonical.bin, in the three ways that
\* operations write them.
LEMMA RowPutAgrees ==
  ASSUME TypeOK, TypeOK', BinInv, NEW b \in Blocks,
         cfCanonical' = [cfCanonical EXCEPT ![Height[b]] = b],
         bin' = BinWrite(bin, Height[b], b),
         UNCHANGED <<minRetained, binMode>>
  PROVE  BinInv'
<1>1. cfCanonical \in Index /\ binMode \in {"rw", "disabled"} BY DEF TypeOK
<1>2. \A h \in Heights : cfCanonical'[h] = IF h = Height[b] THEN b ELSE cfCanonical[h]
  BY <1>1, RowPutType
<1>3. \A h \in Heights :
        bin'[h] = IF binMode = "rw" /\ h = Height[b] THEN b ELSE bin[h]
  BY BinWriteType
<1>4. binMode = "disabled" => bin' = NoIndex /\ \A h \in Heights : bin'[h] = NoBlock
  BY NoIndexType DEF BinInv, BinWrite
<1>5. Agrees(bin)'
  <2> SUFFICES ASSUME NEW h \in Heights, h >= minRetained
               PROVE  bin'[h] \in {NoBlock, cfCanonical'[h]}
    BY DEF Agrees
  <2>1. CASE binMode = "rw" BY <2>1, <1>2, <1>3 DEF BinInv, Agrees
  <2>2. CASE binMode = "disabled" BY <2>2, <1>4
  <2> QED BY <1>1, <2>1, <2>2
<1> QED BY <1>4, <1>5 DEF BinInv

\* A list written to CF_CANONICAL and to another tier keeps them in agreement.
LEMMA ListPutAgrees ==
  ASSUME TypeOK, TypeOK', NEW rows \in Index, NEW f \in Index, NEW bs, NEW I,
         \A i \in I : bs[i] \in Blocks,
         \A h \in Heights : h >= minRetained => f[h] \in {NoBlock, rows[h]},
         binMode = "disabled" => f = NoIndex,
         cfCanonical' = PutAll(rows, bs, I),
         bin' = BinPutAll(f, bs, I),
         UNCHANGED <<minRetained, binMode>>
  PROVE  BinInv'
<1>1. binMode \in {"rw", "disabled"} BY DEF TypeOK
<1>2. CASE binMode = "rw"
  <2>1. bin' = PutAll(f, bs, I) BY <1>2 DEF BinPutAll
  <2>2. \A h \in Heights : \/ bin'[h] = cfCanonical'[h]
                           \/ bin'[h] = f[h] /\ cfCanonical'[h] = rows[h]
    BY <2>1, PutAllEntries
  <2> QED BY <1>2, <2>2 DEF BinInv, Agrees
<1>3. CASE binMode = "disabled"
  <2>1. bin' = NoIndex BY <1>3 DEF BinPutAll
  <2> QED BY <2>1, NoIndexType DEF BinInv, Agrees
<1> QED BY <1>1, <1>2, <1>3

\* canonical.bin and the height cache are rebuilt from CF_CANONICAL by open.
LEMMA RecoverAgrees ==
  ASSUME TypeOK', NEW warm, Recover(warm)
  PROVE  BinInv' /\ CacheInv'
<1>1. cfCanonical' \in Index /\ cfBlocks' \subseteq Blocks /\ metaMin' \in Int
  BY MaxHeightAssumption DEF TypeOK
<1>2. /\ bin' = cfCanonical'
      /\ \A h \in Heights : heightCache'[h] \in {NoBlock, cfCanonical'[h]}
  BY <1>1, RecoverType
<1>3. binMode' = "rw" BY DEF Recover
<1> QED BY <1>2, <1>3 DEF BinInv, CacheInv, Agrees

\* A rollback or a reorg removes from canonical.bin whatever it removes from
\* CF_CANONICAL.
LEMMA TruncateAgrees ==
  ASSUME TypeOK, BinInv, NEW t \in Heights, NEW top
  PROVE  LET rows == Without(cfCanonical, (t + 1)..top)
             f == BinTruncate(bin, t)
         IN  /\ rows \in Index /\ f \in Index
             /\ \A h \in Heights : h >= minRetained => f[h] \in {NoBlock, rows[h]}
             /\ binMode = "disabled" => f = NoIndex
<1> DEFINE gone == (t + 1)..top
           rows == Without(cfCanonical, gone)
           f == BinTruncate(bin, t)
<1>1. t \in Int /\ cfCanonical \in Index /\ bin \in Index BY DEF TypeOK, Heights
<1>2. f \in Index /\ \A h \in Heights : f[h] = IF h <= t THEN bin[h] ELSE NoBlock
  BY <1>1, BinTruncateType
<1>3. rows \in Index /\ \A h \in Heights : h <= t => rows[h] = cfCanonical[h]
  <2>1. \A h \in Heights : h <= t => h \notin gone BY <1>1 DEF Heights
  <2> HIDE DEF gone
  <2> QED BY <1>1, <2>1, WithoutType
<1>4. binMode = "disabled" => f = NoIndex
  BY DEF BinInv, BinTruncate, NoIndex
<1> HIDE DEF rows, f
<1>5. \A h \in Heights : h >= minRetained => f[h] \in {NoBlock, rows[h]}
  BY <1>2, <1>3 DEF BinInv, Agrees
<1> QED BY <1>2, <1>3, <1>4, <1>5 DEF rows, f

\* A step that leaves index and floor alone keeps canonical.bin in agreement.
LEMMA IndexUntouched ==
  ASSUME BinInv, UNCHANGED <<cfCanonical, bin, binMode, minRetained>>
  PROVE  BinInv'
BY DEF BinInv, Agrees

\* apply_reorg truncates and extends canonical.bin as it does CF_CANONICAL.
LEMMA ReorgBin ==
  ASSUME TypeOK, TypeOK', BinInv, NEW a \in Heights, NEW bs, IsList(bs), ApplyReorg(a, bs)
  PROVE  BinInv'
<1> DEFINE rows == Without(cfCanonical, (a + 1)..Height[tip])
           f == BinTruncate(bin, a)
<1>1. /\ cfCanonical' = PutAll(rows, bs, DOMAIN bs)
      /\ bin' = BinPutAll(f, bs, DOMAIN bs)
      /\ UNCHANGED <<minRetained, binMode>>
  BY DEF ApplyReorg, floorVars
<1>2. /\ rows \in Index /\ f \in Index
      /\ \A h \in Heights : h >= minRetained => f[h] \in {NoBlock, rows[h]}
      /\ binMode = "disabled" => f = NoIndex
  BY TruncateAgrees
<1>3. \A i \in DOMAIN bs : bs[i] \in Blocks BY ListType
<1> HIDE DEF rows, f
<1> QED BY <1>1, <1>2, <1>3, ListPutAgrees

\* Every step keeps canonical.bin in agreement with CF_CANONICAL.
LEMMA StepBin ==
  ASSUME TypeOK, TypeOK', BinInv, [Next]_vars
  PROVE  BinInv'
<1>1. CASE BodyNext
  <2>1. UNCHANGED <<cfCanonical, bin, binMode, minRetained>>
    BY <1>1 DEF BodyNext, PutBlock, StoreRows, PutPostCommit, GetBlock, GetHeader,
       GetRecord, InvalidateBlock, InvalidateHeader, InvalidateRecord, UpdateStatus,
       PutAttestation, Compaction, StreamBlocks, indexVars
  <2> QED BY <2>1, IndexUntouched
<1>2. ASSUME NEW b \in Blocks,
             PutBlock(b, TRUE) \/ ExtendChain(b) \/ SetCanonical(b) \/ InitGenesis(b)
      PROVE  BinInv'
  <2>1. /\ cfCanonical' = [cfCanonical EXCEPT ![Height[b]] = b]
        /\ bin' = BinWrite(bin, Height[b], b)
        /\ UNCHANGED <<minRetained, binMode>>
    BY <1>2 DEF PutBlock, ExtendChain, SetCanonical, InitGenesis, StoreRows,
                PutPostCommit, floorVars
  <2> QED BY <2>1, RowPutAgrees
<1>3. ASSUME NEW b \in Blocks, SetTip(b) PROVE BinInv'
  BY <1>3, IndexUntouched DEF SetTip, indexVars, floorVars
<1>4. ASSUME NEW t \in Heights, RollbackToHeight(t) PROVE BinInv'
  <2> DEFINE rows == Without(cfCanonical, (t + 1)..Height[tip])
             f == BinTruncate(bin, t)
  <2>1. cfCanonical' = rows /\ bin' = f /\ UNCHANGED <<minRetained, binMode>>
    BY <1>4 DEF RollbackToHeight, floorVars
  <2>2. /\ \A h \in Heights : h >= minRetained => f[h] \in {NoBlock, rows[h]}
        /\ binMode = "disabled" => f = NoIndex
    BY TruncateAgrees
  <2> HIDE DEF rows, f
  <2> QED BY <2>1, <2>2 DEF BinInv, Agrees
<1>5. ASSUME NEW a \in Heights, NEW bs \in Batches, ApplyReorg(a, bs) PROVE BinInv'
  BY <1>5, BatchIsList, ReorgBin
<1>6. ASSUME NEW p \in 0..(MaxHeight + 1), PruneBeforeHeight(p) PROVE BinInv'
  <2> DEFINE walked == {h \in Heights : minRetained <= h /\ h < p}
  <2>1. /\ cfCanonical' = Without(cfCanonical, walked)
        /\ p > minRetained /\ minRetained' = p
        /\ UNCHANGED <<bin, binMode>>
    BY <1>6 DEF PruneBeforeHeight
  <2>2. cfCanonical \in Index /\ minRetained \in Int BY LowerType DEF TypeOK
  <2>3. \A h \in Heights : h >= p => h >= minRetained /\ h \notin walked
    BY <2>1, <2>2, MaxHeightAssumption DEF Heights
  <2> HIDE DEF walked
  <2>4. \A h \in Heights : h >= p => cfCanonical'[h] = cfCanonical[h]
    BY <2>1, <2>2, <2>3, WithoutType
  <2> QED BY <2>1, <2>3, <2>4 DEF BinInv, Agrees
<1>7. ASSUME NEW h \in Heights, GetHashByHeight(h) PROVE BinInv'
  BY <1>7, IndexUntouched DEF GetHashByHeight
<1>8. CASE DisableBin
  BY <1>8, NoIndexType DEF DisableBin, BinInv, Agrees
<1>9. ASSUME NEW warm \in BOOLEAN, Recover(warm) PROVE BinInv'
  BY <1>9, RecoverAgrees
<1>10. ASSUME NEW bs \in Batches, SetCanonicalBatch(bs) PROVE BinInv'
  <2>1. /\ cfCanonical' = PutAll(cfCanonical, bs, DOMAIN bs)
        /\ bin' = BinPutAll(bin, bs, DOMAIN bs)
        /\ UNCHANGED <<minRetained, binMode>>
    BY <1>10 DEF SetCanonicalBatch
  <2>2. cfCanonical \in Index /\ bin \in Index BY DEF TypeOK
  <2>3. \A i \in DOMAIN bs : bs[i] \in Blocks BY BatchType
  <2> QED BY <2>1, <2>2, <2>3, ListPutAgrees DEF BinInv, Agrees
<1>11. ASSUME NEW js \in JobBatches, FlushPipelineBatch(js) PROVE BinInv'
  <2> DEFINE bs == [i \in DOMAIN js |-> js[i][1]]
             canon == {i \in Staged(js) : js[i][2]}
  <2>1. /\ cfCanonical' = PutAll(cfCanonical, bs, canon)
        /\ bin' = BinPutAll(bin, bs, canon)
        /\ UNCHANGED <<minRetained, binMode>>
    BY <1>11 DEF FlushPipelineBatch
  <2>2. cfCanonical \in Index /\ bin \in Index BY DEF TypeOK
  <2>3. \A i \in canon : bs[i] \in Blocks BY JobsType
  <2> HIDE DEF bs, canon
  <2> QED BY <2>1, <2>2, <2>3, ListPutAgrees DEF BinInv, Agrees
<1>12. CASE UNCHANGED vars BY <1>12, IndexUntouched DEF vars
<1>13. CASE IndexNext
  BY <1>2, <1>3, <1>4, <1>5, <1>6, <1>7, <1>8, <1>9, <1>13
     DEF IndexNext, Reopen, ExtendChainCrash, RollbackCrash
<1>14. CASE StagingNext BY <1>2, <1>10, <1>11, <1>14 DEF StagingNext
<1> QED BY <1>1, <1>12, <1>13, <1>14 DEF Next

\* Above the floor, canonical.bin and CF_CANONICAL never disagree, whichever
\* operations ran, in whatever order, with the file disabled and rebuilt.
THEOREM BinAlwaysAgrees == Spec => []BinAgrees
<1>1. Init => TypeOK /\ BinInv
  BY InitType, NoIndexType DEF Init, BinInv, Agrees
<1>2. TypeOK /\ BinInv /\ [Next]_vars => (TypeOK /\ BinInv)'
  BY StepType, StepBin
<1>3. TypeOK /\ BinInv => BinAgrees BY DEF BinInv, Agrees, BinAgrees
<1> QED BY <1>1, <1>2, <1>3, PTL DEF Spec

-----------------------------------------------------------------------------
(***************************************************************************)
(* The height cache, when the index is written only by operations that     *)
(* update it.  Capacity 0 is excluded: apply_reorg fills the cache even    *)
(* then, and nothing else would update what it put there.                  *)
(***************************************************************************)

IndexStep == BodyNext \/ IndexNext \/ GenesisFirst

\* IndexSpec restricts Spec, so what Spec keeps holds under it too.
LEMMA IndexStepIsStep == ASSUME [IndexStep]_vars PROVE [Next]_vars
BY DEF IndexStep, Next, StagingNext, GenesisFirst

\* Lookups bring rows into the cache and nothing else.
LEMMA LowerAgrees ==
  ASSUME TypeOK, BinInv, NEW h \in Heights, h >= minRetained
  PROVE  Lower[h] = cfCanonical[h]
BY LowerType DEF BinInv, Agrees

\* A walk of get_hash_by_height brings only current rows into the cache.
LEMMA CacheAfterAgrees ==
  ASSUME TypeOK, BinInv, CacheInv, NEW hs, NEW h \in Heights, h >= minRetained
  PROVE  CacheAfter(hs)[h] \in {NoBlock, cfCanonical[h]}
BY CacheAfterEntries, LowerAgrees DEF CacheInv, Agrees

\* A row written to CF_CANONICAL and inserted into the height cache leaves no
\* stale entry: an insert replaces the old entry at its height if the cache has
\* a capacity, and there is no old entry if there was no row.
LEMMA InsertAgrees ==
  ASSUME TypeOK, CacheInv, NEW b \in Blocks,
         HeightCacheCapacity # 0 \/ cfCanonical[Height[b]] = NoBlock,
         cfCanonical' = [cfCanonical EXCEPT ![Height[b]] = b],
         heightCache' = CacheInsertOne(heightCache, Height[b], b),
         minRetained' = minRetained
  PROVE  CacheInv'
<1>1. cfCanonical \in Index /\ heightCache \in Index /\ Height[b] \in Heights
  BY BlockHeight DEF TypeOK
<1>2. \A h \in Heights : cfCanonical'[h] = IF h = Height[b] THEN b ELSE cfCanonical[h]
  BY <1>1, RowPutType
<1>3. \A h \in Heights : h >= minRetained => heightCache'[h] \in
        {NoBlock, IF h = Height[b] THEN b ELSE heightCache[h]}
  <2>1. /\ \A h \in Heights : h # Height[b] => heightCache'[h] \in {NoBlock, heightCache[h]}
        /\ heightCache'[Height[b]] \in {NoBlock, heightCache[Height[b]], b}
        /\ HeightCacheCapacity # 0 => heightCache'[Height[b]] \in {NoBlock, b}
    BY <1>1, CacheInsertOneEntries
  <2>2. cfCanonical[Height[b]] = NoBlock /\ Height[b] >= minRetained
          => heightCache[Height[b]] = NoBlock
    BY <1>1 DEF CacheInv, Agrees
  <2> QED BY <2>1, <2>2
<1> QED BY <1>2, <1>3 DEF CacheInv, Agrees

\* apply_reorg inserts into the height cache whatever its capacity.
LEMMA ReorgCache ==
  ASSUME TypeOK, BinInv, CacheInv, NEW a \in Heights, NEW bs, IsList(bs), ApplyReorg(a, bs)
  PROVE  CacheInv'
<1> DEFINE gone == (a + 1)..Height[tip]
           rows == Without(cfCanonical, gone)
           f == Without(CacheAfter(gone), gone)
<1>1. /\ cfCanonical' = PutAll(rows, bs, DOMAIN bs)
      /\ heightCache' = PutAll(f, bs, DOMAIN bs)
      /\ minRetained' = minRetained
  BY DEF ApplyReorg, floorVars
<1> HIDE DEF gone
<1>2. cfCanonical \in Index /\ CacheAfter(gone) \in Index
  BY CacheAfterEntries DEF TypeOK
<1>3. /\ rows \in Index /\ f \in Index
      /\ \A h \in Heights : rows[h] = IF h \in gone THEN NoBlock ELSE cfCanonical[h]
      /\ \A h \in Heights : f[h] = IF h \in gone THEN NoBlock ELSE CacheAfter(gone)[h]
  BY <1>2, WithoutType
<1>4. \A h \in Heights : h >= minRetained => f[h] \in {NoBlock, rows[h]}
  BY <1>3, CacheAfterAgrees
<1>5. \A i \in DOMAIN bs : bs[i] \in Blocks BY ListType
<1> HIDE DEF rows, f
<1>6. \A h \in Heights : \/ heightCache'[h] = cfCanonical'[h]
                         \/ heightCache'[h] = f[h] /\ cfCanonical'[h] = rows[h]
  BY <1>1, <1>3, <1>5, PutAllEntries
<1> QED BY <1>1, <1>4, <1>6 DEF CacheInv, Agrees

\* The steps that write no canonical row, or the genesis row only.
QuietStep ==
  \/ BodyNext
  \/ \E b \in Blocks : SetTip(b)
  \/ \E t \in Heights : RollbackToHeight(t)
  \/ \E p \in 0..(MaxHeight + 1) : PruneBeforeHeight(p)
  \/ \E h \in Heights : GetHashByHeight(h)
  \/ DisableBin
  \/ \E warm \in BOOLEAN : Recover(warm)
  \/ GenesisFirst
  \/ UNCHANGED vars

\* They drop the cache entries whose rows they delete.
LEMMA QuietStepCache ==
  ASSUME TypeOK, TypeOK', BinInv, CacheInv, QuietStep
  PROVE  CacheInv'
<1>1. CASE BodyNext
  <2>1. UNCHANGED <<cfCanonical, heightCache, minRetained>>
    BY <1>1 DEF BodyNext, PutBlock, StoreRows, PutPostCommit, GetBlock, GetHeader,
       GetRecord, InvalidateBlock, InvalidateHeader, InvalidateRecord, UpdateStatus,
       PutAttestation, Compaction, StreamBlocks, indexVars
  <2> QED BY <2>1 DEF CacheInv, Agrees
<1>2. ASSUME NEW b \in Blocks, SetTip(b) PROVE CacheInv'
  BY <1>2 DEF SetTip, indexVars, floorVars, CacheInv, Agrees
<1>3. ASSUME NEW t \in Heights, RollbackToHeight(t) PROVE CacheInv'
  <2> DEFINE gone == (t + 1)..Height[tip]
  <2>1. /\ CanRollback(t)
        /\ cfCanonical' = Without(cfCanonical, gone)
        /\ heightCache' = RollbackCache(t)
        /\ minRetained' = minRetained
    BY <1>3 DEF RollbackToHeight, floorVars
  <2>2. \A h \in Heights : h \in gone => heightCache'[h] = NoBlock
    BY <2>1, RollbackEntries
  <2>3. \A h \in Heights : h >= minRetained => heightCache'[h] \in {NoBlock, cfCanonical[h]}
    BY <2>1, RollbackEntries, LowerAgrees DEF CacheInv, Agrees
  <2> HIDE DEF gone
  <2>4. \A h \in Heights : h \notin gone => cfCanonical'[h] = cfCanonical[h]
    BY <2>1, WithoutType DEF TypeOK
  <2> QED BY <2>1, <2>2, <2>3, <2>4 DEF CacheInv, Agrees
<1>4. ASSUME NEW p \in 0..(MaxHeight + 1), PruneBeforeHeight(p) PROVE CacheInv'
  <2> DEFINE walked == {h \in Heights : minRetained <= h /\ h < p}
             below == {h \in Heights : h < p}
  <2>1. /\ cfCanonical' = Without(cfCanonical, walked)
        /\ heightCache' = Without(CacheAfter(walked), below)
        /\ p > minRetained /\ minRetained' = p
    BY <1>4 DEF PruneBeforeHeight
  <2>2. minRetained \in Int /\ cfCanonical \in Index BY LowerType DEF TypeOK
  <2>3. \A h \in Heights : h >= p => h >= minRetained /\ h \notin walked /\ h \notin below
    BY <2>1, <2>2, MaxHeightAssumption DEF Heights
  <2> HIDE DEF walked, below
  <2>4. \A h \in Heights : h >= p => /\ cfCanonical'[h] = cfCanonical[h]
                                     /\ heightCache'[h] = CacheAfter(walked)[h]
    BY <2>1, <2>2, <2>3, WithoutType, CacheAfterEntries
  <2> QED BY <2>1, <2>3, <2>4, CacheAfterAgrees DEF CacheInv, Agrees
<1>5. ASSUME NEW k \in Heights, GetHashByHeight(k) PROVE CacheInv'
  BY <1>5, CacheAfterAgrees DEF GetHashByHeight, CacheInv, Agrees
<1>6. CASE DisableBin BY <1>6 DEF DisableBin, CacheInv, Agrees
<1>7. ASSUME NEW warm \in BOOLEAN, Recover(warm) PROVE CacheInv'
  BY <1>7, RecoverAgrees
<1>8. CASE GenesisFirst
  <2>1. PICK b \in Blocks : cfCanonical[0] = NoBlock /\ InitGenesis(b)
    BY <1>8 DEF GenesisFirst
  <2>2. /\ Height[b] = 0 /\ cfCanonical' = [cfCanonical EXCEPT ![Height[b]] = b]
        /\ UNCHANGED <<heightCache, minRetained>>
    BY <2>1 DEF InitGenesis, floorVars
  <2>3. \A h \in Heights : cfCanonical'[h] = IF h = 0 THEN b ELSE cfCanonical[h]
    BY <2>2, RowPutType DEF TypeOK
  <2> QED BY <2>1, <2>2, <2>3 DEF CacheInv, Agrees
<1>9. CASE UNCHANGED vars BY <1>9 DEF vars, CacheInv, Agrees
<1> QED BY <1>1, <1>2, <1>3, <1>4, <1>5, <1>6, <1>7, <1>8, <1>9 DEF QuietStep

\* With a capacity, each operation of IndexSpec refreshes or drops the cache
\* entries whose rows it changes.
LEMMA StepCache ==
  ASSUME TypeOK, TypeOK', BinInv, CacheInv, HeightCacheCapacity # 0, [IndexStep]_vars
  PROVE  CacheInv'
<1>1. ASSUME NEW b \in Blocks, PutBlock(b, TRUE) \/ ExtendChain(b) \/ SetCanonical(b)
      PROVE  CacheInv'
  <2>1. /\ cfCanonical' = [cfCanonical EXCEPT ![Height[b]] = b]
        /\ heightCache' = CacheInsertOne(heightCache, Height[b], b)
        /\ minRetained' = minRetained
    BY <1>1 DEF PutBlock, ExtendChain, SetCanonical, StoreRows, PutPostCommit, floorVars
  <2> QED BY <2>1, InsertAgrees
<1>2. ASSUME NEW a \in Heights, NEW bs \in Batches, ApplyReorg(a, bs) PROVE CacheInv'
  BY <1>2, BatchIsList, ReorgCache
<1>3. CASE BodyNext \/ GenesisFirst \/ UNCHANGED vars
  BY <1>3, QuietStepCache DEF QuietStep
<1>4. CASE IndexNext
  BY <1>1, <1>2, <1>4, QuietStepCache
     DEF IndexNext, QuietStep, Reopen, ExtendChainCrash, RollbackCrash
<1> QED BY <1>3, <1>4 DEF IndexStep

\* When blocks reach the index by put_block, extend_chain, set_canonical and
\* apply_reorg, and the genesis block comes first, get_hash_by_height answers
\* with the CF_CANONICAL row whichever tier it reads, through evictions,
\* rollbacks, pruning, crashes and reopens.
THEOREM LookupAlwaysCanonical ==
  HeightCacheCapacity # 0 => (IndexSpec => []LookupIsCanonical)
<1> SUFFICES ASSUME HeightCacheCapacity # 0 PROVE IndexSpec => []LookupIsCanonical
  OBVIOUS
<1> DEFINE Inv == TypeOK /\ BinInv /\ CacheInv
<1>1. Init => Inv
  BY InitType, NoIndexType DEF Init, BinInv, CacheInv, Agrees
<1>2. Inv /\ [IndexStep]_vars => Inv'
  BY StepType, StepBin, StepCache, IndexStepIsStep
<1>3. Inv => LookupIsCanonical
  <2> SUFFICES ASSUME Inv, NEW h \in Heights, h >= minRetained
               PROVE  Lookup(h) = cfCanonical[h]
    BY DEF LookupIsCanonical
  <2>1. Lookup(h) = IF heightCache[h] # NoBlock THEN heightCache[h] ELSE Lower[h]
    BY LowerType DEF Lookup, LookupIn, Heights
  <2> QED BY <2>1, LowerAgrees DEF CacheInv, Agrees
<1> QED BY <1>1, <1>2, <1>3, PTL DEF IndexSpec, IndexStep

-----------------------------------------------------------------------------
(***************************************************************************)
(* The height cache, whichever operations write the index and however      *)
(* stale it already is.                                                    *)
(***************************************************************************)

\* The height cache follows the row of h: its entry is current after the step,
\* or gone, or neither the entry nor the row has changed.
Follows(h) ==
  \/ heightCache'[h] \in {NoBlock, cfCanonical'[h]}
  \/ heightCache'[h] = heightCache[h] /\ cfCanonical'[h] = cfCanonical[h]

\* Rollback and reorg: the entries of the rows they delete go too, and the walk
\* over those rows caches only current ones.
LEMMA RollbackFollows ==
  ASSUME TypeOK, BinInv, NEW t \in Heights, RollbackToHeight(t),
         NEW h \in Heights, h >= minRetained
  PROVE  Follows(h)
<1> DEFINE gone == (t + 1)..Height[tip]
<1>1. /\ CanRollback(t)
      /\ cfCanonical' = Without(cfCanonical, gone)
      /\ heightCache' = RollbackCache(t)
  BY DEF RollbackToHeight
<1>2. h \in gone => heightCache'[h] = NoBlock BY <1>1, RollbackEntries
<1>3. heightCache'[h] \in {NoBlock, heightCache[h], cfCanonical[h]}
  BY <1>1, RollbackEntries, LowerAgrees
<1> HIDE DEF gone
<1>4. h \notin gone => cfCanonical'[h] = cfCanonical[h] BY <1>1, WithoutType DEF TypeOK
<1> QED BY <1>2, <1>3, <1>4 DEF Follows

\* apply_reorg caches exactly the rows it puts.
LEMMA ReorgFollows ==
  ASSUME TypeOK, BinInv, NEW a \in Heights, NEW bs, IsList(bs), ApplyReorg(a, bs),
         NEW h \in Heights, h >= minRetained
  PROVE  Follows(h)
<1> DEFINE gone == (a + 1)..Height[tip]
           rows == Without(cfCanonical, gone)
           f == Without(CacheAfter(gone), gone)
<1>1. /\ cfCanonical' = PutAll(rows, bs, DOMAIN bs)
      /\ heightCache' = PutAll(f, bs, DOMAIN bs)
  BY DEF ApplyReorg
<1> HIDE DEF gone
<1>2. cfCanonical \in Index /\ CacheAfter(gone) \in Index
  BY CacheAfterEntries DEF TypeOK
<1>3. /\ rows \in Index /\ f \in Index
      /\ rows[h] = IF h \in gone THEN NoBlock ELSE cfCanonical[h]
      /\ f[h] = IF h \in gone THEN NoBlock ELSE CacheAfter(gone)[h]
  BY <1>2, WithoutType
<1>4. CacheAfter(gone)[h] \in {NoBlock, heightCache[h], cfCanonical[h]}
  BY CacheAfterEntries, LowerAgrees
<1>5. \A i \in DOMAIN bs : bs[i] \in Blocks BY ListType
<1> HIDE DEF rows, f
<1>6. \/ heightCache'[h] = cfCanonical'[h]
      \/ heightCache'[h] = f[h] /\ cfCanonical'[h] = rows[h]
  BY <1>1, <1>3, <1>5, PutAllEntries
<1> QED BY <1>3, <1>4, <1>6 DEF Follows

\* Pruning: above the new floor it deletes nothing, and its walk caches only
\* current rows.
LEMMA PruneFollows ==
  ASSUME TypeOK, BinInv, NEW p \in 0..(MaxHeight + 1), PruneBeforeHeight(p),
         NEW h \in Heights, h >= p
  PROVE  Follows(h)
<1> DEFINE walked == {k \in Heights : minRetained <= k /\ k < p}
           below == {k \in Heights : k < p}
<1>1. /\ cfCanonical' = Without(cfCanonical, walked)
      /\ heightCache' = Without(CacheAfter(walked), below)
      /\ p > minRetained
  BY DEF PruneBeforeHeight
<1>2. minRetained \in Int /\ cfCanonical \in Index BY LowerType DEF TypeOK
<1>3. h >= minRetained /\ h \notin walked /\ h \notin below
  BY <1>1, <1>2, MaxHeightAssumption DEF Heights
<1> HIDE DEF walked, below
<1>4. /\ cfCanonical'[h] = cfCanonical[h]
      /\ heightCache'[h] = CacheAfter(walked)[h]
  BY <1>1, <1>2, <1>3, WithoutType, CacheAfterEntries
<1>5. heightCache'[h] \in {NoBlock, heightCache[h], cfCanonical[h]}
  BY <1>3, <1>4, CacheAfterEntries, LowerAgrees
<1> QED BY <1>4, <1>5 DEF Follows

\* Each operation outside StagingNext refreshes or drops the entry of every row
\* it changes and caches only current rows, from any cache.
LEMMA StepFollows ==
  ASSUME TypeOK, TypeOK', BinInv, HeightCacheCapacity # 0, BodyNext \/ IndexNext,
         NEW h \in Heights, h >= minRetained, h >= minRetained'
  PROVE  Follows(h)
<1>1. CASE BodyNext
  <2>1. UNCHANGED <<cfCanonical, heightCache>>
    BY <1>1 DEF BodyNext, PutBlock, StoreRows, PutPostCommit, GetBlock, GetHeader,
       GetRecord, InvalidateBlock, InvalidateHeader, InvalidateRecord, UpdateStatus,
       PutAttestation, Compaction, StreamBlocks, indexVars
  <2> QED BY <2>1 DEF Follows
<1>2. ASSUME NEW b \in Blocks, PutBlock(b, TRUE) \/ ExtendChain(b) \/ SetCanonical(b)
      PROVE  Follows(h)
  <2>1. /\ cfCanonical' = [cfCanonical EXCEPT ![Height[b]] = b]
        /\ heightCache' = CacheInsertOne(heightCache, Height[b], b)
    BY <1>2 DEF PutBlock, ExtendChain, SetCanonical, StoreRows, PutPostCommit
  <2>2. cfCanonical \in Index /\ heightCache \in Index /\ Height[b] \in Heights
    BY BlockHeight DEF TypeOK
  <2>3. cfCanonical'[h] = IF h = Height[b] THEN b ELSE cfCanonical[h]
    BY <2>1, <2>2, RowPutType
  <2>4. /\ h # Height[b] => heightCache'[h] \in {NoBlock, heightCache[h]}
        /\ heightCache'[Height[b]] \in {NoBlock, b}
    BY <2>1, <2>2, CacheInsertOneEntries
  <2> QED BY <2>3, <2>4 DEF Follows
<1>3. ASSUME NEW b \in Blocks, SetTip(b) PROVE Follows(h)
  BY <1>3 DEF SetTip, indexVars, Follows
<1>4. ASSUME NEW t \in Heights, RollbackToHeight(t) PROVE Follows(h)
  BY <1>4, RollbackFollows
<1>5. ASSUME NEW a \in Heights, NEW bs \in Batches, ApplyReorg(a, bs) PROVE Follows(h)
  BY <1>5, BatchIsList, ReorgFollows
<1>6. ASSUME NEW p \in 0..(MaxHeight + 1), PruneBeforeHeight(p) PROVE Follows(h)
  <2>1. minRetained' = p BY <1>6 DEF PruneBeforeHeight
  <2> QED BY <1>6, <2>1, PruneFollows
<1>7. ASSUME NEW k \in Heights, GetHashByHeight(k) PROVE Follows(h)
  BY <1>7, CacheAfterEntries, LowerAgrees DEF GetHashByHeight, Follows
<1>8. CASE DisableBin BY <1>8 DEF DisableBin, Follows
<1>9. ASSUME NEW warm \in BOOLEAN, Recover(warm) PROVE Follows(h)
  BY <1>9, RecoverAgrees DEF CacheInv, Agrees, Follows
<1>10. CASE IndexNext
  BY <1>2, <1>3, <1>4, <1>5, <1>6, <1>7, <1>8, <1>9, <1>10
     DEF IndexNext, Reopen, ExtendChainCrash, RollbackCrash
<1> QED BY <1>1, <1>10

\* With every operation called in any order, an entry of the height cache above
\* the floor becomes outdated only through init_genesis, set_canonical_batch or
\* a pipeline flush, which write CF_CANONICAL and leave the cache alone.
THEOREM OnlyStagingEverOutdates ==
  HeightCacheCapacity # 0 => (Spec => OnlyStagingOutdates)
<1> SUFFICES ASSUME HeightCacheCapacity # 0 PROVE Spec => OnlyStagingOutdates
  OBVIOUS
<1> DEFINE Inv == TypeOK /\ StoredInv /\ BinInv
           Step == \A h \in Heights :
                     Outdated(h)' => (Outdated(h) /\ heightCache'[h] = heightCache[h])
                                       \/ StagingNext
<1>1. Init => Inv
  BY InitType, InitStored, NoIndexType DEF Init, BinInv, Agrees
<1>2. Inv /\ [Next]_vars => Inv'
  BY StepType, StepStored, StepBin
<1>3. Inv /\ [Next]_vars => [Step]_vars
  <2> SUFFICES ASSUME Inv, Next, ~StagingNext, NEW h \in Heights, Outdated(h)'
               PROVE  Outdated(h) /\ heightCache'[h] = heightCache[h]
    BY DEF Next
  <2>1. TypeOK' BY StepType
  <2>2. minRetained \in Int /\ minRetained' \in Int /\ h \in Int
    BY <2>1, MaxHeightAssumption DEF TypeOK, Heights
  <2>3. h >= minRetained' /\ heightCache'[h] \notin {NoBlock, cfCanonical'[h]}
    BY DEF Outdated
  <2>4. h >= minRetained
    <3>1. minRetained' >= minRetained BY StepKeepsRetained DEF KeepsRetained
    <3> QED BY <2>2, <2>3, <3>1
  <2>5. Follows(h) BY <2>1, <2>3, <2>4, StepFollows DEF Next
  <2> QED BY <2>3, <2>4, <2>5 DEF Follows, Outdated
<1> QED BY <1>1, <1>2, <1>3, PTL DEF Spec, OnlyStagingOutdates

-----------------------------------------------------------------------------
(***************************************************************************)
(* The in_canonical_chain flag.                                            *)
(***************************************************************************)

\* A row that names a cached record names a block.
LEMMA FlagStep ==
  ASSUME TypeOK',
         \A h \in Heights : \A b \in Blocks :
           cfCanonical'[h] = b /\ b \in recordCache' /\ b \notin orphaned'
             => b \in inCanonicalChain'
  PROVE  CanonicalIsFlagged'
BY DEF CanonicalIsFlagged, TypeOK

\* Blocks that enter the record cache by a write are flagged.
LEMMA CacheStoredFlags ==
  ASSUME TypeOK, TypeOK', CanonicalIsFlagged, NEW new \in SUBSET Blocks, CacheStored(new),
         \A h \in Heights : cfCanonical'[h] = cfCanonical[h] \/ cfCanonical'[h] \in new
  PROVE  CanonicalIsFlagged'
BY FlagStep DEF CacheStored, CanonicalIsFlagged

\* So are blocks that get_record derives; what is unset is not in a row.
LEMMA RecordsFlags ==
  ASSUME TypeOK, TypeOK', CanonicalIsFlagged,
         NEW bs \in SUBSET Blocks, NEW unset, NEW set, Records(bs, unset, set),
         \A h \in Heights :
           \/ cfCanonical'[h] \in {NoBlock} \cup set
           \/ cfCanonical'[h] = cfCanonical[h] /\ cfCanonical[h] \notin unset
  PROVE  CanonicalIsFlagged'
<1>1. NoBlock \notin Blocks BY NoBlockAssumption
<1> QED BY <1>1, FlagStep DEF Records, Derived, CanonicalIsFlagged

\* The walk of a rollback or a reorg unflags no block of a row that stays.
LEMMA RevertedNotKept ==
  ASSUME TypeOK, StoredInv, NEW t \in Heights, tip # NoBlock, NEW h \in Heights,
         h \notin (t + 1)..Height[tip], cfCanonical[h] # NoBlock
  PROVE  cfCanonical[h] \notin Reverted(t, Height[tip])
<1> SUFFICES ASSUME cfCanonical[h] \in Reverted(t, Height[tip]) PROVE FALSE
  OBVIOUS
<1>1. t \in Int /\ t >= 0 /\ Height[tip] \in Heights
  BY BlockHeight DEF Heights, TypeOK, Slot
<1>2. PICK k \in Heights : /\ t < k /\ k <= Height[tip]
                           /\ cfCanonical[h] \in {heightCache[k], bin[k], cfCanonical[k]}
  BY <1>1, RevertedEntries
<1>3. Height[cfCanonical[h]] = k BY <1>2, OldEntryStored DEF OldEntry
<1>4. Height[cfCanonical[h]] = h BY OldEntryStored DEF OldEntry
<1> QED BY <1>1, <1>2, <1>3, <1>4 DEF Heights

\* Each operation flags the records of what it indexes.
LEMMA StepFlags ==
  ASSUME TypeOK, TypeOK', StoredInv, CanonicalIsFlagged, [Next]_vars
  PROVE  CanonicalIsFlagged'
<1>1. ASSUME NEW b \in Blocks, NEW c \in BOOLEAN,
             \/ PutBlock(b, c) \/ ExtendChain(b) \/ InitGenesis(b)
      PROVE  CanonicalIsFlagged'
  <2>1. CacheStored({b})
    BY <1>1 DEF PutBlock, ExtendChain, InitGenesis, PutPostCommit
  <2>2. \E h \in Heights : cfCanonical' \in {cfCanonical, [cfCanonical EXCEPT ![h] = b]}
    <3>1. Height[b] \in Heights /\ 0 \in Heights
      BY BlockHeight, MaxHeightAssumption DEF Heights
    <3>2. CASE PutBlock(b, c) BY <3>1, <3>2 DEF PutBlock, StoreRows
    <3>3. CASE ExtendChain(b) BY <3>1, <3>3 DEF ExtendChain, StoreRows
    <3>4. CASE InitGenesis(b) BY <3>1, <3>4 DEF InitGenesis
    <3> QED BY <1>1, <3>2, <3>3, <3>4
  <2>3. \A h \in Heights : cfCanonical'[h] = cfCanonical[h] \/ cfCanonical'[h] \in {b}
    BY <2>2 DEF TypeOK, Index
  <2> QED BY <2>1, <2>3, CacheStoredFlags
<1>2. ASSUME NEW js \in JobBatches, FlushPipelineBatch(js) PROVE CanonicalIsFlagged'
  <2> DEFINE bs == [i \in DOMAIN js |-> js[i][1]]
             canon == {i \in Staged(js) : js[i][2]}
             new == {js[i][1] : i \in Staged(js)}
  <2>1. cfCanonical' = PutAll(cfCanonical, bs, canon) /\ CacheStored(new)
    BY <1>2 DEF FlushPipelineBatch
  <2>2. new \in SUBSET Blocks /\ \A i \in canon : bs[i] \in Blocks /\ bs[i] \in new
    BY JobsType
  <2> HIDE DEF bs, canon, new
  <2>3. \A h \in Heights : cfCanonical'[h] = cfCanonical[h] \/ cfCanonical'[h] \in new
    BY <2>1, <2>2, PutAllEntries DEF TypeOK
  <2> QED BY <2>1, <2>2, <2>3, CacheStoredFlags
<1>3. ASSUME NEW b \in Blocks, SetCanonical(b) PROVE CanonicalIsFlagged'
  <2>1. /\ cfCanonical' = [cfCanonical EXCEPT ![Height[b]] = b]
        /\ Records({b}, {}, {b})
    BY <1>3 DEF SetCanonical
  <2>2. \A h \in Heights : cfCanonical'[h] = cfCanonical[h] \/ cfCanonical'[h] \in {b}
    BY <2>1, RowPutType DEF TypeOK
  <2> QED BY <2>1, <2>2, RecordsFlags
<1>4. ASSUME NEW bs \in Batches, SetCanonicalBatch(bs) PROVE CanonicalIsFlagged'
  <2>1. /\ cfCanonical' = PutAll(cfCanonical, bs, DOMAIN bs)
        /\ Records(Listed(bs), {}, Listed(bs))
    BY <1>4 DEF SetCanonicalBatch
  <2>2. \A h \in Heights : cfCanonical'[h] = cfCanonical[h] \/ cfCanonical'[h] \in Listed(bs)
    BY <2>1, BatchType, PutAllEntries DEF TypeOK
  <2> QED BY <2>1, <2>2, BatchType, RecordsFlags
<1>5. ASSUME NEW a \in Heights, NEW bs \in Batches, ApplyReorg(a, bs)
      PROVE  CanonicalIsFlagged'
  <2> DEFINE gone == (a + 1)..Height[tip]
             rows == Without(cfCanonical, gone)
  <2>1. /\ tip # NoBlock
        /\ cfCanonical' = PutAll(rows, bs, DOMAIN bs)
        /\ Records(Listed(bs), Reverted(a, Height[tip]), Listed(bs))
    BY <1>5 DEF ApplyReorg
  <2>2. \A h \in Heights : h \notin gone /\ cfCanonical[h] # NoBlock
                             => cfCanonical[h] \notin Reverted(a, Height[tip])
    BY <2>1, RevertedNotKept
  <2> HIDE DEF gone
  <2>3. rows \in Index /\ \A h \in Heights :
                            rows[h] = IF h \in gone THEN NoBlock ELSE cfCanonical[h]
    BY WithoutType DEF TypeOK
  <2> HIDE DEF rows
  <2>4. \A h \in Heights : cfCanonical'[h] = rows[h] \/ cfCanonical'[h] \in Listed(bs)
    BY <2>1, <2>3, BatchType, PutAllEntries
  <2>5. \A h \in Heights :
          \/ cfCanonical'[h] \in {NoBlock} \cup Listed(bs)
          \/ /\ cfCanonical'[h] = cfCanonical[h]
             /\ cfCanonical[h] \notin Reverted(a, Height[tip])
    BY <2>2, <2>3, <2>4
  <2> QED BY <2>1, <2>5, BatchType, RecordsFlags
<1>6. ASSUME NEW t \in Heights, RollbackToHeight(t) PROVE CanonicalIsFlagged'
  <2> DEFINE gone == (t + 1)..Height[tip]
  <2>1. /\ tip # NoBlock
        /\ cfCanonical' = Without(cfCanonical, gone)
        /\ inCanonicalChain' = inCanonicalChain \ Reverted(t, Height[tip])
        /\ UNCHANGED <<recordCache, orphaned>>
    BY <1>6 DEF RollbackToHeight, CanRollback
  <2>2. \A h \in Heights : h \notin gone /\ cfCanonical[h] # NoBlock
                             => cfCanonical[h] \notin Reverted(t, Height[tip])
    BY <2>1, RevertedNotKept
  <2> HIDE DEF gone
  <2>3. \A h \in Heights : cfCanonical'[h] = IF h \in gone THEN NoBlock ELSE cfCanonical[h]
    BY <2>1, WithoutType DEF TypeOK
  <2> QED BY <2>1, <2>2, <2>3, NoBlockAssumption, FlagStep DEF CanonicalIsFlagged
<1>7. ASSUME NEW p \in 0..(MaxHeight + 1), PruneBeforeHeight(p) PROVE CanonicalIsFlagged'
  <2> DEFINE walked == {h \in Heights : minRetained <= h /\ h < p}
  <2>1. /\ cfCanonical' = Without(cfCanonical, walked)
        /\ recordCache' = recordCache \ Pruned(p)
        /\ inCanonicalChain' = inCanonicalChain \ Pruned(p)
        /\ orphaned' = orphaned \ Pruned(p)
    BY <1>7 DEF PruneBeforeHeight
  <2> HIDE DEF walked
  <2>2. \A h \in Heights : cfCanonical'[h] \in {NoBlock, cfCanonical[h]}
    BY <2>1, WithoutType DEF TypeOK
  <2> QED BY <2>1, <2>2, NoBlockAssumption, FlagStep DEF CanonicalIsFlagged
<1>8. ASSUME NEW b \in Blocks, GetRecord(b) PROVE CanonicalIsFlagged'
  <2>1. Records({b}, {}, {}) /\ cfCanonical' = cfCanonical
    BY <1>8 DEF GetRecord, indexVars
  <2> QED BY <2>1, RecordsFlags
<1>9. ASSUME NEW b \in Blocks, NEW s \in BOOLEAN, UpdateStatus(b, s) \/ InvalidateRecord(b)
      PROVE  CanonicalIsFlagged'
  BY <1>9, FlagStep DEF UpdateStatus, InvalidateRecord, indexVars, CanonicalIsFlagged
<1>10. ASSUME NEW warm \in BOOLEAN, Recover(warm) PROVE CanonicalIsFlagged'
  BY <1>10, FlagStep DEF Recover
<1>11. ASSUME UNCHANGED cfCanonical, UNCHANGED recordVars PROVE CanonicalIsFlagged'
  BY <1>11, FlagStep DEF recordVars, CanonicalIsFlagged
<1>12. CASE BodyNext
  <2>1. ASSUME NEW b \in Blocks,
               \/ GetBlock(b) \/ GetHeader(b) \/ InvalidateBlock(b) \/ InvalidateHeader(b)
               \/ PutAttestation(b) \/ Compaction(b)
        PROVE  UNCHANGED cfCanonical /\ UNCHANGED recordVars
    BY <2>1 DEF GetBlock, GetHeader, InvalidateBlock, InvalidateHeader, PutAttestation,
                Compaction, indexVars
  <2>2. ASSUME NEW lo \in Heights, NEW hi \in Heights, StreamBlocks(lo, hi)
        PROVE  UNCHANGED cfCanonical /\ UNCHANGED recordVars
    BY <2>2 DEF StreamBlocks, indexVars
  <2> QED BY <1>1, <1>8, <1>9, <1>11, <1>12, <2>1, <2>2, ProbedAssumption,
             AttestableAssumption, StatusesAssumption DEF BodyNext
<1>13. CASE IndexNext
  <2>1. CASE DisableBin
    BY <1>11, <2>1 DEF DisableBin
  <2>2. ASSUME NEW h \in Heights, GetHashByHeight(h) PROVE CanonicalIsFlagged'
    BY <1>11, <2>2 DEF GetHashByHeight
  <2>3. ASSUME NEW b \in Blocks, SetTip(b) PROVE CanonicalIsFlagged'
    BY <1>11, <2>3 DEF SetTip, indexVars
  <2> QED BY <1>1, <1>3, <1>5, <1>6, <1>7, <1>10, <1>13, <2>1, <2>2, <2>3
             DEF IndexNext, Reopen, ExtendChainCrash, RollbackCrash
<1>14. CASE StagingNext BY <1>1, <1>2, <1>4, <1>14 DEF StagingNext
<1>15. CASE UNCHANGED vars BY <1>11, <1>15 DEF vars, recordVars
<1> QED BY <1>12, <1>13, <1>14, <1>15 DEF Next

\* The cached record of a canonical block is flagged so unless its status was
\* set to a non-canonical one: a rollback or reorg never unflags a block whose
\* row it keeps, even when a stale cache entry misleads its walk.
THEOREM CanonicalAlwaysFlagged == Spec => []CanonicalIsFlagged
<1>1. Init => CanonicalIsFlagged BY DEF Init, CanonicalIsFlagged
<1>2. TypeOK /\ StoredInv /\ CanonicalIsFlagged /\ [Next]_vars => CanonicalIsFlagged'
  BY StepType, StepFlags
<1> QED BY <1>1, <1>2, StoredInvariant, PTL DEF Spec

=============================================================================
