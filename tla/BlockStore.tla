----------------------------- MODULE BlockStore -----------------------------
(***************************************************************************)
(* The block store of dig-blockstore seen through its public API, one      *)
(* action per operation, each operation run to completion.  Durable state  *)
(* is what RocksDB holds; everything else is rebuilt by BlockStore::open.  *)
(*                                                                         *)
(* A block is identified with its hash.  The height->hash index has three  *)
(* tiers: CF_CANONICAL (durable), canonical.bin (a dense file mapped into  *)
(* memory) and canonical_height_cache (a bounded map).                     *)
(*                                                                         *)
(* Left out: bytes and compression, the hash_to_height_cache (written and  *)
(* evicted but never read), and operations that return an error before     *)
(* they write or find nothing to do, which are stuttering steps.  LRU      *)
(* eviction from the block and header caches has the effect of the         *)
(* Invalidate actions.  put_block that fails in dictionary training has    *)
(* written and cached everything: it is a PutBlock whose caller is told of *)
(* an error.                                                               *)
(***************************************************************************)
EXTENDS HeightIndex

CONSTANTS
  WarmDepth,             \* config.warm_cache_depth
  CompactionPruning,     \* config.enable_compaction_pruning
  Batches,               \* bound: hash lists given to batch and reorg calls
  JobBatches,            \* bound: batches the write pipeline collects
  Attestable,            \* bound: blocks that get an attestation
  Probed,                \* bound: blocks read, evicted and compacted by hash
  Statuses               \* bound: values of is_canonical() of new statuses

ASSUME WarmDepthAssumption == WarmDepth \in Nat
ASSUME CompactionAssumption == CompactionPruning \in BOOLEAN
ASSUME BatchesAssumption == \A bs \in Batches : bs \in Seq(Blocks) /\ bs # << >>
ASSUME JobsAssumption == \A js \in JobBatches : js \in Seq(Blocks \X BOOLEAN)
ASSUME AttestableAssumption == Attestable \subseteq Blocks
ASSUME ProbedAssumption == Probed \subseteq Blocks
ASSUME StatusesAssumption == Statuses \subseteq BOOLEAN

VARIABLES
  \* RocksDB column families
  cfBlocks, cfHeaders, cfAttested, cfCanonical,
  metaTip, metaGenesis,
  metaMin,               \* META_MIN_HEIGHT, 0 when the key is absent
  \* process memory
  tip, minRetained,
  binMode, bin,          \* canonical.bin: mapped or disabled, and its slots
  heightCache,
  recordCache,           \* blocks with a cached BlockRecord ...
  inCanonicalChain,      \* ... of them, those flagged in_canonical_chain
  orphaned,              \* ... of them, those whose status is not canonical
  blockCache, headerCache

durableBlocks == <<cfBlocks, cfHeaders, cfAttested>>
metaVars == <<metaTip, metaGenesis, metaMin>>
tipVars == <<metaTip, tip>>
floorVars == <<metaMin, minRetained>>
indexVars == <<cfCanonical, binMode, bin, heightCache>>
recordVars == <<recordCache, inCanonicalChain, orphaned>>
bodyCaches == <<blockCache, headerCache>>
vars == <<cfBlocks, cfHeaders, cfAttested, cfCanonical, metaTip, metaGenesis,
          metaMin, tip, minRetained, binMode, bin, heightCache, recordCache,
          inCanonicalChain, orphaned, blockCache, headerCache>>

-----------------------------------------------------------------------------
(***************************************************************************)
(* The height->hash index.                                                 *)
(***************************************************************************)

\* extend_write: a disabled canonical.bin ignores writes.
BinWrite(f, h, b) == IF binMode = "rw" THEN [f EXCEPT ![h] = b] ELSE f
BinPutAll(f, bs, I) == IF binMode = "rw" THEN PutAll(f, bs, I) ELSE f

\* Tiers 1 and 2 of get_hash_by_height: canonical.bin, then CF_CANONICAL.
Lower == [h \in Heights |-> IF bin[h] # NoBlock THEN bin[h] ELSE cfCanonical[h]]

\* get_hash_by_height.
Lookup(h) == LookupIn(heightCache, Lower, minRetained, h)

\* The height cache after get_hash_by_height of the heights hs.
CacheAfter(hs) == ReadThrough(heightCache, Lower, minRetained, hs)

\* The hashes that a walk down from top to bottom + 1 collects.
Reverted(bottom, top) ==
  {WalkSees(heightCache, Lower, minRetained, top, h) : h \in (bottom + 1)..top}
    \ {NoBlock}

-----------------------------------------------------------------------------
(***************************************************************************)
(* Presence of a block and its record.                                     *)
(***************************************************************************)

HasBlock(b) == b \in blockCache \cup headerCache \cup cfHeaders \cup cfBlocks

\* get_record(b) finds one: cached, derived from a header, or read from disk.
Known(b) == b \in recordCache \cup headerCache \cup cfHeaders

\* Records that get_record derives for bs; a derived record is Validated.
Derived(bs) == bs \ recordCache

\* Mutant: the flags of the reverted blocks are cleared last.
RecordsUnsetLast(bs, unset, set) ==
  /\ recordCache' = recordCache \cup bs
  /\ inCanonicalChain' = (inCanonicalChain \cup Derived(bs) \cup
                            (set \cap (recordCache \cup bs))) \ unset
  /\ orphaned' = orphaned
  /\ headerCache' = headerCache \cup Derived(bs)

\* get_record for every block of bs, then the in_canonical_chain updates.
Records(bs, unset, set) ==
  /\ recordCache' = recordCache \cup bs
  /\ inCanonicalChain' = ((inCanonicalChain \cup Derived(bs)) \ unset)
                            \cup (set \cap (recordCache \cup bs))
  /\ orphaned' = orphaned
  /\ headerCache' = headerCache \cup Derived(bs)

\* A block that was just written enters the body, header and record caches.
CacheStored(new) ==
  /\ recordCache' = recordCache \cup new
  /\ inCanonicalChain' = inCanonicalChain \cup new
  /\ orphaned' = orphaned \ new
  /\ blockCache' = blockCache \cup new
  /\ headerCache' = headerCache \cup new

\* The blocks of a list.
Listed(bs) == {bs[i] : i \in DOMAIN bs}

-----------------------------------------------------------------------------
(***************************************************************************)
(* Opening.  An empty directory opens with no rows and no tip; a later     *)
(* open rebuilds canonical.bin from CF_CANONICAL, loads the tip and the    *)
(* pruning floor, and may warm the caches by walking down from the tip.    *)
(***************************************************************************)

Init ==
  /\ cfBlocks = {} /\ cfHeaders = {} /\ cfAttested = {}
  /\ cfCanonical = NoIndex
  /\ metaTip = NoBlock /\ metaGenesis = NoBlock /\ metaMin = 0
  /\ tip = NoBlock /\ minRetained = 0
  /\ binMode = "rw" /\ bin = NoIndex
  /\ heightCache = NoIndex
  /\ recordCache = {} /\ inCanonicalChain = {} /\ orphaned = {}
  /\ blockCache = {} /\ headerCache = {}

\* The heights warm_caches visits: WarmDepth of them, at least the tip's.
WarmHeights(t) ==
  IF t = NoBlock THEN {}
  ELSE {h \in Heights : h <= Height[t] /\ (h = Height[t] \/ h + WarmDepth > Height[t])}

\* Process memory after open, from the durable state that the step leaves.
Recover(warm) ==
  LET hs == IF warm THEN {h \in WarmHeights(metaTip') : h >= metaMin'} ELSE {}
      found == {cfCanonical'[h] : h \in hs} \cap cfBlocks'
  IN  /\ tip' = metaTip'
      /\ minRetained' = metaMin'
      /\ binMode' = "rw"
      /\ bin' = DenseFromCf(cfCanonical')
      /\ heightCache' = CacheInsert(NoIndex,
            [h \in Heights |-> IF h \in hs THEN cfCanonical'[h] ELSE NoBlock])
      /\ recordCache' = found
      /\ inCanonicalChain' = found
      /\ orphaned' = {}
      /\ blockCache' = found
      /\ headerCache' = found

\* The process ends, between two operations, and the store is opened again.
Reopen(warm) ==
  /\ UNCHANGED <<durableBlocks, cfCanonical, metaVars>>
  /\ Recover(warm)

-----------------------------------------------------------------------------
(***************************************************************************)
(* Storing blocks.                                                         *)
(***************************************************************************)

\* init_genesis: the height cache is not touched.
InitGenesis(b) ==
  /\ metaTip = NoBlock /\ metaGenesis = NoBlock
  /\ Height[b] = 0
  /\ cfBlocks' = cfBlocks \cup {b}
  /\ cfHeaders' = cfHeaders \cup {b}
  /\ cfCanonical' = [cfCanonical EXCEPT ![0] = b]
  /\ metaTip' = b
  /\ metaGenesis' = b
  /\ bin' = BinWrite(bin, 0, b)
  /\ tip' = b
  /\ CacheStored({b})
  /\ UNCHANGED <<cfAttested, floorVars, binMode, heightCache>>

\* Mutant: the batch misses the header row.
StoreRowsNoHeader(b, canonical) ==
  /\ cfBlocks' = cfBlocks \cup {b}
  /\ cfHeaders' = cfHeaders
  /\ cfCanonical' = IF canonical THEN [cfCanonical EXCEPT ![Height[b]] = b]
                                 ELSE cfCanonical

\* The WriteBatch of put_block.
StoreRows(b, canonical) ==
  /\ cfBlocks' = cfBlocks \cup {b}
  /\ cfHeaders' = cfHeaders \cup {b}
  /\ cfCanonical' = IF canonical THEN [cfCanonical EXCEPT ![Height[b]] = b]
                                 ELSE cfCanonical

\* What put_block does after its WriteBatch.
PutPostCommit(b, canonical) ==
  /\ IF canonical
       THEN /\ bin' = BinWrite(bin, Height[b], b)
            /\ heightCache' = CacheInsertOne(heightCache, Height[b], b)
       ELSE UNCHANGED <<bin, heightCache>>
  /\ CacheStored({b})

\* put_block of a block that CF_BLOCKS does not hold.
PutBlock(b, canonical) ==
  /\ b \notin cfBlocks
  /\ StoreRows(b, canonical)
  /\ PutPostCommit(b, canonical)
  /\ UNCHANGED <<cfAttested, metaVars, tip, minRetained, binMode>>

\* extend_chain of a new block: put(block, true), then set_tip.
ExtendChain(b) ==
  /\ ~HasBlock(b)
  /\ StoreRows(b, TRUE)
  /\ PutPostCommit(b, TRUE)
  /\ metaTip' = b
  /\ tip' = b
  /\ UNCHANGED <<cfAttested, metaGenesis, floorVars, binMode>>

\* The process dies in extend_chain between put and set_tip.
ExtendChainCrash(b, warm) ==
  /\ ~HasBlock(b)
  /\ StoreRows(b, TRUE)
  /\ UNCHANGED <<cfAttested, metaVars>>
  /\ Recover(warm)

\* flush_pipeline_batch: the rows it stages, then one WriteBatch.  The first
\* occurrence of a hash counts; the height cache is not touched.
Staged(js) ==
  {i \in DOMAIN js : js[i][1] \notin cfBlocks
                     /\ \A j \in DOMAIN js : j < i => js[j][1] # js[i][1]}

FlushPipelineBatch(js) ==
  LET bs == [i \in DOMAIN js |-> js[i][1]]
      canon == {i \in Staged(js) : js[i][2]}
      new == {js[i][1] : i \in Staged(js)}
  IN  /\ new # {}
      /\ cfBlocks' = cfBlocks \cup new
      /\ cfHeaders' = cfHeaders \cup new
      /\ cfCanonical' = PutAll(cfCanonical, bs, canon)
      /\ bin' = BinPutAll(bin, bs, canon)
      /\ CacheStored(new)
      /\ UNCHANGED <<cfAttested, metaVars, tip, minRetained, binMode, heightCache>>

PutAttestation(b) ==
  /\ cfAttested' = cfAttested \cup {b}
  /\ UNCHANGED <<cfBlocks, cfHeaders, metaVars, tip, minRetained, indexVars,
                 recordVars, bodyCaches>>

-----------------------------------------------------------------------------
(***************************************************************************)
(* The canonical index and the tip.                                        *)
(***************************************************************************)

\* Mutant: the tip is not persisted.
SetTipUnpersisted(b) ==
  /\ tip' = b
  /\ UNCHANGED <<durableBlocks, metaVars, minRetained, indexVars, recordVars,
                 bodyCaches>>

\* set_tip: persisted first, then in memory.
SetTip(b) ==
  /\ metaTip' = b
  /\ tip' = b
  /\ UNCHANGED <<durableBlocks, metaGenesis, floorVars, indexVars, recordVars,
                 bodyCaches>>

SetCanonical(b) ==
  /\ Known(b)
  /\ cfCanonical' = [cfCanonical EXCEPT ![Height[b]] = b]
  /\ bin' = BinWrite(bin, Height[b], b)
  /\ heightCache' = CacheInsertOne(heightCache, Height[b], b)
  /\ Records({b}, {}, {b})
  /\ UNCHANGED <<durableBlocks, metaVars, tip, minRetained, binMode, blockCache>>

\* set_canonical_batch: the height cache is not touched.
SetCanonicalBatch(bs) ==
  /\ \A b \in Listed(bs) : Known(b)
  /\ cfCanonical' = PutAll(cfCanonical, bs, DOMAIN bs)
  /\ bin' = BinPutAll(bin, bs, DOMAIN bs)
  /\ Records(Listed(bs), {}, Listed(bs))
  /\ UNCHANGED <<durableBlocks, metaVars, tip, minRetained, binMode,
                 heightCache, blockCache>>

\* The error returns of rollback_to_height, and its no-op at the tip.
CanRollback(target) ==
  /\ tip # NoBlock
  /\ target < Height[tip]
  /\ target >= minRetained

\* Mutants: the height above the target is looked up; the cache is not evicted.
RollbackTipAbove(target) ==
  LookupIn(CacheAfter((target + 1)..Height[tip]), Lower, minRetained, target + 1)
RollbackCacheKept(target) ==
  ReadThrough(CacheAfter((target + 1)..Height[tip]), Lower, minRetained, {target})

\* The hash found at target after the walk, and the cache this leaves.
RollbackTip(target) ==
  LookupIn(CacheAfter((target + 1)..Height[tip]), Lower, minRetained, target)
RollbackCache(target) ==
  LET gone == (target + 1)..Height[tip]
  IN  Without(ReadThrough(CacheAfter(gone), Lower, minRetained, {target}), gone)

RollbackToHeight(target) ==
  LET top == Height[tip]
      newTip == RollbackTip(target)
  IN  /\ CanRollback(target)
      /\ cfCanonical' = Without(cfCanonical, (target + 1)..top)
      /\ bin' = BinTruncate(bin, target)
      /\ metaTip' = IF newTip # NoBlock THEN newTip ELSE metaTip
      /\ tip' = IF newTip # NoBlock THEN newTip ELSE tip
      /\ inCanonicalChain' = inCanonicalChain \ Reverted(target, top)
      /\ heightCache' = RollbackCache(target)
      /\ UNCHANGED <<durableBlocks, metaGenesis, floorVars, binMode, recordCache,
                     orphaned, bodyCaches>>

\* The process dies in rollback_to_height between its delete and set_tip.
RollbackCrash(target, warm) ==
  /\ CanRollback(target)
  /\ cfCanonical' = Without(cfCanonical, (target + 1)..Height[tip])
  /\ UNCHANGED <<durableBlocks, metaVars>>
  /\ Recover(warm)

\* apply_reorg commits once; its height cache inserts ignore the capacity.
ApplyReorg(ancestor, bs) ==
  LET top == Height[tip]
      gone == (ancestor + 1)..top
      all == DOMAIN bs
      newTip == bs[Len(bs)]
  IN  /\ tip # NoBlock
      /\ \A b \in Listed(bs) : Known(b)
      /\ cfCanonical' = PutAll(Without(cfCanonical, gone), bs, all)
      /\ bin' = BinPutAll(BinTruncate(bin, ancestor), bs, all)
      /\ Records(Listed(bs), Reverted(ancestor, top), Listed(bs))
      /\ heightCache' = PutAll(Without(CacheAfter(gone), gone), bs, all)
      /\ metaTip' = newTip
      /\ tip' = newTip
      /\ UNCHANGED <<durableBlocks, metaGenesis, floorVars, binMode, blockCache>>

\* disable_canonical_bin_acceleration: until the next open.
DisableBin ==
  /\ binMode' = "disabled"
  /\ bin' = NoIndex
  /\ UNCHANGED <<durableBlocks, cfCanonical, metaVars, tip, minRetained,
                 heightCache, recordVars, bodyCaches>>

-----------------------------------------------------------------------------
(***************************************************************************)
(* Pruning.                                                                *)
(***************************************************************************)

\* Mutant: the header scan takes the block at height, too.
PrunedInclusive(height) ==
  ({Lookup(h) : h \in {k \in Heights : k < height}} \ {NoBlock})
     \cup {b \in cfHeaders : Height[b] <= height}

\* The hashes prune_before_height collects: canonical ones, then headers.
\* (Its own cache inserts can evict a stale entry above them; the entry and
\* the row it hides are both below height, and the header scan takes both.)
Pruned(height) ==
  ({Lookup(h) : h \in {k \in Heights : k < height}} \ {NoBlock})
     \cup {b \in cfHeaders : Height[b] < height}

PruneBeforeHeight(height) ==
  LET gone == Pruned(height)
      walked == {h \in Heights : minRetained <= h /\ h < height}
      below == {h \in Heights : h < height}
  IN  /\ height > minRetained
      /\ cfBlocks' = cfBlocks \ gone
      /\ cfHeaders' = cfHeaders \ gone
      /\ cfAttested' = cfAttested \ gone
      /\ cfCanonical' = Without(cfCanonical, walked)
      /\ metaMin' = height
      /\ minRetained' = height
      /\ blockCache' = blockCache \ gone
      /\ headerCache' = headerCache \ gone
      /\ recordCache' = recordCache \ gone
      /\ inCanonicalChain' = inCanonicalChain \ gone
      /\ orphaned' = orphaned \ gone
      /\ heightCache' = Without(CacheAfter(walked), below)
      /\ UNCHANGED <<metaTip, metaGenesis, tip, binMode, bin>>

\* Mutant: the filters take rows at the floor, too.
ExpiredInclusive(b) == Height[b] <= minRetained

\* What a compaction filter removes.
Expired(b) == Height[b] < minRetained

\* The compaction filters of CF_BLOCKS, CF_HEADERS and CF_ATTESTED drop rows
\* below the floor, each family on its own and whenever RocksDB compacts.
Compaction(b) ==
  /\ CompactionPruning
  /\ Expired(b)
  /\ \/ /\ cfBlocks' = cfBlocks \ {b}
        /\ UNCHANGED <<cfHeaders, cfAttested>>
     \/ /\ cfHeaders' = cfHeaders \ {b}
        /\ UNCHANGED <<cfBlocks, cfAttested>>
     \/ /\ cfAttested' = cfAttested \ {b}
        /\ UNCHANGED <<cfBlocks, cfHeaders>>
  /\ UNCHANGED <<metaVars, tip, minRetained, indexVars, recordVars, bodyCaches>>

-----------------------------------------------------------------------------
(***************************************************************************)
(* Reads, which fill the caches, and cache invalidation.                   *)
(***************************************************************************)

GetHashByHeight(h) ==
  /\ heightCache' = CacheAfter({h})
  /\ UNCHANGED <<durableBlocks, cfCanonical, metaVars, tip, minRetained, binMode,
                 bin, recordVars, bodyCaches>>

GetBlock(b) ==
  /\ b \in cfBlocks \ blockCache
  /\ blockCache' = blockCache \cup {b}
  /\ headerCache' = headerCache \cup {b}
  /\ UNCHANGED <<durableBlocks, metaVars, tip, minRetained, indexVars, recordVars>>

\* stream_blocks_in_range lists the rows of CF_CANONICAL, whatever the floor
\* and the other tiers say; reading on, the stream caches the bodies it finds.
StreamPairs(start, end) == {cfCanonical[h] : h \in start..end} \ {NoBlock}

StreamBlocks(start, end) ==
  LET read == StreamPairs(start, end) \cap (cfBlocks \ blockCache)
  IN  /\ read # {}
      /\ blockCache' = blockCache \cup read
      /\ headerCache' = headerCache \cup read
      /\ UNCHANGED <<durableBlocks, metaVars, tip, minRetained, indexVars, recordVars>>

GetHeader(b) ==
  /\ b \in cfHeaders \ headerCache
  /\ headerCache' = headerCache \cup {b}
  /\ UNCHANGED <<durableBlocks, metaVars, tip, minRetained, indexVars, recordVars,
                 blockCache>>

GetRecord(b) ==
  /\ Known(b)
  /\ Records({b}, {}, {})
  /\ UNCHANGED <<durableBlocks, metaVars, tip, minRetained, indexVars, blockCache>>

\* update_status recomputes in_canonical_chain from the status.
UpdateStatus(b, canonical) ==
  /\ b \in recordCache
  /\ inCanonicalChain' = IF canonical THEN inCanonicalChain \cup {b}
                                      ELSE inCanonicalChain \ {b}
  /\ orphaned' = IF canonical THEN orphaned \ {b} ELSE orphaned \cup {b}
  /\ UNCHANGED <<durableBlocks, metaVars, tip, minRetained, indexVars,
                 recordCache, bodyCaches>>

InvalidateBlock(b) ==
  /\ blockCache' = blockCache \ {b}
  /\ UNCHANGED <<durableBlocks, metaVars, tip, minRetained, indexVars, recordVars,
                 headerCache>>

InvalidateHeader(b) ==
  /\ headerCache' = headerCache \ {b}
  /\ UNCHANGED <<durableBlocks, metaVars, tip, minRetained, indexVars, recordVars,
                 blockCache>>

InvalidateRecord(b) ==
  /\ recordCache' = recordCache \ {b}
  /\ inCanonicalChain' = inCanonicalChain \ {b}
  /\ orphaned' = orphaned \ {b}
  /\ UNCHANGED <<durableBlocks, metaVars, tip, minRetained, indexVars, bodyCaches>>

-----------------------------------------------------------------------------
\* Operations that never touch the index: bodies, records, statuses.
BodyNext ==
  \/ \E b \in Blocks : PutBlock(b, FALSE)
  \/ \E b \in Probed : GetBlock(b) \/ GetHeader(b) \/ GetRecord(b)
  \/ \E lo, hi \in Heights : StreamBlocks(lo, hi)
  \/ \E b \in Probed : InvalidateBlock(b) \/ InvalidateHeader(b) \/ InvalidateRecord(b)
  \/ \E b \in Probed, s \in Statuses : UpdateStatus(b, s)
  \/ \E b \in Attestable : PutAttestation(b)
  \/ \E b \in Probed : Compaction(b)

\* Operations that keep the three tiers of the index in step.
IndexNext ==
  \/ \E b \in Blocks : PutBlock(b, TRUE)
  \/ \E b \in Blocks : ExtendChain(b) \/ SetTip(b) \/ SetCanonical(b)
  \/ \E t \in Heights : RollbackToHeight(t)
  \/ \E a \in Heights, bs \in Batches : ApplyReorg(a, bs)
  \/ \E p \in 0..(MaxHeight + 1) : PruneBeforeHeight(p)
  \/ \E h \in Heights : GetHashByHeight(h)
  \/ DisableBin
  \/ \E warm \in BOOLEAN : Reopen(warm)
  \/ \E b \in Blocks, warm \in BOOLEAN : ExtendChainCrash(b, warm)
  \/ \E t \in Heights, warm \in BOOLEAN : RollbackCrash(t, warm)

\* Operations that write the index but leave the height cache as it was.
StagingNext ==
  \/ \E b \in Blocks : InitGenesis(b)
  \/ \E bs \in Batches : SetCanonicalBatch(bs)
  \/ \E js \in JobBatches : FlushPipelineBatch(js)

Next == BodyNext \/ IndexNext \/ StagingNext

\* Every operation, called in any order with any argument.
Spec == Init /\ [][Next]_vars

\* The same, where the genesis block is the first canonical block at height 0
\* and the index is written only by operations that update the height cache.
GenesisFirst == cfCanonical[0] = NoBlock /\ \E b \in Blocks : InitGenesis(b)
IndexSpec == Init /\ [][BodyNext \/ IndexNext \/ GenesisFirst]_vars

-----------------------------------------------------------------------------
(***************************************************************************)
(* Properties.                                                             *)
(***************************************************************************)

\* Every variable has its type; the flag and status sets describe cached
\* records, and the in-memory tip and floor are the persisted ones.
TypeOK ==
  /\ cfBlocks \subseteq Blocks /\ cfHeaders \subseteq Blocks
  /\ cfAttested \subseteq Blocks
  /\ cfCanonical \in Index
  /\ metaTip \in Slot /\ metaGenesis \in Slot
  /\ metaMin \in 0..(MaxHeight + 1)
  /\ tip = metaTip /\ minRetained = metaMin
  /\ binMode \in {"rw", "disabled"}
  /\ bin \in Index /\ heightCache \in Index
  /\ recordCache \subseteq Blocks
  /\ inCanonicalChain \subseteq recordCache /\ orphaned \subseteq recordCache
  /\ blockCache \subseteq Blocks /\ headerCache \subseteq Blocks

\* get_hash_by_height never answers with a block of another height, nor with
\* one whose body or header the store has lost: through put, reorg, rollback,
\* pruning, compaction, cache staleness and crashes.
LookupIsStored ==
  \A h \in Heights :
    Lookup(h) # NoBlock => /\ Lookup(h) \in cfBlocks \cap cfHeaders
                           /\ Height[Lookup(h)] = h

\* At every height that is not pruned, a slot of canonical.bin that is in use
\* holds the hash of the CF_CANONICAL row, so mmap reads and RocksDB agree.
BinAgrees ==
  \A h \in Heights :
    h >= minRetained /\ bin[h] # NoBlock => bin[h] = cfCanonical[h]

\* A block that any cache still holds is stored, body and header, unless it is
\* below the pruning floor: has_block and get_record never vouch for a lost
\* block.
Backed(b) == Height[b] >= minRetained => b \in cfBlocks \cap cfHeaders
CachesBacked == \A b \in blockCache \cup headerCache \cup recordCache : Backed(b)

\* What makes LookupIsStored and CachesBacked inductive: an entry of any tier
\* names a block of that height, which is stored unless it is pruned, and at
\* or above the floor CF_BLOCKS and CF_HEADERS hold the same blocks.
EntriesStored(f) ==
  \A h \in Heights : f[h] # NoBlock => Height[f[h]] = h /\ Backed(f[h])
BodiesMatchHeaders ==
  \A b \in Blocks : Height[b] >= minRetained => (b \in cfBlocks <=> b \in cfHeaders)
StoredInv ==
  /\ EntriesStored(cfCanonical) /\ EntriesStored(bin) /\ EntriesStored(heightCache)
  /\ BodiesMatchHeaders
  /\ CachesBacked

\* A cached record of a block in the canonical index is flagged so, unless
\* update_status orphaned it.  set_canonical, set_canonical_batch and apply_reorg
\* flag what they index; rollback and reorg unflag the hashes that their walk
\* has read, which a stale height cache entry may make others than the rows they
\* delete, but never a row that stays.  (The converse does not hold: a block that
\* was replaced at its height keeps its flag.)
CanonicalIsFlagged ==
  \A h \in Heights :
    cfCanonical[h] \in recordCache \ orphaned => cfCanonical[h] \in inCanonicalChain

\* Fork preservation: the pruning floor never moves down, and a body or header
\* disappears only when it is below the floor, whatever rollbacks, reorgs,
\* crashes and reopens do.
RetainedBlocksKept ==
  [][/\ minRetained' >= minRetained
     /\ \A b \in (cfBlocks \ cfBlocks') \cup (cfHeaders \ cfHeaders') :
          Height[b] < minRetained']_vars

\* An entry of the height cache, above the floor, that is not the row of
\* CF_CANONICAL.
Outdated(h) == h >= minRetained /\ heightCache[h] \notin {NoBlock, cfCanonical[h]}

\* init_genesis, set_canonical_batch and a pipeline flush are the only operations
\* that leave behind an outdated entry of the height cache: no put, rollback,
\* reorg, pruning, eviction at the capacity, read or reopen makes one, from
\* whatever stale cache it starts.
OnlyStagingOutdates ==
  [][\A h \in Heights :
       Outdated(h)' => (Outdated(h) /\ heightCache'[h] = heightCache[h]) \/ StagingNext]_vars

\* The three tiers of the index give one answer: above the floor,
\* get_hash_by_height returns the CF_CANONICAL row, from whichever tier.
LookupIsCanonical ==
  \A h \in Heights : h >= minRetained => Lookup(h) = cfCanonical[h]

=============================================================================
