# dig-blockstore: TLA+ models, checks and proofs

dig-blockstore is a Rust crate that stores the blocks of a chain in RocksDB: bodies,
headers, attestations, a height→hash index of the canonical chain, the chain tip and a
pruning floor, with several in-memory caches in front and an asynchronous write pipeline.
This directory models it in TLA+, checks the models with TLC and proves the main results
with TLAPS. Paths below are relative to the repository.

## The system

| Part | State | Operations | Hard behaviour |
|---|---|---|---|
| Block storage (`src/store.rs`) | `CF_BLOCKS`, `CF_HEADERS`, `CF_ATTESTED`; block, header and record caches | `init_genesis`, `put_block`, `get_block`, `get_header`, `get_record`, `has_block`, `update_status`, `put_attestation`, `invalidate_*` | caches that outlive the rows; records are never persisted and are re-derived with a default status |
| Canonical index (`src/canonical/`) | `CF_CANONICAL`, `canonical.bin`, `canonical_height_cache` | `get_hash_by_height`, `set_canonical`, `set_canonical_batch`, `extend_chain`, `set_tip` | three copies of one map, written one after the other; a lookup asks the cache first and fills it |
| Rollback and reorg (`src/store.rs`) | the index, the tip, the canonical flags of records | `rollback_to_height`, `apply_reorg`, `find_common_ancestor`, `blocks_to_revert` | two commits in one operation; a walk that evicts from the cache it reads |
| Pruning (`src/store.rs`, `src/cf_options.rs`) | `META_MIN_HEIGHT` and its in-memory copy | `prune_before_height`, compaction filters | slots of `canonical.bin` below the floor survive; filters run in the background, per family |
| Opening (`src/store.rs`, `src/cache/warming.rs`) | everything in memory | `open`, `open_readonly`, `warm_caches` | recovery after a crash at any point; `canonical.bin` is rebuilt from RocksDB |
| Write pipeline (`src/pipeline.rs`) | bounded channel, worker buffer, oneshot answers | `put_pipelined`, `run_write_pipeline`, `flush_pipeline_batch` | callers, worker, timer and other writers interleave; failures, shutdown, drop of the last handle |
| `canonical.bin` (`src/canonical/mmap.rs`) | the file and its mapping | `open_synced`, `extend_write`, `truncate_to_height`, `disable` | updated after the commit it follows; resizes that fail; a crash in the middle of its rebuild |
| Snapshots (`src/snapshot.rs`) | none of its own | export, import | an export beside reorgs and prunings; import stores blocks before the checksum is verified; values depend on the exporter's dictionary |
| Compression (`src/compression.rs`) | the zstd dictionary in memory and in `CF_METADATA` | `serialize_block`, `decompress_block_payload`, `maybe_train_dictionary`, `init_dictionary` | training races at the threshold; a crash around it; its failure surfaces after a commit |
| Streaming reads (`src/pipeline.rs`) | captured rows | `stream_blocks_in_range` | rows and bodies are read at different times, beside pruning |
| Checkpoints, statistics, async reads, encodings | a column family; counters; none | put/get/prune, `stats`, wrappers | none |

Components interact through shared state: every operation works on the same RocksDB handle
and caches; `extend_chain` calls `put_block` and `set_tip`; rollback, reorg and pruning walk
the index with `get_hash_by_height`; the pipeline worker writes the same rows as `put_block`;
every write may train the dictionary; a snapshot carries rows of one store into another. All
operations take `&self` and may run on several threads, each structure behind a lock of its own.

What makes each part correct:

* storage: a block is lost only by pruning, and no cache or index entry names a lost block;
* index: the three tiers agree at every retained height;
* rollback and reorg: after each of them there is one gap-free, parent-linked chain that
  ends at the tip, and records are flagged accordingly;
* pipeline: each call is answered once, truthfully, and nothing sent is dropped silently;
* `canonical.bin`: what is read from it is the row of `CF_CANONICAL`, after any crash or damage;
* dictionary: every row that was ever written can be read, now and after a restart;
* snapshots: a damaged file is refused, a sound one accepted, and what is imported is a chain;
* threads: a reader never gets hold of a hash whose block is not there, and every call returns.

## Modules

| Module | Models |
|---|---|
| `HeightIndex` | pure operators on height→hash maps: batch writes and deletes, truncation, the bounded cache, a walk of lookups |
| `HeightWalk` | one loop of `get_hash_by_height` calls, insert by insert, against the closed forms of `HeightIndex` |
| `BlockStore` | the store: one action per public operation, plus crash and reopen |
| `CanonicalChain` | abstract specification: one chain that grows, is replaced at the top and forgotten at the bottom |
| `ChainFollower` | a node that uses `BlockStore` the way the documentation says; implements `CanonicalChain` |
| `WritePipeline` | callers, channel, worker, flush, racing `put_block` calls |
| `StoreThreads` | the operations of the store in steps of one RocksDB call or one lock region, on several threads |
| `CanonicalFile` | `canonical.bin` as a file with a length and a mapping with a span |
| `BinSlots` | abstract specification: the height→hash map that `BlockStore` and `StoreThreads` take the file for |
| `Dictionary` | encoding of rows, training and loading of the dictionary, step by step |
| `Snapshot` | an exporter (on top of `Dictionary`), the file, and an importer |
| `HeightIndexProofs`, `HeightWalkProofs`, `BlockStoreProofs`, `ChainFollowerProofs`, `CanonicalFileProofs`, `WritePipelineProofs`, `StoreThreadsProofs`, `SnapshotProofs` | lemmas and theorems |
| `MC…` | instances for TLC |

### BlockStore

`cfBlocks`, `cfHeaders`, `cfAttested` are the key sets of the column families; `cfCanonical`,
`bin` and `heightCache` are the three tiers as functions from heights to a hash or `NoBlock`
(a zero slot, a slot past the end of the file and an absent key all read as `None`);
`metaTip`, `metaGenesis`, `metaMin` are the metadata keys; `tip` and `minRetained` their
copies in memory. `recordCache` holds the blocks with a cached `BlockRecord`,
`inCanonicalChain` those flagged, `orphaned` those whose status is not canonical. A block is
identified with its hash and `Height` is its header's height.

Each action is the whole operation in the order of the code: validation, one `WriteBatch`,
then `canonical.bin`, caches and tip. Loops of lookups inside an operation fill the height
cache (`CacheAfter`) and what they see depends on their own evictions (`WalkSees`); these two
closed forms are checked, and proved, against the loop by `HeightWalk`. `ExtendChainCrash` and
`RollbackCrash` stop the two operations that commit twice between their commits; a crash
anywhere else has the effect of the operation, or of none, followed by `Reopen`. `Recover` is
`open`: it rebuilds `canonical.bin` from the rows, loads tip and floor, and warms the caches.
`StreamBlocks` reads `CF_CANONICAL` itself, neither the other tiers nor the floor.

The actions come in three groups. `BodyNext` never writes the index, `IndexNext` writes
`CF_CANONICAL` and the height cache together, `StagingNext` (`init_genesis`,
`set_canonical_batch`, a pipeline flush) writes `CF_CANONICAL` and leaves the height cache.
`Spec` allows them all; `IndexSpec` allows the first two and an `init_genesis` that finds no
row at height 0. The difference matters for exactly one property, `LookupIsCanonical`. Under `Spec`
`OnlyStagingOutdates` says the rest: an entry of the height cache goes out of date in a step of
`StagingNext` and in no other, however stale the cache was before.

### ChainFollower and CanonicalChain

`Parent` gives the parent links. The node starts with genesis, extends the tip with its
children, stores fork blocks with `put_block(b, false)`, adopts a fork by `apply_reorg` above
`find_common_ancestor`, rolls back and prunes up to the tip. `ExtendFails` is `extend_chain`
whose `put` fails in dictionary training after its commit. The node does what CAN-005 suggests
after an open or such an error: it scans the canonical index and sets the tip (`CorrectTip`;
`dirty` says that this is due). `ChainIntact` is claimed when that is done, and the chain that readers
see implements `CanonicalChain` at all times, corrected or not. `Adopt` takes the answer of
`find_common_ancestor`; the records, headers and heights that it caches on the way are left to the
steps of `Read`, which may precede any `Adopt` and cache heights one by one and the records of `Probed`.

### WritePipeline

`answer` says what each call has come to; `waiting`, `channel`, `buf` and `staged` are the
four places a job can be in. `seen` and `rows` are the hashes met by the flush and the keys of
`CF_BLOCKS`. Staging takes one job per step, since it reads `CF_BLOCKS` row by row while
`put_block` calls of other threads (`DirectCheck`, `DirectWrite`) go on. Failures are allowed
where the code has an error path: reading or encoding a block while staging, the batch write,
the update of `canonical.bin` after it, dictionary training per answered job.

### StoreThreads

`call[t]` is the call a thread is in: `pc` is its next step, `back` where a lookup or `get_record`
inside another operation returns to, the other fields are its local variables. One step is one
RocksDB call (a `WriteBatch` is atomic) or one region under a lock. Temporaries of an `if let`
live to the end of the statement in edition 2021, and two of them matter. In
`get_hash_by_height` the read guard of `canonical.bin` is kept until the slot is in the height
cache (`fillLocked`, `BinFree`), while a row of `CF_CANONICAL` is inserted without any lock
(`fill`). In `set_canonical` the guard of the record cache is kept into the else branch, which
asks for the same mutex again (`relock`, a program counter without a step). Bodies and headers
are one set `rows`, since `put_block` and `prune_before_height` write both in one batch. A stream
captures the hashes of the rows at once and then reads their bodies from the lowest height up
(`Lowest`).

Two invariants say what the threads hold of each other. `CallsInv` is about every call in progress: it is
at a step of its operation (`InStep`), and each hash among its local variables names a block that is stored
or below the floor. `WriterInv` is about one writer: at each step memory may differ from RocksDB only
in the slots and the tip that its call has yet to write.

### CanonicalFile and BinSlots

`file` is `canonical.bin` (does it exist, how many slots long, what is in them), `span` the length
of the mapping, `mode` the variant of `CanonicalBin` plus `unmapped`, the `CanonicalDenseFile`
whose resize failed. A call commits the rows and leaves its updates in `pending`; each is a step,
and `Stop` may come between any two. Rollbacks and reorgs delete rows up to the tip height of the
moment and prunings from the floor of the moment, any heights here, so that rows outside stay. `Tamper` stands for what can happen to the file between two
opens. `open_synced` reads the file, compares it with the rows, and maps it, refuses it
(read-only), or rewrites it, possibly stopped half-way (`RebuildPart`). `ImplementsSlots` says
that all this is the map of `BinSlots`, which is how the other modules see it: an open serves
exactly the rows, or nothing. After a failed resize (`torn`) nothing is promised but `SpanIsLength`
until the next open; a lookup, which panics there in the code, has no answer (`ReadSlot`).

### Dictionary and Snapshot

A row of `CF_BLOCKS` is known by what is needed to decode it: `Plain`, or one of `Dicts`.
`Decodes` is the two-phase fallback of `decompress_block_payload`. `put_block` encodes and writes
in two steps, and `maybe_train_dictionary` is a sequence of six reads and writes with other
threads, or the end of the process, in between. The sample is any `Threshold` of the rows, and
which dictionary zstd trains from it is a free choice, since the samples are shuffled.

`Snapshot` adds the canonical index of the exporter, its reorgs and prunings, the export, which
looks up and reads one height per two steps, and the file. `Damage` changes an item, the range or the
state root of the manifest, or the checksum, of a file that was written whole, or cuts it; bytes behind the checksum are never read, and
change nothing for the import. `imp.off` remembers which blocks the store had as a fork when the
import began, since `put_block` does nothing for a block that is there.
The importer checks, stores and goes on; the checksum is compared at the end. Imports may be
stopped and repeated, on a store that has some of the blocks already. The checksum is what it was
computed from: SHA-256 is taken to be free of collisions.

## Runs

| Run | Configuration | Shows |
|---|---|---|
| `height_walk` | 4 heights, capacity 2, every cache over two hashes, every lower tier, both directions | the closed forms are the loop |
| `store` | genesis and two rivals above it, capacity 1, all operations, reads, evictions, compaction, crashes | `TypeOK`, `LookupIsStored`, `BinAgrees`, `CanonicalIsFlagged`, `CachesBacked`, `StoredInv`, `RetainedBlocksKept`, `OnlyStagingOutdates` |
| `follower` | genesis and two branches of two, capacity 1, crashes, statuses and tip correction | `ChainIntact`, `LookupIsCanonical`, `AncestorIsForkPoint`, `ImplementsChain` |
| `pipeline` | four calls for two blocks, a direct put, batches of 3, channel of 1, failures, shutdown | `TypeOK`, `JobsAccounted`, `TrueMeansStored`, `NovelOnce`, `FalseMeansStored`, `FlushInv`, `EveryJobAnswered`, `WorkerExits`, `EveryBlockStored` |
| `threads` | genesis and two rivals, a writer with three calls and a reader with one, capacity 1 | `TypeOK`, `SharedHashesSound`, `RangeMissesOnlyPruned`, `WritersAtRest`, `ThreadsInv` (that is `CallsInv` and `WriterInv`), `EveryCallReturns` |
| `bin_file` | a line of heights with two rivals, crashes, failing resizes, damage between opens | `SlotsSound`, `FileInv` (with `FileTypeOK` and `SpanIsLength`), `OpenServesRows`, `ImplementsSlots` |
| `snapshot` | an exporter with one thread, two dictionaries, a fork, pruning, restarts; an importer with partial stores and repeats | `SnapTypeOK`, `RowsReadable`, `RowsRecoverable`, `DamageRejected`, `ImportedChainLinked`, `SoundFileImports`, `SnapshotInv` (that is `TrainingInv`, `ExportInv` and `ImportInv`) |

Bounds. Every index defect found needs at most two hashes competing for one height and one
height below or above it, so two rivals above genesis, or two branches of two, give each branch of
the code a reason to be taken; capacity 1 makes the height cache overflow. `Batches` and
`JobBatches` list the argument lists that order two blocks both ways and repeat one. In the
pipeline a channel of 1 makes callers wait, and four calls with batches of 3 give a full batch, a
timed one, and repeats within and across batches. In `threads` three calls let a block be stored,
replaced and pruned or rolled back while one read is under way. Range reads and streams take the
whole index; a shorter range takes a part of their steps. In `bin_file` and `snapshot`
lists of one and two blocks cover a reorg that shortens, replaces and lengthens the chain, and a
training threshold of 2 is crossed with a block to spare. `store` uses the symmetry of the two
rivals and `snapshot` that of the two dictionaries; the other runs use none, and liveness is never combined with symmetry. Deadlock is checked
where the system can always go on; loops, calls and imports that are limited in number really
end, so those runs switch it off.

Fairness. `WritePipeline` assumes weak fairness of the worker and of `send`: tokio runs a ready
task and fires an elapsed timer, and RocksDB calls return. It assumes nothing of callers, of
`put_block`, of dropping the handle or of shutdown. `StoreThreads` assumes weak fairness of each
thread inside a call: the operating system runs a thread that can run, and no step but the lock
of the record cache and the guard on `canonical.bin` can wait. It assumes nothing of the start of
calls. No other module states liveness.

Each property has a mutant: a small change of one definition, of the kind a bug would be (a
guard dropped, an off-by-one, a missing row), next to the definition it changes and marked
`Mutant`. TLC finds the property violated when the mutant is put in its place.

### Where the code and its documentation differ

These runs are expected to fail; each refutes a sentence of the repository.

| Run | What happens |
|---|---|
| `stale_fill` | a lookup that reads a row and caches it after the next write of that height leaves the superseded hash in the height cache, although "Concurrent reads are safe" |
| `record_deadlock` | a pruning or `invalidate_record_cache_entry` inside `set_canonical` makes it lock the record cache twice and wait for ever, although "Concurrent writes are safe" |
| `floor_lowered` | of two prunings that overlap, both compare with the old floor, and when the lower one commits last `META_MIN_HEIGHT` falls below blocks that are gone, although PRN-004 says it "MUST be monotonically non-decreasing" |
| `dictionary_race` | two threads at the threshold persist two dictionaries one after the other; rows that need the first are lost with the process |
| `snapshot_new_node` | a snapshot taken after training holds frames that need the exporter's dictionary, which is not in the file; a new node cannot import it |

Also visible in the models, without a run of their own:

* store: `set_canonical_batch` leaves the old hash in the height cache, although its documentation says
  "Same as `set_canonical`", and lookups answer with the superseded block (`MCStaleBatch.cfg` gives the trace);
  a pipeline flush and `init_genesis` do the same, and by `OnlyStagingOutdates` nothing else does;
* store: with capacity 0, "disabled", `apply_reorg` still fills the height cache, and nothing
  refreshes its entries; with another capacity it takes the cache over it; a row written below an
  earlier floor stays when a later pruning removes its block; `put_block(b, false)` caches a record
  flagged `in_canonical_chain` (ROR-004 says the flag is false);
* tip: CAN-007 asks for an atomic update; `extend_chain` that stops between its two commits leaves
  a row above the tip, and a retry is refused as a duplicate; SPEC 17.9 says that after
  `rollback_to_height(h)` the tip is at `h`, which a rollback to a height without a row does not
  keep: the tip stays above the truncated index (a follower never has such a gap, `ChainIntact`);
* pipeline: a repeat within a batch hears `Ok(false)` before the batch is written, and if the write
  fails the block is stored nowhere (`FalseMeansStored` excepts failed batches); a flush and a
  `put_block` that overlap both answer `Ok(true)` for one block;
* threads: readers see the states between the steps of a rollback or reorg; concurrent `set_tip` calls may leave the two tips
  different, which is why `threads` has one writer; `get_block` may cache a block after its
  pruning, but only below the floor (`SharedHashesSound`); an `init_dictionary` call that overlaps
  a training may install none;
* file: after a resize of `canonical.bin` that failed, `get_hash_by_height` and writes panic until
  a truncation or a reopen, and the truncation may bring back outdated slots;
* snapshots: blocks are stored before the checksum is compared (`src/snapshot.rs:6` says verify,
  then insert), and stay when it is wrong; SNP-002 says "Blocks MUST be stored as canonical", and a
  block that the importer already had as a fork is not made canonical (`ImportedChainLinked` excepts
  exactly these); SPEC 17.10 asks for a tip that matches the original, and the import sets none; the
  state root of the manifest is read before the blocks.

## Proofs

TLAPS proves, for every set of blocks, assignment of heights, bound on heights, capacity and
configuration that meet the named assumptions (`NoBlock` is no block, heights are within the
bound, capacities are naturals, argument lists contain blocks, a block is one above its parent and a
block without parent is at height 0):

| Theorem | Statement |
|---|---|
| `TypeCorrect` | `Spec => []TypeOK` |
| `StoredInvariant` | `Spec => [](TypeOK /\ StoredInv)` |
| `LookupAlwaysStored` | `Spec => []LookupIsStored` |
| `CachesAlwaysBacked` | `Spec => []CachesBacked` |
| `RetainedAlwaysKept` | `Spec => RetainedBlocksKept` |
| `BinAlwaysAgrees` | `Spec => []BinAgrees` |
| `CanonicalAlwaysFlagged` | `Spec => []CanonicalIsFlagged` |
| `LookupAlwaysCanonical` | `HeightCacheCapacity # 0 => (IndexSpec => []LookupIsCanonical)` |
| `OnlyStagingEverOutdates` | `HeightCacheCapacity # 0 => (Spec => OnlyStagingOutdates)` |
| `FollowerInvariant` | `FollowerSpec => []FollowerInv` |
| `ChainAlwaysIntact`, `FollowerLookupCanonical` | `FollowerSpec => []ChainIntact`, `FollowerSpec => []LookupIsCanonical` |
| `ForkPointAlwaysFound` | `FollowerSpec => []AncestorIsForkPoint` |
| `FollowerImplementsChain` | `FollowerSpec => ImplementsChain`: the follower implements `CanonicalChain` |
| `WalkInvariant` | `Spec => []WalkInv` of `HeightWalk` |
| `WalkCacheMatches`, `WalkSeenMatches` | `Spec => []CacheMatches`, `Spec => []SeenMatches` |
| `FileTypeCorrect` | `FileSpec => [](FileTypeOK /\ SpanIsLength)` |
| `FileInvariant`, `SlotsAlwaysSound` | `FileSpec => []FileInv`, `FileSpec => []SlotsSound` |
| `OpenAlwaysServesRows` | `FileSpec => OpenServesRows` |
| `FileImplementsSlots` | `FileSpec => ImplementsSlots`: the file implements `BinSlots` |
| `PipelineTypeCorrect`, `PipelineAccountsForJobs` | `TypeOK` and `JobsAccounted` of the pipeline |
| `FlushInvariant` | the pipeline keeps `FlushInv` |
| `TrueAlwaysStored`, `NovelAtMostOnce`, `FalseAlwaysExplained` | `TrueMeansStored`, `NovelOnce`, `FalseMeansStored` |
| `CallsStaySound`, `ThreadsTypeCorrect` | one pruning thread: `Spec => []CallsInv`, `Spec => []TypeOK` of `StoreThreads` |
| `SharedHashesAlwaysSound`, `RangesMissOnlyPruned` | one pruning thread: `Spec => []SharedHashesSound`, `Spec => []RangeMissesOnlyPruned` |
| `WriterPaysItsDebts`, `ThreadsInvariant` | one writing thread: `Spec => []WriterInv`, `Spec => []ThreadsInv` |
| `WritersLeaveAgreement` | one writing thread: `Spec => []WritersAtRest` |
| `DictionaryRowsReadable` | one thread: `DictSpec => [](RowsReadable /\ RowsRecoverable)` |
| `SnapshotTypeCorrect`, `ExportSound`, `ImportSound` | `SnapTypeOK`, `ExportInv`, `ImportInv` |
| `DamageAlwaysRejected`, `SoundFileAlwaysImports`, `ImportedAlwaysLinked` | `DamageRejected`, `SoundFileImports`, `ImportedChainLinked` |
| `ExporterRowsReadable`, `ExporterInvariant` | one thread: `SnapSpec => [](RowsReadable /\ RowsRecoverable /\ TrainingInv)`, `SnapSpec => []SnapshotInv` |

`LookupIsStored` is not inductive: an entry hidden by a better tier, or by the floor, may
surface later. `StoredInv` therefore speaks of every entry of every tier: it is at its block's
height, and the block is stored if its height is retained. A cached record or header also lets
`set_canonical` index a block without looking at disk, so the invariant includes the caches
(`CachesBacked`), and because the provers must know that a block with a header has a body,
`BodiesMatchHeaders`. Each step either enters old entries or blocks it leaves stored, and removes
rows only below the floor it leaves.

`BinAgrees` is inductive with one addition: a disabled file has no slots in use. For
`LookupIsCanonical` the same agreement is carried for the height cache, by every action of
`IndexSpec` that writes a row: the insert replaces the entry at that height, and eviction only
removes entries. With capacity 0 the insert does nothing, and `apply_reorg` fills the cache all the
same, which is why the theorem excludes it. `OnlyStagingEverOutdates` makes the same argument without the
assumption that the cache was right before the step: each operation but those of `StagingNext` leaves
an entry that is the row, no entry, or entry and row as they were (`Follows`), since a walk caches only what
`canonical.bin` and the rows agree on. `CanonicalIsFlagged` rests on `StoredInv`: a
stale entry that misleads the walk of a rollback still names a block of the height it was read
at, so the walk never unflags the block of a row that stays.

Follower. `ChainIntact` claims nothing while the tip is due for correction, so `FollowerInv` says what
holds then too: the rows are one range of heights that begins at the floor (`OneRange`, with the tip at
its end once it is corrected) and each is the child of the one below (`RowsLinked`). It carries the
store's own invariants (`StoreInv`), because a rollback or reorg deletes what its walk *reads*, which is the row
only as long as the three tiers agree. Here they agree for capacity 0 as well: an extension writes a height
that had no row, so no cached entry is outdated by it, and a reorg caches every row it writes. `HeadersLinked`, that the parent
of a stored header is stored or below the floor, makes `find_common_ancestor` reach the chain. Each
operation begins, replaces at the top, or forgets at the bottom of the range (`RowsStep`); the same case
split gives the invariant and, since these are the steps of `CanonicalChain`, the refinement. The ancestors
of a block are a recursive function of depth. `PathExists` and `AncestryIsPath` show that this function exists and
descends one parent at a time. The library's induction takes an operator, so these two use its set form,
`SuccessorClosed` (a set with 0 and all successors contains every natural), which
follows from the well-foundedness of `<`. `find_common_ancestor` goes down this path and stops at the first
canonical block; by `HeadersLinked` it never stops for want of a record before that, for every depth limit.

Walk. `ReadThrough` evicts once, the loop after every insert, and an insert may bring back a
height that the loop itself evicted earlier. `WalkInv` is `CacheMatches` and `SeenMatches` for the heights
visited so far (`Visited`); between an insert and the end of its evictions it says that keeping the highest
entries of the cache gives the cache to be. `Kept` is the set of heights that a bounded cache keeps, and four
facts about it carry the step: dropping the lowest of too many changes nothing (`KeptWithoutLowest`), a set that
fits is kept (`KeptAll`), adding a new height to what was kept or to everything comes to the same
(`KeptAdd`), and a height evicted before is evicted again (`KeptAddAgain`). The last two rest on `KeptFills`:
what is kept above a height is as many as fit, if there are that many. The theorem covers any
capacity, a cache that begins over it, stale entries and either direction; with it `WalkSees` and
`ReadThrough` are no longer an abstraction that `BlockStore` takes from a bounded check.

File. `SlotsSound` says nothing of heights where an update is due, so the induction has to know
what these updates will write: `DueWritesRows` says that the last write due at a height carries the
committed row. It rests on `PutAllLast`, a lemma on `PutAll`: after a batch the row of a height is the
last block of the list with that height, as the slots are written in the order of the list. The
other two parts of `FileInv` say that only a writer has updates due and that a mapping is lost only by a
resize that failed. For `ImplementsSlots`, resizes, crashes inside a rebuild and steps of an open
map to steps of `BinSlots` or to stutters; writes of a slot map to writes of the map.

Pipeline. The proof keeps `JobsAccounted` as four disjoint lists without repetition, one per place, so
that each step is a move of a head or of a whole list. The answers rest on `FlushInv`: the blocks staged
are distinct and seen, nobody has been told they are new, and a block that was seen, or answered
`Ok(false)`, is stored, staged or has failed. Direct puts only add rows, which disturbs none of it.

Threads. The theorems hold for any number of threads and calls. What a thread has read may be gone before
it is used, so the invariant follows the hash: `Kept` says that a block is stored or below the floor, and
it is carried for every tier, cache and tip and for every local variable of every call (`CallInv`). A step
of one thread leaves the calls of the others sound, because only a pruning deletes rows, and it deletes
them below the floor that it raises in the same batch (`CallStays`). That needs a floor that never
falls, hence the hypothesis `OnePruner`: at most one thread calls `prune_before_height`, while any number
write. The code does not see to that (run `floor_lowered`), so these theorems are about callers who
prune from one thread. The type invariant is not inductive either: that
a lookup returns where its operation expects it is `InStep`, and that a pruning has only blocks below
its floor in hand when it commits is `PruneInv`. For `WritersAtRest` the proofs assume `OneWriter`, at most
one thread with mutating calls. `WriterInv` then lists what the call in progress owes: the slot
of `set_canonical` and `put_block`, the slots above the cut of a rollback or reorg, the last block of the
list at each height of a reorg (again by `PutAllLast`), and the tip between its two writes. Readers change
none of it. The instance of the run `threads` meets both hypotheses.

Dictionary and snapshots. `TrainingInv` says that the dictionary in memory is the persisted one, or none
while all rows are plain, and that a trainer about to persist has found none in `CF_METADATA`. The
latter holds with one thread only (`OneThread`, a hypothesis of the two theorems that need it;
`dictionary_race` shows what happens with two). The theorems on files and imports need no such
hypothesis. `ExportInv` gives one item per height, although the exporter reorganises between the reads,
and a checksum that fits exactly the undamaged file; `ImportInv` gives that what was read is stored,
linked and canonical, and, to get that through the next put, that a block the import has yet to reach is canonical
or was found as a fork. `DamageRejected` and `ImportedChainLinked` follow from the two.

Every invariant and action property of the passing runs, and both refinements, are proved. Only
model-checked: liveness (`EveryJobAnswered`, `WorkerExits`, `EveryBlockStored`, `EveryCallReturns`), since
TLAPS as installed reasons neither about fairness nor about `ENABLED`. The
theorems about several threads assume `OnePruner`, `OneWriter` or `OneThread` as stated.

## Not modelled

* Checkpoints: a column family of its own, keyed by epoch, with one put, one get, two scans and a
  pruning in one batch; nothing else depends on it.
* I/O errors of RocksDB in synchronous operations: an operation that fails before its commit
  changes nothing.
* A read-only store next to a live writer: `src/canonical/mmap.rs:14` takes the file to be owned by
  one store. `open_readonly` on a store that nobody writes is `OpenMatching` and `OpenDisabled`.
* Three or more threads, and two writers, in the passing run `threads`: only
  `record_deadlock`, `floor_lowered` and `dictionary_race` have two, since without a lock around operations no agreement of
  tips and floors holds for them. The theorems on hashes and ranges cover any number of threads.
* `zstd_dictionary_override`, and the limit on decompressed sizes: frames have no size here.
* Exports with start above end, whose file holds no block (an import with such a manifest is modelled), and
  the version field of the manifest, which the import compares before anything else.
* `hash_to_height_cache` is written and evicted but never read, so no behaviour depends on it.
* LRU order and shards: eviction may hit any entry at any time.
* Multi-gets, record ranges and epoch queries repeat the lookups that are modelled; encodings,
  statistics and async wrappers have no state of their own.
