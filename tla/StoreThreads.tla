---------------------------- MODULE StoreThreads ----------------------------
(***************************************************************************)
(* Threads inside one store.  BlockStore runs every operation as one step; *)
(* here a step is one RocksDB call or one region under a lock, in the      *)
(* order of the code, and the steps of different threads interleave.       *)
(*                                                                         *)
(* CF_BLOCKS and CF_HEADERS are one set of rows: put_block writes and      *)
(* prune_before_height deletes a body and its header in one WriteBatch.    *)
(* Compaction filters, attestations, statuses and a disabled canonical.bin *)
(* are BlockStore's; dictionary training is Dictionary's.                  *)
(***************************************************************************)
EXTENDS HeightIndex

CONSTANTS
  Threads,
  NoThread,
  Genesis,          \* the block init_genesis stored before the threads start
  Offers,           \* the operations each thread calls
  Chains,           \* bound: lists of hashes given to apply_reorg
  MaxCalls          \* bound: calls each thread makes

ReadOps == {"get_hash_by_height", "get_block", "get_record", "get_blocks_in_range",
            "stream_blocks_in_range"}
WriteOps == {"put_block", "put_canonical", "extend_chain", "set_canonical",
             "rollback_to_height", "apply_reorg", "prune_before_height",
             "invalidate_record_cache_entry"}

ASSUME NoThreadAssumption == NoThread \notin Threads
ASSUME GenesisAssumption == Genesis \in Blocks /\ Height[Genesis] = 0
ASSUME OffersAssumption == Offers \in [Threads -> SUBSET (ReadOps \cup WriteOps)]
ASSUME ChainsAssumption == \A bs \in Chains : bs \in Seq(Blocks) /\ bs # << >>
ASSUME MaxCallsAssumption == MaxCalls \in [Threads -> Nat]

VARIABLES
  \* RocksDB
  rows,             \* keys of CF_BLOCKS and CF_HEADERS
  cfCanonical, metaTip, metaMin,
  \* process memory, each behind a lock of its own
  tip, minRetained, bin, heightCache, blockCache, headerCache,
  record,           \* BlockRecord: absent, in_canonical_chain or not
  recordLock,       \* the thread that keeps the mutex of record_cache
  \* threads
  call,             \* the call a thread is in and its local variables
  left              \* calls it may still make

disk == <<rows, cfCanonical, metaTip, metaMin>>
index == <<tip, minRetained, bin, heightCache>>
caches == <<blockCache, headerCache>>
records == <<record, recordLock>>
vars == <<rows, cfCanonical, metaTip, metaMin, tip, minRetained, bin, heightCache,
          blockCache, headerCache, record, recordLock, call, left>>

\* op and pc: the call and its next step; back: where a lookup called inside
\* another operation returns to.  arg, list, to are arguments; h runs to last
\* in a walk; top is the height of the tip that was read; hash is the answer of
\* the last lookup; seen and hits are the hashes and heights collected.
Idle == [op |-> "idle", pc |-> "idle", back |-> "idle", arg |-> NoBlock,
         list |-> << >>, todo |-> << >>, to |-> 0, top |-> 0, h |-> 0, last |-> 0,
         hash |-> NoBlock, seen |-> {}, hits |-> {}]

LookupPcs == {"floor", "heightCached", "slot", "row", "fill", "fillLocked"}
BodyPcs == {"blockCached", "body", "missing", "cacheBlock", "cacheHeader"}
RecordPcs == {"recordCached", "headerCached", "header", "cacheHeader", "derive"}
Pcs ==
  LookupPcs \cup BodyPcs \cup RecordPcs
  \cup {"idle", "capture", "found", "present", "write", "hasBlock", "hasRow", "putRow",
        "writeSlot", "cacheHeight", "cacheRecord", "flag", "relock", "forget", "putTip",
        "setTip", "readTip", "aboveFloor", "validated", "walk", "commit", "truncate",
        "newTip", "rewrite", "unflag", "recache", "readFloor", "scan", "raise",
        "evictBlock", "evictHeader", "evictRecord", "evictBelow"}
CallType ==
  [op : ReadOps \cup WriteOps \cup {"idle"}, pc : Pcs, back : Pcs, arg : Slot,
   list : Seq(Blocks), todo : Seq(Blocks), to : 0..(MaxHeight + 1), top : Heights,
   h : Heights, last : Heights, hash : Slot, seen : SUBSET Blocks, hits : SUBSET Heights]

At(t, pc) == call[t].pc = pc
Become(t, c) == call' = [call EXCEPT ![t] = c] /\ UNCHANGED left
Goto(t, pc) == Become(t, [call[t] EXCEPT !.pc = pc])
Return(t) == Become(t, Idle)
Resumed(c) == IF c.back = "idle" THEN Idle ELSE [c EXCEPT !.pc = c.back]

\* A step at pc that only reads shared state and leaves the call as c.
Reads(t, pc, c) ==
  /\ At(t, pc)
  /\ Become(t, c)
  /\ UNCHANGED <<disk, index, caches, records>>

\* The store after init_genesis.
Init ==
  /\ rows = {Genesis}
  /\ cfCanonical = [NoIndex EXCEPT ![0] = Genesis]
  /\ metaTip = Genesis /\ metaMin = 0
  /\ tip = Genesis /\ minRetained = 0
  /\ bin = [NoIndex EXCEPT ![0] = Genesis]
  /\ heightCache = NoIndex
  /\ blockCache = {Genesis} /\ headerCache = {Genesis}
  /\ record = [b \in Blocks |-> IF b = Genesis THEN "canonical" ELSE "none"]
  /\ recordLock = NoThread
  /\ call = [t \in Threads |-> Idle]
  /\ left = MaxCalls

-----------------------------------------------------------------------------
(***************************************************************************)
(* The calls, at their first step.  A range is the whole index: a shorter  *)
(* one takes a part of its steps.                                          *)
(***************************************************************************)
HeightCall(op, pc) == {[Idle EXCEPT !.op = op, !.pc = pc, !.to = h, !.h = h] : h \in Heights}
BlockCall(op, pc) == {[Idle EXCEPT !.op = op, !.pc = pc, !.arg = b] : b \in Blocks}
PruneCall ==
  {[Idle EXCEPT !.op = "prune_before_height", !.pc = "readFloor", !.to = p] :
     p \in 0..(MaxHeight + 1)}
StreamCall ==
  {[Idle EXCEPT !.op = "stream_blocks_in_range", !.pc = "capture", !.last = MaxHeight]}
RangeCall ==
  {[Idle EXCEPT !.op = "get_blocks_in_range", !.pc = "floor", !.back = "found",
                !.last = MaxHeight]}
ReorgCall(bs) ==
  {[Idle EXCEPT !.op = "apply_reorg", !.pc = "readTip", !.to = h, !.list = bs] : h \in Heights}
SetCanonicalCall ==
  {[c EXCEPT !.back = "putRow"] : c \in BlockCall("set_canonical", "recordCached")}

Calls ==
  HeightCall("get_hash_by_height", "floor") \cup HeightCall("rollback_to_height", "readTip")
  \cup PruneCall \cup StreamCall \cup RangeCall \cup (UNION {ReorgCall(bs) : bs \in Chains})
  \cup BlockCall("get_block", "blockCached") \cup BlockCall("get_record", "recordCached")
  \cup BlockCall("put_block", "present") \cup BlockCall("put_canonical", "present")
  \cup BlockCall("extend_chain", "hasBlock") \cup SetCanonicalCall
  \cup BlockCall("invalidate_record_cache_entry", "forget")

Begin(t) ==
  /\ At(t, "idle")
  /\ left[t] > 0
  /\ \E c \in Calls : c.op \in Offers[t] /\ call' = [call EXCEPT ![t] = c]
  /\ left' = [left EXCEPT ![t] = @ - 1]
  /\ UNCHANGED <<disk, index, caches, records>>

-----------------------------------------------------------------------------
(***************************************************************************)
(* get_hash_by_height, called by readers and inside rollback, reorg and    *)
(* pruning: four reads, then the insert into the height cache.  The guard  *)
(* of "if let" keeps canonical.bin locked for reading until the slot it    *)
(* was read from is in the height cache; a row of CF_CANONICAL is inserted *)
(* without any lock.                                                       *)
(***************************************************************************)
ReadFloor(t) ==
  Reads(t, "floor", IF call[t].h < minRetained THEN Resumed([call[t] EXCEPT !.hash = NoBlock])
                    ELSE [call[t] EXCEPT !.pc = "heightCached"])

ReadHeightCache(t) ==
  LET b == heightCache[call[t].h]
  IN  Reads(t, "heightCached", IF b # NoBlock THEN Resumed([call[t] EXCEPT !.hash = b])
                               ELSE [call[t] EXCEPT !.pc = "slot"])

ReadBin(t) ==
  LET b == bin[call[t].h]
  IN  Reads(t, "slot", [call[t] EXCEPT !.hash = b,
                                       !.pc = IF b # NoBlock THEN "fillLocked" ELSE "row"])

ReadRow(t) ==
  LET c == [call[t] EXCEPT !.hash = cfCanonical[call[t].h]]
  IN  Reads(t, "row", IF c.hash # NoBlock THEN [c EXCEPT !.pc = "fill"] ELSE Resumed(c))

Fill(t) ==
  /\ At(t, "fillLocked") \/ At(t, "fill")
  /\ heightCache' = CacheInsertOne(heightCache, call[t].h, call[t].hash)
  /\ Become(t, Resumed(call[t]))
  /\ UNCHANGED <<disk, tip, minRetained, bin, caches, records>>

\* No reader keeps canonical.bin locked: its writers may go on.
BinFree == \A t \in Threads : ~At(t, "fillLocked")

\* A lookup of height h inside the operation c, which continues at back.
LookupFrom(c, h, back) == [c EXCEPT !.pc = "floor", !.h = h, !.back = back]

\* The walk of an operation from one height to another, either way.
Walk(t) ==
  LET c == call[t]
      found == [c EXCEPT !.seen = @ \cup ({c.hash} \ {NoBlock}),
                         !.hits = IF c.hash # NoBlock THEN @ \cup {c.h} ELSE @]
  IN  Reads(t, "walk",
            IF c.h = c.last
              THEN [found EXCEPT !.pc = IF c.op = "prune_before_height" THEN "scan" ELSE "commit"]
              ELSE LookupFrom(found, IF c.h > c.last THEN c.h - 1 ELSE c.h + 1, "walk"))

-----------------------------------------------------------------------------
(***************************************************************************)
(* get_block; get_blocks_in_range, which looks up a height and reads its   *)
(* body before the next height; and stream_blocks_in_range, which captures *)
(* the rows of CF_CANONICAL and reads their bodies one by one later.       *)
(***************************************************************************)
NextHeight(c) == IF c.h = c.last THEN Idle ELSE LookupFrom(c, c.h + 1, "found")

Lowest(bs) == CHOOSE b \in bs : \A x \in bs : Height[b] <= Height[x]

\* The next body of a range or of the captured rows, in the order of their
\* heights, or the end of the call.
NextBody(c) ==
  LET b == Lowest(c.seen)
  IN  IF c.op = "get_blocks_in_range" THEN NextHeight(c)
      ELSE IF c.seen = {} THEN Idle
      ELSE [c EXCEPT !.pc = "blockCached", !.arg = b, !.seen = @ \ {b}]

\* get_block_by_height: None for the height, or the body of the hash.
Found(t) ==
  LET c == call[t]
  IN  Reads(t, "found", IF c.hash = NoBlock THEN NextHeight(c)
                        ELSE [c EXCEPT !.pc = "blockCached", !.arg = c.hash])

Capture(t) ==
  LET pairs == {cfCanonical[h] : h \in 0..call[t].last} \ {NoBlock}
  IN  Reads(t, "capture", NextBody([call[t] EXCEPT !.seen = pairs]))

ReadBlockCache(t) ==
  Reads(t, "blockCached", IF call[t].arg \in blockCache THEN NextBody(call[t])
                          ELSE [call[t] EXCEPT !.pc = "body"])

\* A missing row is None for get_block, skipped by the range and BlockNotFound
\* for the stream.
ReadBody(t) ==
  Reads(t, "body", [call[t] EXCEPT !.pc = IF call[t].arg \in rows THEN "cacheBlock"
                                                                 ELSE "missing"])

Missing(t) == Reads(t, "missing", NextBody(call[t]))

\* The inserts of a body and of its header, for reads and writes.
CacheBlock(t) ==
  /\ At(t, "cacheBlock")
  /\ blockCache' = blockCache \cup {call[t].arg}
  /\ Goto(t, "cacheHeader")
  /\ UNCHANGED <<disk, index, headerCache, records>>

CacheHeader(t) ==
  LET c == call[t]
  IN  /\ At(t, "cacheHeader")
      /\ headerCache' = headerCache \cup {c.arg}
      /\ CASE c.op \in {"get_block", "get_blocks_in_range", "stream_blocks_in_range"} -> Become(t, NextBody(c))
           [] c.op \in {"put_block", "put_canonical"} -> Return(t)
           [] c.op = "extend_chain" -> Goto(t, "putTip")
           [] OTHER -> Goto(t, "derive")
      /\ UNCHANGED <<disk, index, blockCache, records>>

-----------------------------------------------------------------------------
(***************************************************************************)
(* get_record: the record cache under its mutex, then the header cache,    *)
(* then CF_HEADERS.  An operation that needs a record fails without one.   *)
(***************************************************************************)
Unlocked == recordLock = NoThread

ReadRecordCache(t) ==
  /\ Unlocked
  /\ Reads(t, "recordCached", IF record[call[t].arg] # "none" THEN Resumed(call[t])
                              ELSE [call[t] EXCEPT !.pc = "headerCached"])

ReadHeaderCache(t) ==
  Reads(t, "headerCached", [call[t] EXCEPT !.pc = IF call[t].arg \in headerCache THEN "derive"
                                                                               ELSE "header"])

ReadHeader(t) ==
  Reads(t, "header", IF call[t].arg \in rows THEN [call[t] EXCEPT !.pc = "cacheHeader"] ELSE Idle)

\* A derived record is Validated, which counts as canonical.
Derive(t) ==
  /\ At(t, "derive")
  /\ Unlocked
  /\ record' = [record EXCEPT ![call[t].arg] = "canonical"]
  /\ Become(t, Resumed(call[t]))
  /\ UNCHANGED <<disk, index, caches, recordLock>>

Forget(t) ==
  /\ At(t, "forget")
  /\ Unlocked
  /\ record' = [record EXCEPT ![call[t].arg] = "none"]
  /\ Return(t)
  /\ UNCHANGED <<disk, index, caches, recordLock>>

-----------------------------------------------------------------------------
(***************************************************************************)
(* put_block, extend_chain and set_canonical.                              *)
(***************************************************************************)

\* has_block: the caches, then the rows.
HasBlock(t) ==
  Reads(t, "hasBlock", IF call[t].arg \in blockCache \cup headerCache THEN Idle
                       ELSE [call[t] EXCEPT !.pc = "hasRow"])

HasRow(t) ==
  Reads(t, "hasRow", IF call[t].arg \in rows THEN Idle ELSE [call[t] EXCEPT !.pc = "present"])

\* put_block's own check; extend_chain goes on to set_tip whatever put answers.
Present(t) ==
  Reads(t, "present",
        IF call[t].arg \notin rows THEN [call[t] EXCEPT !.pc = "write"]
        ELSE IF call[t].op = "extend_chain" THEN [call[t] EXCEPT !.pc = "putTip"] ELSE Idle)

WriteBlock(t) ==
  LET b == call[t].arg
      canonical == call[t].op # "put_block"
  IN  /\ At(t, "write")
      /\ rows' = rows \cup {b}
      /\ cfCanonical' = IF canonical THEN [cfCanonical EXCEPT ![Height[b]] = b]
                                     ELSE cfCanonical
      /\ Goto(t, IF canonical THEN "writeSlot" ELSE "cacheRecord")
      /\ UNCHANGED <<metaTip, metaMin, index, caches, records>>

\* set_canonical after get_record.
PutRow(t) ==
  /\ At(t, "putRow")
  /\ cfCanonical' = [cfCanonical EXCEPT ![Height[call[t].arg]] = call[t].arg]
  /\ Goto(t, "writeSlot")
  /\ UNCHANGED <<rows, metaTip, metaMin, index, caches, records>>

WriteSlot(t) ==
  /\ At(t, "writeSlot")
  /\ BinFree
  /\ bin' = [bin EXCEPT ![Height[call[t].arg]] = call[t].arg]
  /\ Goto(t, "cacheHeight")
  /\ UNCHANGED <<disk, tip, minRetained, heightCache, caches, records>>

CacheHeight(t) ==
  /\ At(t, "cacheHeight")
  /\ heightCache' = CacheInsertOne(heightCache, Height[call[t].arg], call[t].arg)
  /\ Goto(t, IF call[t].op = "set_canonical" THEN "flag" ELSE "cacheRecord")
  /\ UNCHANGED <<disk, tip, minRetained, bin, caches, records>>

CacheRecord(t) ==
  /\ At(t, "cacheRecord")
  /\ Unlocked
  /\ record' = [record EXCEPT ![call[t].arg] = "canonical"]
  /\ Goto(t, "cacheBlock")
  /\ UNCHANGED <<disk, index, caches, recordLock>>

\* Mutant: the mutex is not given back.
FlagKeepsLock(t) ==
  /\ At(t, "flag")
  /\ Unlocked
  /\ record' = [record EXCEPT ![call[t].arg] = "canonical"]
  /\ recordLock' = t
  /\ Return(t)
  /\ UNCHANGED <<disk, index, caches>>

\* The end of set_canonical.  The guard of "if let" is a temporary of the whole
\* statement: when the record is not there, the else branch asks for the mutex
\* that this thread still has, and waits at "relock" for ever.
Flag(t) ==
  LET b == call[t].arg
  IN  /\ At(t, "flag")
      /\ Unlocked
      /\ IF record[b] # "none"
           THEN /\ record' = [record EXCEPT ![b] = "canonical"]
                /\ Return(t)
                /\ UNCHANGED recordLock
           ELSE /\ recordLock' = t
                /\ Goto(t, "relock")
                /\ UNCHANGED record
      /\ UNCHANGED <<disk, index, caches>>

-----------------------------------------------------------------------------
(***************************************************************************)
(* set_tip, at the end of extend_chain and inside rollback_to_height.      *)
(***************************************************************************)
PutTip(t) ==
  /\ At(t, "putTip")
  /\ metaTip' = call[t].arg
  /\ Goto(t, "setTip")
  /\ UNCHANGED <<rows, cfCanonical, metaMin, index, caches, records>>

SetTip(t) ==
  /\ At(t, "setTip")
  /\ tip' = call[t].arg
  /\ IF call[t].op = "rollback_to_height" THEN Goto(t, "unflag") ELSE Return(t)
  /\ UNCHANGED <<disk, minRetained, bin, heightCache, caches, records>>

-----------------------------------------------------------------------------
(***************************************************************************)
(* rollback_to_height and apply_reorg.                                     *)
(***************************************************************************)

\* The walk down to the height above c.to, if there is any, then the commit.
WalkDown(c) ==
  IF c.to < c.top THEN LookupFrom([c EXCEPT !.last = c.to + 1], c.top, "walk")
                  ELSE [c EXCEPT !.pc = "commit"]

\* RollbackAboveTip; apply_reorg goes on to the record of its first hash.
ReadTip(t) ==
  LET c == [call[t] EXCEPT !.top = Height[tip]]
  IN  Reads(t, "readTip",
            IF c.op = "apply_reorg"
              THEN [c EXCEPT !.todo = c.list, !.arg = Head(c.list), !.pc = "recordCached",
                             !.back = "validated"]
              ELSE IF c.to > c.top THEN Idle ELSE [c EXCEPT !.pc = "aboveFloor"])

\* RollbackBelowMin, and the no-op at the tip.
AboveFloor(t) ==
  LET c == call[t]
  IN  Reads(t, "aboveFloor", IF c.to < minRetained \/ c.to = c.top THEN Idle ELSE WalkDown(c))

\* One record of the new chain was found; the next, or the walk.
Validated(t) ==
  LET rest == Tail(call[t].todo)
  IN  Reads(t, "validated",
            IF rest = << >> THEN WalkDown(call[t])
            ELSE [call[t] EXCEPT !.todo = rest, !.arg = Head(rest), !.pc = "recordCached"])

Gone(c) == (c.to + 1)..c.top

\* Mutant: the bodies of reverted blocks are deleted with their rows.
CommitRollbackBodies(t) ==
  /\ At(t, "commit")
  /\ call[t].op = "rollback_to_height"
  /\ rows' = rows \ call[t].seen
  /\ cfCanonical' = Without(cfCanonical, Gone(call[t]))
  /\ Goto(t, "truncate")
  /\ UNCHANGED <<metaTip, metaMin, index, caches, records>>

CommitRollback(t) ==
  /\ At(t, "commit")
  /\ call[t].op = "rollback_to_height"
  /\ cfCanonical' = Without(cfCanonical, Gone(call[t]))
  /\ Goto(t, "truncate")
  /\ UNCHANGED <<rows, metaTip, metaMin, index, caches, records>>

\* Mutant: META_TIP is not part of the batch.
CommitReorgNoTip(t) ==
  LET c == call[t]
  IN  /\ At(t, "commit")
      /\ c.op = "apply_reorg"
      /\ cfCanonical' = PutAll(Without(cfCanonical, Gone(c)), c.list, DOMAIN c.list)
      /\ Become(t, [c EXCEPT !.pc = "truncate", !.arg = c.list[Len(c.list)], !.todo = c.list])
      /\ UNCHANGED <<rows, metaTip, metaMin, index, caches, records>>

\* One WriteBatch: deleted rows, new rows and META_TIP.
CommitReorg(t) ==
  LET c == call[t]
      newTip == c.list[Len(c.list)]
  IN  /\ At(t, "commit")
      /\ c.op = "apply_reorg"
      /\ cfCanonical' = PutAll(Without(cfCanonical, Gone(c)), c.list, DOMAIN c.list)
      /\ metaTip' = newTip
      /\ Become(t, [c EXCEPT !.pc = "truncate", !.arg = newTip, !.todo = c.list])
      /\ UNCHANGED <<rows, metaMin, index, caches, records>>

Truncate(t) ==
  LET c == call[t]
  IN  /\ At(t, "truncate")
      /\ BinFree
      /\ bin' = BinTruncate(bin, c.to)
      /\ Become(t, IF c.op = "apply_reorg" THEN [c EXCEPT !.pc = "rewrite"]
                                           ELSE LookupFrom(c, c.to, "newTip"))
      /\ UNCHANGED <<disk, tip, minRetained, heightCache, caches, records>>

\* rollback_to_height: the tip becomes what the lookup found at the target.
NewTip(t) ==
  LET c == call[t]
  IN  Reads(t, "newTip", IF c.hash = NoBlock THEN [c EXCEPT !.pc = "unflag"]
                         ELSE [c EXCEPT !.arg = c.hash, !.pc = "putTip"])

\* apply_reorg: the slots of the new chain, one lock region each.
Rewrite(t) ==
  LET b == Head(call[t].todo)
      rest == Tail(call[t].todo)
  IN  /\ At(t, "rewrite")
      /\ BinFree
      /\ bin' = [bin EXCEPT ![Height[b]] = b]
      /\ Become(t, [call[t] EXCEPT !.todo = rest,
                                   !.pc = IF rest = << >> THEN "unflag" ELSE "rewrite"])
      /\ UNCHANGED <<disk, tip, minRetained, heightCache, caches, records>>

\* Reverted records lose the flag, then those of the new chain gain it.
Unflag(t) ==
  LET c == call[t]
      applied == {c.list[i] : i \in DOMAIN c.list}
      flag(b) == IF record[b] = "none" THEN "none"
                 ELSE IF b \in applied THEN "canonical"
                 ELSE IF b \in c.seen THEN "reverted" ELSE record[b]
  IN  /\ At(t, "unflag")
      /\ Unlocked
      /\ record' = [b \in Blocks |-> flag(b)]
      /\ Goto(t, "recache")
      /\ UNCHANGED <<disk, index, caches, recordLock>>

\* The height cache; for apply_reorg the new entries, whatever the capacity.
Recache(t) ==
  LET c == call[t]
  IN  /\ At(t, "recache")
      /\ heightCache' = PutAll(Without(heightCache, Gone(c)), c.list, DOMAIN c.list)
      /\ IF c.op = "apply_reorg" THEN Goto(t, "setTip") ELSE Return(t)
      /\ UNCHANGED <<disk, tip, minRetained, bin, caches, records>>

-----------------------------------------------------------------------------
(***************************************************************************)
(* prune_before_height.                                                    *)
(***************************************************************************)

ReadMin(t) ==
  LET c == call[t]
  IN  Reads(t, "readFloor",
            IF c.to <= minRetained THEN Idle
            ELSE LookupFrom([c EXCEPT !.last = c.to - 1], minRetained, "walk"))

\* Mutant: blocks at the new floor are collected, too.
ScanInclusive(t) ==
  LET c == call[t]
  IN  Reads(t, "scan", [c EXCEPT !.seen = @ \cup {b \in rows : Height[b] <= c.to},
                                 !.pc = "commit"])

\* The scan of CF_HEADERS for blocks that the walk has not met.
Scan(t) ==
  LET c == call[t]
  IN  Reads(t, "scan", [c EXCEPT !.seen = @ \cup {b \in rows : Height[b] < c.to},
                                 !.pc = "commit"])

\* Mutant: META_MIN_HEIGHT is not part of the batch.
CommitPruneNoFloor(t) ==
  LET c == call[t]
  IN  /\ At(t, "commit")
      /\ c.op = "prune_before_height"
      /\ rows' = rows \ c.seen
      /\ cfCanonical' = Without(cfCanonical, c.hits)
      /\ Goto(t, "raise")
      /\ UNCHANGED <<metaTip, metaMin, index, caches, records>>

\* One WriteBatch: blocks, headers, canonical rows and META_MIN_HEIGHT.
CommitPrune(t) ==
  LET c == call[t]
  IN  /\ At(t, "commit")
      /\ c.op = "prune_before_height"
      /\ rows' = rows \ c.seen
      /\ cfCanonical' = Without(cfCanonical, c.hits)
      /\ metaMin' = c.to
      /\ Goto(t, "raise")
      /\ UNCHANGED <<metaTip, index, caches, records>>

Raise(t) ==
  LET c == call[t]
  IN  /\ At(t, "raise")
      /\ minRetained' = c.to
      /\ Goto(t, IF c.seen = {} THEN "evictBelow" ELSE "evictBlock")
      /\ UNCHANGED <<disk, tip, bin, heightCache, caches, records>>

EvictBlock(t) ==
  /\ At(t, "evictBlock")
  /\ \E b \in call[t].seen :
       /\ blockCache' = blockCache \ {b}
       /\ Become(t, [call[t] EXCEPT !.arg = b, !.pc = "evictHeader"])
  /\ UNCHANGED <<disk, index, headerCache, records>>

EvictHeader(t) ==
  /\ At(t, "evictHeader")
  /\ headerCache' = headerCache \ {call[t].arg}
  /\ Goto(t, "evictRecord")
  /\ UNCHANGED <<disk, index, blockCache, records>>

EvictRecord(t) ==
  LET others == call[t].seen \ {call[t].arg}
  IN  /\ At(t, "evictRecord")
      /\ Unlocked
      /\ record' = [record EXCEPT ![call[t].arg] = "none"]
      /\ Become(t, [call[t] EXCEPT !.seen = others,
                                   !.pc = IF others = {} THEN "evictBelow" ELSE "evictBlock"])
      /\ UNCHANGED <<disk, index, caches, recordLock>>

EvictBelow(t) ==
  /\ At(t, "evictBelow")
  /\ heightCache' = Without(heightCache, {h \in Heights : h < call[t].to})
  /\ Return(t)
  /\ UNCHANGED <<disk, tip, minRetained, bin, caches, records>>

-----------------------------------------------------------------------------
LookupStep(t) == ReadFloor(t) \/ ReadHeightCache(t) \/ ReadBin(t) \/ ReadRow(t) \/ Fill(t)
                 \/ Walk(t)
BodyStep(t) == Capture(t) \/ Found(t) \/ ReadBlockCache(t) \/ ReadBody(t) \/ Missing(t) \/ CacheBlock(t)
               \/ CacheHeader(t)
RecordStep(t) == ReadRecordCache(t) \/ ReadHeaderCache(t) \/ ReadHeader(t) \/ Derive(t)
                 \/ Forget(t)
PutStep(t) == HasBlock(t) \/ HasRow(t) \/ Present(t) \/ WriteBlock(t) \/ PutRow(t) \/ WriteSlot(t)
              \/ CacheHeight(t) \/ CacheRecord(t) \/ Flag(t) \/ PutTip(t) \/ SetTip(t)
ReorgStep(t) == ReadTip(t) \/ AboveFloor(t) \/ Validated(t) \/ CommitRollback(t)
                \/ CommitReorg(t) \/ Truncate(t) \/ NewTip(t) \/ Rewrite(t) \/ Unflag(t)
                \/ Recache(t)
PruneStep(t) == ReadMin(t) \/ Scan(t) \/ CommitPrune(t) \/ Raise(t) \/ EvictBlock(t)
                \/ EvictHeader(t) \/ EvictRecord(t) \/ EvictBelow(t)

Step(t) == LookupStep(t) \/ BodyStep(t) \/ RecordStep(t) \/ PutStep(t) \/ ReorgStep(t)
           \/ PruneStep(t)

Next == \E t \in Threads : Begin(t) \/ Step(t)

\* A thread inside a call is scheduled; no lock but recordLock outlives a step.
Spec == Init /\ [][Next]_vars /\ \A t \in Threads : WF_vars(Step(t))

-----------------------------------------------------------------------------
(***************************************************************************)
(* Properties.                                                             *)
(***************************************************************************)

\* The types of the state that the threads share.
TypeOK ==
  /\ rows \subseteq Blocks /\ cfCanonical \in Index
  /\ metaTip \in Blocks /\ tip \in Blocks
  /\ metaMin \in 0..(MaxHeight + 1) /\ minRetained \in 0..metaMin
  /\ bin \in Index /\ heightCache \in Index
  /\ blockCache \subseteq Blocks /\ headerCache \subseteq Blocks
  /\ record \in [Blocks -> {"none", "canonical", "reverted"}]
  /\ recordLock \in Threads \cup {NoThread}

\* What a thread may be told or hand on: a hash at its own height, whose block
\* is stored unless the persisted floor is above it.
Sound(b, h) == Height[b] = h /\ (h >= metaMin => b \in rows)

\* Every hash that any tier of the index, any cache, the tip or a lookup under
\* way holds names a stored block of that height, or one below META_MIN_HEIGHT:
\* between the steps of a pruning or reorg, too, and after a reader has filled a
\* cache with what it read before them.
SharedHashesSound ==
  /\ \A f \in {cfCanonical, bin, heightCache} : \A h \in Heights :
       f[h] # NoBlock => Sound(f[h], h)
  /\ \A b \in blockCache \cup headerCache \cup {tip, metaTip}
               \cup {x \in Blocks : record[x] # "none"} : Sound(b, Height[b])
  /\ \A t \in Threads : call[t].pc \in {"fill", "fillLocked"} => Sound(call[t].hash, call[t].h)

\* get_blocks_in_range leaves out, and a stream reports as BlockNotFound, only
\* blocks that were pruned after their hash was read: no rollback, reorg or
\* replacement between the lookup and the read of the body loses a block.
RangeMissesOnlyPruned ==
  \A t \in Threads :
    call[t].op \in {"get_blocks_in_range", "stream_blocks_in_range"} /\ call[t].pc = "missing"
      => Height[call[t].arg] < metaMin

\* When no writer is inside a call, the tip and the floor in memory are the
\* persisted ones and canonical.bin agrees with CF_CANONICAL, whatever readers
\* are doing.
Mutating(t) == call[t].op \in WriteOps
WritersAtRest ==
  (\A t \in Threads : ~Mutating(t)) =>
    /\ tip = metaTip /\ minRetained = metaMin
    /\ \A h \in Heights : h >= metaMin /\ bin[h] # NoBlock => bin[h] = cfCanonical[h]

\* The steps that the operations go through, and where their lookups return to.
InStep(c) ==
  /\ c.op = "idle" => c.pc = "idle"
  /\ c.op = "get_hash_by_height" => c.pc \in LookupPcs /\ c.back = "idle"
  /\ c.op = "get_block" => c.pc \in BodyPcs
  /\ c.op = "get_record" => c.pc \in RecordPcs /\ c.back = "idle"
  /\ c.op = "get_blocks_in_range" =>
       c.pc \in LookupPcs \cup BodyPcs \cup {"found"} /\ c.back = "found" /\ c.last = MaxHeight
  /\ c.op = "stream_blocks_in_range" => c.pc \in BodyPcs \cup {"capture"}
  /\ c.op = "put_block" =>
       c.pc \in {"present", "write", "cacheRecord", "cacheBlock", "cacheHeader"}
  /\ c.op = "put_canonical" =>
       c.pc \in {"present", "write", "writeSlot", "cacheHeight", "cacheRecord", "cacheBlock",
                 "cacheHeader"}
  /\ c.op = "extend_chain" =>
       c.pc \in {"hasBlock", "hasRow", "present", "write", "writeSlot", "cacheHeight",
                 "cacheRecord", "cacheBlock", "cacheHeader", "putTip", "setTip"}
  /\ c.op = "set_canonical" =>
       /\ c.pc \in RecordPcs \cup {"putRow", "writeSlot", "cacheHeight", "flag", "relock"}
       /\ c.back = "putRow"
  /\ c.op = "rollback_to_height" =>
       /\ c.pc \in LookupPcs \cup {"readTip", "aboveFloor", "walk", "commit", "truncate",
                                  "newTip", "putTip", "setTip", "unflag", "recache"}
       /\ c.pc \in LookupPcs => c.back \in {"walk", "newTip"}
  /\ c.op = "apply_reorg" =>
       /\ c.pc \in LookupPcs \cup RecordPcs \cup {"readTip", "validated", "walk", "commit",
                                  "truncate", "rewrite", "unflag", "recache", "setTip"}
       /\ c.pc \in LookupPcs => c.back = "walk"
       /\ c.pc \in RecordPcs \cup {"validated"} => c.back = "validated"
  /\ c.op = "prune_before_height" =>
       /\ c.pc \in LookupPcs \cup {"readFloor", "walk", "scan", "commit", "raise", "evictBlock",
                                  "evictHeader", "evictRecord", "evictBelow"}
       /\ c.pc \in LookupPcs => c.back = "walk"
  /\ c.op = "invalidate_record_cache_entry" => c.pc = "forget"

\* Block b is among the rows R, unless the floor m is above it.
Kept(b, R, m) == b \in Blocks /\ (Height[b] >= m => b \in R)

\* apply_reorg knows the records of its hashes before it commits them, and has
\* its new tip from then on.
ReorgInv(c, R, m) ==
  /\ c.op # "apply_reorg" => c.list = << >> /\ c.todo = << >>
  /\ c.op = "apply_reorg" =>
       /\ c.list # << >>
       /\ c.pc \in RecordPcs \cup {"validated"} =>
            /\ c.todo # << >> /\ c.arg = Head(c.todo)
            /\ \A i \in DOMAIN c.list :
                 Kept(c.list[i], R, m) \/ \E j \in DOMAIN c.todo : c.todo[j] = c.list[i]
       /\ c.pc \notin RecordPcs \cup {"readTip", "validated"} =>
            \A i \in DOMAIN c.list : Kept(c.list[i], R, m)
       /\ c.pc \in {"truncate", "rewrite"} =>
            c.todo # << >> /\ \A j \in DOMAIN c.todo : Kept(c.todo[j], R, m)
       /\ c.pc \in {"truncate", "rewrite", "unflag", "recache"} => Kept(c.arg, R, m)

\* What prune_before_height is about to delete is below the floor it commits.
PruneInv(c, m) ==
  /\ c.op # "prune_before_height" => c.to \in Heights
  /\ c.op = "prune_before_height" =>
       /\ c.pc = "readFloor" => c.seen = {} /\ c.hits = {}
       /\ c.pc \in LookupPcs \cup {"walk"} => c.h <= c.last
       /\ c.pc \in LookupPcs \cup {"walk", "scan", "commit"} =>
            /\ m < c.to /\ c.last = c.to - 1
            /\ \A b \in c.seen : Height[b] < c.to
            /\ \A k \in c.hits : k < c.to
       /\ c.pc = "raise" => m = c.to
       /\ c.pc \in {"evictHeader", "evictRecord"} => c.arg \in Blocks

\* What a call c has read and will use later is still there, or below the
\* floor, when the store has the rows R and the floor m.
HeldInv(c, R, m) ==
  /\ c.pc \in {"fill", "fillLocked"} => c.hash # NoBlock
  /\ c.pc \in {"fill", "fillLocked", "walk", "found", "newTip"} /\ c.hash # NoBlock =>
       Kept(c.hash, R, m) /\ Height[c.hash] = c.h
  /\ c.op \in {"get_block", "get_record", "put_block", "put_canonical", "extend_chain",
               "set_canonical", "invalidate_record_cache_entry"} => c.arg \in Blocks
  /\ c.pc \in {"cacheBlock", "cacheHeader", "derive", "putRow", "validated", "writeSlot",
               "cacheHeight", "cacheRecord", "flag", "putTip", "setTip"} => Kept(c.arg, R, m)
  /\ c.op \in {"get_blocks_in_range", "stream_blocks_in_range"} =>
       /\ c.pc \in BodyPcs => Kept(c.arg, R, m)
       /\ c.pc = "missing" => Height[c.arg] < m
  /\ c.op = "stream_blocks_in_range" => \A b \in c.seen : Kept(b, R, m)

CallInv(c, R, m) ==
  InStep(c) /\ HeldInv(c, R, m) /\ ReorgInv(c, R, m) /\ PruneInv(c, m)

\* Every thread is at a step of an operation it offers, with nothing in its
\* hands that the others have taken away; and the two floors differ only
\* between the commit of a pruning and its next step.
CallsInv ==
  /\ call \in [Threads -> CallType]
  /\ \A t \in Threads : /\ CallInv(call[t], rows, metaMin)
                        /\ call[t].op \in Offers[t] \cup {"idle"}
  /\ (\A t \in Threads : ~At(t, "raise")) => minRetained = metaMin

\* The slot of height h is one that the call c has yet to write or to cut.
DueSlot(c, h) ==
  \/ c.pc = "writeSlot" /\ h = Height[c.arg]
  \/ c.pc = "truncate" /\ c.to < h
  \/ c.pc \in {"truncate", "rewrite"} /\ \E i \in DOMAIN c.todo : Height[c.todo[i]] = h

\* META_TIP is written and the tip in memory is not.
DueTip(c) ==
  \/ c.pc = "setTip"
  \/ c.op = "apply_reorg" /\ c.pc \in {"truncate", "rewrite", "unflag", "recache"}

\* What one writer owes to memory at each of its steps: apart from the slots it
\* has yet to write, with the rows it has committed, canonical.bin agrees with
\* CF_CANONICAL, and apart from the tip it has yet to set the two tips are one.
WriterInv ==
  /\ \A h \in Heights :
       h >= metaMin /\ bin[h] # NoBlock /\ (\A t \in Threads : ~DueSlot(call[t], h))
         => bin[h] = cfCanonical[h]
  /\ \A t \in Threads :
       LET c == call[t]
       IN  /\ c.pc = "writeSlot" => cfCanonical[Height[c.arg]] = c.arg
           /\ c.pc \in {"truncate", "rewrite"} =>
                \A i \in DOMAIN c.todo :
                  (\A j \in DOMAIN c.todo : i < j => Height[c.todo[j]] # Height[c.todo[i]])
                    => cfCanonical[Height[c.todo[i]]] = c.todo[i]
           /\ DueTip(c) => metaTip = c.arg
  /\ (\A t \in Threads : ~DueTip(call[t])) => tip = metaTip

\* Every call in progress is sound and the one writer owes only what it has yet
\* to write: the invariant that the steps of all threads keep together.
ThreadsInv == CallsInv /\ WriterInv

\* Every call returns: no thread waits for a lock or loops for ever.
EveryCallReturns == \A t \in Threads : []<>At(t, "idle")

-----------------------------------------------------------------------------
(***************************************************************************)
(* What the documentation says and the code does not keep.                 *)
(***************************************************************************)

\* When no writer is inside a call, get_hash_by_height answers with the
\* CF_CANONICAL row.  A reader that read the row between the commit of put_block
\* and the write of its slot, and inserts it into the height cache after the
\* next write or rollback of that height, leaves an answer that no later read
\* corrects, and that a rollback to that height persists as the tip.
QuietLookupIsCanonical ==
  (\A t \in Threads : ~Mutating(t)) =>
    \A h \in Heights :
      h >= minRetained /\ heightCache[h] # NoBlock => heightCache[h] = cfCanonical[h]

\* min_retained_height, in memory and in RocksDB, only rises (PRN-004: it "MUST
\* be monotonically non-decreasing").  prune_before_height reads the floor when
\* it starts, writes its own height when it ends and holds no lock in between:
\* of two prunings that overlap, the one with the lower height may be the last
\* to commit, and lowers the floor that the other has deleted up to.
FloorNeverFalls == [][minRetained' >= minRetained /\ metaMin' >= metaMin]_<<minRetained, metaMin>>

=============================================================================
