------------------------ MODULE StoreThreadsProofs ------------------------
(***************************************************************************)
(* Proofs about StoreThreads, for any number of threads of which one       *)
(* prunes, or, for the agreement of memory and RocksDB, one writes.        *)
(***************************************************************************)
EXTENDS StoreThreads, HeightIndexProofs, SequenceTheorems

\* META_MIN_HEIGHT only rises when prunings do not overlap.
OnePruner ==
  \A t, u \in Threads : "prune_before_height" \in Offers[t] \cap Offers[u] => t = u

-----------------------------------------------------------------------------
(***************************************************************************)
(* The state that threads share, with the rows and the floor as arguments. *)
(***************************************************************************)
TierKept(f, R, m) ==
  f \in Index /\ \A h \in Heights : f[h] # NoBlock => Kept(f[h], R, m) /\ Height[f[h]] = h

AllKept(bs, R, m) == \A b \in bs : Kept(b, R, m)

RecordsOK(r) == r \in [Blocks -> {"none", "canonical", "reverted"}]
Recorded(r) == {b \in Blocks : r[b] # "none"}

StoreInv ==
  /\ rows \subseteq Blocks
  /\ metaMin \in 0..(MaxHeight + 1) /\ minRetained \in 0..metaMin
  /\ TierKept(cfCanonical, rows, metaMin)
  /\ TierKept(bin, rows, metaMin)
  /\ TierKept(heightCache, rows, metaMin)
  /\ AllKept(blockCache, rows, metaMin)
  /\ AllKept(headerCache, rows, metaMin)
  /\ Kept(tip, rows, metaMin) /\ Kept(metaTip, rows, metaMin)
  /\ RecordsOK(record) /\ AllKept(Recorded(record), rows, metaMin)
  /\ recordLock \in Threads \cup {NoThread}

Inv == StoreInv /\ CallsInv

\* What the invariant says of the state between two steps.
LEMMA InvImplies == Inv => TypeOK /\ SharedHashesSound /\ RangeMissesOnlyPruned
<1> SUFFICES ASSUME Inv PROVE TypeOK /\ SharedHashesSound /\ RangeMissesOnlyPruned OBVIOUS
<1>1. TypeOK
  BY DEF Inv, StoreInv, TypeOK, TierKept, AllKept, RecordsOK, Kept
<1>2. \A h \in Heights : h \in Int BY DEF Heights
<1>3. \A f \in {cfCanonical, bin, heightCache} : \A h \in Heights :
        f[h] # NoBlock => Sound(f[h], h)
  BY <1>2 DEF Inv, StoreInv, TierKept, Kept, Sound
<1>4. \A b \in blockCache \cup headerCache \cup {tip, metaTip} \cup Recorded(record) :
        Sound(b, Height[b])
  BY DEF Inv, StoreInv, AllKept, Kept, Sound
<1>5. \A t \in Threads : call[t].pc \in {"fill", "fillLocked"} => Sound(call[t].hash, call[t].h)
  BY DEF Inv, CallsInv, CallInv, HeldInv, Kept, Sound
<1>6. RangeMissesOnlyPruned
  BY DEF Inv, CallsInv, CallInv, HeldInv, RangeMissesOnlyPruned
<1> QED BY <1>1, <1>3, <1>4, <1>5, <1>6 DEF SharedHashesSound, Recorded

-----------------------------------------------------------------------------
(***************************************************************************)
(* Calls.                                                                  *)
(***************************************************************************)
LEMMA IdleType == Idle \in CallType
<1>1. << >> \in Seq(Blocks) BY EmptySeq
<1>2. 0 \in Heights /\ 0 \in 0..(MaxHeight + 1) BY MaxHeightAssumption DEF Heights
<1>3. "idle" \in Pcs BY DEF Pcs
<1> QED BY <1>1, <1>3, <1>2 DEF Idle, CallType, Slot

LEMMA IdleInv == ASSUME NEW R, NEW m PROVE CallInv(Idle, R, m)
<1>1. 0 \in Heights BY MaxHeightAssumption DEF Heights
<1> QED
  BY <1>1 DEF Idle, CallInv, InStep, HeldInv, ReorgInv, PruneInv, LookupPcs, BodyPcs, RecordPcs

\* A call stays sound while the others keep blocks and move the floor up.
LEMMA CallStays ==
  ASSUME NEW c \in CallType, NEW R, NEW m \in Int, NEW S, NEW n \in Int, CallInv(c, R, m),
         \A b : Kept(b, R, m) => Kept(b, S, n),
         m <= n, c.op = "prune_before_height" => m = n
  PROVE  CallInv(c, S, n)
<1>1. InStep(c) BY DEF CallInv
<1>2. HeldInv(c, S, n)
  <2>1. c.arg \in Blocks => Height[c.arg] \in Int BY BlockHeight
  <2>2. c.op \in {"get_blocks_in_range", "stream_blocks_in_range"} /\ c.pc = "missing"
          => Height[c.arg] < n
    BY <2>1 DEF CallInv, HeldInv, BodyPcs, Kept
  <2> QED BY <2>2 DEF CallInv, HeldInv
<1>3. ReorgInv(c, S, n) BY DEF CallInv, ReorgInv
<1>4. PruneInv(c, n) BY DEF CallInv, PruneInv
<1> QED BY <1>1, <1>2, <1>3, <1>4 DEF CallInv

\* A step of thread t that leaves its call as c and keeps what is kept.
LEMMA StepKeeps ==
  ASSUME CallsInv, StoreInv, StoreInv', NEW t \in Threads, NEW c \in CallType,
         call' = [call EXCEPT ![t] = c],
         CallInv(c, rows', metaMin'), c.op \in Offers[t] \cup {"idle"},
         \A b : Kept(b, rows, metaMin) => Kept(b, rows', metaMin'),
         metaMin' = metaMin, minRetained' = minRetained,
         c.pc # "raise", call[t].pc # "raise"
  PROVE  Inv'
<1>1. call \in [Threads -> CallType] BY DEF CallsInv
<1>2. call' \in [Threads -> CallType] /\ call'[t] = c BY <1>1
<1>3. \A u \in Threads : u # t => call'[u] = call[u] BY <1>1
<1>4. metaMin \in Int BY DEF StoreInv
<1>5. ASSUME NEW u \in Threads PROVE CallInv(call'[u], rows', metaMin')
  <2>1. CASE u = t BY <1>2, <2>1
  <2>2. CASE u # t
    <3>1. CallInv(call[u], rows, metaMin) /\ call[u] \in CallType BY <1>1 DEF CallsInv
    <3> QED BY <1>3, <1>4, <2>2, <3>1, CallStays
  <2> QED BY <2>1, <2>2
<1>6. \A u \in Threads : call'[u].op \in Offers[u] \cup {"idle"} BY <1>2, <1>3 DEF CallsInv
<1>7. (\A u \in Threads : call'[u].pc # "raise") => minRetained' = metaMin'
  BY <1>2, <1>3 DEF CallsInv, At
<1> QED BY <1>2, <1>5, <1>6, <1>7 DEF Inv, CallsInv, At

\* A step that only reads what is shared.
LEMMA ReadKeeps ==
  ASSUME Inv, NEW t \in Threads, NEW c \in CallType, call' = [call EXCEPT ![t] = c],
         UNCHANGED <<disk, index, caches, records>>,
         CallInv(c, rows, metaMin), c.op \in {call[t].op, "idle"},
         c.pc # "raise", call[t].pc # "raise"
  PROVE  Inv'
<1>1. UNCHANGED <<rows, cfCanonical, metaTip, metaMin, tip, minRetained, bin, heightCache,
                  blockCache, headerCache, record, recordLock>>
  BY DEF disk, index, caches, records
<1>2. StoreInv' BY <1>1 DEF Inv, StoreInv, TierKept, AllKept, Kept, RecordsOK, Recorded
<1>3. c.op \in Offers[t] \cup {"idle"} BY DEF Inv, CallsInv
<1> QED BY <1>1, <1>2, <1>3, StepKeeps DEF Inv

\* The call d may follow the call c, in a store with the rows R and the floor m.
Follows(d, c, R, m) ==
  d \in CallType /\ CallInv(d, R, m) /\ d.op \in {c.op, "idle"} /\ d.pc # "raise"

\* A call that ends.
LEMMA Ends == ASSUME NEW c, NEW R, NEW m PROVE Follows(Idle, c, R, m)
BY IdleType, IdleInv DEF Follows, Idle

LEMMA ReadsKeeps ==
  ASSUME Inv, NEW t \in Threads, NEW pc, NEW d, Reads(t, pc, d), pc # "raise",
         Follows(d, call[t], rows, metaMin)
  PROVE  Inv'
BY ReadKeeps DEF Reads, At, Become, Follows

\* What is known of the call of a thread.
LEMMA CallFacts ==
  ASSUME Inv, NEW t \in Threads
  PROVE  call[t] \in CallType /\ CallInv(call[t], rows, metaMin)
BY DEF Inv, CallsInv

\* The fields of a call, for the updates that follow.
Fields(d, pc, op, back, arg, list, todo, to, top, h, last, hash, seen, hits) ==
  /\ d \in CallType
  /\ d.pc = pc /\ d.op = op /\ d.back = back /\ d.arg = arg /\ d.list = list
  /\ d.todo = todo /\ d.to = to /\ d.top = top /\ d.h = h
  /\ d.last = last /\ d.hash = hash /\ d.seen = seen /\ d.hits = hits

\* A call that begins a lookup.
LEMMA AtLookup ==
  ASSUME NEW c \in CallType, NEW h \in Heights, NEW back \in Pcs
  PROVE  Fields(LookupFrom(c, h, back), "floor", c.op, back, c.arg, c.list, c.todo, c.to, c.top,
                h, c.last, c.hash, c.seen, c.hits)
<1>1. "floor" \in Pcs BY DEF Pcs, LookupPcs
<1> QED BY <1>1 DEF LookupFrom, Fields, CallType

\* A call that goes on at another step.
LEMMA AtPc ==
  ASSUME NEW c \in CallType, NEW p \in Pcs
  PROVE  LET d == [c EXCEPT !.pc = p]
         IN  /\ d \in CallType
             /\ d.pc = p /\ d.op = c.op /\ d.back = c.back /\ d.arg = c.arg /\ d.list = c.list
             /\ d.todo = c.todo /\ d.to = c.to /\ d.top = c.top /\ d.h = c.h
             /\ d.last = c.last /\ d.hash = c.hash /\ d.seen = c.seen /\ d.hits = c.hits
BY DEF CallType

-----------------------------------------------------------------------------
(***************************************************************************)
(* get_hash_by_height.                                                     *)
(***************************************************************************)

\* A call that has its answer goes on, in a state that is as sound.
LEMMA Resume ==
  ASSUME NEW R, NEW m, NEW c \in CallType, CallInv(c, R, m), c.pc \in LookupPcs,
         c.hash # NoBlock => Kept(c.hash, R, m) /\ Height[c.hash] = c.h
  PROVE  Follows(Resumed(c), c, R, m)
<1>1. CASE c.back = "idle" BY <1>1, Ends DEF Resumed
<1>2. CASE c.back # "idle"
  <2> DEFINE d == Resumed(c)
  <2>1. d = [c EXCEPT !.pc = c.back] BY <1>2 DEF Resumed
  <2>2. c.back \in Pcs BY DEF CallType
  <2>3. /\ d \in CallType
        /\ d.pc = c.back /\ d.op = c.op /\ d.back = c.back /\ d.arg = c.arg /\ d.list = c.list
        /\ d.todo = c.todo /\ d.to = c.to /\ d.top = c.top /\ d.h = c.h
        /\ d.last = c.last /\ d.hash = c.hash /\ d.seen = c.seen /\ d.hits = c.hits
    BY <2>1, <2>2, AtPc
  <2> HIDE DEF d
  <2>4. \/ c.op = "get_blocks_in_range" /\ c.back = "found" /\ c.last = MaxHeight
        \/ c.op = "rollback_to_height" /\ c.back \in {"walk", "newTip"}
        \/ c.op \in {"apply_reorg", "prune_before_height"} /\ c.back = "walk"
    BY <1>2 DEF CallType, ReadOps, WriteOps, CallInv, InStep, LookupPcs, BodyPcs, RecordPcs
  <2>5. InStep(d) BY <2>3, <2>4 DEF InStep, LookupPcs, BodyPcs, RecordPcs
  <2>6. HeldInv(d, R, m) BY <2>3, <2>4 DEF CallInv, HeldInv, BodyPcs
  <2>7. ReorgInv(d, R, m) BY <2>3, <2>4 DEF CallInv, ReorgInv, LookupPcs, RecordPcs
  <2>8. PruneInv(d, m) BY <2>3, <2>4 DEF CallInv, PruneInv, LookupPcs
  <2> QED BY <2>3, <2>4, <2>5, <2>6, <2>7, <2>8 DEF CallInv, d, Follows
<1> QED BY <1>1, <1>2

\* The answer of a tier, kept by the call.
Answer(c, b, p) == [c EXCEPT !.hash = b, !.pc = p]

LEMMA Answered ==
  ASSUME NEW R, NEW m, NEW c \in CallType, CallInv(c, R, m),
         c.pc \in LookupPcs, NEW b \in Slot, NEW p \in LookupPcs,
         b # NoBlock => Kept(b, R, m) /\ Height[b] = c.h,
         p \in {"fill", "fillLocked"} => b # NoBlock
  PROVE  LET d == Answer(c, b, p)
         IN  d \in CallType /\ CallInv(d, R, m) /\ d.op = c.op /\ d.pc = p /\ d.hash = b
             /\ d.h = c.h
<1> DEFINE d == Answer(c, b, p)
<1>1. p \in Pcs BY DEF Pcs
<1>3. /\ d \in CallType
      /\ d.pc = p /\ d.op = c.op /\ d.back = c.back /\ d.arg = c.arg /\ d.list = c.list
      /\ d.todo = c.todo /\ d.to = c.to /\ d.top = c.top /\ d.h = c.h
      /\ d.last = c.last /\ d.hash = b /\ d.seen = c.seen /\ d.hits = c.hits
  BY <1>1 DEF CallType, Answer
<1> HIDE DEF d
<1>4. InStep(d) BY <1>3 DEF CallInv, InStep, LookupPcs, BodyPcs, RecordPcs
<1>5. HeldInv(d, R, m) BY <1>3 DEF CallInv, HeldInv, LookupPcs, BodyPcs
<1>6. ReorgInv(d, R, m) BY <1>3 DEF CallInv, ReorgInv, LookupPcs, RecordPcs
<1>7. PruneInv(d, m) BY <1>3 DEF CallInv, PruneInv, LookupPcs
<1> QED BY <1>3, <1>4, <1>5, <1>6, <1>7 DEF CallInv, d

\* The tiers answer with what is kept.
LEMMA TierAnswers ==
  ASSUME NEW R, NEW m, NEW f, TierKept(f, R, m), NEW h \in Heights
  PROVE  f[h] \in Slot /\ (f[h] # NoBlock => Kept(f[h], R, m) /\ Height[f[h]] = h)
BY DEF TierKept, Index

\* A lookup that goes on to its next tier.
LEMMA LookupMoves ==
  ASSUME NEW R, NEW m, NEW c \in CallType, CallInv(c, R, m), c.pc \in LookupPcs,
         NEW p \in {"heightCached", "slot"}
  PROVE  Follows([c EXCEPT !.pc = p], c, R, m)
<1> DEFINE d == [c EXCEPT !.pc = p]
<1>1. p \in Pcs BY DEF Pcs, LookupPcs
<1>2. /\ d \in CallType
      /\ d.pc = p /\ d.op = c.op /\ d.back = c.back /\ d.arg = c.arg /\ d.list = c.list
      /\ d.todo = c.todo /\ d.to = c.to /\ d.top = c.top /\ d.h = c.h
      /\ d.last = c.last /\ d.hash = c.hash /\ d.seen = c.seen /\ d.hits = c.hits
  BY <1>1, AtPc
<1> HIDE DEF d
<1>3. InStep(d) BY <1>2 DEF CallInv, InStep, LookupPcs, BodyPcs, RecordPcs
<1>4. HeldInv(d, R, m) BY <1>2 DEF CallInv, HeldInv, LookupPcs, BodyPcs
<1>5. ReorgInv(d, R, m) BY <1>2 DEF CallInv, ReorgInv, LookupPcs, RecordPcs
<1>6. PruneInv(d, m) BY <1>2 DEF CallInv, PruneInv, LookupPcs
<1>7. p # "raise" OBVIOUS
<1> QED BY <1>2, <1>3, <1>4, <1>5, <1>6, <1>7 DEF CallInv, Follows, d

\* A lookup that ends with the answer b.
LEMMA LookupEnds ==
  ASSUME NEW R, NEW m, NEW c \in CallType, CallInv(c, R, m),
         c.pc \in LookupPcs \ {"fill", "fillLocked"}, NEW b \in Slot,
         b # NoBlock => Kept(b, R, m) /\ Height[b] = c.h
  PROVE  Follows(Resumed([c EXCEPT !.hash = b]), c, R, m)
<1> DEFINE e == Answer(c, b, c.pc)
<1>1. e = [c EXCEPT !.hash = b] BY DEF CallType, Answer
<1>2. e \in CallType /\ CallInv(e, R, m) /\ e.op = c.op /\ e.pc = c.pc /\ e.hash = b /\ e.h = c.h
  BY Answered
<1> HIDE DEF e
<1>3. Follows(Resumed(e), e, R, m) BY <1>2, Resume
<1> QED BY <1>1, <1>2, <1>3 DEF Follows

LEMMA ReadFloorKeeps == ASSUME Inv, NEW t \in Threads, ReadFloor(t) PROVE Inv'
<1> DEFINE c == call[t]
<1>1. c \in CallType /\ CallInv(c, rows, metaMin) BY CallFacts
<1>2. c.pc = "floor" BY DEF ReadFloor, Reads, At
<1>3. NoBlock \in Slot /\ c.pc \in LookupPcs \ {"fill", "fillLocked"}
  BY <1>2 DEF LookupPcs, Slot
<1>4. Follows(Resumed([c EXCEPT !.hash = NoBlock]), c, rows, metaMin) BY <1>1, <1>3, LookupEnds
<1>5. Follows([c EXCEPT !.pc = "heightCached"], c, rows, metaMin) BY <1>1, <1>3, LookupMoves
<1> QED BY <1>4, <1>5, ReadsKeeps DEF ReadFloor

LEMMA ReadHeightCacheKeeps == ASSUME Inv, NEW t \in Threads, ReadHeightCache(t) PROVE Inv'
<1> DEFINE c == call[t]
           b == heightCache[c.h]
<1>1. c \in CallType /\ CallInv(c, rows, metaMin) BY CallFacts
<1>2. c.pc = "heightCached" BY DEF ReadHeightCache, Reads, At
<1>3. c.pc \in LookupPcs \ {"fill", "fillLocked"} BY <1>2 DEF LookupPcs
<1>4. b \in Slot /\ (b # NoBlock => Kept(b, rows, metaMin) /\ Height[b] = c.h)
  BY <1>1, TierAnswers DEF Inv, StoreInv, CallType
<1>5. Follows(Resumed([c EXCEPT !.hash = b]), c, rows, metaMin) BY <1>1, <1>3, <1>4, LookupEnds
<1>6. Follows([c EXCEPT !.pc = "slot"], c, rows, metaMin) BY <1>1, <1>3, LookupMoves
<1> QED BY <1>5, <1>6, ReadsKeeps DEF ReadHeightCache

LEMMA ReadBinKeeps == ASSUME Inv, NEW t \in Threads, ReadBin(t) PROVE Inv'
<1> DEFINE c == call[t]
           b == bin[c.h]
           p == IF b # NoBlock THEN "fillLocked" ELSE "row"
<1>1. c \in CallType /\ CallInv(c, rows, metaMin) BY CallFacts
<1>2. c.pc = "slot" BY DEF ReadBin, Reads, At
<1>3. c.pc \in LookupPcs BY <1>2 DEF LookupPcs
<1>4. b \in Slot /\ (b # NoBlock => Kept(b, rows, metaMin) /\ Height[b] = c.h)
  BY <1>1, TierAnswers DEF Inv, StoreInv, CallType
<1>5. p \in LookupPcs /\ (p \in {"fill", "fillLocked"} => b # NoBlock) /\ p # "raise"
  BY DEF LookupPcs
<1>6. ReadBin(t) => Reads(t, "slot", Answer(c, b, p)) BY DEF ReadBin, Answer
<1> HIDE DEF p
<1>7. Follows(Answer(c, b, p), c, rows, metaMin)
  BY <1>1, <1>3, <1>4, <1>5, Answered DEF Follows
<1> QED BY <1>6, <1>7, ReadsKeeps

LEMMA ReadRowKeeps == ASSUME Inv, NEW t \in Threads, ReadRow(t) PROVE Inv'
<1> DEFINE c == call[t]
           b == cfCanonical[c.h]
<1>1. c \in CallType /\ CallInv(c, rows, metaMin) BY CallFacts
<1>2. c.pc = "row" BY DEF ReadRow, Reads, At
<1>3. c.pc \in LookupPcs \ {"fill", "fillLocked"} BY <1>2 DEF LookupPcs
<1>4. b \in Slot /\ (b # NoBlock => Kept(b, rows, metaMin) /\ Height[b] = c.h)
  BY <1>1, TierAnswers DEF Inv, StoreInv, CallType
<1>5. [c EXCEPT !.hash = b].hash = b BY <1>1 DEF CallType
<1>6. CASE b # NoBlock
  <2>1. "fill" \in LookupPcs BY DEF LookupPcs
  <2>2. Follows(Answer(c, b, "fill"), c, rows, metaMin)
    BY <1>1, <1>3, <1>4, <1>6, <2>1, Answered DEF Follows
  <2>3. [[c EXCEPT !.hash = b] EXCEPT !.pc = "fill"] = Answer(c, b, "fill") BY DEF Answer
  <2> QED BY <1>5, <1>6, <2>2, <2>3, ReadsKeeps DEF ReadRow
<1>7. CASE b = NoBlock
  <2>1. Follows(Resumed([c EXCEPT !.hash = b]), c, rows, metaMin)
    BY <1>1, <1>3, <1>4, LookupEnds
  <2> QED BY <1>5, <1>7, <2>1, ReadsKeeps DEF ReadRow
<1> QED BY <1>6, <1>7

-----------------------------------------------------------------------------
(***************************************************************************)
(* Steps that write what is shared.                                        *)
(***************************************************************************)
LEMMA WriteKeeps ==
  ASSUME Inv, NEW t \in Threads, NEW d, Become(t, d), call[t].pc # "raise",
         UNCHANGED <<rows, metaMin, minRetained>>,
         TierKept(cfCanonical', rows, metaMin), TierKept(bin', rows, metaMin),
         TierKept(heightCache', rows, metaMin),
         AllKept(blockCache', rows, metaMin), AllKept(headerCache', rows, metaMin),
         Kept(tip', rows, metaMin), Kept(metaTip', rows, metaMin),
         RecordsOK(record'), AllKept(Recorded(record'), rows, metaMin),
         recordLock' \in Threads \cup {NoThread},
         Follows(d, call[t], rows, metaMin)
  PROVE  Inv'
<1>1. StoreInv'
  BY DEF Inv, StoreInv, TierKept, AllKept, Kept, RecordsOK, Recorded
<1>2. d.op \in Offers[t] \cup {"idle"} BY DEF Inv, CallsInv, Follows
<1> QED BY <1>1, <1>2, StepKeeps DEF Inv, Follows, Become

\* What StoreInv says, part by part.
LEMMA StoreFacts ==
  ASSUME Inv
  PROVE  /\ rows \subseteq Blocks
         /\ metaMin \in 0..(MaxHeight + 1) /\ metaMin \in Int
         /\ minRetained \in 0..metaMin /\ minRetained \in Int
         /\ TierKept(cfCanonical, rows, metaMin) /\ TierKept(bin, rows, metaMin)
         /\ TierKept(heightCache, rows, metaMin)
         /\ AllKept(blockCache, rows, metaMin) /\ AllKept(headerCache, rows, metaMin)
         /\ Kept(tip, rows, metaMin) /\ Kept(metaTip, rows, metaMin)
         /\ RecordsOK(record) /\ AllKept(Recorded(record), rows, metaMin)
         /\ recordLock \in Threads \cup {NoThread}
BY DEF Inv, StoreInv

LEMMA TierPut ==
  ASSUME NEW R, NEW m, NEW f, TierKept(f, R, m), NEW b, Kept(b, R, m)
  PROVE  TierKept([f EXCEPT ![Height[b]] = b], R, m)
<1>1. b \in Blocks /\ b \in Slot /\ Height[b] \in Heights BY BlockHeight DEF Kept
<1> QED BY <1>1 DEF TierKept, Index

LEMMA TierCached ==
  ASSUME NEW R, NEW m, NEW f, TierKept(f, R, m), NEW b, Kept(b, R, m)
  PROVE  TierKept(CacheInsertOne(f, Height[b], b), R, m)
<1> DEFINE g == CacheInsertOne(f, Height[b], b)
<1>1. b \in Blocks /\ Height[b] \in Heights /\ f \in Index BY BlockHeight DEF Kept, TierKept
<1>2. /\ g \in Index
      /\ \A h \in Heights : h # Height[b] => g[h] \in {NoBlock, f[h]}
      /\ g[Height[b]] \in {NoBlock, f[Height[b]], b}
  BY <1>1, CacheInsertOneEntries
<1> HIDE DEF g
<1>3. TierKept(g, R, m) BY <1>1, <1>2 DEF TierKept
<1> QED BY <1>3 DEF g

LEMMA TierWithout ==
  ASSUME NEW R, NEW m, NEW f, TierKept(f, R, m), NEW hs
  PROVE  TierKept(Without(f, hs), R, m)
<1> DEFINE g == Without(f, hs)
<1>1. g \in Index /\ \A h \in Heights : g[h] \in {NoBlock, f[h]}
  BY WithoutType DEF TierKept
<1> HIDE DEF g
<1>2. TierKept(g, R, m) BY <1>1 DEF TierKept
<1> QED BY <1>2 DEF g

LEMMA TierTruncated ==
  ASSUME NEW R, NEW m, NEW f, TierKept(f, R, m), NEW top \in Int
  PROVE  TierKept(BinTruncate(f, top), R, m)
<1> DEFINE g == BinTruncate(f, top)
<1>1. g \in Index /\ \A h \in Heights : g[h] \in {NoBlock, f[h]}
  BY BinTruncateType DEF TierKept
<1> HIDE DEF g
<1>2. TierKept(g, R, m) BY <1>1 DEF TierKept
<1> QED BY <1>2 DEF g

LEMMA TierPutAll ==
  ASSUME NEW R, NEW m, NEW f, TierKept(f, R, m), NEW bs,
         \A i \in DOMAIN bs : Kept(bs[i], R, m)
  PROVE  TierKept(PutAll(f, bs, DOMAIN bs), R, m)
<1> DEFINE g == PutAll(f, bs, DOMAIN bs)
<1>1. \A i \in DOMAIN bs : bs[i] \in Blocks BY DEF Kept
<1>2. f \in Index BY DEF TierKept
<1>3. /\ g \in Index
      /\ \A h \in Heights : g[h] = f[h] \/ \E i \in DOMAIN bs : g[h] = bs[i] /\ Height[bs[i]] = h
  BY <1>1, <1>2, PutAllEntries
<1> HIDE DEF g
<1>4. TierKept(g, R, m) BY <1>3 DEF TierKept
<1> QED BY <1>4 DEF g

LEMMA FillKeeps == ASSUME Inv, NEW t \in Threads, Fill(t) PROVE Inv'
<1> DEFINE c == call[t]
<1>1. c \in CallType /\ CallInv(c, rows, metaMin) BY CallFacts
<1>2. c.pc \in {"fill", "fillLocked"} BY DEF Fill, At
<1>3. c.pc \in LookupPcs /\ c.pc # "raise" BY <1>2 DEF LookupPcs
<1>4. Kept(c.hash, rows, metaMin) /\ Height[c.hash] = c.h BY <1>1, <1>2 DEF CallInv, HeldInv
<1>5. Follows(Resumed(c), c, rows, metaMin) BY <1>1, <1>3, <1>4, Resume
<1>6. TierKept(CacheInsertOne(heightCache, c.h, c.hash), rows, metaMin)
  BY <1>4, StoreFacts, TierCached
<1>7. /\ Become(t, Resumed(c)) /\ heightCache' = CacheInsertOne(heightCache, c.h, c.hash)
      /\ UNCHANGED <<disk, tip, minRetained, bin, caches, records>>
  BY DEF Fill
<1> QED BY <1>3, <1>5, <1>6, <1>7, StoreFacts, WriteKeeps DEF disk, caches, records

\* One step of the walk of a rollback, reorg or pruning.
LEMMA WalkKeeps == ASSUME Inv, NEW t \in Threads, Walk(t) PROVE Inv'
<1> DEFINE c == call[t]
           seen == c.seen \cup ({c.hash} \ {NoBlock})
           hits == IF c.hash # NoBlock THEN c.hits \cup {c.h} ELSE c.hits
           found == [c EXCEPT !.seen = seen, !.hits = hits]
           over == IF c.op = "prune_before_height" THEN "scan" ELSE "commit"
           next == IF c.h > c.last THEN c.h - 1 ELSE c.h + 1
<1>1. c \in CallType /\ CallInv(c, rows, metaMin) BY CallFacts
<1>2. c.pc = "walk" BY DEF Walk, Reads, At
<1>3. c.op \in {"rollback_to_height", "apply_reorg", "prune_before_height"}
  BY <1>1, <1>2 DEF CallType, ReadOps, WriteOps, CallInv, InStep, LookupPcs, BodyPcs, RecordPcs
<1>4. c.hash # NoBlock => Kept(c.hash, rows, metaMin) /\ Height[c.hash] = c.h
  BY <1>1, <1>2 DEF CallInv, HeldInv
<1>5. seen \subseteq Blocks /\ hits \subseteq Heights BY <1>1, <1>4 DEF CallType, Kept, Slot
<1>6. c.h \in Int /\ c.last \in Int /\ c.h \in Heights /\ c.last \in Heights /\ c.to \in Int
  BY <1>1 DEF CallType, Heights
<1>7. c.op = "prune_before_height" =>
        /\ c.h <= c.last /\ metaMin < c.to /\ c.last = c.to - 1
        /\ \A b \in seen : Height[b] < c.to
        /\ \A k \in hits : k < c.to
  BY <1>1, <1>2, <1>4, <1>6 DEF CallInv, PruneInv
<1>8. /\ found \in CallType
      /\ found.pc = c.pc /\ found.op = c.op /\ found.back = c.back /\ found.arg = c.arg
      /\ found.list = c.list /\ found.todo = c.todo /\ found.to = c.to /\ found.top = c.top
      /\ found.h = c.h /\ found.last = c.last /\ found.hash = c.hash /\ found.seen = seen
      /\ found.hits = hits
  <2> HIDE DEF seen, hits
  <2> QED BY <1>1, <1>5 DEF CallType
<1>9. Walk(t) = Reads(t, "walk", IF c.h = c.last THEN [found EXCEPT !.pc = over]
                                  ELSE LookupFrom(found, next, "walk"))
  BY DEF Walk
<1>10. CASE c.h = c.last
  <2> DEFINE d == [found EXCEPT !.pc = over]
  <2>1. Fields(d, over, c.op, c.back, c.arg, c.list, c.todo, c.to, c.top, c.h, c.last, c.hash,
               seen, hits)
    <3>1. over \in Pcs BY DEF Pcs
    <3> HIDE DEF found, over, seen, hits
    <3> QED BY <1>8, <3>1, AtPc DEF Fields
  <2> HIDE DEF d, seen, hits
  <2> USE <2>1, <1>1, <1>2, <1>3 DEF Fields
  <2>2. InStep(d) BY DEF InStep, LookupPcs, BodyPcs, RecordPcs
  <2>3. HeldInv(d, rows, metaMin) BY DEF HeldInv, BodyPcs
  <2>4. ReorgInv(d, rows, metaMin) BY DEF CallInv, ReorgInv, LookupPcs, RecordPcs
  <2>5. PruneInv(d, metaMin) BY <1>7 DEF CallInv, PruneInv, LookupPcs
  <2>6. Follows(d, c, rows, metaMin) BY <2>2, <2>3, <2>4, <2>5 DEF CallInv, Follows
  <2> QED BY <1>9, <1>10, <2>6, ReadsKeeps DEF d
<1>11. CASE c.h # c.last
  <2> DEFINE d == LookupFrom(found, next, "walk")
  <2>1. next \in Heights /\ (c.op = "prune_before_height" => next <= c.last)
    BY <1>6, <1>7, <1>11, MaxHeightAssumption DEF Heights
  <2>2. Fields(d, "floor", c.op, "walk", c.arg, c.list, c.todo, c.to, c.top, next, c.last,
               c.hash, seen, hits)
    <3>1. "walk" \in Pcs BY DEF Pcs
    <3> HIDE DEF found, next, seen, hits
    <3> QED BY <1>8, <2>1, <3>1, AtLookup DEF Fields
  <2> HIDE DEF d, seen, hits, next
  <2> USE <2>2, <1>1, <1>2, <1>3 DEF Fields
  <2>3. InStep(d) BY DEF InStep, LookupPcs, BodyPcs, RecordPcs
  <2>4. HeldInv(d, rows, metaMin) BY DEF HeldInv, BodyPcs
  <2>5. ReorgInv(d, rows, metaMin) BY DEF CallInv, ReorgInv, LookupPcs, RecordPcs
  <2>6. PruneInv(d, metaMin) BY <1>7, <2>1 DEF CallInv, PruneInv, LookupPcs
  <2>7. Follows(d, c, rows, metaMin) BY <2>3, <2>4, <2>5, <2>6 DEF CallInv, Follows
  <2> QED BY <1>9, <1>11, <2>7, ReadsKeeps DEF d
<1> QED BY <1>10, <1>11

-----------------------------------------------------------------------------
(***************************************************************************)
(* get_block, get_blocks_in_range and stream_blocks_in_range.              *)
(***************************************************************************)
LEMMA LowestIn == ASSUME NEW bs \in SUBSET Blocks, bs # {} PROVE Lowest(bs) \in bs
<1> DEFINE hs == {Height[b] : b \in bs}
<1>1. hs \subseteq Nat /\ hs # {} BY BlockHeight
<1>2. PICK k \in hs : \A x \in hs : k <= x
  <2> HIDE DEF hs
  <2> QED BY <1>1, LeastNumber
<1>3. PICK b \in bs : Height[b] = k OBVIOUS
<1>4. \A x \in bs : Height[b] <= Height[x] BY <1>2, <1>3
<1> QED BY <1>4 DEF Lowest

LEMMA NextHeightFollows ==
  ASSUME NEW R, NEW m, NEW c \in CallType, CallInv(c, R, m), c.op = "get_blocks_in_range"
  PROVE  Follows(NextHeight(c), c, R, m)
<1>1. CASE c.h = c.last BY <1>1, Ends DEF NextHeight
<1>2. CASE c.h # c.last
  <2> DEFINE d == LookupFrom(c, c.h + 1, "found")
  <2>1. c.last = MaxHeight BY DEF CallInv, InStep
  <2>2. c.h + 1 \in Heights BY <1>2, <2>1, MaxHeightAssumption DEF CallType, Heights
  <2>3. "found" \in Pcs BY DEF Pcs
  <2>4. Fields(d, "floor", c.op, "found", c.arg, c.list, c.todo, c.to, c.top, c.h + 1, c.last,
               c.hash, c.seen, c.hits)
    BY <2>2, <2>3, AtLookup
  <2> HIDE DEF d
  <2> USE <2>4 DEF Fields
  <2>5. InStep(d) BY DEF CallInv, InStep, LookupPcs, BodyPcs, RecordPcs
  <2>6. HeldInv(d, R, m) BY DEF HeldInv, BodyPcs
  <2>7. ReorgInv(d, R, m) BY DEF CallInv, ReorgInv
  <2>8. PruneInv(d, m) BY DEF CallInv, PruneInv
  <2>9. Follows(d, c, R, m) BY <2>5, <2>6, <2>7, <2>8 DEF CallInv, Follows
  <2> QED BY <1>2, <2>9 DEF NextHeight, d
<1> QED BY <1>1, <1>2

LEMMA NextBodyFollows ==
  ASSUME NEW R, NEW m, NEW c \in CallType, CallInv(c, R, m),
         c.op \in {"get_block", "get_blocks_in_range", "stream_blocks_in_range"}
  PROVE  Follows(NextBody(c), c, R, m)
<1>1. CASE c.op = "get_blocks_in_range" BY <1>1, NextHeightFollows DEF NextBody
<1>2. CASE c.op # "get_blocks_in_range" /\ c.seen = {} BY <1>2, Ends DEF NextBody
<1>3. CASE c.op # "get_blocks_in_range" /\ c.seen # {}
  <2> DEFINE b == Lowest(c.seen)
             d == [c EXCEPT !.pc = "blockCached", !.arg = b, !.seen = c.seen \ {b}]
  <2>1. c.seen \in SUBSET Blocks BY DEF CallType
  <2>2. b \in c.seen BY <1>3, <2>1, LowestIn
  <2>3. b \in Blocks /\ b \in Slot BY <2>1, <2>2 DEF Slot
  <2>4. "blockCached" \in Pcs BY DEF Pcs, BodyPcs
  <2>5. Fields(d, "blockCached", c.op, c.back, b, c.list, c.todo, c.to, c.top, c.h, c.last,
               c.hash, c.seen \ {b}, c.hits)
    <3> HIDE DEF b
    <3> QED BY <2>1, <2>3, <2>4 DEF Fields, CallType
  <2>6. NextBody(c) = d BY <1>3 DEF NextBody
  <2> HIDE DEF d, b
  <2> USE <2>5, <1>3 DEF Fields
  <2>7. InStep(d) BY DEF CallInv, InStep, LookupPcs, BodyPcs, RecordPcs
  <2>8. HeldInv(d, R, m) BY <2>2, <2>3 DEF CallInv, HeldInv, BodyPcs
  <2>9. ReorgInv(d, R, m) BY DEF CallInv, ReorgInv
  <2>10. PruneInv(d, m) BY DEF CallInv, PruneInv
  <2> QED BY <2>6, <2>7, <2>8, <2>9, <2>10 DEF CallInv, Follows
<1> QED BY <1>1, <1>2, <1>3

LEMMA CaptureKeeps == ASSUME Inv, NEW t \in Threads, Capture(t) PROVE Inv'
<1> DEFINE c == call[t]
           pairs == {cfCanonical[h] : h \in 0..c.last} \ {NoBlock}
           d == [c EXCEPT !.seen = pairs]
<1>1. c \in CallType /\ CallInv(c, rows, metaMin) BY CallFacts
<1>2. c.pc = "capture" BY DEF Capture, Reads, At
<1>3. c.op = "stream_blocks_in_range"
  BY <1>1, <1>2 DEF CallType, ReadOps, WriteOps, CallInv, InStep, LookupPcs, BodyPcs, RecordPcs
<1>4. \A b \in pairs : Kept(b, rows, metaMin)
  <2>1. \A h \in 0..c.last : h \in Heights BY <1>1, MaxHeightAssumption DEF CallType, Heights
  <2> QED BY <2>1, StoreFacts, TierAnswers
<1>5. pairs \in SUBSET Blocks BY <1>4 DEF Kept
<1>6. Reads(t, "capture", NextBody(d)) BY DEF Capture
<1> HIDE DEF pairs
<1>7. Fields(d, c.pc, c.op, c.back, c.arg, c.list, c.todo, c.to, c.top, c.h, c.last, c.hash,
             pairs, c.hits)
  BY <1>1, <1>5 DEF Fields, CallType
<1> HIDE DEF d
<1>8. CallInv(d, rows, metaMin)
  <2> USE <1>7, <1>1, <1>2, <1>3 DEF Fields
  <2>1. InStep(d) BY DEF CallInv, InStep, BodyPcs
  <2>2. HeldInv(d, rows, metaMin) BY <1>4 DEF HeldInv, BodyPcs
  <2>3. ReorgInv(d, rows, metaMin) BY DEF CallInv, ReorgInv
  <2>4. PruneInv(d, metaMin) BY DEF CallInv, PruneInv
  <2> QED BY <2>1, <2>2, <2>3, <2>4 DEF CallInv
<1>9. Follows(NextBody(d), d, rows, metaMin) BY <1>3, <1>7, <1>8, NextBodyFollows DEF Fields
<1>10. Follows(NextBody(d), c, rows, metaMin) BY <1>7, <1>9 DEF Fields, Follows
<1> QED BY <1>6, <1>10, ReadsKeeps

LEMMA FoundKeeps == ASSUME Inv, NEW t \in Threads, Found(t) PROVE Inv'
<1> DEFINE c == call[t]
           d == [c EXCEPT !.pc = "blockCached", !.arg = c.hash]
<1>1. c \in CallType /\ CallInv(c, rows, metaMin) BY CallFacts
<1>2. c.pc = "found" BY DEF Found, Reads, At
<1>3. c.op = "get_blocks_in_range"
  BY <1>1, <1>2 DEF CallType, ReadOps, WriteOps, CallInv, InStep, LookupPcs, BodyPcs, RecordPcs
<1>4. CASE c.hash = NoBlock BY <1>1, <1>3, <1>4, NextHeightFollows, ReadsKeeps DEF Found
<1>5. CASE c.hash # NoBlock
  <2>1. Kept(c.hash, rows, metaMin) BY <1>1, <1>2, <1>5 DEF CallInv, HeldInv
  <2>2. "blockCached" \in Pcs BY DEF Pcs, BodyPcs
  <2>3. Fields(d, "blockCached", c.op, c.back, c.hash, c.list, c.todo, c.to, c.top, c.h, c.last,
               c.hash, c.seen, c.hits)
    BY <1>1, <2>2 DEF Fields, CallType
  <2>4. Reads(t, "found", d) BY <1>5 DEF Found
  <2> HIDE DEF d
  <2> USE <2>3, <1>1, <1>2, <1>3 DEF Fields
  <2>5. InStep(d) BY DEF CallInv, InStep, LookupPcs, BodyPcs, RecordPcs
  <2>6. HeldInv(d, rows, metaMin) BY <2>1 DEF HeldInv, BodyPcs
  <2>7. ReorgInv(d, rows, metaMin) BY DEF CallInv, ReorgInv
  <2>8. PruneInv(d, metaMin) BY DEF CallInv, PruneInv
  <2>9. Follows(d, c, rows, metaMin) BY <2>5, <2>6, <2>7, <2>8 DEF CallInv, Follows
  <2> QED BY <2>4, <2>9, ReadsKeeps
<1> QED BY <1>4, <1>5

\* The operations that read bodies, and those that are at a step which others
\* have, too.
LEMMA BodyOps ==
  ASSUME NEW R, NEW m, NEW c \in CallType, CallInv(c, R, m), c.pc \in {"blockCached", "body", "missing"}
  PROVE  c.op \in {"get_block", "get_blocks_in_range", "stream_blocks_in_range"}
BY DEF CallType, ReadOps, WriteOps, CallInv, InStep, LookupPcs, BodyPcs, RecordPcs

\* A body read that goes on to its next step.
LEMMA BodyMoves ==
  ASSUME NEW R, NEW m \in Int, NEW c \in CallType, CallInv(c, R, m),
         c.op \in {"get_block", "get_blocks_in_range", "stream_blocks_in_range"},
         c.pc \in BodyPcs, NEW p \in BodyPcs,
         p \in {"cacheBlock", "cacheHeader"} => Kept(c.arg, R, m),
         p = "missing" => c.arg \notin R
  PROVE  Follows([c EXCEPT !.pc = p], c, R, m)
<1> DEFINE d == [c EXCEPT !.pc = p]
<1>1. p \in Pcs /\ p # "raise" BY DEF Pcs, BodyPcs
<1>2. Fields(d, p, c.op, c.back, c.arg, c.list, c.todo, c.to, c.top, c.h, c.last, c.hash,
             c.seen, c.hits)
  BY <1>1, AtPc DEF Fields
<1> HIDE DEF d
<1> USE <1>2 DEF Fields
<1>3. InStep(d) BY DEF CallInv, InStep, LookupPcs, BodyPcs, RecordPcs
<1>4. HeldInv(d, R, m)
  <2>1. c.op # "get_block" => Kept(c.arg, R, m) BY DEF CallInv, HeldInv
  <2>2. c.op # "get_block" /\ p = "missing" => Height[c.arg] < m
    BY <2>1, BlockHeight DEF Kept
  <2> QED BY <2>1, <2>2 DEF CallInv, HeldInv, BodyPcs
<1>5. ReorgInv(d, R, m) BY DEF CallInv, ReorgInv
<1>6. PruneInv(d, m) BY DEF CallInv, PruneInv
<1> QED BY <1>1, <1>3, <1>4, <1>5, <1>6 DEF CallInv, Follows, d

LEMMA ReadBlockCacheKeeps == ASSUME Inv, NEW t \in Threads, ReadBlockCache(t) PROVE Inv'
<1> DEFINE c == call[t]
<1>1. c \in CallType /\ CallInv(c, rows, metaMin) BY CallFacts
<1>2. c.pc = "blockCached" BY DEF ReadBlockCache, Reads, At
<1>3. c.pc \in BodyPcs /\ "body" \in BodyPcs BY <1>2 DEF BodyPcs
<1>4. c.op \in {"get_block", "get_blocks_in_range", "stream_blocks_in_range"}
  BY <1>1, <1>2, BodyOps
<1>5. Follows(NextBody(c), c, rows, metaMin) BY <1>1, <1>4, NextBodyFollows
<1>6. Follows([c EXCEPT !.pc = "body"], c, rows, metaMin)
  BY <1>1, <1>3, <1>4, BodyMoves, StoreFacts
<1> QED BY <1>5, <1>6, ReadsKeeps DEF ReadBlockCache

LEMMA ReadBodyKeeps == ASSUME Inv, NEW t \in Threads, ReadBody(t) PROVE Inv'
<1> DEFINE c == call[t]
           p == IF c.arg \in rows THEN "cacheBlock" ELSE "missing"
<1>1. c \in CallType /\ CallInv(c, rows, metaMin) BY CallFacts
<1>2. c.pc = "body" BY DEF ReadBody, Reads, At
<1>3. c.pc \in BodyPcs /\ p \in BodyPcs BY <1>2 DEF BodyPcs
<1>4. c.op \in {"get_block", "get_blocks_in_range", "stream_blocks_in_range"}
  BY <1>1, <1>2, BodyOps
<1>5. c.arg \in rows => Kept(c.arg, rows, metaMin) BY StoreFacts DEF Kept
<1>6. Reads(t, "body", [c EXCEPT !.pc = p]) BY DEF ReadBody
<1>7. /\ p \in {"cacheBlock", "cacheHeader"} => Kept(c.arg, rows, metaMin)
      /\ p = "missing" => c.arg \notin rows
  BY <1>5
<1> HIDE DEF p
<1>8. Follows([c EXCEPT !.pc = p], c, rows, metaMin)
  BY <1>1, <1>3, <1>4, <1>7, BodyMoves, StoreFacts
<1> QED BY <1>6, <1>8, ReadsKeeps

LEMMA MissingKeeps == ASSUME Inv, NEW t \in Threads, Missing(t) PROVE Inv'
<1> DEFINE c == call[t]
<1>1. c \in CallType /\ CallInv(c, rows, metaMin) BY CallFacts
<1>2. c.pc = "missing" BY DEF Missing, Reads, At
<1>3. c.op \in {"get_block", "get_blocks_in_range", "stream_blocks_in_range"}
  BY <1>1, <1>2, BodyOps
<1>4. Follows(NextBody(c), c, rows, metaMin) BY <1>1, <1>3, NextBodyFollows
<1> QED BY <1>4, ReadsKeeps DEF Missing

\* A call that has its block in hand, and goes on with it.
LEMMA HolderMoves ==
  ASSUME NEW R, NEW m, NEW c \in CallType, CallInv(c, R, m), Kept(c.arg, R, m),
         NEW p \in Pcs, p \notin {"raise", "fill", "fillLocked", "walk", "found", "newTip", "missing"},
         c.op \in {"get_block", "get_record", "get_blocks_in_range", "stream_blocks_in_range",
                   "put_block", "put_canonical", "extend_chain", "set_canonical"},
         InStep([c EXCEPT !.pc = p])
  PROVE  Follows([c EXCEPT !.pc = p], c, R, m)
<1> DEFINE d == [c EXCEPT !.pc = p]
<1>1. Fields(d, p, c.op, c.back, c.arg, c.list, c.todo, c.to, c.top, c.h, c.last, c.hash,
             c.seen, c.hits)
  BY AtPc DEF Fields
<1> HIDE DEF d
<1> USE <1>1 DEF Fields
<1>2. HeldInv(d, R, m) BY DEF CallInv, HeldInv
<1>3. ReorgInv(d, R, m) BY DEF CallInv, ReorgInv
<1>4. PruneInv(d, m) BY DEF CallInv, PruneInv
<1>5. InStep(d) BY DEF d
<1> QED BY <1>2, <1>3, <1>4, <1>5 DEF CallInv, Follows, d

\* The end of a get_record that has found its block.
LEMMA RecordFound ==
  ASSUME NEW R, NEW m, NEW c \in CallType, CallInv(c, R, m), c.pc \in RecordPcs,
         c.op \in {"get_record", "set_canonical", "apply_reorg"}, Kept(c.arg, R, m)
  PROVE  Follows(Resumed(c), c, R, m)
<1>1. CASE c.back = "idle" BY <1>1, Ends DEF Resumed
<1>2. CASE c.back # "idle"
  <2> DEFINE d == Resumed(c)
  <2>1. d = [c EXCEPT !.pc = c.back] BY <1>2 DEF Resumed
  <2>2. c.back \in Pcs BY DEF CallType
  <2>3. Fields(d, c.back, c.op, c.back, c.arg, c.list, c.todo, c.to, c.top, c.h, c.last, c.hash,
               c.seen, c.hits)
    BY <2>1, <2>2, AtPc DEF Fields
  <2> HIDE DEF d
  <2> USE <2>3 DEF Fields
  <2>4. \/ c.op = "set_canonical" /\ c.back = "putRow"
        \/ c.op = "apply_reorg" /\ c.back = "validated"
    BY <1>2 DEF CallInv, InStep
  <2>5. InStep(d) BY <2>4 DEF CallInv, InStep, LookupPcs, RecordPcs
  <2>6. HeldInv(d, R, m) BY <2>4 DEF CallInv, HeldInv
  <2>7. ReorgInv(d, R, m) BY <2>4 DEF CallInv, ReorgInv, RecordPcs
  <2>8. PruneInv(d, m) BY <2>4 DEF CallInv, PruneInv
  <2> QED BY <2>3, <2>4, <2>5, <2>6, <2>7, <2>8 DEF CallInv, d, Follows
<1> QED BY <1>1, <1>2

\* A get_record that goes on to its next step.
LEMMA RecordMoves ==
  ASSUME NEW R, NEW m, NEW c \in CallType, CallInv(c, R, m), c.pc \in RecordPcs,
         c.op \in {"get_record", "set_canonical", "apply_reorg"}, NEW p \in RecordPcs,
         p \in {"cacheHeader", "derive"} => Kept(c.arg, R, m)
  PROVE  Follows([c EXCEPT !.pc = p], c, R, m)
<1> DEFINE d == [c EXCEPT !.pc = p]
<1>1. p \in Pcs /\ p # "raise" BY DEF Pcs, RecordPcs
<1>2. Fields(d, p, c.op, c.back, c.arg, c.list, c.todo, c.to, c.top, c.h, c.last, c.hash,
             c.seen, c.hits)
  BY <1>1, AtPc DEF Fields
<1> HIDE DEF d
<1> USE <1>2 DEF Fields
<1>3. InStep(d) BY DEF CallInv, InStep, LookupPcs, RecordPcs
<1>4. HeldInv(d, R, m) BY DEF CallInv, HeldInv, RecordPcs
<1>5. ReorgInv(d, R, m) BY DEF CallInv, ReorgInv, RecordPcs
<1>6. PruneInv(d, m) BY DEF CallInv, PruneInv
<1> QED BY <1>1, <1>3, <1>4, <1>5, <1>6 DEF CallInv, Follows, d

LEMMA CacheBlockKeeps == ASSUME Inv, NEW t \in Threads, CacheBlock(t) PROVE Inv'
<1> DEFINE c == call[t]
           d == [c EXCEPT !.pc = "cacheHeader"]
<1>1. c \in CallType /\ CallInv(c, rows, metaMin) BY CallFacts
<1>2. c.pc = "cacheBlock" BY DEF CacheBlock, At
<1>3. Kept(c.arg, rows, metaMin) BY <1>1, <1>2 DEF CallInv, HeldInv
<1>4. c.op \in {"get_block", "get_blocks_in_range", "stream_blocks_in_range", "put_block",
                "put_canonical", "extend_chain"}
  BY <1>1, <1>2 DEF CallType, ReadOps, WriteOps, CallInv, InStep, LookupPcs, BodyPcs, RecordPcs
<1>5. "cacheHeader" \in Pcs BY DEF Pcs, BodyPcs
<1>6. InStep(d)
  <2>1. Fields(d, "cacheHeader", c.op, c.back, c.arg, c.list, c.todo, c.to, c.top, c.h, c.last,
               c.hash, c.seen, c.hits)
    BY <1>1, <1>5, AtPc DEF Fields
  <2> HIDE DEF d
  <2> QED BY <1>1, <1>4, <2>1 DEF Fields, CallInv, InStep, LookupPcs, BodyPcs
<1>7. Follows(d, c, rows, metaMin) BY <1>1, <1>3, <1>4, <1>5, <1>6, HolderMoves
<1>8. AllKept(blockCache \cup {c.arg}, rows, metaMin) BY <1>3, StoreFacts DEF AllKept
<1>9. /\ Become(t, d) /\ blockCache' = blockCache \cup {c.arg}
      /\ UNCHANGED <<disk, index, headerCache, records>>
  BY DEF CacheBlock, Goto
<1> HIDE DEF d
<1> QED BY <1>2, <1>7, <1>8, <1>9, StoreFacts, WriteKeeps DEF disk, index, records

LEMMA CacheHeaderKeeps == ASSUME Inv, NEW t \in Threads, CacheHeader(t) PROVE Inv'
<1> DEFINE c == call[t]
<1>1. c \in CallType /\ CallInv(c, rows, metaMin) BY CallFacts
<1>2. c.pc = "cacheHeader" BY DEF CacheHeader, At
<1>3. Kept(c.arg, rows, metaMin) BY <1>1, <1>2 DEF CallInv, HeldInv
<1>4. AllKept(headerCache \cup {c.arg}, rows, metaMin) BY <1>3, StoreFacts DEF AllKept
<1>5. headerCache' = headerCache \cup {c.arg} /\ UNCHANGED <<disk, index, blockCache, records>>
  BY DEF CacheHeader
<1>6. PICK d : Become(t, d) /\ Follows(d, c, rows, metaMin)
  <2>1. CASE c.op \in {"get_block", "get_blocks_in_range", "stream_blocks_in_range"}
    <3>1. Become(t, NextBody(c)) BY <2>1 DEF CacheHeader
    <3> QED BY <1>1, <2>1, <3>1, NextBodyFollows
  <2>2. CASE c.op \in {"put_block", "put_canonical"}
    <3>1. Become(t, Idle) BY <2>2 DEF CacheHeader, Return
    <3> QED BY <3>1, Ends
  <2>3. CASE c.op = "extend_chain"
    <3> DEFINE d == [c EXCEPT !.pc = "putTip"]
    <3>1. Become(t, d) BY <2>3 DEF CacheHeader, Goto
    <3>2. "putTip" \in Pcs BY DEF Pcs
    <3>3. d.op = "extend_chain" /\ d.pc = "putTip" BY <1>1, <2>3, <3>2, AtPc
    <3>4. InStep(d)
      <4> HIDE DEF d
      <4> QED BY <3>3 DEF InStep
    <3>5. Follows(d, c, rows, metaMin) BY <1>1, <1>3, <2>3, <3>2, <3>4, HolderMoves
    <3> QED BY <3>1, <3>5
  <2>4. CASE c.op \in {"get_record", "set_canonical", "apply_reorg"}
    <3>1. Become(t, [c EXCEPT !.pc = "derive"]) BY <2>4 DEF CacheHeader, Goto
    <3>2. c.pc \in RecordPcs /\ "derive" \in RecordPcs BY <1>2 DEF RecordPcs
    <3>3. Follows([c EXCEPT !.pc = "derive"], c, rows, metaMin)
      BY <1>1, <1>3, <2>4, <3>2, RecordMoves
    <3> QED BY <3>1, <3>3
  <2>5. c.op \in {"get_block", "get_blocks_in_range", "stream_blocks_in_range", "put_block",
                  "put_canonical", "extend_chain", "get_record", "set_canonical", "apply_reorg"}
    BY <1>1, <1>2
    DEF CallType, ReadOps, WriteOps, CallInv, InStep, LookupPcs, BodyPcs, RecordPcs
  <2> QED BY <2>1, <2>2, <2>3, <2>4, <2>5
<1> QED BY <1>2, <1>4, <1>5, <1>6, StoreFacts, WriteKeeps DEF disk, index, records

-----------------------------------------------------------------------------
(***************************************************************************)
(* get_record.                                                             *)
(***************************************************************************)
LEMMA RecordOps ==
  ASSUME NEW R, NEW m, NEW c \in CallType, CallInv(c, R, m),
         c.pc \in {"recordCached", "headerCached", "header", "derive"}
  PROVE  /\ c.op \in {"get_record", "set_canonical", "apply_reorg"}
         /\ c.pc \in RecordPcs /\ c.pc # "raise"
         /\ c.arg \in Blocks
<1>1. c.op \in {"get_record", "set_canonical", "apply_reorg"}
  BY DEF CallType, ReadOps, WriteOps, CallInv, InStep, LookupPcs, BodyPcs, RecordPcs
<1>2. c.pc \in RecordPcs /\ c.pc # "raise" BY DEF RecordPcs
<1>3. c.op # "apply_reorg" => c.arg \in Blocks BY <1>1 DEF CallInv, HeldInv
<1>4. c.op = "apply_reorg" => c.arg = Head(c.todo) /\ c.todo # << >> /\ c.todo \in Seq(Blocks)
  BY <1>2 DEF CallInv, ReorgInv, CallType
<1>5. c.op = "apply_reorg" => c.arg \in Blocks BY <1>4, HeadTailProperties
<1> QED BY <1>1, <1>2, <1>3, <1>5

LEMMA ReadRecordCacheKeeps == ASSUME Inv, NEW t \in Threads, ReadRecordCache(t) PROVE Inv'
<1> DEFINE c == call[t]
<1>1. c \in CallType /\ CallInv(c, rows, metaMin) BY CallFacts
<1>2. c.pc = "recordCached" BY DEF ReadRecordCache, Reads, At
<1>3. /\ c.op \in {"get_record", "set_canonical", "apply_reorg"}
      /\ c.pc \in RecordPcs /\ c.arg \in Blocks
  BY <1>1, <1>2, RecordOps
<1>4. record[c.arg] # "none" => Follows(Resumed(c), c, rows, metaMin)
  BY <1>1, <1>3, RecordFound, StoreFacts DEF AllKept, Recorded
<1>5. "headerCached" \in RecordPcs BY DEF RecordPcs
<1>6. Follows([c EXCEPT !.pc = "headerCached"], c, rows, metaMin)
  BY <1>1, <1>3, <1>5, RecordMoves
<1> QED BY <1>4, <1>6, ReadsKeeps DEF ReadRecordCache

LEMMA ReadHeaderCacheKeeps == ASSUME Inv, NEW t \in Threads, ReadHeaderCache(t) PROVE Inv'
<1> DEFINE c == call[t]
           p == IF c.arg \in headerCache THEN "derive" ELSE "header"
<1>1. c \in CallType /\ CallInv(c, rows, metaMin) BY CallFacts
<1>2. c.pc = "headerCached" BY DEF ReadHeaderCache, Reads, At
<1>3. c.op \in {"get_record", "set_canonical", "apply_reorg"} /\ c.pc \in RecordPcs
  BY <1>1, <1>2, RecordOps
<1>4. p \in RecordPcs BY DEF RecordPcs
<1>5. p \in {"cacheHeader", "derive"} => Kept(c.arg, rows, metaMin) BY StoreFacts DEF AllKept
<1>6. Reads(t, "headerCached", [c EXCEPT !.pc = p]) BY DEF ReadHeaderCache
<1> HIDE DEF p
<1>7. Follows([c EXCEPT !.pc = p], c, rows, metaMin) BY <1>1, <1>3, <1>4, <1>5, RecordMoves
<1> QED BY <1>6, <1>7, ReadsKeeps

LEMMA ReadHeaderKeeps == ASSUME Inv, NEW t \in Threads, ReadHeader(t) PROVE Inv'
<1> DEFINE c == call[t]
<1>1. c \in CallType /\ CallInv(c, rows, metaMin) BY CallFacts
<1>2. c.pc = "header" BY DEF ReadHeader, Reads, At
<1>3. c.op \in {"get_record", "set_canonical", "apply_reorg"} /\ c.pc \in RecordPcs
  BY <1>1, <1>2, RecordOps
<1>4. "cacheHeader" \in RecordPcs BY DEF RecordPcs
<1>5. c.arg \in rows => Kept(c.arg, rows, metaMin) BY StoreFacts DEF Kept
<1>6. c.arg \in rows => Follows([c EXCEPT !.pc = "cacheHeader"], c, rows, metaMin)
  BY <1>1, <1>3, <1>4, <1>5, RecordMoves
<1> QED BY <1>6, Ends, ReadsKeeps DEF ReadHeader

\* A record is derived for a block in hand.
LEMMA RecordKept ==
  ASSUME Inv, NEW b \in Blocks, NEW v \in {"none", "canonical", "reverted"},
         v # "none" => Kept(b, rows, metaMin)
  PROVE  LET r == [record EXCEPT ![b] = v]
         IN  RecordsOK(r) /\ AllKept(Recorded(r), rows, metaMin)
<1> DEFINE r == [record EXCEPT ![b] = v]
<1>1. RecordsOK(r) /\ r[b] = v /\ \A x \in Blocks \ {b} : r[x] = record[x]
  BY StoreFacts DEF RecordsOK
<1> HIDE DEF r
<1>2. AllKept(Recorded(r), rows, metaMin) BY <1>1, StoreFacts DEF AllKept, Recorded
<1> QED BY <1>1, <1>2 DEF r

LEMMA DeriveKeeps == ASSUME Inv, NEW t \in Threads, Derive(t) PROVE Inv'
<1> DEFINE c == call[t]
<1>1. c \in CallType /\ CallInv(c, rows, metaMin) BY CallFacts
<1>2. c.pc = "derive" BY DEF Derive, At
<1>3. /\ c.op \in {"get_record", "set_canonical", "apply_reorg"} /\ c.pc \in RecordPcs
      /\ c.arg \in Blocks
  BY <1>1, <1>2, RecordOps
<1>4. Kept(c.arg, rows, metaMin) BY <1>1, <1>2 DEF CallInv, HeldInv
<1>5. Follows(Resumed(c), c, rows, metaMin) BY <1>1, <1>3, <1>4, RecordFound
<1>6. RecordsOK(record') /\ AllKept(Recorded(record'), rows, metaMin)
  <2>1. record' = [record EXCEPT ![c.arg] = "canonical"] BY DEF Derive
  <2> QED BY <1>3, <1>4, <2>1, RecordKept
<1>7. Become(t, Resumed(c)) /\ UNCHANGED <<disk, index, caches, recordLock>> BY DEF Derive
<1> QED BY <1>2, <1>5, <1>6, <1>7, StoreFacts, WriteKeeps DEF disk, index, caches

LEMMA ForgetKeeps == ASSUME Inv, NEW t \in Threads, Forget(t) PROVE Inv'
<1> DEFINE c == call[t]
<1>1. c \in CallType /\ CallInv(c, rows, metaMin) BY CallFacts
<1>2. c.pc = "forget" BY DEF Forget, At
<1>3. c.op = "invalidate_record_cache_entry"
  BY <1>1, <1>2 DEF CallType, ReadOps, WriteOps, CallInv, InStep, LookupPcs, BodyPcs, RecordPcs
<1>4. c.arg \in Blocks BY <1>1, <1>3 DEF CallInv, HeldInv
<1>5. RecordsOK(record') /\ AllKept(Recorded(record'), rows, metaMin)
  <2>1. record' = [record EXCEPT ![c.arg] = "none"] BY DEF Forget
  <2> QED BY <1>4, <2>1, RecordKept
<1>6. Become(t, Idle) /\ UNCHANGED <<disk, index, caches, recordLock>> BY DEF Forget, Return
<1> QED BY <1>2, <1>5, <1>6, Ends, StoreFacts, WriteKeeps DEF disk, index, caches

-----------------------------------------------------------------------------
(***************************************************************************)
(* put_block, extend_chain and set_canonical.                              *)
(***************************************************************************)
LEMMA PutMoves ==
  ASSUME NEW R, NEW m, NEW c \in CallType, CallInv(c, R, m),
         NEW p \in {"hasRow", "present", "write"},
         c.op = "extend_chain" \/ (c.op \in {"put_block", "put_canonical"} /\ p # "hasRow")
  PROVE  Follows([c EXCEPT !.pc = p], c, R, m)
<1> DEFINE d == [c EXCEPT !.pc = p]
<1>1. p \in Pcs /\ p # "raise" BY DEF Pcs
<1>2. Fields(d, p, c.op, c.back, c.arg, c.list, c.todo, c.to, c.top, c.h, c.last, c.hash,
             c.seen, c.hits)
  BY <1>1, AtPc DEF Fields
<1> HIDE DEF d
<1> USE <1>2 DEF Fields
<1>3. InStep(d) BY DEF CallInv, InStep, LookupPcs, RecordPcs
<1>4. HeldInv(d, R, m) BY DEF CallInv, HeldInv
<1>5. ReorgInv(d, R, m) BY DEF CallInv, ReorgInv
<1>6. PruneInv(d, m) BY DEF CallInv, PruneInv
<1> QED BY <1>1, <1>3, <1>4, <1>5, <1>6 DEF CallInv, Follows, d

LEMMA HasBlockKeeps == ASSUME Inv, NEW t \in Threads, HasBlock(t) \/ HasRow(t) PROVE Inv'
<1> DEFINE c == call[t]
<1>1. c \in CallType /\ CallInv(c, rows, metaMin) BY CallFacts
<1>2. c.pc \in {"hasBlock", "hasRow"} BY DEF HasBlock, HasRow, Reads, At
<1>3. c.op = "extend_chain"
  BY <1>1, <1>2 DEF CallType, ReadOps, WriteOps, CallInv, InStep, LookupPcs, BodyPcs, RecordPcs
<1>4. /\ Follows([c EXCEPT !.pc = "hasRow"], c, rows, metaMin)
      /\ Follows([c EXCEPT !.pc = "present"], c, rows, metaMin)
  BY <1>1, <1>3, PutMoves
<1>5. ASSUME HasBlock(t) PROVE Inv' BY <1>4, <1>5, Ends, ReadsKeeps DEF HasBlock
<1>6. ASSUME HasRow(t) PROVE Inv' BY <1>4, <1>6, Ends, ReadsKeeps DEF HasRow
<1> QED BY <1>5, <1>6

LEMMA PresentKeeps == ASSUME Inv, NEW t \in Threads, Present(t) PROVE Inv'
<1> DEFINE c == call[t]
           d == [c EXCEPT !.pc = "putTip"]
<1>1. c \in CallType /\ CallInv(c, rows, metaMin) BY CallFacts
<1>2. c.pc = "present" BY DEF Present, Reads, At
<1>3. c.op \in {"put_block", "put_canonical", "extend_chain"}
  BY <1>1, <1>2 DEF CallType, ReadOps, WriteOps, CallInv, InStep, LookupPcs, BodyPcs, RecordPcs
<1>4. Follows([c EXCEPT !.pc = "write"], c, rows, metaMin) BY <1>1, <1>3, PutMoves
<1>5. c.op = "extend_chain" /\ c.arg \in rows => Follows(d, c, rows, metaMin)
  <2> SUFFICES ASSUME c.op = "extend_chain", c.arg \in rows PROVE Follows(d, c, rows, metaMin)
    OBVIOUS
  <2>1. "putTip" \in Pcs BY DEF Pcs
  <2>2. d.op = "extend_chain" /\ d.pc = "putTip" BY <1>1, <2>1, AtPc
  <2>3. InStep(d)
    <3> HIDE DEF d
    <3> QED BY <2>2 DEF InStep
  <2>4. Kept(c.arg, rows, metaMin) BY StoreFacts DEF Kept
  <2> QED BY <1>1, <2>1, <2>3, <2>4, HolderMoves
<1> QED BY <1>4, <1>5, Ends, ReadsKeeps DEF Present

LEMMA WriteBlockKeeps == ASSUME Inv, NEW t \in Threads, WriteBlock(t) PROVE Inv'
<1> DEFINE c == call[t]
           b == c.arg
           R == rows \cup {b}
           p == IF c.op # "put_block" THEN "writeSlot" ELSE "cacheRecord"
           d == [c EXCEPT !.pc = p]
<1>1. c \in CallType /\ CallInv(c, rows, metaMin) BY CallFacts
<1>2. c.pc = "write" BY DEF WriteBlock, At
<1>3. c.op \in {"put_block", "put_canonical", "extend_chain"}
  BY <1>1, <1>2 DEF CallType, ReadOps, WriteOps, CallInv, InStep, LookupPcs, BodyPcs, RecordPcs
<1>4. b \in Blocks /\ R \subseteq Blocks BY <1>1, <1>3, StoreFacts DEF CallInv, HeldInv
<1>5. \A x : Kept(x, rows, metaMin) => Kept(x, R, metaMin) BY DEF Kept
<1>6. Kept(b, R, metaMin) BY <1>4 DEF Kept
<1>7. Follows(d, c, R, metaMin)
  <2>1. metaMin \in Int /\ metaMin <= metaMin BY StoreFacts
  <2> HIDE DEF R
  <2>2. CallInv(c, R, metaMin) BY <1>1, <1>5, <2>1, CallStays
  <2>3. p \in Pcs /\ p \notin {"raise", "fill", "fillLocked", "walk", "found", "newTip", "missing"}
    BY DEF Pcs
  <2>4. d.op = c.op /\ d.pc = p BY <1>1, <2>3, AtPc
  <2>5. InStep(d)
    <3> HIDE DEF d
    <3> QED BY <1>3, <2>4 DEF InStep
  <2> HIDE DEF p
  <2> QED BY <1>1, <1>3, <1>6, <2>2, <2>3, <2>5, HolderMoves
<1>8. /\ TierKept(cfCanonical, R, metaMin) /\ TierKept(bin, R, metaMin)
      /\ TierKept(heightCache, R, metaMin)
      /\ AllKept(blockCache, R, metaMin) /\ AllKept(headerCache, R, metaMin)
      /\ Kept(tip, R, metaMin) /\ Kept(metaTip, R, metaMin)
      /\ AllKept(Recorded(record), R, metaMin)
  <2> HIDE DEF R
  <2> QED BY <1>5, StoreFacts DEF TierKept, AllKept
<1>9. TierKept([cfCanonical EXCEPT ![Height[b]] = b], R, metaMin)
  <2> HIDE DEF R
  <2> QED BY <1>6, <1>8, TierPut
<1>10. /\ Become(t, d) /\ rows' = R
       /\ cfCanonical' \in {cfCanonical, [cfCanonical EXCEPT ![Height[b]] = b]}
       /\ UNCHANGED <<metaTip, metaMin, tip, minRetained, bin, heightCache,
                      blockCache, headerCache, record, recordLock>>
  BY DEF WriteBlock, Goto, index, caches, records
<1> HIDE DEF R, d
<1>11. StoreInv'
  BY <1>4, <1>8, <1>9, <1>10, StoreFacts
  DEF StoreInv, TierKept, AllKept, Kept, RecordsOK, Recorded
<1>12. d.op \in Offers[t] \cup {"idle"} BY <1>7 DEF Inv, CallsInv, Follows
<1> QED BY <1>2, <1>5, <1>7, <1>10, <1>11, <1>12, StepKeeps DEF Inv, Follows, Become

\* The operations that make one block canonical.
LEMMA PutOps ==
  ASSUME NEW R, NEW m, NEW c \in CallType, CallInv(c, R, m),
         c.pc \in {"putRow", "writeSlot", "cacheHeight", "cacheRecord", "flag"}
  PROVE  /\ Kept(c.arg, R, m) /\ c.arg \in Blocks /\ c.pc # "raise"
         /\ c.op \in {"put_block", "put_canonical", "extend_chain", "set_canonical"}
         /\ c.pc \in {"writeSlot", "cacheHeight"} => c.op # "put_block"
         /\ c.pc = "cacheRecord" => c.op # "set_canonical"
         /\ c.pc \in {"putRow", "flag"} => c.op = "set_canonical"
<1>1. Kept(c.arg, R, m) BY DEF CallInv, HeldInv
<1>2. /\ c.op \in {"put_block", "put_canonical", "extend_chain", "set_canonical"}
      /\ c.pc \in {"writeSlot", "cacheHeight"} => c.op # "put_block"
      /\ c.pc = "cacheRecord" => c.op # "set_canonical"
      /\ c.pc \in {"putRow", "flag"} => c.op = "set_canonical"
  BY DEF CallType, ReadOps, WriteOps, CallInv, InStep, LookupPcs, BodyPcs, RecordPcs
<1> QED BY <1>1, <1>2 DEF Kept

\* They go on with the block in hand.
LEMMA PutGoesOn ==
  ASSUME NEW R, NEW m, NEW c \in CallType, CallInv(c, R, m), Kept(c.arg, R, m),
         NEW p \in {"writeSlot", "cacheHeight", "flag", "cacheRecord", "cacheBlock", "relock"},
         c.op \in {"put_block", "put_canonical", "extend_chain", "set_canonical"},
         p \in {"writeSlot", "cacheHeight"} => c.op # "put_block",
         p \in {"cacheRecord", "cacheBlock"} => c.op # "set_canonical",
         p \in {"flag", "relock"} => c.op = "set_canonical"
  PROVE  Follows([c EXCEPT !.pc = p], c, R, m)
<1> DEFINE d == [c EXCEPT !.pc = p]
<1>1. p \in Pcs /\ p \notin {"raise", "fill", "fillLocked", "walk", "found", "newTip", "missing"}
  BY DEF Pcs, BodyPcs
<1>2. d.op = c.op /\ d.pc = p /\ d.back = c.back BY <1>1, AtPc
<1>3. InStep(d)
  <2> HIDE DEF d
  <2> QED BY <1>2 DEF CallInv, InStep, RecordPcs
<1> QED BY <1>1, <1>3, HolderMoves

LEMMA PutRowKeeps == ASSUME Inv, NEW t \in Threads, PutRow(t) PROVE Inv'
<1> DEFINE c == call[t]
           d == [c EXCEPT !.pc = "writeSlot"]
<1>1. c \in CallType /\ CallInv(c, rows, metaMin) BY CallFacts
<1>2. c.pc = "putRow" BY DEF PutRow, At
<1>3. Kept(c.arg, rows, metaMin) /\ c.op = "set_canonical" BY <1>1, <1>2, PutOps
<1>4. Follows(d, c, rows, metaMin) BY <1>1, <1>3, PutGoesOn
<1>5. TierKept([cfCanonical EXCEPT ![Height[c.arg]] = c.arg], rows, metaMin)
  BY <1>3, StoreFacts, TierPut
<1>6. /\ Become(t, d) /\ cfCanonical' = [cfCanonical EXCEPT ![Height[c.arg]] = c.arg]
      /\ UNCHANGED <<rows, metaTip, metaMin, index, caches, records>>
  BY DEF PutRow, Goto
<1> HIDE DEF d
<1> QED BY <1>2, <1>4, <1>5, <1>6, StoreFacts, WriteKeeps DEF index, caches, records

LEMMA WriteSlotKeeps == ASSUME Inv, NEW t \in Threads, WriteSlot(t) PROVE Inv'
<1> DEFINE c == call[t]
           d == [c EXCEPT !.pc = "cacheHeight"]
<1>1. c \in CallType /\ CallInv(c, rows, metaMin) BY CallFacts
<1>2. c.pc = "writeSlot" BY DEF WriteSlot, At
<1>3. /\ Kept(c.arg, rows, metaMin) /\ c.op # "put_block"
      /\ c.op \in {"put_block", "put_canonical", "extend_chain", "set_canonical"}
  BY <1>1, <1>2, PutOps
<1>4. Follows(d, c, rows, metaMin) BY <1>1, <1>3, PutGoesOn
<1>5. TierKept([bin EXCEPT ![Height[c.arg]] = c.arg], rows, metaMin)
  BY <1>3, StoreFacts, TierPut
<1>6. /\ Become(t, d) /\ bin' = [bin EXCEPT ![Height[c.arg]] = c.arg]
      /\ UNCHANGED <<disk, tip, minRetained, heightCache, caches, records>>
  BY DEF WriteSlot, Goto
<1> HIDE DEF d
<1> QED BY <1>2, <1>4, <1>5, <1>6, StoreFacts, WriteKeeps DEF disk, caches, records

LEMMA CacheHeightKeeps == ASSUME Inv, NEW t \in Threads, CacheHeight(t) PROVE Inv'
<1> DEFINE c == call[t]
           p == IF c.op = "set_canonical" THEN "flag" ELSE "cacheRecord"
           d == [c EXCEPT !.pc = p]
<1>1. c \in CallType /\ CallInv(c, rows, metaMin) BY CallFacts
<1>2. c.pc = "cacheHeight" BY DEF CacheHeight, At
<1>3. /\ Kept(c.arg, rows, metaMin)
      /\ c.op \in {"put_block", "put_canonical", "extend_chain", "set_canonical"}
  BY <1>1, <1>2, PutOps
<1>4. Follows(d, c, rows, metaMin) BY <1>1, <1>3, PutGoesOn
<1>5. TierKept(CacheInsertOne(heightCache, Height[c.arg], c.arg), rows, metaMin)
  BY <1>3, StoreFacts, TierCached
<1>6. /\ Become(t, d) /\ heightCache' = CacheInsertOne(heightCache, Height[c.arg], c.arg)
      /\ UNCHANGED <<disk, tip, minRetained, bin, caches, records>>
  BY DEF CacheHeight, Goto
<1> HIDE DEF d
<1> QED BY <1>2, <1>4, <1>5, <1>6, StoreFacts, WriteKeeps DEF disk, caches, records

LEMMA CacheRecordKeeps == ASSUME Inv, NEW t \in Threads, CacheRecord(t) PROVE Inv'
<1> DEFINE c == call[t]
           d == [c EXCEPT !.pc = "cacheBlock"]
<1>1. c \in CallType /\ CallInv(c, rows, metaMin) BY CallFacts
<1>2. c.pc = "cacheRecord" BY DEF CacheRecord, At
<1>3. /\ Kept(c.arg, rows, metaMin) /\ c.arg \in Blocks /\ c.op # "set_canonical"
      /\ c.op \in {"put_block", "put_canonical", "extend_chain", "set_canonical"}
  BY <1>1, <1>2, PutOps
<1>4. Follows(d, c, rows, metaMin) BY <1>1, <1>3, PutGoesOn
<1>5. RecordsOK(record') /\ AllKept(Recorded(record'), rows, metaMin)
  <2>1. record' = [record EXCEPT ![c.arg] = "canonical"] BY DEF CacheRecord
  <2> QED BY <1>3, <2>1, RecordKept
<1>6. Become(t, d) /\ UNCHANGED <<disk, index, caches, recordLock>> BY DEF CacheRecord, Goto
<1> HIDE DEF d
<1> QED BY <1>2, <1>4, <1>5, <1>6, StoreFacts, WriteKeeps DEF disk, index, caches

LEMMA FlagKeeps == ASSUME Inv, NEW t \in Threads, Flag(t) PROVE Inv'
<1> DEFINE c == call[t]
           d == [c EXCEPT !.pc = "relock"]
<1>1. c \in CallType /\ CallInv(c, rows, metaMin) BY CallFacts
<1>2. c.pc = "flag" BY DEF Flag, At
<1>3. Kept(c.arg, rows, metaMin) /\ c.arg \in Blocks /\ c.op = "set_canonical"
  BY <1>1, <1>2, PutOps
<1>4. Follows(d, c, rows, metaMin) BY <1>1, <1>3, PutGoesOn
<1>5. UNCHANGED <<disk, index, caches>> BY DEF Flag
<1>6. CASE record[c.arg] # "none"
  <2>1. /\ record' = [record EXCEPT ![c.arg] = "canonical"] /\ Become(t, Idle)
        /\ UNCHANGED recordLock
    BY <1>6 DEF Flag, Return
  <2>2. RecordsOK(record') /\ AllKept(Recorded(record'), rows, metaMin)
    BY <1>3, <2>1, RecordKept
  <2> QED BY <1>2, <1>5, <2>1, <2>2, Ends, StoreFacts, WriteKeeps DEF disk, index, caches
<1>7. CASE record[c.arg] = "none"
  <2>1. recordLock' = t /\ Become(t, d) /\ UNCHANGED record BY <1>7 DEF Flag, Goto
  <2> HIDE DEF d
  <2> QED BY <1>2, <1>4, <1>5, <2>1, StoreFacts, WriteKeeps DEF disk, index, caches
<1> QED BY <1>6, <1>7

-----------------------------------------------------------------------------
(***************************************************************************)
(* set_tip, rollback_to_height and apply_reorg.                            *)
(***************************************************************************)
LEMMA RollbackMoves ==
  ASSUME NEW R, NEW m, NEW c \in CallType, CallInv(c, R, m), c.op = "rollback_to_height",
         NEW p \in {"aboveFloor", "commit", "truncate", "putTip", "setTip", "unflag", "recache"},
         p \in {"putTip", "setTip"} => Kept(c.arg, R, m)
  PROVE  Follows([c EXCEPT !.pc = p], c, R, m)
<1> DEFINE d == [c EXCEPT !.pc = p]
<1>1. p \in Pcs /\ p # "raise" BY DEF Pcs
<1>2. Fields(d, p, c.op, c.back, c.arg, c.list, c.todo, c.to, c.top, c.h, c.last, c.hash,
             c.seen, c.hits)
  BY <1>1, AtPc DEF Fields
<1> HIDE DEF d
<1> USE <1>2 DEF Fields
<1>3. InStep(d) BY DEF InStep, LookupPcs
<1>4. HeldInv(d, R, m) BY DEF CallInv, HeldInv
<1>5. ReorgInv(d, R, m) BY DEF CallInv, ReorgInv
<1>6. PruneInv(d, m) BY DEF CallInv, PruneInv
<1> QED BY <1>1, <1>3, <1>4, <1>5, <1>6 DEF CallInv, Follows, d

\* An apply_reorg that has found all its records.
LEMMA ReorgMoves ==
  ASSUME NEW R, NEW m, NEW c \in CallType, CallInv(c, R, m), c.op = "apply_reorg",
         \A i \in DOMAIN c.list : Kept(c.list[i], R, m),
         NEW p \in {"commit", "rewrite", "unflag", "recache", "setTip"},
         p # "commit" => Kept(c.arg, R, m),
         p = "rewrite" => c.todo # << >> /\ \A j \in DOMAIN c.todo : Kept(c.todo[j], R, m)
  PROVE  Follows([c EXCEPT !.pc = p], c, R, m)
<1> DEFINE d == [c EXCEPT !.pc = p]
<1>1. p \in Pcs /\ p # "raise" BY DEF Pcs
<1>2. Fields(d, p, c.op, c.back, c.arg, c.list, c.todo, c.to, c.top, c.h, c.last, c.hash,
             c.seen, c.hits)
  BY <1>1, AtPc DEF Fields
<1> HIDE DEF d
<1> USE <1>2 DEF Fields
<1>3. InStep(d) BY DEF InStep, LookupPcs, RecordPcs
<1>4. HeldInv(d, R, m) BY DEF CallInv, HeldInv
<1>5. ReorgInv(d, R, m) BY DEF CallInv, ReorgInv, RecordPcs
<1>6. PruneInv(d, m) BY DEF CallInv, PruneInv
<1> QED BY <1>1, <1>3, <1>4, <1>5, <1>6 DEF CallInv, Follows, d

LEMMA TipOps ==
  ASSUME NEW R, NEW m, NEW c \in CallType, CallInv(c, R, m), c.pc \in {"putTip", "setTip"}
  PROVE  /\ Kept(c.arg, R, m) /\ c.pc # "raise"
         /\ c.op \in {"extend_chain", "rollback_to_height", "apply_reorg"}
         /\ c.pc = "putTip" => c.op # "apply_reorg"
<1>1. Kept(c.arg, R, m) BY DEF CallInv, HeldInv
<1>2. /\ c.op \in {"extend_chain", "rollback_to_height", "apply_reorg"}
      /\ c.pc = "putTip" => c.op # "apply_reorg"
  BY DEF CallType, ReadOps, WriteOps, CallInv, InStep, LookupPcs, BodyPcs, RecordPcs
<1> QED BY <1>1, <1>2

LEMMA PutTipKeeps == ASSUME Inv, NEW t \in Threads, PutTip(t) PROVE Inv'
<1> DEFINE c == call[t]
           d == [c EXCEPT !.pc = "setTip"]
<1>1. c \in CallType /\ CallInv(c, rows, metaMin) BY CallFacts
<1>2. c.pc = "putTip" BY DEF PutTip, At
<1>3. Kept(c.arg, rows, metaMin) /\ c.op \in {"extend_chain", "rollback_to_height"}
  BY <1>1, <1>2, TipOps
<1>4. Follows(d, c, rows, metaMin)
  <2>1. CASE c.op = "extend_chain"
    <3>1. "setTip" \in Pcs BY DEF Pcs
    <3>2. d.op = "extend_chain" /\ d.pc = "setTip" BY <1>1, <2>1, <3>1, AtPc
    <3>3. InStep(d)
      <4> HIDE DEF d
      <4> QED BY <3>2 DEF InStep
    <3> QED BY <1>1, <1>3, <2>1, <3>1, <3>3, HolderMoves
  <2>2. CASE c.op = "rollback_to_height" BY <1>1, <1>3, <2>2, RollbackMoves
  <2> QED BY <1>3, <2>1, <2>2
<1>5. /\ Become(t, d) /\ metaTip' = c.arg
      /\ UNCHANGED <<rows, cfCanonical, metaMin, index, caches, records>>
  BY DEF PutTip, Goto
<1> HIDE DEF d
<1> QED BY <1>2, <1>3, <1>4, <1>5, StoreFacts, WriteKeeps DEF index, caches, records

LEMMA SetTipKeeps == ASSUME Inv, NEW t \in Threads, SetTip(t) PROVE Inv'
<1> DEFINE c == call[t]
           d == [c EXCEPT !.pc = "unflag"]
<1>1. c \in CallType /\ CallInv(c, rows, metaMin) BY CallFacts
<1>2. c.pc = "setTip" BY DEF SetTip, At
<1>3. Kept(c.arg, rows, metaMin) BY <1>1, <1>2, TipOps
<1>4. c.op = "rollback_to_height" => Follows(d, c, rows, metaMin) BY <1>1, RollbackMoves
<1>5. /\ IF c.op = "rollback_to_height" THEN Become(t, d) ELSE Become(t, Idle)
      /\ tip' = c.arg
      /\ UNCHANGED <<disk, minRetained, bin, heightCache, caches, records>>
  BY DEF SetTip, Goto, Return
<1> HIDE DEF d
<1> QED BY <1>2, <1>3, <1>4, <1>5, Ends, StoreFacts, WriteKeeps DEF disk, caches, records

LEMMA WalkDownFollows ==
  ASSUME NEW R, NEW m, NEW c \in CallType, CallInv(c, R, m),
         c.op \in {"rollback_to_height", "apply_reorg"},
         \A i \in DOMAIN c.list : Kept(c.list[i], R, m)
  PROVE  Follows(WalkDown(c), c, R, m)
<1>1. CASE ~(c.to < c.top)
  <2>1. WalkDown(c) = [c EXCEPT !.pc = "commit"] BY <1>1 DEF WalkDown
  <2>2. c.op = "rollback_to_height" => Follows([c EXCEPT !.pc = "commit"], c, R, m)
    BY RollbackMoves
  <2>3. c.op = "apply_reorg" => Follows([c EXCEPT !.pc = "commit"], c, R, m) BY ReorgMoves
  <2> QED BY <2>1, <2>2, <2>3
<1>2. CASE c.to < c.top
  <2> DEFINE e == [c EXCEPT !.last = c.to + 1]
             d == LookupFrom(e, c.top, "walk")
  <2>1. c.to + 1 \in Heights /\ c.top \in Heights
    BY <1>2, MaxHeightAssumption DEF CallType, Heights
  <2>2. Fields(e, c.pc, c.op, c.back, c.arg, c.list, c.todo, c.to, c.top, c.h, c.to + 1, c.hash,
               c.seen, c.hits)
    BY <2>1 DEF Fields, CallType
  <2>3. "walk" \in Pcs BY DEF Pcs
  <2>4. Fields(d, "floor", c.op, "walk", c.arg, c.list, c.todo, c.to, c.top, c.top, c.to + 1,
               c.hash, c.seen, c.hits)
    <3> HIDE DEF e
    <3> QED BY <2>1, <2>2, <2>3, AtLookup DEF Fields
  <2>5. WalkDown(c) = d BY <1>2 DEF WalkDown
  <2> HIDE DEF d
  <2> USE <2>4 DEF Fields
  <2>6. InStep(d) BY DEF InStep, LookupPcs, RecordPcs
  <2>7. HeldInv(d, R, m) BY DEF HeldInv
  <2>8. ReorgInv(d, R, m) BY DEF CallInv, ReorgInv, RecordPcs
  <2>9. PruneInv(d, m) BY DEF CallInv, PruneInv
  <2> QED BY <2>5, <2>6, <2>7, <2>8, <2>9 DEF CallInv, Follows
<1> QED BY <1>1, <1>2

LEMMA ReadTipKeeps == ASSUME Inv, NEW t \in Threads, ReadTip(t) PROVE Inv'
<1> DEFINE k == call[t]
           c == [k EXCEPT !.top = Height[tip]]
<1>1. k \in CallType /\ CallInv(k, rows, metaMin) BY CallFacts
<1>2. k.pc = "readTip" BY DEF ReadTip, Reads, At
<1>3. k.op \in {"rollback_to_height", "apply_reorg"}
  BY <1>1, <1>2 DEF CallType, ReadOps, WriteOps, CallInv, InStep, LookupPcs, BodyPcs, RecordPcs
<1>4. Height[tip] \in Heights BY StoreFacts, BlockHeight DEF Kept
<1>5. Fields(c, k.pc, k.op, k.back, k.arg, k.list, k.todo, k.to, Height[tip], k.h, k.last, k.hash,
             k.seen, k.hits)
  BY <1>1, <1>4 DEF Fields, CallType
<1>6. ReadTip(t) = Reads(t, "readTip",
            IF c.op = "apply_reorg"
              THEN [c EXCEPT !.todo = c.list, !.arg = Head(c.list), !.pc = "recordCached",
                             !.back = "validated"]
              ELSE IF c.to > c.top THEN Idle ELSE [c EXCEPT !.pc = "aboveFloor"])
  BY DEF ReadTip
<1> HIDE DEF c
<1> USE <1>5 DEF Fields
<1>7. CallInv(c, rows, metaMin)
  BY <1>1, <1>2 DEF CallInv, InStep, HeldInv, ReorgInv, PruneInv, LookupPcs, BodyPcs, RecordPcs
<1>8. CASE k.op = "rollback_to_height"
  <2>1. Follows([c EXCEPT !.pc = "aboveFloor"], c, rows, metaMin) BY <1>7, <1>8, RollbackMoves
  <2>2. Follows([c EXCEPT !.pc = "aboveFloor"], k, rows, metaMin) BY <2>1 DEF Follows
  <2> QED BY <1>6, <1>8, <2>2, Ends, ReadsKeeps
<1>9. CASE k.op = "apply_reorg"
  <2> DEFINE d == [c EXCEPT !.todo = c.list, !.arg = Head(c.list), !.pc = "recordCached",
                            !.back = "validated"]
  <2>1. c.list \in Seq(Blocks) /\ c.list # << >> /\ c.arg \in Slot
    BY <1>7, <1>9 DEF CallInv, ReorgInv, CallType
  <2>2. Head(c.list) \in Blocks /\ Head(c.list) \in Slot BY <2>1, HeadTailProperties DEF Slot
  <2>3. "recordCached" \in Pcs /\ "validated" \in Pcs BY DEF Pcs, RecordPcs
  <2>4. Fields(d, "recordCached", k.op, "validated", Head(c.list), c.list, c.list, c.to, c.top,
               c.h, c.last, c.hash, c.seen, c.hits)
    BY <2>1, <2>2, <2>3 DEF CallType
  <2> HIDE DEF d
  <2> USE <2>4, <1>9
  <2>5. InStep(d) BY DEF InStep, LookupPcs, RecordPcs
  <2>6. HeldInv(d, rows, metaMin) BY DEF HeldInv
  <2>7. ReorgInv(d, rows, metaMin) BY <2>1 DEF ReorgInv, RecordPcs
  <2>8. PruneInv(d, metaMin) BY <1>7 DEF CallInv, PruneInv
  <2>9. Follows(d, k, rows, metaMin) BY <2>5, <2>6, <2>7, <2>8 DEF CallInv, Follows
  <2> QED BY <1>6, <2>9, ReadsKeeps DEF d
<1> QED BY <1>3, <1>8, <1>9

LEMMA AboveFloorKeeps == ASSUME Inv, NEW t \in Threads, AboveFloor(t) PROVE Inv'
<1> DEFINE c == call[t]
<1>1. c \in CallType /\ CallInv(c, rows, metaMin) BY CallFacts
<1>2. c.pc = "aboveFloor" BY DEF AboveFloor, Reads, At
<1>3. c.op = "rollback_to_height"
  BY <1>1, <1>2 DEF CallType, ReadOps, WriteOps, CallInv, InStep, LookupPcs, BodyPcs, RecordPcs
<1>4. c.list = << >> BY <1>1, <1>3 DEF CallInv, ReorgInv
<1>5. \A i \in DOMAIN c.list : Kept(c.list[i], rows, metaMin) BY <1>4
<1>6. Follows(WalkDown(c), c, rows, metaMin) BY <1>1, <1>3, <1>5, WalkDownFollows
<1> QED BY <1>6, Ends, ReadsKeeps DEF AboveFloor

LEMMA ValidatedKeeps == ASSUME Inv, NEW t \in Threads, Validated(t) PROVE Inv'
<1> DEFINE c == call[t]
           rest == Tail(c.todo)
<1>1. c \in CallType /\ CallInv(c, rows, metaMin) BY CallFacts
<1>2. c.pc = "validated" BY DEF Validated, Reads, At
<1>3. c.op = "apply_reorg"
  BY <1>1, <1>2 DEF CallType, ReadOps, WriteOps, CallInv, InStep, LookupPcs, BodyPcs, RecordPcs
<1>4. Kept(c.arg, rows, metaMin) BY <1>1, <1>2 DEF CallInv, HeldInv
<1>5. /\ c.todo \in Seq(Blocks) /\ c.todo # << >> /\ c.arg = Head(c.todo)
      /\ c.list # << >> /\ c.list \in Seq(Blocks)
      /\ \A i \in DOMAIN c.list :
           Kept(c.list[i], rows, metaMin) \/ \E j \in DOMAIN c.todo : c.todo[j] = c.list[i]
  BY <1>1, <1>2, <1>3 DEF CallInv, ReorgInv, CallType
<1>6. /\ rest \in Seq(Blocks) /\ Len(rest) = Len(c.todo) - 1
      /\ \A j \in 1..Len(rest) : rest[j] = c.todo[j + 1]
      /\ c.arg = c.todo[1] /\ DOMAIN c.todo = 1..Len(c.todo) /\ DOMAIN rest = 1..Len(rest)
      /\ Len(c.todo) \in Nat /\ Len(rest) \in Nat
  BY <1>5, HeadTailProperties
<1>7. \A i \in DOMAIN c.list :
        Kept(c.list[i], rows, metaMin) \/ \E j \in DOMAIN rest : rest[j] = c.list[i]
  <2> SUFFICES ASSUME NEW i \in DOMAIN c.list, ~Kept(c.list[i], rows, metaMin)
               PROVE  \E j \in DOMAIN rest : rest[j] = c.list[i]
    OBVIOUS
  <2>1. PICK j \in DOMAIN c.todo : c.todo[j] = c.list[i] BY <1>5
  <2>2. j # 1 BY <1>4, <1>6, <2>1
  <2>3. j - 1 \in DOMAIN rest /\ rest[j - 1] = c.todo[j] BY <1>6, <2>1, <2>2
  <2> QED BY <2>1, <2>3
<1>8. CASE rest = << >>
  <2>1. \A i \in DOMAIN c.list : Kept(c.list[i], rows, metaMin) BY <1>7, <1>8
  <2>2. Follows(WalkDown(c), c, rows, metaMin) BY <1>1, <1>3, <2>1, WalkDownFollows
  <2> QED BY <1>8, <2>2, ReadsKeeps DEF Validated
<1>9. CASE rest # << >>
  <2> DEFINE d == [c EXCEPT !.todo = rest, !.arg = Head(rest), !.pc = "recordCached"]
  <2>1. Reads(t, "validated", d) BY <1>9 DEF Validated
  <2>2. Head(rest) \in Blocks /\ Head(rest) \in Slot
    <3> HIDE DEF rest
    <3> QED BY <1>6, <1>9, HeadTailProperties DEF Slot
  <2>3. "recordCached" \in Pcs BY DEF Pcs, RecordPcs
  <2>4. Fields(d, "recordCached", c.op, c.back, Head(rest), c.list, rest, c.to, c.top,
               c.h, c.last, c.hash, c.seen, c.hits)
    <3> HIDE DEF rest
    <3> QED BY <1>1, <1>6, <2>2, <2>3 DEF CallType, Fields
  <2> HIDE DEF d, rest
  <2> USE <2>4, <1>1, <1>2, <1>3 DEF Fields
  <2>5. InStep(d) BY DEF CallInv, InStep, LookupPcs, RecordPcs
  <2>6. HeldInv(d, rows, metaMin) BY DEF HeldInv
  <2>7. ReorgInv(d, rows, metaMin) BY <1>5, <1>7, <1>9 DEF ReorgInv, RecordPcs
  <2>8. PruneInv(d, metaMin) BY DEF CallInv, PruneInv
  <2>9. Follows(d, c, rows, metaMin)
    BY <2>5, <2>6, <2>7, <2>8 DEF CallInv, Follows
  <2> QED BY <2>1, <2>9, ReadsKeeps DEF d
<1> QED BY <1>8, <1>9

\* What a rollback or reorg is at each step of its second half.
LEMMA ReorgOps ==
  ASSUME NEW R, NEW m, NEW c \in CallType, CallInv(c, R, m),
         c.pc \in {"truncate", "newTip", "rewrite", "unflag", "recache"}
  PROVE  /\ c.op \in {"rollback_to_height", "apply_reorg"}
         /\ c.to \in Heights
         /\ c.pc = "newTip" => c.op = "rollback_to_height"
         /\ c.pc = "rewrite" => c.op = "apply_reorg"
         /\ \A i \in DOMAIN c.list : Kept(c.list[i], R, m)
         /\ c.op = "apply_reorg" => Kept(c.arg, R, m)
         /\ c.pc \in {"truncate", "rewrite"} /\ c.op = "apply_reorg" =>
              c.todo # << >> /\ \A j \in DOMAIN c.todo : Kept(c.todo[j], R, m)
<1>1. /\ c.op \in {"rollback_to_height", "apply_reorg"}
      /\ c.pc = "newTip" => c.op = "rollback_to_height"
      /\ c.pc = "rewrite" => c.op = "apply_reorg"
  BY DEF CallType, ReadOps, WriteOps, CallInv, InStep, LookupPcs, BodyPcs, RecordPcs
<1>2. c.to \in Heights BY <1>1 DEF CallInv, PruneInv
<1>3. c.op = "rollback_to_height" => c.list = << >> BY DEF CallInv, ReorgInv
<1>4. c.op = "apply_reorg" =>
        /\ \A i \in DOMAIN c.list : Kept(c.list[i], R, m)
        /\ c.pc \in {"truncate", "rewrite"} =>
             c.todo # << >> /\ \A j \in DOMAIN c.todo : Kept(c.todo[j], R, m)
        /\ Kept(c.arg, R, m)
  BY <1>1 DEF CallInv, ReorgInv, RecordPcs
<1>5. c.op = "rollback_to_height" => \A i \in DOMAIN c.list : Kept(c.list[i], R, m) BY <1>3
<1> QED BY <1>1, <1>2, <1>4, <1>5

LEMMA CommitRollbackKeeps == ASSUME Inv, NEW t \in Threads, CommitRollback(t) PROVE Inv'
<1> DEFINE c == call[t]
           d == [c EXCEPT !.pc = "truncate"]
<1>1. c \in CallType /\ CallInv(c, rows, metaMin) BY CallFacts
<1>2. c.pc # "raise" /\ c.op = "rollback_to_height" BY DEF CommitRollback, At
<1>3. Follows(d, c, rows, metaMin) BY <1>1, <1>2, RollbackMoves
<1>4. TierKept(Without(cfCanonical, Gone(c)), rows, metaMin) BY StoreFacts, TierWithout
<1>5. /\ Become(t, d) /\ cfCanonical' = Without(cfCanonical, Gone(c))
      /\ UNCHANGED <<rows, metaTip, metaMin, index, caches, records>>
  BY DEF CommitRollback, Goto
<1> HIDE DEF d
<1> QED BY <1>2, <1>3, <1>4, <1>5, StoreFacts, WriteKeeps DEF index, caches, records

LEMMA CommitReorgKeeps == ASSUME Inv, NEW t \in Threads, CommitReorg(t) PROVE Inv'
<1> DEFINE c == call[t]
           newTip == c.list[Len(c.list)]
           f == Without(cfCanonical, Gone(c))
           g == PutAll(f, c.list, DOMAIN c.list)
           d == [c EXCEPT !.pc = "truncate", !.arg = newTip, !.todo = c.list]
<1>1. c \in CallType /\ CallInv(c, rows, metaMin) BY CallFacts
<1>2. c.pc = "commit" /\ c.op = "apply_reorg" BY DEF CommitReorg, At
<1>3. c.list # << >> /\ \A i \in DOMAIN c.list : Kept(c.list[i], rows, metaMin)
  BY <1>1, <1>2 DEF CallInv, ReorgInv, RecordPcs
<1>4. c.list \in Seq(Blocks) BY <1>1 DEF CallType
<1>5. Len(c.list) \in DOMAIN c.list BY <1>3, <1>4, EmptySeq
<1>6. Kept(newTip, rows, metaMin) /\ newTip \in Blocks /\ newTip \in Slot
  BY <1>3, <1>5 DEF Kept, Slot
<1>7. Fields(d, "truncate", c.op, c.back, newTip, c.list, c.list, c.to, c.top, c.h, c.last,
             c.hash, c.seen, c.hits)
  <2>1. "truncate" \in Pcs BY DEF Pcs
  <2> HIDE DEF newTip
  <2> QED BY <1>1, <1>4, <1>6, <2>1 DEF Fields, CallType
<1>8. TierKept(g, rows, metaMin)
  <2>1. TierKept(f, rows, metaMin) BY StoreFacts, TierWithout
  <2> HIDE DEF f
  <2> QED BY <1>3, <2>1, TierPutAll
<1>9. /\ Become(t, d) /\ cfCanonical' = g /\ metaTip' = newTip
      /\ UNCHANGED <<rows, metaMin, index, caches, records>>
  BY DEF CommitReorg
<1> HIDE DEF d, g, newTip
<1>10. Follows(d, c, rows, metaMin)
  <2> USE <1>1, <1>2, <1>7 DEF Fields
  <2>1. InStep(d) BY DEF InStep, LookupPcs, RecordPcs
  <2>2. HeldInv(d, rows, metaMin) BY DEF HeldInv
  <2>3. ReorgInv(d, rows, metaMin) BY <1>3, <1>6 DEF ReorgInv, RecordPcs
  <2>4. PruneInv(d, metaMin) BY DEF CallInv, PruneInv
  <2> QED BY <2>1, <2>2, <2>3, <2>4 DEF CallInv, Follows
<1> QED BY <1>2, <1>6, <1>8, <1>9, <1>10, StoreFacts, WriteKeeps DEF index, caches, records

LEMMA TruncateKeeps == ASSUME Inv, NEW t \in Threads, Truncate(t) PROVE Inv'
<1> DEFINE c == call[t]
           d == [c EXCEPT !.pc = "rewrite"]
           e == LookupFrom(c, c.to, "newTip")
<1>1. c \in CallType /\ CallInv(c, rows, metaMin) BY CallFacts
<1>2. c.pc = "truncate" BY DEF Truncate, At
<1>3. /\ c.op \in {"rollback_to_height", "apply_reorg"} /\ c.to \in Heights
      /\ \A i \in DOMAIN c.list : Kept(c.list[i], rows, metaMin)
      /\ c.op = "apply_reorg" => Kept(c.arg, rows, metaMin)
      /\ c.op = "apply_reorg" =>
           c.todo # << >> /\ \A j \in DOMAIN c.todo : Kept(c.todo[j], rows, metaMin)
  BY <1>1, <1>2, ReorgOps
<1>4. c.op = "apply_reorg" => Follows(d, c, rows, metaMin) BY <1>1, <1>3, ReorgMoves
<1>5. c.op = "rollback_to_height" => Follows(e, c, rows, metaMin)
  <2> SUFFICES ASSUME c.op = "rollback_to_height" PROVE Follows(e, c, rows, metaMin) OBVIOUS
  <2>1. "newTip" \in Pcs BY DEF Pcs
  <2>2. Fields(e, "floor", c.op, "newTip", c.arg, c.list, c.todo, c.to, c.top, c.to, c.last,
               c.hash, c.seen, c.hits)
    BY <1>1, <1>3, <2>1, AtLookup
  <2> HIDE DEF e
  <2> USE <2>2, <1>1, <1>2 DEF Fields
  <2>3. InStep(e) BY DEF InStep, LookupPcs, RecordPcs
  <2>4. HeldInv(e, rows, metaMin) BY DEF HeldInv
  <2>5. ReorgInv(e, rows, metaMin) BY DEF CallInv, ReorgInv
  <2>6. PruneInv(e, metaMin) BY DEF CallInv, PruneInv
  <2> QED BY <2>3, <2>4, <2>5, <2>6 DEF CallInv, Follows
<1>6. TierKept(BinTruncate(bin, c.to), rows, metaMin)
  <2>1. c.to \in Int BY <1>3 DEF Heights
  <2> QED BY <2>1, StoreFacts, TierTruncated
<1>7. /\ Become(t, IF c.op = "apply_reorg" THEN d ELSE e) /\ bin' = BinTruncate(bin, c.to)
      /\ UNCHANGED <<disk, tip, minRetained, heightCache, caches, records>>
  BY DEF Truncate
<1> HIDE DEF d, e
<1> QED BY <1>2, <1>3, <1>4, <1>5, <1>6, <1>7, StoreFacts, WriteKeeps DEF disk, caches, records

LEMMA NewTipKeeps == ASSUME Inv, NEW t \in Threads, NewTip(t) PROVE Inv'
<1> DEFINE c == call[t]
           d == [c EXCEPT !.arg = c.hash, !.pc = "putTip"]
<1>1. c \in CallType /\ CallInv(c, rows, metaMin) BY CallFacts
<1>2. c.pc = "newTip" BY DEF NewTip, Reads, At
<1>3. c.op = "rollback_to_height" BY <1>1, <1>2, ReorgOps
<1>4. c.hash # NoBlock => Kept(c.hash, rows, metaMin) BY <1>1, <1>2 DEF CallInv, HeldInv
<1>5. CASE c.hash = NoBlock
  <2>1. Follows([c EXCEPT !.pc = "unflag"], c, rows, metaMin) BY <1>1, <1>3, RollbackMoves
  <2> QED BY <1>5, <2>1, ReadsKeeps DEF NewTip
<1>6. CASE c.hash # NoBlock
  <2>1. "putTip" \in Pcs BY DEF Pcs
  <2>2. Fields(d, "putTip", c.op, c.back, c.hash, c.list, c.todo, c.to, c.top, c.h, c.last,
               c.hash, c.seen, c.hits)
    BY <1>1, <2>1 DEF Fields, CallType
  <2>3. Reads(t, "newTip", d) BY <1>6 DEF NewTip
  <2> HIDE DEF d
  <2> USE <2>2, <1>1, <1>2, <1>3 DEF Fields
  <2>4. InStep(d) BY DEF InStep, LookupPcs, RecordPcs
  <2>5. HeldInv(d, rows, metaMin) BY <1>4, <1>6 DEF HeldInv
  <2>6. ReorgInv(d, rows, metaMin) BY DEF CallInv, ReorgInv
  <2>7. PruneInv(d, metaMin) BY DEF CallInv, PruneInv
  <2>8. Follows(d, c, rows, metaMin) BY <2>4, <2>5, <2>6, <2>7 DEF CallInv, Follows
  <2> QED BY <2>3, <2>8, ReadsKeeps
<1> QED BY <1>5, <1>6

LEMMA RewriteKeeps == ASSUME Inv, NEW t \in Threads, Rewrite(t) PROVE Inv'
<1> DEFINE c == call[t]
           b == Head(c.todo)
           rest == Tail(c.todo)
           p == IF rest = << >> THEN "unflag" ELSE "rewrite"
           d == [c EXCEPT !.todo = rest, !.pc = p]
<1>1. c \in CallType /\ CallInv(c, rows, metaMin) BY CallFacts
<1>2. c.pc = "rewrite" BY DEF Rewrite, At
<1>3. /\ c.op = "apply_reorg" /\ Kept(c.arg, rows, metaMin)
      /\ \A i \in DOMAIN c.list : Kept(c.list[i], rows, metaMin)
      /\ c.todo # << >> /\ \A j \in DOMAIN c.todo : Kept(c.todo[j], rows, metaMin)
  BY <1>1, <1>2, ReorgOps
<1>4. c.todo \in Seq(Blocks) /\ c.list # << >>
  BY <1>1, <1>3 DEF CallType, CallInv, ReorgInv
<1>5. /\ rest \in Seq(Blocks) /\ Len(rest) = Len(c.todo) - 1
      /\ \A j \in 1..Len(rest) : rest[j] = c.todo[j + 1]
      /\ b = c.todo[1] /\ DOMAIN c.todo = 1..Len(c.todo) /\ DOMAIN rest = 1..Len(rest)
      /\ Len(c.todo) \in Nat /\ Len(rest) \in Nat
  BY <1>3, <1>4, HeadTailProperties
<1>6. Kept(b, rows, metaMin)
  <2>1. 1 \in DOMAIN c.todo BY <1>5
  <2> QED BY <1>3, <1>5, <2>1
<1>7. \A j \in DOMAIN rest : Kept(rest[j], rows, metaMin)
  <2> SUFFICES ASSUME NEW j \in DOMAIN rest PROVE Kept(rest[j], rows, metaMin) OBVIOUS
  <2>1. j + 1 \in DOMAIN c.todo /\ rest[j] = c.todo[j + 1] BY <1>5
  <2> QED BY <1>3, <2>1
<1>8. Fields(d, p, c.op, c.back, c.arg, c.list, rest, c.to, c.top, c.h, c.last, c.hash, c.seen,
             c.hits)
  <2>1. p \in Pcs BY DEF Pcs
  <2> HIDE DEF rest, p
  <2> QED BY <1>1, <1>5, <2>1 DEF Fields, CallType
<1>9. Become(t, d) /\ bin' = [bin EXCEPT ![Height[b]] = b]
      /\ UNCHANGED <<disk, tip, minRetained, heightCache, caches, records>>
  BY DEF Rewrite
<1>10. TierKept([bin EXCEPT ![Height[b]] = b], rows, metaMin) BY <1>6, StoreFacts, TierPut
<1>11. p \in {"unflag", "rewrite"} /\ (p = "rewrite" => rest # << >>) OBVIOUS
<1> HIDE DEF d, rest, b, p
<1>12. Follows(d, c, rows, metaMin)
  <2> USE <1>1, <1>2, <1>3, <1>8, <1>11 DEF Fields
  <2>1. InStep(d) BY DEF InStep, LookupPcs, RecordPcs
  <2>2. HeldInv(d, rows, metaMin) BY DEF HeldInv
  <2>3. ReorgInv(d, rows, metaMin) BY <1>4, <1>7 DEF ReorgInv, RecordPcs
  <2>4. PruneInv(d, metaMin) BY DEF CallInv, PruneInv
  <2> QED BY <2>1, <2>2, <2>3, <2>4 DEF CallInv, Follows
<1> QED BY <1>2, <1>9, <1>10, <1>12, StoreFacts, WriteKeeps DEF disk, caches, records

LEMMA UnflagKeeps == ASSUME Inv, NEW t \in Threads, Unflag(t) PROVE Inv'
<1> DEFINE c == call[t]
           d == [c EXCEPT !.pc = "recache"]
<1>1. c \in CallType /\ CallInv(c, rows, metaMin) BY CallFacts
<1>2. c.pc = "unflag" BY DEF Unflag, At
<1>3. /\ c.op \in {"rollback_to_height", "apply_reorg"}
      /\ \A i \in DOMAIN c.list : Kept(c.list[i], rows, metaMin)
      /\ c.op = "apply_reorg" => Kept(c.arg, rows, metaMin)
  BY <1>1, <1>2, ReorgOps
<1>4. Follows(d, c, rows, metaMin)
  <2>1. CASE c.op = "apply_reorg" BY <1>1, <1>3, <2>1, ReorgMoves
  <2>2. CASE c.op = "rollback_to_height" BY <1>1, <2>2, RollbackMoves
  <2> QED BY <1>3, <2>1, <2>2
<1>5. /\ record' \in [Blocks -> {"none", "canonical", "reverted"}]
      /\ \A b \in Blocks : record'[b] # "none" => record[b] # "none"
  <2>1. record \in [Blocks -> {"none", "canonical", "reverted"}] BY StoreFacts DEF RecordsOK
  <2> QED BY <2>1 DEF Unflag
<1>6. RecordsOK(record') /\ AllKept(Recorded(record'), rows, metaMin)
  BY <1>5, StoreFacts DEF RecordsOK, AllKept, Recorded
<1>7. Become(t, d) /\ UNCHANGED <<disk, index, caches, recordLock>> BY DEF Unflag, Goto
<1> HIDE DEF d
<1> QED BY <1>2, <1>4, <1>6, <1>7, StoreFacts, WriteKeeps DEF disk, index, caches

LEMMA RecacheKeeps == ASSUME Inv, NEW t \in Threads, Recache(t) PROVE Inv'
<1> DEFINE c == call[t]
           f == Without(heightCache, Gone(c))
           g == PutAll(f, c.list, DOMAIN c.list)
           d == [c EXCEPT !.pc = "setTip"]
<1>1. c \in CallType /\ CallInv(c, rows, metaMin) BY CallFacts
<1>2. c.pc = "recache" BY DEF Recache, At
<1>3. /\ \A i \in DOMAIN c.list : Kept(c.list[i], rows, metaMin)
      /\ c.op = "apply_reorg" => Kept(c.arg, rows, metaMin)
  BY <1>1, <1>2, ReorgOps
<1>4. c.op = "apply_reorg" => Follows(d, c, rows, metaMin) BY <1>1, <1>3, ReorgMoves
<1>5. TierKept(g, rows, metaMin)
  <2>1. TierKept(f, rows, metaMin) BY StoreFacts, TierWithout
  <2> HIDE DEF f
  <2> QED BY <1>3, <2>1, TierPutAll
<1>6. /\ IF c.op = "apply_reorg" THEN Become(t, d) ELSE Become(t, Idle)
      /\ heightCache' = g
      /\ UNCHANGED <<disk, tip, minRetained, bin, caches, records>>
  BY DEF Recache, Goto, Return
<1> HIDE DEF d, g
<1> QED BY <1>2, <1>4, <1>5, <1>6, Ends, StoreFacts, WriteKeeps DEF disk, caches, records

-----------------------------------------------------------------------------
(***************************************************************************)
(* prune_before_height.                                                    *)
(***************************************************************************)

\* What a pruning is at each of its steps.
LEMMA PruneOps ==
  ASSUME NEW R, NEW m, NEW c \in CallType, CallInv(c, R, m),
         \/ c.pc \in {"readFloor", "scan", "raise", "evictBlock", "evictHeader", "evictRecord",
                      "evictBelow"}
         \/ c.pc = "commit" /\ c.op = "prune_before_height"
  PROVE  /\ c.op = "prune_before_height"
         /\ c.pc \in {"scan", "commit"} =>
              /\ m < c.to /\ c.last = c.to - 1
              /\ \A b \in c.seen : Height[b] < c.to
              /\ \A k \in c.hits : k < c.to
         /\ c.pc = "raise" => m = c.to
         /\ c.pc \in {"evictHeader", "evictRecord"} => c.arg \in Blocks
<1>1. c.op = "prune_before_height"
  BY DEF CallType, ReadOps, WriteOps, CallInv, InStep, LookupPcs, BodyPcs, RecordPcs
<1> QED BY <1>1 DEF CallInv, PruneInv

\* A pruning whose batch is committed goes on.
LEMMA PruneMoves ==
  ASSUME NEW R, NEW m, NEW c \in CallType, CallInv(c, R, m), c.op = "prune_before_height",
         NEW p \in {"evictBlock", "evictHeader", "evictRecord", "evictBelow"},
         NEW b \in Slot, p \in {"evictHeader", "evictRecord"} => b \in Blocks,
         NEW bs \in SUBSET c.seen
  PROVE  Follows([c EXCEPT !.pc = p, !.arg = b, !.seen = bs], c, R, m)
<1> DEFINE d == [c EXCEPT !.pc = p, !.arg = b, !.seen = bs]
<1>1. p \in Pcs /\ p # "raise" BY DEF Pcs
<1>2. Fields(d, p, c.op, c.back, b, c.list, c.todo, c.to, c.top, c.h, c.last, c.hash, bs, c.hits)
  BY <1>1 DEF Fields, CallType
<1> HIDE DEF d
<1> USE <1>2 DEF Fields
<1>3. InStep(d) BY DEF InStep, LookupPcs
<1>4. HeldInv(d, R, m) BY DEF CallInv, HeldInv
<1>5. ReorgInv(d, R, m) BY DEF CallInv, ReorgInv
<1>6. PruneInv(d, m) BY DEF CallInv, PruneInv, LookupPcs
<1> QED BY <1>1, <1>3, <1>4, <1>5, <1>6 DEF CallInv, Follows, d

LEMMA ReadMinKeeps == ASSUME OnePruner, Inv, NEW t \in Threads, ReadMin(t) PROVE Inv'
<1> DEFINE c == call[t]
           e == [c EXCEPT !.last = c.to - 1]
           d == LookupFrom(e, minRetained, "walk")
<1>1. c \in CallType /\ CallInv(c, rows, metaMin) BY CallFacts
<1>2. c.pc = "readFloor" BY DEF ReadMin, Reads, At
<1>3. c.op = "prune_before_height" /\ c.seen = {} /\ c.hits = {}
  BY <1>1, <1>2, PruneOps DEF CallInv, PruneInv
<1>4. ASSUME NEW u \in Threads PROVE call[u].pc # "raise"
  <2> SUFFICES ASSUME call[u].pc = "raise" PROVE FALSE OBVIOUS
  <2>1. call[u].op = "prune_before_height" BY CallFacts, PruneOps
  <2>2. "prune_before_height" \in Offers[t] \cap Offers[u]
    BY <1>3, <2>1 DEF Inv, CallsInv
  <2> QED BY <1>2, <2>2 DEF OnePruner
<1>5. minRetained = metaMin BY <1>4 DEF Inv, CallsInv, At
<1>6. CASE c.to <= minRetained BY <1>6, Ends, ReadsKeeps DEF ReadMin
<1>7. CASE ~(c.to <= minRetained)
  <2>1. /\ c.to \in Int /\ metaMin < c.to /\ c.to - 1 \in Heights /\ minRetained \in Heights
        /\ minRetained <= c.to - 1
    BY <1>1, <1>5, <1>7, StoreFacts, MaxHeightAssumption DEF CallType, Heights
  <2>2. Reads(t, "readFloor", d) BY <1>7 DEF ReadMin
  <2>3. Fields(e, c.pc, c.op, c.back, c.arg, c.list, c.todo, c.to, c.top, c.h, c.to - 1, c.hash,
               c.seen, c.hits)
    BY <1>1, <2>1 DEF Fields, CallType
  <2>4. "walk" \in Pcs BY DEF Pcs
  <2>5. Fields(d, "floor", c.op, "walk", c.arg, c.list, c.todo, c.to, c.top, minRetained,
               c.to - 1, c.hash, c.seen, c.hits)
    <3> HIDE DEF e
    <3> QED BY <2>1, <2>3, <2>4, AtLookup DEF Fields
  <2> HIDE DEF d
  <2> USE <2>5, <1>1, <1>2, <1>3 DEF Fields
  <2>6. InStep(d) BY DEF InStep, LookupPcs
  <2>7. HeldInv(d, rows, metaMin) BY DEF HeldInv
  <2>8. ReorgInv(d, rows, metaMin) BY DEF CallInv, ReorgInv
  <2>9. PruneInv(d, metaMin) BY <2>1 DEF PruneInv, LookupPcs
  <2>10. Follows(d, c, rows, metaMin) BY <2>6, <2>7, <2>8, <2>9 DEF CallInv, Follows
  <2> QED BY <2>2, <2>10, ReadsKeeps
<1> QED BY <1>6, <1>7

LEMMA ScanKeeps == ASSUME Inv, NEW t \in Threads, Scan(t) PROVE Inv'
<1> DEFINE c == call[t]
           seen == c.seen \cup {b \in rows : Height[b] < c.to}
           d == [c EXCEPT !.seen = seen, !.pc = "commit"]
<1>1. c \in CallType /\ CallInv(c, rows, metaMin) BY CallFacts
<1>2. c.pc = "scan" BY DEF Scan, Reads, At
<1>3. /\ c.op = "prune_before_height" /\ metaMin < c.to /\ c.last = c.to - 1
      /\ \A b \in c.seen : Height[b] < c.to
      /\ \A k \in c.hits : k < c.to
  BY <1>1, <1>2, PruneOps
<1>4. seen \subseteq Blocks /\ \A b \in seen : Height[b] < c.to
  BY <1>1, <1>3, StoreFacts DEF CallType
<1>5. Fields(d, "commit", c.op, c.back, c.arg, c.list, c.todo, c.to, c.top, c.h, c.last, c.hash,
             seen, c.hits)
  <2>1. "commit" \in Pcs BY DEF Pcs
  <2> HIDE DEF seen
  <2> QED BY <1>1, <1>4, <2>1 DEF Fields, CallType
<1>6. Reads(t, "scan", d) BY DEF Scan
<1> HIDE DEF d, seen
<1> USE <1>5, <1>1, <1>2, <1>3 DEF Fields
<1>7. InStep(d) BY DEF InStep, LookupPcs
<1>8. HeldInv(d, rows, metaMin) BY DEF HeldInv
<1>9. ReorgInv(d, rows, metaMin) BY DEF CallInv, ReorgInv
<1>10. PruneInv(d, metaMin) BY <1>4 DEF PruneInv, LookupPcs
<1>11. Follows(d, c, rows, metaMin) BY <1>7, <1>8, <1>9, <1>10 DEF CallInv, Follows
<1> QED BY <1>6, <1>11, ReadsKeeps

\* The batch of a pruning deletes below the floor that it raises, so what the
\* other threads hold stays kept.
LEMMA CommitPruneKeeps ==
  ASSUME OnePruner, Inv, NEW t \in Threads, CommitPrune(t) PROVE Inv'
<1> DEFINE c == call[t]
           d == [c EXCEPT !.pc = "raise"]
<1>1. c \in CallType /\ CallInv(c, rows, metaMin) BY CallFacts
<1>2. c.pc = "commit" /\ c.op = "prune_before_height" BY DEF CommitPrune, At
<1>3. /\ metaMin < c.to /\ \A b \in c.seen : Height[b] < c.to
      /\ c.to \in 0..(MaxHeight + 1) /\ c.to \in Int
  BY <1>1, <1>2, PruneOps DEF CallType
<1>4. /\ rows' = rows \ c.seen /\ cfCanonical' = Without(cfCanonical, c.hits)
      /\ metaMin' = c.to /\ Become(t, d)
      /\ UNCHANGED <<metaTip, index, caches, records>>
  BY DEF CommitPrune, Goto
<1>5. \A b : Kept(b, rows, metaMin) => Kept(b, rows', metaMin')
  <2> SUFFICES ASSUME NEW b, Kept(b, rows, metaMin), Height[b] >= c.to
               PROVE  b \in rows \ c.seen
    BY <1>4 DEF Kept
  <2>1. Height[b] \in Int /\ metaMin \in Int BY BlockHeight, StoreFacts DEF Kept
  <2>2. b \in rows BY <1>3, <2>1 DEF Kept
  <2>3. b \notin c.seen BY <1>3, <2>1
  <2> QED BY <2>2, <2>3
<1>6. StoreInv'
  <2>1. TierKept(Without(cfCanonical, c.hits), rows, metaMin) BY StoreFacts, TierWithout
  <2>2. UNCHANGED <<metaTip, tip, minRetained, bin, heightCache, blockCache, headerCache, record,
                    recordLock>>
    BY <1>4 DEF index, caches, records
  <2>3. metaMin' \in 0..(MaxHeight + 1) /\ minRetained' \in 0..metaMin'
    BY <1>3, <1>4, <2>2, StoreFacts
  <2>4. /\ TierKept(cfCanonical, rows, metaMin)' /\ TierKept(bin, rows, metaMin)'
        /\ TierKept(heightCache, rows, metaMin)'
    BY <1>4, <1>5, <2>1, <2>2, StoreFacts DEF TierKept
  <2>5. /\ AllKept(blockCache, rows, metaMin)' /\ AllKept(headerCache, rows, metaMin)'
        /\ Kept(tip, rows, metaMin)' /\ Kept(metaTip, rows, metaMin)'
        /\ RecordsOK(record)' /\ AllKept(Recorded(record), rows, metaMin)'
    BY <1>5, <2>2, StoreFacts DEF AllKept, RecordsOK, Recorded
  <2> QED BY <1>4, <2>2, <2>3, <2>4, <2>5, StoreFacts DEF StoreInv
<1>7. call' \in [Threads -> CallType] /\ call'[t] = d /\ d \in CallType
  <2>1. "raise" \in Pcs BY DEF Pcs
  <2> QED BY <1>1, <1>4, <2>1, AtPc DEF Become, Inv, CallsInv
<1>8. \A u \in Threads : u # t => call'[u] = call[u] BY <1>4 DEF Become, Inv, CallsInv
<1>9. CallInv(d, rows', metaMin') /\ d.op = c.op /\ d.pc = "raise"
  <2>1. "raise" \in Pcs BY DEF Pcs
  <2>2. Fields(d, "raise", c.op, c.back, c.arg, c.list, c.todo, c.to, c.top, c.h, c.last, c.hash,
               c.seen, c.hits)
    BY <1>1, <2>1, AtPc DEF Fields
  <2> HIDE DEF d
  <2> USE <2>2, <1>1, <1>2 DEF Fields
  <2>3. InStep(d) BY DEF InStep, LookupPcs
  <2>4. HeldInv(d, rows', metaMin') BY DEF HeldInv
  <2>5. ReorgInv(d, rows', metaMin') BY DEF CallInv, ReorgInv
  <2>6. PruneInv(d, metaMin') BY <1>4 DEF PruneInv, LookupPcs
  <2> QED BY <2>3, <2>4, <2>5, <2>6 DEF CallInv
<1> HIDE DEF d
<1>10. ASSUME NEW u \in Threads PROVE CallInv(call'[u], rows', metaMin')
  <2>1. CASE u = t BY <1>7, <1>9, <2>1
  <2>2. CASE u # t
    <3>1. CallInv(call[u], rows, metaMin) /\ call[u] \in CallType BY CallFacts
    <3>2. call[u].op # "prune_before_height"
      BY <1>2, <2>2 DEF OnePruner, Inv, CallsInv
    <3>3. metaMin <= metaMin' /\ metaMin \in Int /\ metaMin' \in Int
      BY <1>3, <1>4, StoreFacts
    <3>4. CallInv(call[u], rows', metaMin') BY <1>5, <3>1, <3>2, <3>3, CallStays
    <3> QED BY <1>8, <2>2, <3>4
  <2> QED BY <2>1, <2>2
<1>11. \A u \in Threads : call'[u].op \in Offers[u] \cup {"idle"}
  BY <1>7, <1>8, <1>9 DEF Inv, CallsInv
<1>12. call'[t].pc = "raise" BY <1>7, <1>9
<1> QED BY <1>6, <1>7, <1>10, <1>11, <1>12 DEF Inv, CallsInv, At

LEMMA RaiseKeeps == ASSUME Inv, NEW t \in Threads, Raise(t) PROVE Inv'
<1> DEFINE c == call[t]
           p == IF c.seen = {} THEN "evictBelow" ELSE "evictBlock"
           d == [c EXCEPT !.pc = p]
<1>1. c \in CallType /\ CallInv(c, rows, metaMin) BY CallFacts
<1>2. c.pc = "raise" BY DEF Raise, At
<1>3. c.op = "prune_before_height" /\ metaMin = c.to BY <1>1, <1>2, PruneOps
<1>4. /\ minRetained' = c.to /\ call' = [call EXCEPT ![t] = d]
      /\ UNCHANGED <<disk, tip, bin, heightCache, caches, records>>
  BY DEF Raise, Goto, Become
<1>5. Follows(d, c, rows, metaMin)
  <2>1. d = [c EXCEPT !.pc = p, !.arg = c.arg, !.seen = c.seen] BY <1>1 DEF CallType
  <2>2. p \in {"evictBlock", "evictHeader", "evictRecord", "evictBelow"} /\ c.arg \in Slot
    BY <1>1 DEF CallType
  <2>3. p \in {"evictHeader", "evictRecord"} => c.arg \in Blocks OBVIOUS
  <2> HIDE DEF d, p
  <2> QED BY <1>1, <1>3, <2>1, <2>2, <2>3, PruneMoves
<1> HIDE DEF d
<1>6. UNCHANGED <<rows, cfCanonical, metaTip, metaMin, tip, bin, heightCache, blockCache,
                  headerCache, record, recordLock>>
  BY <1>4 DEF disk, caches, records
<1>7. minRetained' = metaMin' /\ minRetained' \in 0..metaMin'
  BY <1>3, <1>4, <1>6, StoreFacts
<1>8. StoreInv' BY <1>6, <1>7, StoreFacts DEF StoreInv, TierKept, AllKept, Kept, RecordsOK, Recorded
<1>9. call \in [Threads -> CallType] BY DEF Inv, CallsInv
<1>10. call' \in [Threads -> CallType] BY <1>4, <1>5, <1>9 DEF Follows
<1>11. \A u \in Threads : call'[u] = IF u = t THEN d ELSE call[u] BY <1>4, <1>9
<1>12. ASSUME NEW u \in Threads
       PROVE  CallInv(call'[u], rows, metaMin) /\ call'[u].op \in Offers[u] \cup {"idle"}
  <2>1. /\ CallInv(call[u], rows, metaMin) /\ call[u].op \in Offers[u] \cup {"idle"}
        /\ c.op \in Offers[t] \cup {"idle"}
    BY DEF Inv, CallsInv
  <2>2. CASE u = t
    <3>1. call'[u] = d BY <1>11, <2>2
    <3>2. d.op \in Offers[t] \cup {"idle"} BY <1>5, <2>1 DEF Follows
    <3> QED BY <1>5, <2>2, <3>1, <3>2 DEF Follows
  <2>3. CASE u # t BY <1>11, <2>1, <2>3
  <2> QED BY <2>2, <2>3
<1> QED BY <1>6, <1>7, <1>8, <1>10, <1>12 DEF Inv, CallsInv

LEMMA EvictBlockKeeps == ASSUME Inv, NEW t \in Threads, EvictBlock(t) PROVE Inv'
<1> DEFINE c == call[t]
<1>1. c \in CallType /\ CallInv(c, rows, metaMin) BY CallFacts
<1>2. c.pc = "evictBlock" BY DEF EvictBlock, At
<1>3. c.op = "prune_before_height" BY <1>1, <1>2, PruneOps
<1>4. PICK b \in c.seen : /\ blockCache' = blockCache \ {b}
                          /\ Become(t, [c EXCEPT !.arg = b, !.pc = "evictHeader"])
  BY DEF EvictBlock
<1> DEFINE d == [c EXCEPT !.arg = b, !.pc = "evictHeader"]
<1>5. b \in Blocks /\ b \in Slot BY <1>1 DEF CallType, Slot
<1>6. d = [c EXCEPT !.pc = "evictHeader", !.arg = b, !.seen = c.seen] BY <1>1 DEF CallType
<1>7. UNCHANGED <<disk, index, headerCache, records>> /\ Become(t, d) BY <1>4 DEF EvictBlock
<1> HIDE DEF d
<1>8. Follows(d, c, rows, metaMin) BY <1>1, <1>3, <1>5, <1>6, PruneMoves
<1>9. AllKept(blockCache', rows, metaMin) BY <1>4, StoreFacts DEF AllKept
<1> QED BY <1>2, <1>7, <1>8, <1>9, StoreFacts, WriteKeeps DEF disk, index, records

LEMMA EvictHeaderKeeps == ASSUME Inv, NEW t \in Threads, EvictHeader(t) PROVE Inv'
<1> DEFINE c == call[t]
           d == [c EXCEPT !.pc = "evictRecord"]
<1>1. c \in CallType /\ CallInv(c, rows, metaMin) BY CallFacts
<1>2. c.pc = "evictHeader" BY DEF EvictHeader, At
<1>3. c.op = "prune_before_height" /\ c.arg \in Blocks /\ c.arg \in Slot
  BY <1>1, <1>2, PruneOps DEF CallType
<1>4. d = [c EXCEPT !.pc = "evictRecord", !.arg = c.arg, !.seen = c.seen]
  BY <1>1 DEF CallType
<1>5. /\ UNCHANGED <<disk, index, blockCache, records>> /\ Become(t, d)
      /\ headerCache' = headerCache \ {c.arg}
  BY DEF EvictHeader, Goto
<1> HIDE DEF d
<1>6. Follows(d, c, rows, metaMin) BY <1>1, <1>3, <1>4, PruneMoves
<1>7. AllKept(headerCache', rows, metaMin) BY <1>5, StoreFacts DEF AllKept
<1> QED BY <1>2, <1>5, <1>6, <1>7, StoreFacts, WriteKeeps DEF disk, index, records

LEMMA EvictRecordKeeps == ASSUME Inv, NEW t \in Threads, EvictRecord(t) PROVE Inv'
<1> DEFINE c == call[t]
           others == c.seen \ {c.arg}
           p == IF others = {} THEN "evictBelow" ELSE "evictBlock"
           d == [c EXCEPT !.seen = others, !.pc = p]
<1>1. c \in CallType /\ CallInv(c, rows, metaMin) BY CallFacts
<1>2. c.pc = "evictRecord" BY DEF EvictRecord, At
<1>3. c.op = "prune_before_height" /\ c.arg \in Blocks /\ c.arg \in Slot
  BY <1>1, <1>2, PruneOps DEF CallType
<1>4. d = [c EXCEPT !.pc = p, !.arg = c.arg, !.seen = others] BY <1>1 DEF CallType
<1>5. /\ UNCHANGED <<disk, index, caches, recordLock>> /\ Become(t, d)
      /\ record' = [record EXCEPT ![c.arg] = "none"]
  BY DEF EvictRecord
<1>6. p \in {"evictBlock", "evictBelow"} /\ others \in SUBSET c.seen OBVIOUS
<1> HIDE DEF d, p, others
<1>7. Follows(d, c, rows, metaMin) BY <1>1, <1>3, <1>4, <1>6, PruneMoves
<1>8. RecordsOK(record') /\ AllKept(Recorded(record'), rows, metaMin)
  BY <1>5, StoreFacts DEF RecordsOK, AllKept, Recorded
<1> QED BY <1>2, <1>5, <1>7, <1>8, StoreFacts, WriteKeeps DEF disk, index, caches

LEMMA EvictBelowKeeps == ASSUME Inv, NEW t \in Threads, EvictBelow(t) PROVE Inv'
<1> DEFINE gone == {h \in Heights : h < call[t].to}
<1>1. call[t].pc # "raise" BY DEF EvictBelow, At
<1>2. /\ heightCache' = Without(heightCache, gone) /\ Become(t, Idle)
      /\ UNCHANGED <<disk, tip, minRetained, bin, caches, records>>
  BY DEF EvictBelow, Return
<1> HIDE DEF gone
<1>3. TierKept(heightCache', rows, metaMin) BY <1>2, StoreFacts, TierWithout
<1> QED BY <1>1, <1>2, <1>3, Ends, StoreFacts, WriteKeeps DEF disk, caches, records

-----------------------------------------------------------------------------
(***************************************************************************)
(* The calls at their first step, and the invariant of the whole system.   *)
(***************************************************************************)
FirstPcs == {"floor", "readTip", "readFloor", "capture", "blockCached", "recordCached", "present",
             "hasBlock", "forget"}

LEMMA FirstStep ==
  ASSUME NEW R, NEW m, NEW c \in Calls
  PROVE  c \in CallType /\ CallInv(c, R, m) /\ c.pc \in FirstPcs
<1>0. \/ c \in HeightCall("get_hash_by_height", "floor")
      \/ c \in HeightCall("rollback_to_height", "readTip")
      \/ c \in PruneCall
      \/ c \in StreamCall
      \/ c \in RangeCall
      \/ c \in UNION {ReorgCall(bs) : bs \in Chains}
      \/ c \in BlockCall("get_block", "blockCached")
      \/ c \in BlockCall("get_record", "recordCached")
      \/ c \in BlockCall("put_block", "present")
      \/ c \in BlockCall("put_canonical", "present")
      \/ c \in BlockCall("extend_chain", "hasBlock")
      \/ c \in SetCanonicalCall
      \/ c \in BlockCall("invalidate_record_cache_entry", "forget")
  BY DEF Calls
<1>1. 0 \in Heights /\ 0 \in 0..(MaxHeight + 1) /\ MaxHeight \in Heights
      /\ NoBlock \in Slot /\ << >> \in Seq(Blocks)
      /\ \A h \in Heights : h \in 0..(MaxHeight + 1)
  BY MaxHeightAssumption, EmptySeq DEF Heights, Slot
<1>2. Idle \in CallType BY IdleType
<1>3. \A b \in Blocks : b \in Slot BY DEF Slot
<1> USE <1>1, <1>2 DEF FirstPcs
<1>4. CASE c \in HeightCall("get_hash_by_height", "floor")
  <2>1. PICK h \in Heights : c = [Idle EXCEPT !.op = "get_hash_by_height", !.pc = "floor",
                                              !.to = h, !.h = h]
    BY <1>4 DEF HeightCall
  <2>2. "floor" \in Pcs BY DEF Pcs, LookupPcs
  <2>3. Fields(c, "floor", "get_hash_by_height", "idle", NoBlock, << >>, << >>, h, 0, h, 0,
               NoBlock, {}, {})
    BY <2>1, <2>2 DEF Fields, CallType, Idle, ReadOps
  <2> QED
    BY <2>3 DEF Fields, CallInv, InStep, HeldInv, ReorgInv, PruneInv, LookupPcs, BodyPcs,
                RecordPcs
<1>5. CASE c \in HeightCall("rollback_to_height", "readTip")
  <2>1. PICK h \in Heights : c = [Idle EXCEPT !.op = "rollback_to_height", !.pc = "readTip",
                                              !.to = h, !.h = h]
    BY <1>5 DEF HeightCall
  <2>2. "readTip" \in Pcs BY DEF Pcs
  <2>3. Fields(c, "readTip", "rollback_to_height", "idle", NoBlock, << >>, << >>, h, 0, h, 0,
               NoBlock, {}, {})
    BY <2>1, <2>2 DEF Fields, CallType, Idle, WriteOps
  <2> QED
    BY <2>3 DEF Fields, CallInv, InStep, HeldInv, ReorgInv, PruneInv, LookupPcs, BodyPcs,
                RecordPcs
<1>6. CASE c \in PruneCall
  <2>1. PICK p \in 0..(MaxHeight + 1) :
          c = [Idle EXCEPT !.op = "prune_before_height", !.pc = "readFloor", !.to = p]
    BY <1>6 DEF PruneCall
  <2>2. "readFloor" \in Pcs BY DEF Pcs
  <2>3. Fields(c, "readFloor", "prune_before_height", "idle", NoBlock, << >>, << >>, p, 0, 0, 0,
               NoBlock, {}, {})
    BY <2>1, <2>2 DEF Fields, CallType, Idle, WriteOps
  <2> QED
    BY <2>3 DEF Fields, CallInv, InStep, HeldInv, ReorgInv, PruneInv, LookupPcs, BodyPcs,
                RecordPcs
<1>7. CASE c \in StreamCall
  <2>1. c = [Idle EXCEPT !.op = "stream_blocks_in_range", !.pc = "capture", !.last = MaxHeight]
    BY <1>7 DEF StreamCall
  <2>2. "capture" \in Pcs BY DEF Pcs
  <2>3. Fields(c, "capture", "stream_blocks_in_range", "idle", NoBlock, << >>, << >>, 0, 0, 0,
               MaxHeight, NoBlock, {}, {})
    BY <2>1, <2>2 DEF Fields, CallType, Idle, ReadOps
  <2> QED
    BY <2>3 DEF Fields, CallInv, InStep, HeldInv, ReorgInv, PruneInv, LookupPcs, BodyPcs,
                RecordPcs
<1>8. CASE c \in RangeCall
  <2>1. c = [Idle EXCEPT !.op = "get_blocks_in_range", !.pc = "floor", !.back = "found",
                         !.last = MaxHeight]
    BY <1>8 DEF RangeCall
  <2>2. "floor" \in Pcs /\ "found" \in Pcs BY DEF Pcs, LookupPcs
  <2>3. Fields(c, "floor", "get_blocks_in_range", "found", NoBlock, << >>, << >>, 0, 0, 0,
               MaxHeight, NoBlock, {}, {})
    BY <2>1, <2>2 DEF Fields, CallType, Idle, ReadOps
  <2> QED
    BY <2>3 DEF Fields, CallInv, InStep, HeldInv, ReorgInv, PruneInv, LookupPcs, BodyPcs,
                RecordPcs
<1>9. CASE c \in UNION {ReorgCall(bs) : bs \in Chains}
  <2>0. PICK bs \in Chains : c \in ReorgCall(bs) BY <1>9
  <2>1. PICK h \in Heights :
          c = [Idle EXCEPT !.op = "apply_reorg", !.pc = "readTip", !.to = h, !.list = bs]
    BY <2>0 DEF ReorgCall
  <2>2. "readTip" \in Pcs /\ bs \in Seq(Blocks) /\ bs # << >>
    BY ChainsAssumption DEF Pcs
  <2>3. Fields(c, "readTip", "apply_reorg", "idle", NoBlock, bs, << >>, h, 0, 0, 0,
               NoBlock, {}, {})
    BY <2>1, <2>2 DEF Fields, CallType, Idle, WriteOps
  <2> QED
    BY <2>2, <2>3 DEF Fields, CallInv, InStep, HeldInv, ReorgInv, PruneInv, LookupPcs, BodyPcs,
                RecordPcs
<1>10. ASSUME NEW op \in ReadOps \cup WriteOps, NEW pc \in Pcs, NEW k \in BlockCall(op, pc)
       PROVE  \E b \in Blocks : Fields(k, pc, op, "idle", b, << >>, << >>, 0, 0, 0, 0, NoBlock,
                                       {}, {})
  <2>1. PICK b \in Blocks : k = [Idle EXCEPT !.op = op, !.pc = pc, !.arg = b]
    BY <1>10 DEF BlockCall
  <2> QED BY <1>3, <2>1 DEF Fields, CallType, Idle
<1>11. ASSUME NEW op, NEW pc, c \in BlockCall(op, pc),
              \/ op = "get_block" /\ pc = "blockCached"
              \/ op = "get_record" /\ pc = "recordCached"
              \/ op \in {"put_block", "put_canonical"} /\ pc = "present"
              \/ op = "extend_chain" /\ pc = "hasBlock"
              \/ op = "invalidate_record_cache_entry" /\ pc = "forget"
       PROVE  c \in CallType /\ CallInv(c, R, m) /\ c.pc \in FirstPcs
  <2>1. op \in ReadOps \cup WriteOps /\ pc \in Pcs
    BY <1>11 DEF ReadOps, WriteOps, Pcs, BodyPcs, RecordPcs
  <2>2. PICK b \in Blocks : Fields(c, pc, op, "idle", b, << >>, << >>, 0, 0, 0, 0, NoBlock,
                                   {}, {})
    BY <1>10, <1>11, <2>1
  <2> USE <2>2, <1>11 DEF Fields
  <2>3. InStep(c) BY DEF InStep, LookupPcs, BodyPcs, RecordPcs
  <2>4. HeldInv(c, R, m) BY DEF HeldInv, BodyPcs
  <2>5. ReorgInv(c, R, m) BY DEF ReorgInv
  <2>6. PruneInv(c, m) BY DEF PruneInv
  <2> QED BY <2>3, <2>4, <2>5, <2>6 DEF CallInv
<1>12. CASE c \in SetCanonicalCall
  <2>1. PICK k \in BlockCall("set_canonical", "recordCached") : c = [k EXCEPT !.back = "putRow"]
    BY <1>12 DEF SetCanonicalCall
  <2>2. "set_canonical" \in ReadOps \cup WriteOps /\ "recordCached" \in Pcs /\ "putRow" \in Pcs
    BY DEF WriteOps, Pcs, RecordPcs
  <2>3. PICK b \in Blocks : Fields(k, "recordCached", "set_canonical", "idle", b, << >>, << >>,
                                   0, 0, 0, 0, NoBlock, {}, {})
    BY <1>10, <2>2
  <2>4. Fields(c, "recordCached", "set_canonical", "putRow", b, << >>, << >>, 0, 0, 0, 0,
               NoBlock, {}, {})
    BY <2>1, <2>2, <2>3 DEF Fields, CallType
  <2> QED
    BY <2>4 DEF Fields, CallInv, InStep, HeldInv, ReorgInv, PruneInv, LookupPcs, BodyPcs,
                RecordPcs
<1>13. CASE c \in BlockCall("get_block", "blockCached") BY <1>11, <1>13
<1>14. CASE c \in BlockCall("get_record", "recordCached") BY <1>11, <1>14
<1>15. CASE c \in BlockCall("put_block", "present") BY <1>11, <1>15
<1>16. CASE c \in BlockCall("put_canonical", "present") BY <1>11, <1>16
<1>17. CASE c \in BlockCall("extend_chain", "hasBlock") BY <1>11, <1>17
<1>18. CASE c \in BlockCall("invalidate_record_cache_entry", "forget") BY <1>11, <1>18
<1> QED
  BY <1>0, <1>4, <1>5, <1>6, <1>7, <1>8, <1>9, <1>12, <1>13, <1>14, <1>15, <1>16, <1>17, <1>18

LEMMA BeginKeeps == ASSUME Inv, NEW t \in Threads, Begin(t) PROVE Inv'
<1>1. PICK c \in Calls : c.op \in Offers[t] /\ call' = [call EXCEPT ![t] = c] BY DEF Begin
<1>2. c \in CallType /\ CallInv(c, rows, metaMin) /\ c.pc # "raise" BY FirstStep DEF FirstPcs
<1>3. UNCHANGED <<rows, cfCanonical, metaTip, metaMin, tip, minRetained, bin, heightCache,
                  blockCache, headerCache, record, recordLock>>
  BY DEF Begin, disk, index, caches, records
<1>4. StoreInv' BY <1>3 DEF Inv, StoreInv, TierKept, AllKept, Kept, RecordsOK, Recorded
<1>5. call[t].pc # "raise" BY DEF Begin, At
<1> QED BY <1>1, <1>2, <1>3, <1>4, <1>5, StepKeeps DEF Inv

LEMMA InitEstablishes == Init => Inv
<1> SUFFICES ASSUME Init PROVE Inv OBVIOUS
<1> USE DEF Init
<1>1. 0 \in Heights /\ 0 \in 0..(MaxHeight + 1) /\ 0 \in 0..0 BY MaxHeightAssumption DEF Heights
<1>2. Kept(Genesis, {Genesis}, 0) /\ Genesis \in Blocks /\ Height[Genesis] = 0
  BY GenesisAssumption DEF Kept
<1>3. TierKept(NoIndex, {Genesis}, 0) BY NoIndexType DEF TierKept
<1>4. TierKept([NoIndex EXCEPT ![0] = Genesis], {Genesis}, 0)
  BY <1>2, <1>3, TierPut
<1>5. RecordsOK(record) /\ AllKept(Recorded(record), {Genesis}, 0)
  BY <1>2 DEF RecordsOK, Recorded, AllKept
<1>6. AllKept({Genesis}, {Genesis}, 0) BY <1>2 DEF AllKept
<1>7. StoreInv BY <1>1, <1>2, <1>3, <1>4, <1>5, <1>6 DEF StoreInv
<1>8. CallsInv
  <2>1. Idle.op = "idle" BY DEF Idle
  <2> QED BY <2>1, IdleType, IdleInv DEF CallsInv
<1> QED BY <1>7, <1>8 DEF Inv

\* Every step of every thread keeps the invariant.
LEMMA NextKeeps == ASSUME OnePruner, Inv, [Next]_vars PROVE Inv'
<1>1. CASE UNCHANGED vars
  BY <1>1 DEF vars, Inv, StoreInv, TierKept, AllKept, Kept, RecordsOK, Recorded, CallsInv, At
<1>2. ASSUME NEW t \in Threads, LookupStep(t) PROVE Inv'
  BY <1>2, ReadFloorKeeps, ReadHeightCacheKeeps, ReadBinKeeps, ReadRowKeeps, FillKeeps, WalkKeeps
  DEF LookupStep
<1>3. ASSUME NEW t \in Threads, BodyStep(t) PROVE Inv'
  BY <1>3, CaptureKeeps, FoundKeeps, ReadBlockCacheKeeps, ReadBodyKeeps, MissingKeeps,
     CacheBlockKeeps, CacheHeaderKeeps
  DEF BodyStep
<1>4. ASSUME NEW t \in Threads, RecordStep(t) PROVE Inv'
  BY <1>4, ReadRecordCacheKeeps, ReadHeaderCacheKeeps, ReadHeaderKeeps, DeriveKeeps, ForgetKeeps
  DEF RecordStep
<1>5. ASSUME NEW t \in Threads, PutStep(t) PROVE Inv'
  BY <1>5, HasBlockKeeps, PresentKeeps, WriteBlockKeeps, PutRowKeeps, WriteSlotKeeps,
     CacheHeightKeeps, CacheRecordKeeps, FlagKeeps, PutTipKeeps, SetTipKeeps
  DEF PutStep
<1>6. ASSUME NEW t \in Threads, ReorgStep(t) PROVE Inv'
  BY <1>6, ReadTipKeeps, AboveFloorKeeps, ValidatedKeeps, CommitRollbackKeeps, CommitReorgKeeps,
     TruncateKeeps, NewTipKeeps, RewriteKeeps, UnflagKeeps, RecacheKeeps
  DEF ReorgStep
<1>7. ASSUME NEW t \in Threads, PruneStep(t) PROVE Inv'
  BY <1>7, ReadMinKeeps, ScanKeeps, CommitPruneKeeps, RaiseKeeps, EvictBlockKeeps,
     EvictHeaderKeeps, EvictRecordKeeps, EvictBelowKeeps
  DEF PruneStep
<1> QED
  BY <1>1, <1>2, <1>3, <1>4, <1>5, <1>6, <1>7, BeginKeeps DEF Next, Step

LEMMA InvAlways == ASSUME OnePruner PROVE Spec => []Inv
<1>1. Init => Inv BY InitEstablishes
<1>2. Inv /\ [Next]_vars => Inv' BY NextKeeps
<1> QED BY <1>1, <1>2, PTL DEF Spec

-----------------------------------------------------------------------------
(***************************************************************************)
(* Theorems.                                                               *)
(***************************************************************************)

\* In every execution with one pruning thread, each thread is at a step of a
\* call it offers, and every block it has in its hands is stored or below
\* META_MIN_HEIGHT.
THEOREM CallsStaySound == ASSUME OnePruner PROVE Spec => []CallsInv
<1>1. Inv => CallsInv BY DEF Inv
<1> QED BY <1>1, InvAlways, PTL

\* The shared state keeps its type, and the floor in memory never passes the
\* persisted one, at any step of any thread.
THEOREM ThreadsTypeCorrect == ASSUME OnePruner PROVE Spec => []TypeOK
<1>1. Inv => TypeOK BY InvImplies
<1> QED BY <1>1, InvAlways, PTL

\* No tier of the index, cache, tip or lookup under way names a block that is
\* neither stored nor below META_MIN_HEIGHT, whatever the threads interleave.
THEOREM SharedHashesAlwaysSound == ASSUME OnePruner PROVE Spec => []SharedHashesSound
<1>1. Inv => SharedHashesSound BY InvImplies
<1> QED BY <1>1, InvAlways, PTL

\* get_blocks_in_range and stream_blocks_in_range lose no block to a concurrent
\* put, rollback or reorg: they miss only what a pruning has deleted.
THEOREM RangesMissOnlyPruned == ASSUME OnePruner PROVE Spec => []RangeMissesOnlyPruned
<1>1. Inv => RangeMissesOnlyPruned BY InvImplies
<1> QED BY <1>1, InvAlways, PTL

-----------------------------------------------------------------------------
(***************************************************************************)
(* One writer.  What it owes to memory at each of its steps.               *)
(***************************************************************************)

\* Writers do not overlap: one thread makes all the calls that write.
OneWriter ==
  \A t, u \in Threads : Offers[t] \cap WriteOps # {} /\ Offers[u] \cap WriteOps # {} => t = u

LEMMA OneWriterPrunes == OneWriter => OnePruner
BY DEF OneWriter, OnePruner, WriteOps

DuePcs == {"writeSlot", "truncate", "rewrite", "setTip", "unflag", "recache"}

\* A call that owes nothing.
Quiet(c) == ~DueTip(c) /\ c.pc \notin {"writeSlot", "truncate", "rewrite"}

LEMMA QuietPc == ASSUME NEW c, c.pc \notin DuePcs PROVE Quiet(c)
BY DEF DuePcs, Quiet, DueTip

LEMMA ReadersQuiet ==
  ASSUME NEW R, NEW m, NEW c \in CallType, CallInv(c, R, m), c.op \notin WriteOps
  PROVE  Quiet(c)
<1>1. c.op \in ReadOps \cup {"idle"} BY DEF CallType
<1>2. c.pc \notin DuePcs
  BY <1>1 DEF CallInv, InStep, ReadOps, LookupPcs, BodyPcs, RecordPcs, DuePcs
<1> QED BY <1>2, QuietPc

\* What the writer's call c owes, to the rows f, the slots g, the floor m and
\* the tips in memory and in RocksDB.
Owes(c, f, g, m, inMemory, persisted) ==
  /\ \A h \in Heights : h >= m /\ g[h] # NoBlock /\ ~DueSlot(c, h) => g[h] = f[h]
  /\ c.pc = "writeSlot" => f[Height[c.arg]] = c.arg
  /\ c.pc \in {"truncate", "rewrite"} =>
       \A i \in DOMAIN c.todo :
         (\A j \in DOMAIN c.todo : i < j => Height[c.todo[j]] # Height[c.todo[i]])
           => f[Height[c.todo[i]]] = c.todo[i]
  /\ DueTip(c) => persisted = c.arg
  /\ ~DueTip(c) => inMemory = persisted

\* A step of the one writer.
LEMMA WriterStep ==
  ASSUME OneWriter, Inv, WriterInv, NEW t \in Threads, NEW d, Become(t, d),
         call[t].op \in WriteOps,
         Owes(call[t], cfCanonical, bin, metaMin, tip, metaTip) =>
           Owes(d, cfCanonical', bin', metaMin', tip', metaTip')
  PROVE  WriterInv'
<1> DEFINE c == call[t]
<1>1. ASSUME NEW u \in Threads, u # t PROVE Quiet(call[u])
  <2>0. "idle" \notin WriteOps BY DEF WriteOps
  <2>1. call[u].op \notin WriteOps BY <1>1, <2>0 DEF OneWriter, Inv, CallsInv
  <2> QED BY <2>1, CallFacts, ReadersQuiet
<1>2. Owes(c, cfCanonical, bin, metaMin, tip, metaTip)
  <2>1. \A h \in Heights : ~DueSlot(c, h) => \A u \in Threads : ~DueSlot(call[u], h)
    BY <1>1 DEF Quiet, DueSlot
  <2>2. ~DueTip(c) => \A u \in Threads : ~DueTip(call[u]) BY <1>1 DEF Quiet
  <2> QED BY <2>1, <2>2 DEF WriterInv, Owes
<1>3. \A u \in Threads : call'[u] = IF u = t THEN d ELSE call[u]
  BY DEF Inv, CallsInv, Become
<1>4. Owes(d, cfCanonical', bin', metaMin', tip', metaTip') BY <1>2
<1>5. \A h \in Heights :
        h >= metaMin' /\ bin'[h] # NoBlock /\ (\A u \in Threads : ~DueSlot(call'[u], h))
          => bin'[h] = cfCanonical'[h]
  BY <1>3, <1>4 DEF Owes
<1>6. ASSUME NEW u \in Threads
      PROVE  LET k == call'[u]
             IN  /\ k.pc = "writeSlot" => cfCanonical'[Height[k.arg]] = k.arg
                 /\ k.pc \in {"truncate", "rewrite"} =>
                      \A i \in DOMAIN k.todo :
                        (\A j \in DOMAIN k.todo : i < j => Height[k.todo[j]] # Height[k.todo[i]])
                          => cfCanonical'[Height[k.todo[i]]] = k.todo[i]
                 /\ DueTip(k) => metaTip' = k.arg
  <2>1. CASE u = t BY <1>3, <1>4, <2>1 DEF Owes
  <2>2. CASE u # t BY <1>1, <1>3, <2>2 DEF Quiet
  <2> QED BY <2>1, <2>2
<1>7. (\A u \in Threads : ~DueTip(call'[u])) => tip' = metaTip' BY <1>3, <1>4 DEF Owes
<1> QED BY <1>5, <1>6, <1>7 DEF WriterInv, DueSlot, DueTip

\* A step that neither pays nor incurs a debt.
LEMMA QuietStep ==
  ASSUME Inv, WriterInv, NEW t \in Threads, NEW d, call' = [call EXCEPT ![t] = d],
         Quiet(call[t]), Quiet(d), UNCHANGED <<cfCanonical, bin, metaMin, tip, metaTip>>
  PROVE  WriterInv'
<1>1. \A u \in Threads : call'[u] = IF u = t THEN d ELSE call[u] BY DEF Inv, CallsInv
<1>2. \A h \in Heights : (\A u \in Threads : ~DueSlot(call'[u], h))
                           => \A u \in Threads : ~DueSlot(call[u], h)
  BY <1>1 DEF Quiet, DueSlot
<1>3. \A h \in Heights :
        h >= metaMin' /\ bin'[h] # NoBlock /\ (\A u \in Threads : ~DueSlot(call'[u], h))
          => bin'[h] = cfCanonical'[h]
  BY <1>2 DEF WriterInv
<1>4. ASSUME NEW u \in Threads
      PROVE  LET k == call'[u]
             IN  /\ k.pc = "writeSlot" => cfCanonical'[Height[k.arg]] = k.arg
                 /\ k.pc \in {"truncate", "rewrite"} =>
                      \A i \in DOMAIN k.todo :
                        (\A j \in DOMAIN k.todo : i < j => Height[k.todo[j]] # Height[k.todo[i]])
                          => cfCanonical'[Height[k.todo[i]]] = k.todo[i]
                 /\ DueTip(k) => metaTip' = k.arg
  <2>1. CASE u = t BY <1>1, <2>1 DEF Quiet
  <2>2. CASE u # t BY <1>1, <2>2 DEF WriterInv
  <2> QED BY <2>1, <2>2
<1>5. (\A u \in Threads : ~DueTip(call'[u])) => tip' = metaTip'
  <2>1. (\A u \in Threads : ~DueTip(call'[u])) => \A u \in Threads : ~DueTip(call[u])
    BY <1>1 DEF Quiet
  <2> QED BY <2>1 DEF WriterInv
<1> QED BY <1>3, <1>4, <1>5 DEF WriterInv, DueSlot, DueTip

LEMMA QuietRead ==
  ASSUME Inv, WriterInv, NEW t \in Threads, NEW d, NEW pc, Reads(t, pc, d), pc \notin DuePcs,
         d.pc \notin DuePcs
  PROVE  WriterInv'
<1>1. Quiet(call[t]) /\ Quiet(d) BY QuietPc DEF Reads, At
<1>2. UNCHANGED <<cfCanonical, bin, metaMin, tip, metaTip>> BY DEF Reads, disk, index
<1> QED BY <1>1, <1>2, QuietStep DEF Reads, Become

\* Lookups and readings of records return to steps that owe nothing.
LEMMA BackQuiet ==
  ASSUME NEW R, NEW m, NEW c \in CallType, CallInv(c, R, m),
         c.pc \in LookupPcs \cup {"recordCached", "derive"}
  PROVE  c.back \notin DuePcs /\ Resumed(c).pc \notin DuePcs
<1>1. c.back \in {"idle", "found", "walk", "newTip", "putRow", "validated"}
  BY DEF CallType, ReadOps, WriteOps, CallInv, InStep, LookupPcs, BodyPcs, RecordPcs
<1>2. Idle.pc = "idle" BY DEF Idle
<1>3. [c EXCEPT !.pc = c.back].pc = c.back BY DEF CallType
<1> QED BY <1>1, <1>2, <1>3 DEF Resumed, DuePcs

LEMMA ResumedQuiet ==
  ASSUME NEW R, NEW m, NEW c \in CallType, CallInv(c, R, m), c.pc \in LookupPcs, NEW b
  PROVE  Resumed([c EXCEPT !.hash = b]).pc \notin DuePcs
<1>1. c.back \notin DuePcs BY BackQuiet
<1>2. Idle.pc = "idle" /\ "idle" \notin DuePcs BY DEF Idle, DuePcs
<1> DEFINE e == [c EXCEPT !.hash = b]
<1>3. e.back = c.back BY DEF CallType
<1>4. [e EXCEPT !.pc = e.back].pc = e.back BY DEF CallType
<1> QED BY <1>1, <1>2, <1>3, <1>4 DEF Resumed

LEMMA LookupQuiet ==
  ASSUME Inv, WriterInv, NEW t \in Threads, LookupStep(t) PROVE WriterInv'
<1> DEFINE c == call[t]
<1>1. c \in CallType /\ CallInv(c, rows, metaMin) BY CallFacts
<1>2. \A p \in Pcs : [c EXCEPT !.pc = p].pc = p BY <1>1 DEF CallType
<1>3. c.pc \in LookupPcs => \A b : Resumed([c EXCEPT !.hash = b]).pc \notin DuePcs
  BY <1>1, ResumedQuiet
<1>4. CASE ReadFloor(t)
  <2>1. c.pc = "floor" BY <1>4 DEF ReadFloor, Reads, At
  <2>2. Resumed([c EXCEPT !.hash = NoBlock]).pc \notin DuePcs BY <1>3, <2>1 DEF LookupPcs
  <2>3. [c EXCEPT !.pc = "heightCached"].pc \notin DuePcs
    BY <1>2 DEF DuePcs, Pcs, LookupPcs
  <2> QED BY <1>4, <2>2, <2>3, QuietRead DEF ReadFloor, DuePcs
<1>5. CASE ReadHeightCache(t)
  <2>1. c.pc = "heightCached" BY <1>5 DEF ReadHeightCache, Reads, At
  <2>2. Resumed([c EXCEPT !.hash = heightCache[c.h]]).pc \notin DuePcs
    BY <1>3, <2>1 DEF LookupPcs
  <2>3. [c EXCEPT !.pc = "slot"].pc \notin DuePcs BY <1>2 DEF DuePcs, Pcs, LookupPcs
  <2> QED BY <1>5, <2>2, <2>3, QuietRead DEF ReadHeightCache, DuePcs
<1>6. CASE ReadBin(t)
  <2>1. PICK p \in {"fillLocked", "row"} :
          Reads(t, "slot", [c EXCEPT !.hash = bin[c.h], !.pc = p])
    BY <1>6 DEF ReadBin
  <2> DEFINE d == [c EXCEPT !.hash = bin[c.h], !.pc = p]
  <2>2. d.pc = p BY <1>1 DEF CallType
  <2>3. d.pc \notin DuePcs /\ "slot" \notin DuePcs BY <2>2 DEF DuePcs
  <2>4. Reads(t, "slot", d) BY <2>1
  <2> HIDE DEF d
  <2> QED BY <2>3, <2>4, QuietRead
<1>7. CASE ReadRow(t)
  <2> DEFINE e == [c EXCEPT !.hash = cfCanonical[c.h]]
  <2>1. c.pc = "row" BY <1>7 DEF ReadRow, Reads, At
  <2>2. Resumed(e).pc \notin DuePcs BY <1>3, <2>1 DEF LookupPcs
  <2>3. [e EXCEPT !.pc = "fill"].pc = "fill" BY <1>1 DEF CallType
  <2>4. Reads(t, "row", IF e.hash # NoBlock THEN [e EXCEPT !.pc = "fill"] ELSE Resumed(e))
    BY <1>7 DEF ReadRow
  <2> HIDE DEF e
  <2> QED BY <2>2, <2>3, <2>4, QuietRead DEF DuePcs
<1>8. CASE Fill(t)
  <2>1. c.pc \in {"fill", "fillLocked"} BY <1>8 DEF Fill, At
  <2>2. Quiet(c) BY <2>1, QuietPc DEF DuePcs
  <2>3. Quiet(Resumed(c)) BY <1>1, <2>1, BackQuiet, QuietPc DEF LookupPcs
  <2> QED BY <1>8, <2>2, <2>3, QuietStep DEF Fill, Become, disk
<1>9. CASE Walk(t)
  <2> DEFINE seen == c.seen \cup ({c.hash} \ {NoBlock})
             hits == IF c.hash # NoBlock THEN c.hits \cup {c.h} ELSE c.hits
             found == [c EXCEPT !.seen = seen, !.hits = hits]
             over == IF c.op = "prune_before_height" THEN "scan" ELSE "commit"
             next == IF c.h > c.last THEN c.h - 1 ELSE c.h + 1
  <2>1. Reads(t, "walk", IF c.h = c.last THEN [found EXCEPT !.pc = over]
                         ELSE LookupFrom(found, next, "walk"))
    BY <1>9 DEF Walk
  <2>2. over \in {"scan", "commit"} OBVIOUS
  <2> HIDE DEF seen, hits, over, next
  <2>3. [found EXCEPT !.pc = over].pc = over BY <1>1 DEF CallType
  <2>4. LookupFrom(found, next, "walk").pc = "floor" BY <1>1 DEF CallType, LookupFrom
  <2> HIDE DEF found
  <2> QED BY <2>1, <2>2, <2>3, <2>4, QuietRead DEF DuePcs
<1> QED BY <1>4, <1>5, <1>6, <1>7, <1>8, <1>9 DEF LookupStep

LEMMA NextBodyQuiet == ASSUME NEW c \in CallType PROVE NextBody(c).pc \in {"idle", "floor", "blockCached"}
<1>1. Idle.pc = "idle" BY DEF Idle
<1>2. LookupFrom(c, c.h + 1, "found").pc = "floor" BY DEF LookupFrom, CallType
<1>3. [c EXCEPT !.pc = "blockCached", !.arg = Lowest(c.seen), !.seen = @ \ {Lowest(c.seen)}].pc
        = "blockCached"
  BY DEF CallType
<1> QED BY <1>1, <1>2, <1>3 DEF NextBody, NextHeight

LEMMA BodyQuiet ==
  ASSUME Inv, WriterInv, NEW t \in Threads, BodyStep(t) PROVE WriterInv'
<1> DEFINE c == call[t]
<1>1. c \in CallType /\ CallInv(c, rows, metaMin) BY CallFacts
<1>2. NextBody(c).pc \notin DuePcs BY <1>1, NextBodyQuiet DEF DuePcs
<1>3. CASE Capture(t)
  <2> DEFINE pairs == {cfCanonical[h] : h \in 0..c.last} \ {NoBlock}
             e == [c EXCEPT !.seen = pairs]
  <2>1. Reads(t, "capture", NextBody(e)) BY <1>3 DEF Capture
  <2>2. e \in CallType
    <3>1. pairs \subseteq Blocks
      BY <1>1, StoreFacts, MaxHeightAssumption DEF TierKept, Index, Slot, CallType, Heights
    <3> HIDE DEF pairs
    <3> QED BY <1>1, <3>1 DEF CallType
  <2> HIDE DEF e
  <2>3. NextBody(e).pc \notin DuePcs BY <2>2, NextBodyQuiet DEF DuePcs
  <2> QED BY <2>1, <2>3, QuietRead DEF DuePcs
<1>4. CASE Found(t)
  <2>1. Reads(t, "found", IF c.hash = NoBlock THEN NextHeight(c)
                          ELSE [c EXCEPT !.pc = "blockCached", !.arg = c.hash])
    BY <1>4 DEF Found
  <2>2. NextHeight(c).pc \in {"idle", "floor"}
    BY <1>1 DEF NextHeight, Idle, LookupFrom, CallType
  <2> DEFINE d == [c EXCEPT !.pc = "blockCached", !.arg = c.hash]
  <2>3. d.pc = "blockCached" BY <1>1 DEF CallType
  <2>4. NextHeight(c).pc \notin DuePcs /\ d.pc \notin DuePcs /\ "found" \notin DuePcs
    BY <2>2, <2>3 DEF DuePcs
  <2> HIDE DEF d
  <2> QED BY <2>1, <2>4, QuietRead DEF d
<1>5. CASE ReadBlockCache(t)
  <2>1. [c EXCEPT !.pc = "body"].pc = "body" BY <1>1 DEF CallType
  <2> QED BY <1>2, <1>5, <2>1, QuietRead DEF ReadBlockCache, DuePcs
<1>6. CASE ReadBody(t)
  <2>1. PICK p \in {"cacheBlock", "missing"} : Reads(t, "body", [c EXCEPT !.pc = p])
    BY <1>6 DEF ReadBody
  <2>2. [c EXCEPT !.pc = p].pc = p BY <1>1 DEF CallType
  <2> QED BY <2>1, <2>2, QuietRead DEF DuePcs
<1>7. CASE Missing(t) BY <1>2, <1>7, QuietRead DEF Missing, DuePcs
<1>8. CASE CacheBlock(t)
  <2>1. [c EXCEPT !.pc = "cacheHeader"].pc = "cacheHeader" BY <1>1 DEF CallType
  <2>2. Quiet(c) /\ Quiet([c EXCEPT !.pc = "cacheHeader"])
    BY <1>8, <2>1, QuietPc DEF CacheBlock, At, DuePcs
  <2> QED BY <1>8, <2>2, QuietStep DEF CacheBlock, Goto, Become, disk, index
<1>9. CASE CacheHeader(t)
  <2>1. [c EXCEPT !.pc = "putTip"].pc = "putTip" /\ [c EXCEPT !.pc = "derive"].pc = "derive"
        /\ Idle.pc = "idle"
    BY <1>1 DEF CallType, Idle
  <2>2. /\ Quiet(c) /\ Quiet(NextBody(c)) /\ Quiet(Idle) /\ Quiet([c EXCEPT !.pc = "putTip"])
        /\ Quiet([c EXCEPT !.pc = "derive"])
    BY <1>2, <1>9, <2>1, QuietPc DEF CacheHeader, At, DuePcs
  <2>3. PICK d \in {NextBody(c), Idle, [c EXCEPT !.pc = "putTip"], [c EXCEPT !.pc = "derive"]} :
          Become(t, d)
    BY <1>9 DEF CacheHeader, Goto, Return
  <2> QED BY <1>9, <2>2, <2>3, QuietStep DEF CacheHeader, Become, disk, index
<1> QED BY <1>3, <1>4, <1>5, <1>6, <1>7, <1>8, <1>9 DEF BodyStep

LEMMA RecordQuiet ==
  ASSUME Inv, WriterInv, NEW t \in Threads, RecordStep(t) PROVE WriterInv'
<1> DEFINE c == call[t]
           to(p) == [c EXCEPT !.pc = p]
<1>1. c \in CallType /\ CallInv(c, rows, metaMin) BY CallFacts
<1>2. \A p \in {"headerCached", "derive", "header", "cacheHeader"} : to(p).pc \notin DuePcs
  BY <1>1 DEF CallType, DuePcs
<1>3. Idle.pc \notin DuePcs BY DEF Idle, DuePcs
<1>4. CASE ReadRecordCache(t)
  <2>1. Reads(t, "recordCached", IF record[c.arg] # "none" THEN Resumed(c) ELSE to("headerCached"))
    BY <1>4 DEF ReadRecordCache
  <2>2. Resumed(c).pc \notin DuePcs BY <1>1, <2>1, BackQuiet DEF Reads, At
  <2> HIDE DEF to
  <2> QED BY <1>2, <2>1, <2>2, QuietRead DEF DuePcs
<1>5. CASE ReadHeaderCache(t)
  <2>1. PICK p \in {"derive", "header"} : Reads(t, "headerCached", to(p))
    BY <1>5 DEF ReadHeaderCache
  <2> HIDE DEF to
  <2> QED BY <1>2, <2>1, QuietRead DEF DuePcs
<1>6. CASE ReadHeader(t)
  <2>1. Reads(t, "header", IF c.arg \in rows THEN to("cacheHeader") ELSE Idle)
    BY <1>6 DEF ReadHeader
  <2> HIDE DEF to
  <2> QED BY <1>2, <1>3, <2>1, QuietRead DEF DuePcs
<1>7. CASE Derive(t)
  <2>1. c.pc = "derive" BY <1>7 DEF Derive, At
  <2>2. Quiet(c) /\ Quiet(Resumed(c)) BY <1>1, <2>1, BackQuiet, QuietPc DEF DuePcs
  <2> QED BY <1>7, <2>2, QuietStep DEF Derive, Become, disk, index
<1>8. CASE Forget(t)
  <2>1. c.pc = "forget" BY <1>8 DEF Forget, At
  <2>2. Quiet(c) /\ Quiet(Idle) BY <1>3, <2>1, QuietPc DEF DuePcs
  <2> QED BY <1>8, <2>2, QuietStep DEF Forget, Return, Become, disk, index
<1> QED BY <1>4, <1>5, <1>6, <1>7, <1>8 DEF RecordStep

\* A step that turns a quiet call c into one that owes the slot of its block.
LEMMA SlotDue ==
  ASSUME OneWriter, Inv, WriterInv, NEW t \in Threads,
         call[t].op \in WriteOps, Quiet(call[t]), call[t].arg \in Blocks,
         Become(t, [call[t] EXCEPT !.pc = "writeSlot"]),
         cfCanonical' = [cfCanonical EXCEPT ![Height[call[t].arg]] = call[t].arg],
         UNCHANGED <<bin, metaMin, tip, metaTip>>
  PROVE  WriterInv'
<1> DEFINE c == call[t]
           d == [c EXCEPT !.pc = "writeSlot"]
<1>1. c \in CallType BY CallFacts
<1>2. d.pc = "writeSlot" /\ d.arg = c.arg BY <1>1 DEF CallType
<1>3. cfCanonical \in Index BY StoreFacts DEF TierKept
<1>4. Height[c.arg] \in Heights BY BlockHeight
<1> HIDE DEF d
<1>5. ~DueTip(d) /\ \A h : DueSlot(d, h) <=> h = Height[c.arg]
  BY <1>2 DEF DueTip, DueSlot
<1>6. ~DueTip(c) /\ \A h : ~DueSlot(c, h) BY DEF Quiet, DueSlot
<1>7. ASSUME Owes(c, cfCanonical, bin, metaMin, tip, metaTip)
      PROVE  Owes(d, cfCanonical', bin', metaMin', tip', metaTip')
  BY <1>2, <1>3, <1>4, <1>5, <1>6, <1>7 DEF Owes, Index
<1> QED BY <1>7, WriterStep DEF d

LEMMA WriteBlockOwes == ASSUME OneWriter, Inv, WriterInv, NEW t \in Threads, WriteBlock(t) PROVE WriterInv'
<1> DEFINE c == call[t]
<1>1. c \in CallType /\ CallInv(c, rows, metaMin) BY CallFacts
<1>2. c.pc = "write" /\ Quiet(c) BY QuietPc DEF WriteBlock, At, DuePcs
<1>3. c.op \in {"put_block", "put_canonical", "extend_chain"}
  BY <1>1, <1>2 DEF CallType, ReadOps, WriteOps, CallInv, InStep, LookupPcs, BodyPcs, RecordPcs
<1>4. c.arg \in Blocks /\ c.op \in WriteOps BY <1>1, <1>3 DEF CallInv, HeldInv, WriteOps
<1>5. UNCHANGED <<bin, metaMin, tip, metaTip>> BY DEF WriteBlock, index
<1>6. CASE c.op = "put_block"
  <2>1. Become(t, [c EXCEPT !.pc = "cacheRecord"]) /\ UNCHANGED cfCanonical
    BY <1>6 DEF WriteBlock, Goto
  <2>2. Quiet([c EXCEPT !.pc = "cacheRecord"])
    <3>1. [c EXCEPT !.pc = "cacheRecord"].pc = "cacheRecord" BY <1>1 DEF CallType
    <3> QED BY <3>1, QuietPc DEF DuePcs
  <2> QED BY <1>2, <1>5, <2>1, <2>2, QuietStep DEF Become
<1>7. CASE c.op # "put_block"
  <2>1. /\ Become(t, [c EXCEPT !.pc = "writeSlot"])
        /\ cfCanonical' = [cfCanonical EXCEPT ![Height[c.arg]] = c.arg]
    BY <1>7 DEF WriteBlock, Goto
  <2> QED BY <1>2, <1>4, <1>5, <2>1, SlotDue
<1> QED BY <1>6, <1>7

LEMMA PutRowOwes == ASSUME OneWriter, Inv, WriterInv, NEW t \in Threads, PutRow(t) PROVE WriterInv'
<1> DEFINE c == call[t]
<1>1. c \in CallType /\ CallInv(c, rows, metaMin) BY CallFacts
<1>2. c.pc = "putRow" /\ Quiet(c) BY QuietPc DEF PutRow, At, DuePcs
<1>3. c.op = "set_canonical"
  BY <1>1, <1>2 DEF CallType, ReadOps, WriteOps, CallInv, InStep, LookupPcs, BodyPcs, RecordPcs
<1>4. c.arg \in Blocks /\ c.op \in WriteOps BY <1>1, <1>3 DEF CallInv, HeldInv, WriteOps
<1>5. /\ Become(t, [c EXCEPT !.pc = "writeSlot"])
      /\ cfCanonical' = [cfCanonical EXCEPT ![Height[c.arg]] = c.arg]
      /\ UNCHANGED <<bin, metaMin, tip, metaTip>>
  BY DEF PutRow, Goto, index
<1> QED BY <1>2, <1>4, <1>5, SlotDue

LEMMA WriteSlotOwes == ASSUME OneWriter, Inv, WriterInv, NEW t \in Threads, WriteSlot(t) PROVE WriterInv'
<1> DEFINE c == call[t]
           d == [c EXCEPT !.pc = "cacheHeight"]
<1>1. c \in CallType /\ CallInv(c, rows, metaMin) BY CallFacts
<1>2. c.pc = "writeSlot" BY DEF WriteSlot, At
<1>3. c.arg \in Blocks /\ c.op \in WriteOps BY <1>1, <1>2, PutOps DEF WriteOps
<1>4. /\ Become(t, d) /\ bin' = [bin EXCEPT ![Height[c.arg]] = c.arg]
      /\ UNCHANGED <<cfCanonical, metaMin, tip, metaTip>>
  BY DEF WriteSlot, Goto, disk
<1>5. bin \in Index BY StoreFacts DEF TierKept
<1>6. Height[c.arg] \in Heights BY <1>3, BlockHeight
<1>7. d.pc = "cacheHeight" BY <1>1 DEF CallType
<1> HIDE DEF d
<1>8. ~DueTip(d) /\ \A h : ~DueSlot(d, h) BY <1>7 DEF DueTip, DueSlot
<1>9. ~DueTip(c) /\ \A h : DueSlot(c, h) <=> h = Height[c.arg] BY <1>2 DEF DueTip, DueSlot
<1>10. ASSUME Owes(c, cfCanonical, bin, metaMin, tip, metaTip)
       PROVE  Owes(d, cfCanonical', bin', metaMin', tip', metaTip')
  BY <1>2, <1>4, <1>5, <1>6, <1>7, <1>8, <1>9, <1>10 DEF Owes, Index
<1> QED BY <1>3, <1>4, <1>10, WriterStep

LEMMA PutTipOwes == ASSUME OneWriter, Inv, WriterInv, NEW t \in Threads, PutTip(t) PROVE WriterInv'
<1> DEFINE c == call[t]
           d == [c EXCEPT !.pc = "setTip"]
<1>1. c \in CallType /\ CallInv(c, rows, metaMin) BY CallFacts
<1>2. c.pc = "putTip" BY DEF PutTip, At
<1>3. c.op \in WriteOps BY <1>1, <1>2, TipOps DEF WriteOps
<1>4. /\ Become(t, d) /\ metaTip' = c.arg /\ UNCHANGED <<cfCanonical, bin, metaMin, tip>>
  BY DEF PutTip, Goto, index
<1>5. d.pc = "setTip" /\ d.arg = c.arg BY <1>1 DEF CallType
<1> HIDE DEF d
<1>6. DueTip(d) /\ \A h : ~DueSlot(d, h) /\ ~DueSlot(c, h) BY <1>2, <1>5 DEF DueTip, DueSlot
<1>7. ASSUME Owes(c, cfCanonical, bin, metaMin, tip, metaTip)
      PROVE  Owes(d, cfCanonical', bin', metaMin', tip', metaTip')
  BY <1>4, <1>5, <1>6, <1>7 DEF Owes
<1> QED BY <1>3, <1>4, <1>7, WriterStep

LEMMA SetTipOwes == ASSUME OneWriter, Inv, WriterInv, NEW t \in Threads, SetTip(t) PROVE WriterInv'
<1> DEFINE c == call[t]
           e == [c EXCEPT !.pc = "unflag"]
           d == IF c.op = "rollback_to_height" THEN e ELSE Idle
<1>1. c \in CallType /\ CallInv(c, rows, metaMin) BY CallFacts
<1>2. c.pc = "setTip" BY DEF SetTip, At
<1>3. c.op \in WriteOps BY <1>1, <1>2, TipOps DEF WriteOps
<1>4. /\ Become(t, d) /\ tip' = c.arg /\ UNCHANGED <<cfCanonical, bin, metaMin, metaTip>>
  BY DEF SetTip, Goto, Return, disk
<1>5. e.pc = "unflag" /\ e.op = c.op BY <1>1 DEF CallType
<1>6. d.pc \in {"unflag", "idle"} /\ d.op # "apply_reorg" BY <1>5 DEF Idle
<1> HIDE DEF d
<1>7. ~DueTip(d) /\ \A h : ~DueSlot(d, h) /\ ~DueSlot(c, h)
  BY <1>2, <1>6 DEF DueTip, DueSlot
<1>8. DueTip(c) BY <1>2 DEF DueTip
<1>9. ASSUME Owes(c, cfCanonical, bin, metaMin, tip, metaTip)
      PROVE  Owes(d, cfCanonical', bin', metaMin', tip', metaTip')
  BY <1>4, <1>6, <1>7, <1>8, <1>9 DEF Owes
<1> QED BY <1>3, <1>4, <1>9, WriterStep

LEMMA PutOwes == ASSUME OneWriter, Inv, WriterInv, NEW t \in Threads, PutStep(t) PROVE WriterInv'
<1> DEFINE c == call[t]
           to(p) == [c EXCEPT !.pc = p]
<1>1. c \in CallType /\ CallInv(c, rows, metaMin) BY CallFacts
<1>2. \A p \in {"hasRow", "present", "write", "putTip", "flag", "cacheRecord", "cacheBlock",
                "relock"} : to(p).pc \notin DuePcs
  BY <1>1 DEF CallType, DuePcs
<1>3. Idle.pc \notin DuePcs BY DEF Idle, DuePcs
<1>4. CASE HasBlock(t)
  <2>1. Reads(t, "hasBlock", IF c.arg \in blockCache \cup headerCache THEN Idle ELSE to("hasRow"))
    BY <1>4 DEF HasBlock
  <2> HIDE DEF to
  <2> QED BY <1>2, <1>3, <2>1, QuietRead DEF DuePcs
<1>5. CASE HasRow(t)
  <2>1. Reads(t, "hasRow", IF c.arg \in rows THEN Idle ELSE to("present")) BY <1>5 DEF HasRow
  <2> HIDE DEF to
  <2> QED BY <1>2, <1>3, <2>1, QuietRead DEF DuePcs
<1>6. CASE Present(t)
  <2>1. PICK d \in {to("write"), to("putTip"), Idle} : Reads(t, "present", d)
    BY <1>6 DEF Present
  <2>2. d.pc \notin DuePcs /\ "present" \notin DuePcs
    <3> HIDE DEF to
    <3> QED BY <1>2, <1>3 DEF DuePcs
  <2> QED BY <2>1, <2>2, QuietRead
<1>7. CASE CacheHeight(t)
  <2>1. PICK p \in {"flag", "cacheRecord"} : Become(t, to(p)) BY <1>7 DEF CacheHeight, Goto
  <2>2. c.pc = "cacheHeight" BY <1>7 DEF CacheHeight, At
  <2>3. Quiet(c) BY <2>2, QuietPc DEF DuePcs
  <2>4. UNCHANGED <<cfCanonical, bin, metaMin, tip, metaTip>> BY <1>7 DEF CacheHeight, disk
  <2> HIDE DEF to
  <2> QED BY <1>2, <2>1, <2>3, <2>4, QuietStep, QuietPc DEF Become
<1>8. CASE CacheRecord(t)
  <2>1. Become(t, to("cacheBlock")) BY <1>8 DEF CacheRecord, Goto
  <2>2. c.pc = "cacheRecord" BY <1>8 DEF CacheRecord, At
  <2>3. Quiet(c) BY <2>2, QuietPc DEF DuePcs
  <2>4. UNCHANGED <<cfCanonical, bin, metaMin, tip, metaTip>> BY <1>8 DEF CacheRecord, disk, index
  <2> HIDE DEF to
  <2> QED BY <1>2, <2>1, <2>3, <2>4, QuietStep, QuietPc DEF Become
<1>9. CASE Flag(t)
  <2>1. PICK d \in {Idle, to("relock")} : Become(t, d) BY <1>9 DEF Flag, Goto, Return
  <2>2. c.pc = "flag" BY <1>9 DEF Flag, At
  <2>3. Quiet(c) BY <2>2, QuietPc DEF DuePcs
  <2>4. UNCHANGED <<cfCanonical, bin, metaMin, tip, metaTip>> BY <1>9 DEF Flag, disk, index
  <2> HIDE DEF to
  <2> QED BY <1>2, <1>3, <2>1, <2>3, <2>4, QuietStep, QuietPc DEF Become
<1> QED
  BY <1>4, <1>5, <1>6, <1>7, <1>8, <1>9, WriteBlockOwes, PutRowOwes, WriteSlotOwes, PutTipOwes,
     SetTipOwes
  DEF PutStep

LEMMA CommitRollbackOwes ==
  ASSUME OneWriter, Inv, WriterInv, NEW t \in Threads, CommitRollback(t) PROVE WriterInv'
<1> DEFINE c == call[t]
           d == [c EXCEPT !.pc = "truncate"]
<1>1. c \in CallType /\ CallInv(c, rows, metaMin) BY CallFacts
<1>2. c.pc = "commit" /\ c.op = "rollback_to_height" BY DEF CommitRollback, At
<1>3. c.op \in WriteOps BY <1>2 DEF WriteOps
<1>4. c.todo = << >> /\ c.to \in Int /\ c.top \in Int
  BY <1>1, <1>2 DEF CallInv, ReorgInv, CallType, Heights
<1>5. /\ Become(t, d) /\ cfCanonical' = Without(cfCanonical, Gone(c))
      /\ UNCHANGED <<bin, metaMin, tip, metaTip>>
  BY DEF CommitRollback, Goto, index
<1>6. /\ d.pc = "truncate" /\ d.op = c.op /\ d.to = c.to /\ d.todo = << >>
  BY <1>1, <1>4 DEF CallType
<1> HIDE DEF d
<1>7. ~DueTip(d) /\ \A h : c.to < h => DueSlot(d, h) BY <1>2, <1>6 DEF DueTip, DueSlot
<1>8. ~DueTip(c) /\ \A h : ~DueSlot(c, h) BY <1>2 DEF DueTip, DueSlot
<1>9. \A h \in Heights : ~DueSlot(d, h) => cfCanonical'[h] = cfCanonical[h]
  <2> SUFFICES ASSUME NEW h \in Heights, ~DueSlot(d, h) PROVE h \notin Gone(c)
    BY <1>5, StoreFacts, WithoutType DEF TierKept
  <2>1. ~(c.to < h) /\ h \in Int BY <1>7 DEF Heights
  <2> QED BY <1>4, <2>1 DEF Gone
<1>10. ASSUME Owes(c, cfCanonical, bin, metaMin, tip, metaTip)
       PROVE  Owes(d, cfCanonical', bin', metaMin', tip', metaTip')
  <2>1. \A h \in Heights : h >= metaMin /\ bin[h] # NoBlock /\ ~DueSlot(d, h)
                             => bin[h] = cfCanonical'[h]
    BY <1>8, <1>9, <1>10 DEF Owes
  <2>2. tip = metaTip BY <1>8, <1>10 DEF Owes
  <2>3. DOMAIN d.todo = {} BY <1>6
  <2> QED BY <1>5, <1>6, <1>7, <2>1, <2>2, <2>3 DEF Owes
<1> QED BY <1>3, <1>5, <1>10, WriterStep

LEMMA CommitReorgOwes ==
  ASSUME OneWriter, Inv, WriterInv, NEW t \in Threads, CommitReorg(t) PROVE WriterInv'
<1> DEFINE c == call[t]
           newTip == c.list[Len(c.list)]
           f == Without(cfCanonical, Gone(c))
           g == PutAll(f, c.list, DOMAIN c.list)
           d == [c EXCEPT !.pc = "truncate", !.arg = newTip, !.todo = c.list]
<1>1. c \in CallType /\ CallInv(c, rows, metaMin) BY CallFacts
<1>2. c.pc = "commit" /\ c.op = "apply_reorg" BY DEF CommitReorg, At
<1>3. c.op \in WriteOps BY <1>2 DEF WriteOps
<1>4. c.list \in Seq(Blocks) /\ c.to \in Int /\ c.top \in Int
  BY <1>1 DEF CallType, Heights
<1>5. /\ Become(t, d) /\ cfCanonical' = g /\ metaTip' = newTip /\ UNCHANGED <<bin, metaMin, tip>>
  BY DEF CommitReorg, index
<1>6. d.pc = "truncate" /\ d.op = c.op /\ d.to = c.to /\ d.todo = c.list /\ d.arg = newTip
  <2> HIDE DEF newTip
  <2> QED BY <1>1 DEF CallType
<1>7. f \in Index /\ \A h \in Heights : f[h] = IF h \in Gone(c) THEN NoBlock ELSE cfCanonical[h]
  BY StoreFacts, WithoutType DEF TierKept
<1>8. /\ \A i \in DOMAIN c.list :
           (\A j \in DOMAIN c.list : i < j => Height[c.list[j]] # Height[c.list[i]])
             => g[Height[c.list[i]]] = c.list[i]
      /\ \A h \in Heights : (\A i \in DOMAIN c.list : Height[c.list[i]] # h) => g[h] = f[h]
  <2>1. DOMAIN c.list \in SUBSET Int /\ \A i \in DOMAIN c.list : c.list[i] \in Blocks
    BY <1>4
  <2> HIDE DEF f
  <2> QED BY <1>7, <2>1, PutAllLast
<1> HIDE DEF d, f, g, newTip
<1>9. DueTip(d) /\ \A h : DueSlot(d, h) <=> c.to < h \/ \E i \in DOMAIN c.list : Height[c.list[i]] = h
  BY <1>2, <1>6 DEF DueTip, DueSlot
<1>10. \A h : ~DueSlot(c, h) BY <1>2 DEF DueSlot
<1>11. \A h \in Heights : ~DueSlot(d, h) => g[h] = cfCanonical[h]
  <2> SUFFICES ASSUME NEW h \in Heights, ~DueSlot(d, h) PROVE g[h] = cfCanonical[h] OBVIOUS
  <2>1. ~(c.to < h) /\ h \in Int /\ g[h] = f[h] BY <1>8, <1>9 DEF Heights
  <2>2. h \notin Gone(c) BY <1>4, <2>1 DEF Gone
  <2> QED BY <1>7, <2>1, <2>2
<1>12. ASSUME Owes(c, cfCanonical, bin, metaMin, tip, metaTip)
       PROVE  Owes(d, cfCanonical', bin', metaMin', tip', metaTip')
  <2>1. \A h \in Heights : h >= metaMin /\ bin[h] # NoBlock /\ ~DueSlot(d, h) => bin[h] = g[h]
    BY <1>10, <1>11, <1>12 DEF Owes
  <2> QED BY <1>5, <1>6, <1>8, <1>9, <2>1 DEF Owes
<1> QED BY <1>3, <1>5, <1>12, WriterStep

LEMMA TruncateOwes ==
  ASSUME OneWriter, Inv, WriterInv, NEW t \in Threads, Truncate(t) PROVE WriterInv'
<1> DEFINE c == call[t]
           d == IF c.op = "apply_reorg" THEN [c EXCEPT !.pc = "rewrite"]
                                        ELSE LookupFrom(c, c.to, "newTip")
<1>1. c \in CallType /\ CallInv(c, rows, metaMin) BY CallFacts
<1>2. c.pc = "truncate" BY DEF Truncate, At
<1>3. c.op \in {"rollback_to_height", "apply_reorg"} /\ c.op \in WriteOps
  BY <1>1, <1>2, ReorgOps DEF WriteOps
<1>4. c.to \in Int BY <1>1 DEF CallType
<1>5. /\ Become(t, d) /\ bin' = BinTruncate(bin, c.to)
      /\ UNCHANGED <<cfCanonical, metaMin, tip, metaTip>>
  BY DEF Truncate, disk
<1>6. /\ d.op = c.op /\ d.todo = c.todo /\ d.arg = c.arg
      /\ d.pc = IF c.op = "apply_reorg" THEN "rewrite" ELSE "floor"
  BY <1>1 DEF CallType, LookupFrom
<1> HIDE DEF d
<1>7. \A h \in Heights : bin'[h] = IF h <= c.to THEN bin[h] ELSE NoBlock
  BY <1>4, <1>5, StoreFacts, BinTruncateType DEF TierKept
<1>8. c.op = "rollback_to_height" => c.todo = << >> BY <1>1 DEF CallInv, ReorgInv
<1>9. DueTip(d) <=> DueTip(c) BY <1>2, <1>3, <1>6 DEF DueTip
<1>10. \A h \in Heights : h <= c.to /\ ~DueSlot(d, h) => ~DueSlot(c, h)
  <2> SUFFICES ASSUME NEW h \in Heights, h <= c.to, DueSlot(c, h) PROVE DueSlot(d, h) OBVIOUS
  <2>1. \E i \in DOMAIN c.todo : Height[c.todo[i]] = h BY <1>2, <1>4 DEF DueSlot, Heights
  <2>2. c.op = "apply_reorg" BY <1>3, <1>8, <2>1
  <2> QED BY <1>6, <2>1, <2>2 DEF DueSlot
<1>11. ASSUME Owes(c, cfCanonical, bin, metaMin, tip, metaTip)
       PROVE  Owes(d, cfCanonical', bin', metaMin', tip', metaTip')
  <2>1. \A h \in Heights : h >= metaMin /\ bin'[h] # NoBlock /\ ~DueSlot(d, h)
                             => bin'[h] = cfCanonical[h]
    BY <1>7, <1>10, <1>11 DEF Owes
  <2> QED BY <1>2, <1>5, <1>6, <1>9, <1>11, <2>1 DEF Owes
<1> QED BY <1>3, <1>5, <1>11, WriterStep

LEMMA RewriteOwes ==
  ASSUME OneWriter, Inv, WriterInv, NEW t \in Threads, Rewrite(t) PROVE WriterInv'
<1> DEFINE c == call[t]
           b == Head(c.todo)
           rest == Tail(c.todo)
           p == IF rest = << >> THEN "unflag" ELSE "rewrite"
           d == [c EXCEPT !.todo = rest, !.pc = p]
<1>1. c \in CallType /\ CallInv(c, rows, metaMin) BY CallFacts
<1>2. c.pc = "rewrite" BY DEF Rewrite, At
<1>3. c.op = "apply_reorg" /\ c.todo # << >> /\ c.op \in WriteOps
  BY <1>1, <1>2, ReorgOps DEF WriteOps
<1>4. c.todo \in Seq(Blocks) BY <1>1 DEF CallType
<1>5. /\ rest \in Seq(Blocks) /\ Len(rest) = Len(c.todo) - 1
      /\ \A j \in 1..Len(rest) : rest[j] = c.todo[j + 1]
      /\ b = c.todo[1] /\ b \in Blocks
      /\ DOMAIN c.todo = 1..Len(c.todo) /\ DOMAIN rest = 1..Len(rest)
      /\ Len(c.todo) \in Nat /\ Len(rest) \in Nat
  BY <1>3, <1>4, HeadTailProperties
<1>6. /\ Become(t, d) /\ bin' = [bin EXCEPT ![Height[b]] = b]
      /\ UNCHANGED <<cfCanonical, metaMin, tip, metaTip>>
  BY DEF Rewrite, disk
<1>7. /\ d.op = c.op /\ d.todo = rest /\ d.arg = c.arg /\ d.pc = p
  <2> HIDE DEF rest, p
  <2> QED BY <1>1 DEF CallType
<1>8. p \in {"unflag", "rewrite"} /\ (p = "unflag" => rest = << >>) OBVIOUS
<1> HIDE DEF d, b, rest, p
<1>9. DueTip(d) /\ DueTip(c) BY <1>2, <1>3, <1>7, <1>8 DEF DueTip
<1>10. \A h : DueSlot(c, h) <=> \E i \in DOMAIN c.todo : Height[c.todo[i]] = h
  BY <1>2 DEF DueSlot
<1>11. \A h : (\E i \in DOMAIN rest : Height[rest[i]] = h) => DueSlot(d, h)
  BY <1>7, <1>8 DEF DueSlot
<1>12. ASSUME NEW i \in DOMAIN c.todo, i # 1
       PROVE  i - 1 \in DOMAIN rest /\ c.todo[i] = rest[i - 1]
  BY <1>5, <1>12
<1>13. bin \in Index /\ Height[b] \in Heights BY <1>5, StoreFacts, BlockHeight DEF TierKept
<1>14. ASSUME Owes(c, cfCanonical, bin, metaMin, tip, metaTip)
       PROVE  Owes(d, cfCanonical', bin', metaMin', tip', metaTip')
  <2>1. \A i \in DOMAIN c.todo :
          (\A j \in DOMAIN c.todo : i < j => Height[c.todo[j]] # Height[c.todo[i]])
            => cfCanonical[Height[c.todo[i]]] = c.todo[i]
    BY <1>2, <1>14 DEF Owes
  <2>2. ASSUME NEW h \in Heights, h >= metaMin, bin'[h] # NoBlock, ~DueSlot(d, h)
        PROVE  bin'[h] = cfCanonical[h]
    <3>1. \A i \in DOMAIN c.todo : i # 1 => Height[c.todo[i]] # h BY <1>11, <1>12, <2>2
    <3>2. CASE h = Height[b]
      <4>1. 1 \in DOMAIN c.todo /\ \A j \in DOMAIN c.todo : 1 < j => Height[c.todo[j]] # Height[c.todo[1]]
        BY <1>3, <1>5, <3>1, <3>2
      <4>2. cfCanonical[h] = b BY <1>5, <2>1, <3>2, <4>1
      <4> QED BY <1>6, <1>13, <3>2, <4>2 DEF Index
    <3>3. CASE h # Height[b]
      <4>1. ~DueSlot(c, h) BY <1>5, <1>10, <3>1, <3>3
      <4>2. bin'[h] = bin[h] BY <1>6, <1>13, <3>3 DEF Index
      <4> QED BY <1>14, <2>2, <4>1, <4>2 DEF Owes
    <3> QED BY <3>2, <3>3
  <2>3. ASSUME NEW i \in DOMAIN rest,
               \A j \in DOMAIN rest : i < j => Height[rest[j]] # Height[rest[i]]
        PROVE  cfCanonical[Height[rest[i]]] = rest[i]
    <3>1. i + 1 \in DOMAIN c.todo /\ rest[i] = c.todo[i + 1] BY <1>5
    <3>2. \A j \in DOMAIN c.todo : i + 1 < j => Height[c.todo[j]] # Height[c.todo[i + 1]]
      <4> SUFFICES ASSUME NEW j \in DOMAIN c.todo, i + 1 < j
                   PROVE  Height[c.todo[j]] # Height[c.todo[i + 1]]
        OBVIOUS
      <4>1. j # 1 /\ i < j - 1 BY <1>5
      <4>2. j - 1 \in DOMAIN rest /\ c.todo[j] = rest[j - 1] BY <1>12, <4>1
      <4> QED BY <2>3, <3>1, <4>1, <4>2
    <3> QED BY <2>1, <3>1, <3>2
  <2>4. metaTip = c.arg BY <1>9, <1>14 DEF Owes
  <2> QED BY <1>6, <1>7, <1>8, <1>9, <2>2, <2>3, <2>4 DEF Owes
<1> QED BY <1>3, <1>6, <1>14, WriterStep

LEMMA UnflagOwes ==
  ASSUME OneWriter, Inv, WriterInv, NEW t \in Threads, Unflag(t) \/ Recache(t) PROVE WriterInv'
<1> DEFINE c == call[t]
           to(p) == [c EXCEPT !.pc = p]
<1>1. c \in CallType /\ CallInv(c, rows, metaMin) BY CallFacts
<1>2. c.pc \in {"unflag", "recache"} BY DEF Unflag, Recache, At
<1>3. c.op \in {"rollback_to_height", "apply_reorg"} /\ c.op \in WriteOps
  BY <1>1, <1>2, ReorgOps DEF WriteOps
<1>4. \A p \in Pcs : to(p).op = c.op /\ to(p).arg = c.arg /\ to(p).pc = p
  BY <1>1 DEF CallType
<1>5. UNCHANGED <<cfCanonical, bin, metaMin, tip, metaTip>> BY DEF Unflag, Recache, disk, index
<1>6. PICK d : /\ Become(t, d)
               /\ \/ d = to("recache")
                  \/ c.op = "apply_reorg" /\ d = to("setTip")
                  \/ c.op # "apply_reorg" /\ d = Idle
  BY DEF Unflag, Recache, Goto, Return
<1>7. /\ d.pc \in {"recache", "setTip", "idle"}
      /\ c.op = "apply_reorg" => d.op = c.op /\ d.arg = c.arg /\ d.pc \in {"recache", "setTip"}
      /\ c.op # "apply_reorg" => d.op # "apply_reorg" /\ d.pc \in {"recache", "idle"}
  <2>1. "recache" \in Pcs /\ "setTip" \in Pcs BY DEF Pcs
  <2> HIDE DEF to
  <2> QED BY <1>4, <1>6, <2>1 DEF Idle
<1>8. DueTip(d) <=> DueTip(c) BY <1>2, <1>7 DEF DueTip
<1>9. \A h : ~DueSlot(d, h) /\ ~DueSlot(c, h) BY <1>2, <1>7 DEF DueSlot
<1>10. DueTip(c) => d.arg = c.arg BY <1>2, <1>7 DEF DueTip
<1>11. ASSUME Owes(c, cfCanonical, bin, metaMin, tip, metaTip)
       PROVE  Owes(d, cfCanonical', bin', metaMin', tip', metaTip')
  BY <1>5, <1>7, <1>8, <1>9, <1>10, <1>11 DEF Owes
<1> QED BY <1>3, <1>6, <1>11, WriterStep

LEMMA ReorgOwes == ASSUME OneWriter, Inv, WriterInv, NEW t \in Threads, ReorgStep(t) PROVE WriterInv'
<1> DEFINE c == call[t]
<1>1. c \in CallType /\ CallInv(c, rows, metaMin) BY CallFacts
<1>2. Idle.pc = "idle" BY DEF Idle
<1>3. WalkDown(c).pc \in {"floor", "commit"} BY <1>1 DEF WalkDown, LookupFrom, CallType
<1>4. CASE ReadTip(t)
  <2> DEFINE k == [c EXCEPT !.top = Height[tip]]
             d == [k EXCEPT !.todo = k.list, !.arg = Head(k.list), !.pc = "recordCached",
                            !.back = "validated"]
             e == [k EXCEPT !.pc = "aboveFloor"]
  <2>1. PICK x \in {d, Idle, e} : Reads(t, "readTip", x) BY <1>4 DEF ReadTip
  <2>2. d.pc = "recordCached" /\ e.pc = "aboveFloor" BY <1>1 DEF CallType
  <2>3. x.pc \notin DuePcs /\ "readTip" \notin DuePcs
    <3> HIDE DEF d, e
    <3> QED BY <1>2, <2>2 DEF DuePcs
  <2> QED BY <2>1, <2>3, QuietRead
<1>5. CASE AboveFloor(t)
  <2>1. PICK x \in {Idle, WalkDown(c)} : Reads(t, "aboveFloor", x) BY <1>5 DEF AboveFloor
  <2> QED BY <1>2, <1>3, <2>1, QuietRead DEF DuePcs
<1>6. CASE Validated(t)
  <2> DEFINE d == [c EXCEPT !.todo = Tail(c.todo), !.arg = Head(Tail(c.todo)),
                            !.pc = "recordCached"]
  <2>1. PICK x \in {WalkDown(c), d} : Reads(t, "validated", x) BY <1>6 DEF Validated
  <2>2. d.pc = "recordCached" BY <1>1 DEF CallType
  <2>3. x.pc \notin DuePcs /\ "validated" \notin DuePcs
    <3> HIDE DEF d
    <3> QED BY <1>3, <2>2 DEF DuePcs
  <2> QED BY <2>1, <2>3, QuietRead
<1>7. CASE NewTip(t)
  <2> DEFINE d == [c EXCEPT !.pc = "unflag"]
             e == [c EXCEPT !.arg = c.hash, !.pc = "putTip"]
  <2>1. PICK x \in {d, e} : Reads(t, "newTip", x) BY <1>7 DEF NewTip
  <2>2. c.pc = "newTip" BY <2>1 DEF Reads, At
  <2>3. c.op = "rollback_to_height" BY <1>1, <2>2, ReorgOps
  <2>4. d.pc = "unflag" /\ d.op = c.op /\ e.pc = "putTip" /\ e.op = c.op BY <1>1 DEF CallType
  <2>5. Quiet(c) /\ Quiet(x)
    <3> HIDE DEF d, e
    <3> QED BY <2>2, <2>3, <2>4 DEF Quiet, DueTip
  <2> QED BY <2>1, <2>5, QuietStep DEF Reads, Become, disk, index
<1> QED
  BY <1>4, <1>5, <1>6, <1>7, CommitRollbackOwes, CommitReorgOwes, TruncateOwes, RewriteOwes,
     UnflagOwes
  DEF ReorgStep

LEMMA CommitPruneOwes ==
  ASSUME OneWriter, Inv, WriterInv, NEW t \in Threads, CommitPrune(t) PROVE WriterInv'
<1> DEFINE c == call[t]
           d == [c EXCEPT !.pc = "raise"]
<1>1. c \in CallType /\ CallInv(c, rows, metaMin) BY CallFacts
<1>2. c.pc = "commit" /\ c.op = "prune_before_height" BY DEF CommitPrune, At
<1>3. c.op \in WriteOps BY <1>2 DEF WriteOps
<1>4. /\ metaMin < c.to /\ (\A k \in c.hits : k < c.to) /\ c.to \in Int /\ metaMin \in Int
      /\ c.hits \subseteq Heights
  BY <1>1, <1>2, PruneOps, StoreFacts DEF CallType
<1>5. /\ Become(t, d) /\ cfCanonical' = Without(cfCanonical, c.hits) /\ metaMin' = c.to
      /\ UNCHANGED <<bin, tip, metaTip>>
  BY DEF CommitPrune, Goto, index
<1>6. d.pc = "raise" BY <1>1 DEF CallType
<1> HIDE DEF d
<1>7. ~DueTip(c) /\ ~DueTip(d) /\ \A h : ~DueSlot(c, h) /\ ~DueSlot(d, h)
  BY <1>2, <1>6 DEF DueTip, DueSlot
<1>8. \A h \in Heights : h >= c.to => cfCanonical'[h] = cfCanonical[h] /\ h >= metaMin
  <2> SUFFICES ASSUME NEW h \in Heights, h >= c.to PROVE h \notin c.hits /\ h >= metaMin
    BY <1>5, StoreFacts, WithoutType DEF TierKept
  <2>1. h \in Int BY DEF Heights
  <2> QED BY <1>4, <2>1
<1>9. ASSUME Owes(c, cfCanonical, bin, metaMin, tip, metaTip)
      PROVE  Owes(d, cfCanonical', bin', metaMin', tip', metaTip')
  <2>1. \A h \in Heights : h >= c.to /\ bin[h] # NoBlock => bin[h] = cfCanonical'[h]
    BY <1>7, <1>8, <1>9 DEF Owes
  <2> QED BY <1>5, <1>6, <1>7, <1>9, <2>1 DEF Owes
<1> QED BY <1>3, <1>5, <1>9, WriterStep

LEMMA PruneOwes == ASSUME OneWriter, Inv, WriterInv, NEW t \in Threads, PruneStep(t) PROVE WriterInv'
<1> DEFINE c == call[t]
           to(p) == [c EXCEPT !.pc = p]
<1>1. c \in CallType /\ CallInv(c, rows, metaMin) BY CallFacts
<1>2. Idle.pc = "idle" BY DEF Idle
<1>3. \A p \in {"evictBelow", "evictBlock", "evictRecord"} : to(p).pc \notin DuePcs
  BY <1>1 DEF CallType, DuePcs
<1>4. CASE ReadMin(t)
  <2> DEFINE d == LookupFrom([c EXCEPT !.last = c.to - 1], minRetained, "walk")
  <2>1. PICK x \in {Idle, d} : Reads(t, "readFloor", x) BY <1>4 DEF ReadMin
  <2>2. d.pc = "floor" BY <1>1 DEF CallType, LookupFrom
  <2>3. x.pc \notin DuePcs /\ "readFloor" \notin DuePcs
    <3> HIDE DEF d
    <3> QED BY <1>2, <2>2 DEF DuePcs
  <2> QED BY <2>1, <2>3, QuietRead
<1>5. CASE Scan(t)
  <2> DEFINE d == [c EXCEPT !.seen = @ \cup {b \in rows : Height[b] < c.to}, !.pc = "commit"]
  <2>1. Reads(t, "scan", d) BY <1>5 DEF Scan
  <2>2. d.pc = "commit" BY <1>1 DEF CallType
  <2> HIDE DEF d
  <2> QED BY <2>1, <2>2, QuietRead DEF DuePcs
<1>6. CASE Raise(t)
  <2>1. PICK p \in {"evictBelow", "evictBlock"} : Become(t, to(p)) BY <1>6 DEF Raise, Goto
  <2>2. Quiet(c) BY <1>6, QuietPc DEF Raise, At, DuePcs
  <2>3. UNCHANGED <<cfCanonical, bin, metaMin, tip, metaTip>> BY <1>6 DEF Raise, disk
  <2> HIDE DEF to
  <2> QED BY <1>3, <2>1, <2>2, <2>3, QuietStep, QuietPc DEF Become
<1>7. CASE EvictBlock(t)
  <2>1. PICK b : Become(t, [c EXCEPT !.arg = b, !.pc = "evictHeader"]) BY <1>7 DEF EvictBlock
  <2> DEFINE d == [c EXCEPT !.arg = b, !.pc = "evictHeader"]
  <2>2. d.pc = "evictHeader" BY <1>1 DEF CallType
  <2>3. Quiet(c) BY <1>7, QuietPc DEF EvictBlock, At, DuePcs
  <2>4. UNCHANGED <<cfCanonical, bin, metaMin, tip, metaTip>> BY <1>7 DEF EvictBlock, disk, index
  <2>5. Become(t, d) BY <2>1
  <2> HIDE DEF d
  <2>6. Quiet(d) BY <2>2, QuietPc DEF DuePcs
  <2> QED BY <2>3, <2>4, <2>5, <2>6, QuietStep DEF Become
<1>8. CASE EvictHeader(t)
  <2>1. Become(t, to("evictRecord")) BY <1>8 DEF EvictHeader, Goto
  <2>2. Quiet(c) BY <1>8, QuietPc DEF EvictHeader, At, DuePcs
  <2>3. UNCHANGED <<cfCanonical, bin, metaMin, tip, metaTip>> BY <1>8 DEF EvictHeader, disk, index
  <2> HIDE DEF to
  <2> QED BY <1>3, <2>1, <2>2, <2>3, QuietStep, QuietPc DEF Become
<1>9. CASE EvictRecord(t)
  <2> DEFINE others == c.seen \ {c.arg}
  <2>1. PICK p \in {"evictBelow", "evictBlock"} : Become(t, [c EXCEPT !.seen = others, !.pc = p])
    BY <1>9 DEF EvictRecord
  <2> DEFINE d == [c EXCEPT !.seen = others, !.pc = p]
  <2>2. d.pc = p BY <1>1 DEF CallType
  <2>3. Quiet(c) BY <1>9, QuietPc DEF EvictRecord, At, DuePcs
  <2>4. UNCHANGED <<cfCanonical, bin, metaMin, tip, metaTip>> BY <1>9 DEF EvictRecord, disk, index
  <2>5. Become(t, d) BY <2>1
  <2> HIDE DEF d
  <2>6. Quiet(d) BY <2>2, QuietPc DEF DuePcs
  <2> QED BY <2>3, <2>4, <2>5, <2>6, QuietStep DEF Become
<1>10. CASE EvictBelow(t)
  <2>1. Become(t, Idle) BY <1>10 DEF EvictBelow, Return
  <2>2. Quiet(c) /\ Quiet(Idle) BY <1>2, <1>10, QuietPc DEF EvictBelow, At, DuePcs
  <2>3. UNCHANGED <<cfCanonical, bin, metaMin, tip, metaTip>> BY <1>10 DEF EvictBelow, disk
  <2> QED BY <2>1, <2>2, <2>3, QuietStep DEF Become
<1> QED
  BY <1>4, <1>5, <1>6, <1>7, <1>8, <1>9, <1>10, CommitPruneOwes DEF PruneStep

LEMMA BeginOwes == ASSUME Inv, WriterInv, NEW t \in Threads, Begin(t) PROVE WriterInv'
<1>1. PICK c \in Calls : call' = [call EXCEPT ![t] = c] BY DEF Begin
<1>2. c.pc \in FirstPcs BY FirstStep
<1>3. Quiet(call[t]) /\ Quiet(c) BY <1>2, QuietPc DEF Begin, At, FirstPcs, DuePcs
<1>4. UNCHANGED <<cfCanonical, bin, metaMin, tip, metaTip>> BY DEF Begin, disk, index
<1> QED BY <1>1, <1>3, <1>4, QuietStep

\* With one writing thread, whatever readers do: canonical.bin differs from
\* CF_CANONICAL, and the tip in memory from META_TIP, only in what the call of
\* the writer still has to write.
THEOREM WriterPaysItsDebts == ASSUME OneWriter PROVE Spec => []WriterInv
<1>1. Init => WriterInv
  <2>1. Idle.pc = "idle" BY DEF Idle
  <2>2. Quiet(Idle) BY <2>1, QuietPc DEF DuePcs
  <2> QED BY <2>1, <2>2 DEF Init, WriterInv, Quiet
<1>2. Inv /\ WriterInv /\ [Next]_vars => WriterInv'
  <2> SUFFICES ASSUME Inv, WriterInv, [Next]_vars PROVE WriterInv' OBVIOUS
  <2>1. CASE UNCHANGED vars BY <2>1 DEF vars, WriterInv, DueSlot, DueTip
  <2>2. ASSUME NEW t \in Threads, Begin(t) \/ Step(t) PROVE WriterInv'
    BY <2>2, BeginOwes, LookupQuiet, BodyQuiet, RecordQuiet, PutOwes, ReorgOwes, PruneOwes
    DEF Step
  <2> QED BY <2>1, <2>2 DEF Next
<1>3. Spec => []Inv BY OneWriterPrunes, InvAlways
<1> QED BY <1>1, <1>2, <1>3, PTL DEF Spec

\* With one writing thread, the calls of all threads stay sound and what the
\* writer owes stays accounted for, at every step.
THEOREM ThreadsInvariant == ASSUME OneWriter PROVE Spec => []ThreadsInv
<1>1. CallsInv /\ WriterInv => ThreadsInv BY DEF ThreadsInv
<1>2. Spec => []CallsInv BY OneWriterPrunes, CallsStaySound
<1> QED BY <1>1, <1>2, WriterPaysItsDebts, PTL

\* With one writing thread, between its calls the tip and the floor in memory
\* are the persisted ones and canonical.bin agrees with CF_CANONICAL.
THEOREM WritersLeaveAgreement == ASSUME OneWriter PROVE Spec => []WritersAtRest
<1>1. Inv /\ WriterInv => WritersAtRest
  <2> SUFFICES ASSUME Inv, WriterInv, \A t \in Threads : ~Mutating(t)
               PROVE  /\ tip = metaTip /\ minRetained = metaMin
                      /\ \A h \in Heights : h >= metaMin /\ bin[h] # NoBlock
                                              => bin[h] = cfCanonical[h]
    BY DEF WritersAtRest
  <2>1. \A t \in Threads : Quiet(call[t]) BY CallFacts, ReadersQuiet DEF Mutating
  <2>2. ASSUME NEW t \in Threads PROVE call[t].pc # "raise"
    <3> SUFFICES ASSUME call[t].pc = "raise" PROVE FALSE OBVIOUS
    <3>1. call[t].op = "prune_before_height" BY CallFacts, PruneOps
    <3> QED BY <3>1 DEF Mutating, WriteOps
  <2>3. minRetained = metaMin BY <2>2 DEF Inv, CallsInv, At
  <2>4. \A t \in Threads : ~DueTip(call[t]) /\ \A h \in Heights : ~DueSlot(call[t], h)
    BY <2>1 DEF Quiet, DueSlot
  <2> QED BY <2>3, <2>4 DEF WriterInv
<1>2. Spec => []Inv BY OneWriterPrunes, InvAlways
<1> QED BY <1>1, <1>2, WriterPaysItsDebts, PTL

=============================================================================
