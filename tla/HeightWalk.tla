----------------------------- MODULE HeightWalk -----------------------------
(***************************************************************************)
(* One loop of get_hash_by_height calls, as rollback_to_height and         *)
(* apply_reorg (downwards) and prune_before_height (upwards) run it, with  *)
(* every cache insert and every eviction a step of its own.  It shows that *)
(* ReadThrough and WalkSees of HeightIndex compute what the loop does.     *)
(***************************************************************************)
EXTENDS HeightIndex

CONSTANTS Caches, Lowers   \* bound: caches and lower tiers to start from

ASSUME InputsAssumption == Caches \subseteq Index /\ Lowers \subseteq Index

VARIABLES start, lower, floor, bottom, top, descending,   \* the loop's inputs
          pos, cache, evicting, seen                      \* the loop's state

inputs == <<start, lower, floor, bottom, top, descending>>
vars == <<start, lower, floor, bottom, top, descending, pos, cache, evicting, seen>>

Init ==
  /\ start \in Caches /\ lower \in Lowers
  /\ floor \in Heights /\ bottom \in Heights /\ top \in bottom..MaxHeight
  /\ descending \in BOOLEAN
  /\ pos = IF descending THEN top ELSE bottom
  /\ cache = start
  /\ evicting = FALSE
  /\ seen = NoIndex

Running == bottom <= pos /\ pos <= top /\ ~evicting
Advance == pos' = IF descending THEN pos - 1 ELSE pos + 1
Done == ~Running /\ ~evicting

\* Below the floor, or a hit in the height cache: nothing is inserted.
ReadNoInsert ==
  /\ Running
  /\ \/ pos < floor /\ seen' = seen
     \/ /\ pos >= floor
        /\ cache[pos] # NoBlock
        /\ seen' = [seen EXCEPT ![pos] = cache[pos]]
     \/ /\ pos >= floor
        /\ cache[pos] = NoBlock
        /\ lower[pos] = NoBlock
        /\ seen' = seen
  /\ Advance
  /\ UNCHANGED <<inputs, cache, evicting>>

\* Mutant: the pruning floor is not looked at.
ReadInsertPruned ==
  /\ Running
  /\ cache[pos] = NoBlock
  /\ lower[pos] # NoBlock
  /\ seen' = [seen EXCEPT ![pos] = lower[pos]]
  /\ cache' = IF HeightCacheCapacity = 0 THEN cache
                                         ELSE [cache EXCEPT ![pos] = lower[pos]]
  /\ evicting' = (HeightCacheCapacity # 0)
  /\ Advance
  /\ UNCHANGED inputs

\* A miss answered by a lower tier; capacity 0 turns the insert off.
ReadInsert ==
  /\ Running
  /\ pos >= floor
  /\ cache[pos] = NoBlock
  /\ lower[pos] # NoBlock
  /\ seen' = [seen EXCEPT ![pos] = lower[pos]]
  /\ cache' = IF HeightCacheCapacity = 0 THEN cache
                                         ELSE [cache EXCEPT ![pos] = lower[pos]]
  /\ evicting' = (HeightCacheCapacity # 0)
  /\ Advance
  /\ UNCHANGED inputs

\* Mutant: the highest height is removed.
EvictHighest ==
  /\ evicting
  /\ Cardinality(Held(cache)) > HeightCacheCapacity
  /\ \E h \in Held(cache) :
       /\ \A k \in Held(cache) : h >= k
       /\ cache' = [cache EXCEPT ![h] = NoBlock]
  /\ UNCHANGED <<inputs, pos, evicting, seen>>

\* while len > capacity: remove the lowest height.
EvictLowest ==
  /\ evicting
  /\ Cardinality(Held(cache)) > HeightCacheCapacity
  /\ \E h \in Held(cache) :
       /\ \A k \in Held(cache) : h <= k
       /\ cache' = [cache EXCEPT ![h] = NoBlock]
  /\ UNCHANGED <<inputs, pos, evicting, seen>>

EvictDone ==
  /\ evicting
  /\ Cardinality(Held(cache)) <= HeightCacheCapacity
  /\ evicting' = FALSE
  /\ UNCHANGED <<inputs, pos, cache, seen>>

Next == ReadNoInsert \/ ReadInsert \/ EvictLowest \/ EvictDone
Spec == Init /\ [][Next]_vars

-----------------------------------------------------------------------------
\* When the loop ends, the cache is what ReadThrough says: also when it began
\* over capacity (apply_reorg inserts unchecked) or with stale entries.
CacheMatches ==
  Done => cache = ReadThrough(start, lower, floor, bottom..top)

\* When a downward loop ends, it has collected what WalkSees says, although
\* its own inserts may have evicted a stale entry before it was read.
SeenMatches ==
  Done /\ descending =>
    \A h \in bottom..top : seen[h] = WalkSees(start, lower, floor, top, h)

=============================================================================
