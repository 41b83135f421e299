---------------------------- MODULE HeightIndex ----------------------------
(***************************************************************************)
(* Operators on height->hash maps: the rows of CF_CANONICAL, the slots of  *)
(* canonical.bin and the entries of canonical_height_cache.  A slot of the *)
(* file that is zero and a slot past its end both read as None, so all     *)
(* three are functions from heights to a hash or NoBlock.                  *)
(***************************************************************************)
EXTENDS Integers, FiniteSets, Sequences

CONSTANTS
  Blocks,                \* blocks that callers may hand to the store
  NoBlock,               \* Option::None, an all-zero slot, an absent row
  Height,                \* height recorded in a block's header
  MaxHeight,             \* bound: no block is higher
  HeightCacheCapacity    \* config.canonical_height_cache_capacity

Heights == 0..MaxHeight
Slot == Blocks \cup {NoBlock}
Index == [Heights -> Slot]
NoIndex == [h \in Heights |-> NoBlock]

ASSUME NoBlockAssumption == NoBlock \notin Blocks
ASSUME MaxHeightAssumption == MaxHeight \in Nat
ASSUME HeightAssumption == Height \in [Blocks -> Heights]
ASSUME CapacityAssumption == HeightCacheCapacity \in Nat

-----------------------------------------------------------------------------
\* The heights at which f has an entry.
Held(f) == {h \in Heights : f[h] # NoBlock}

\* A batch of deletes at the heights hs.
Without(f, hs) == [h \in Heights |-> IF h \in hs THEN NoBlock ELSE f[h]]

\* Mutant: the file keeps one slot too many.
BinTruncateShort(f, top) ==
  [h \in Heights |-> IF h <= top + 1 THEN f[h] ELSE NoBlock]

\* truncate_to_height: slots up to top survive.
BinTruncate(f, top) == [h \in Heights |-> IF h <= top THEN f[h] ELSE NoBlock]

\* dense_bytes_from_cf: one slot per canonical row, zero in the gaps.
DenseFromCf(rows) == [h \in Heights |-> rows[h]]

\* The entries I of the list bs written in order, each at its block's height:
\* the last one written at a height stays.
IsLastAt(bs, I, h, i) ==
  Height[bs[i]] = h /\ \A j \in I : Height[bs[j]] = h => j <= i

\* Mutant: the first one written at a height stays.
PutAllFirst(f, bs, I) ==
  [h \in Heights |-> IF \E i \in I : Height[bs[i]] = h
                       THEN bs[CHOOSE i \in I : /\ Height[bs[i]] = h
                                                /\ \A j \in I : Height[bs[j]] = h => i <= j]
                       ELSE f[h]]
PutAll(f, bs, I) ==
  [h \in Heights |-> IF \E i \in I : IsLastAt(bs, I, h, i)
                       THEN bs[CHOOSE i \in I : IsLastAt(bs, I, h, i)] ELSE f[h]]

-----------------------------------------------------------------------------
(***************************************************************************)
(* canonical_height_cache is bounded: an insert drops the lowest heights   *)
(* while there are too many entries.                                       *)
(***************************************************************************)
KeepHighest(c) ==
  [h \in Heights |-> IF Cardinality({k \in Held(c) : h <= k}) <= HeightCacheCapacity
                       THEN c[h] ELSE NoBlock]

\* insert_canonical_height_cache for each entry of new.
CacheInsert(c, new) ==
  IF HeightCacheCapacity = 0 \/ Held(new) = {}
    THEN c
    ELSE KeepHighest([h \in Heights |-> IF new[h] # NoBlock THEN new[h] ELSE c[h]])

CacheInsertOne(c, h, b) == CacheInsert(c, [NoIndex EXCEPT ![h] = b])

-----------------------------------------------------------------------------
(***************************************************************************)
(* get_hash_by_height in a loop.  lower is the answer of the two tiers     *)
(* below the cache and floor the pruning floor; c is the cache at the      *)
(* start.  HeightWalk checks these closed forms against the loop itself.   *)
(***************************************************************************)
LookupIn(c, lower, floor, h) ==
  IF h < floor THEN NoBlock ELSE IF c[h] # NoBlock THEN c[h] ELSE lower[h]

\* The misses that a walk over hs brings into the cache.
Misses(c, lower, floor, hs) ==
  [h \in Heights |-> IF h \in hs /\ h >= floor /\ c[h] = NoBlock
                       THEN lower[h] ELSE NoBlock]

\* The cache after the walk over hs.
ReadThrough(c, lower, floor, hs) == CacheInsert(c, Misses(c, lower, floor, hs))

\* In a walk down from top, the inserts above h push out the entry at h.
EvictedBefore(c, lower, floor, top, h) ==
  LET new == Held(Misses(c, lower, floor, (h + 1)..top))
  IN  /\ HeightCacheCapacity # 0
      /\ new # {}
      /\ Cardinality({k \in Held(c) : h <= k} \cup new) > HeightCacheCapacity

\* What a walk down from top reads at h.
WalkSees(c, lower, floor, top, h) ==
  IF c[h] # NoBlock /\ EvictedBefore(c, lower, floor, top, h)
    THEN LookupIn(NoIndex, lower, floor, h)
    ELSE LookupIn(c, lower, floor, h)

=============================================================================
