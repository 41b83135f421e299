------------------------- MODULE HeightIndexProofs -------------------------
(***************************************************************************)
(* Facts about the operators of HeightIndex: each result is an index, and  *)
(* each of its entries comes from a known place.                           *)
(***************************************************************************)
EXTENDS HeightIndex, WellFoundedInduction, TLAPS

\* A nonempty set of numbers has a least element.
LEMMA LeastNumber ==
  ASSUME NEW S \in SUBSET Nat, S # {}
  PROVE  \E k \in S : \A x \in S : k <= x
<1>1. PICK k \in S : \A x \in S : ~(<<x, k>> \in OpToRel(<, Nat))
  BY NatLessThanWellFounded, WFMin
<1>2. \A x \in S : ~(x < k) BY <1>1 DEF OpToRel
<1> QED BY <1>2

\* A set of numbers with 0 and with the successor of each member has them all.
LEMMA SuccessorClosed ==
  ASSUME NEW S, 0 \in S, \A n \in Nat : n \in S => n + 1 \in S
  PROVE  Nat \subseteq S
<1> SUFFICES ASSUME Nat \ S # {} PROVE FALSE
  OBVIOUS
<1>1. PICK k \in Nat \ S : \A x \in Nat \ S : k <= x BY LeastNumber
<1>2. k - 1 \in Nat /\ k - 1 \notin Nat \ S BY <1>1
<1> QED BY <1>1, <1>2

\* A nonempty set of heights has a highest member.
LEMMA HighestOf ==
  ASSUME NEW S \in SUBSET Heights, S # {}
  PROVE  \E m \in S : \A k \in S : k <= m
<1> DEFINE D == {MaxHeight - h : h \in S}
<1>1. \A h \in S : h \in Nat /\ h <= MaxHeight BY MaxHeightAssumption DEF Heights
<1>2. D \in SUBSET Nat /\ D # {} BY <1>1, MaxHeightAssumption
<1>3. PICK d \in D : \A x \in D : d <= x
  <2> HIDE DEF D
  <2> QED BY <1>2, LeastNumber
<1>4. PICK m \in S : d = MaxHeight - m OBVIOUS
<1>5. \A k \in S : MaxHeight - m <= MaxHeight - k BY <1>3, <1>4
<1> QED BY <1>1, <1>4, <1>5, MaxHeightAssumption

\* A block has a height, and it is not the absent block.
LEMMA BlockHeight ==
  ASSUME NEW b \in Blocks
  PROVE  b \in Slot /\ b # NoBlock /\ Height[b] \in Heights /\ Height[b] \in Nat
BY NoBlockAssumption, HeightAssumption, MaxHeightAssumption DEF Slot, Heights

\* The empty index has no entry.
LEMMA NoIndexType == NoIndex \in Index /\ \A h \in Heights : NoIndex[h] = NoBlock
BY DEF NoIndex, Index, Slot

\* Deleting rows (rollback_to_height, apply_reorg, prune_before_height).
LEMMA WithoutType ==
  ASSUME NEW f \in Index, NEW hs
  PROVE  /\ Without(f, hs) \in Index
         /\ \A h \in Heights : Without(f, hs)[h] = IF h \in hs THEN NoBlock ELSE f[h]
BY DEF Without, Index, Slot

\* Truncating canonical.bin.
LEMMA BinTruncateType ==
  ASSUME NEW f \in Index, NEW top \in Int
  PROVE  /\ BinTruncate(f, top) \in Index
         /\ \A h \in Heights : BinTruncate(f, top)[h] = IF h <= top THEN f[h] ELSE NoBlock
BY DEF BinTruncate, Index, Slot

\* Rebuilding canonical.bin gives the rows.
LEMMA DenseFromCfIsRows ==
  ASSUME NEW f \in Index
  PROVE  DenseFromCf(f) = f
BY DEF DenseFromCf, Index

\* After a list is written, an entry is an old one or a block of the list, at
\* its own height; which of the two does not depend on what was there before.
LEMMA PutAllEntries ==
  ASSUME NEW f \in Index, NEW bs, NEW I, \A i \in I : bs[i] \in Blocks
  PROVE  /\ PutAll(f, bs, I) \in Index
         /\ \A h \in Heights :
              \/ PutAll(f, bs, I)[h] = f[h]
              \/ \E i \in I : /\ PutAll(f, bs, I)[h] = bs[i]
                              /\ Height[bs[i]] = h
         /\ \A e \in Index, h \in Heights :
              \/ PutAll(e, bs, I)[h] = PutAll(f, bs, I)[h]
              \/ PutAll(e, bs, I)[h] = e[h] /\ PutAll(f, bs, I)[h] = f[h]
<1> DEFINE last(h) == CHOOSE i \in I : IsLastAt(bs, I, h, i)
           put(h) == \E i \in I : IsLastAt(bs, I, h, i)
<1>1. \A h \in Heights : put(h) => last(h) \in I /\ IsLastAt(bs, I, h, last(h))
  OBVIOUS
<1>2. \A h \in Heights : put(h) => bs[last(h)] \in Blocks /\ Height[bs[last(h)]] = h
  BY <1>1 DEF IsLastAt
<1>3. \A e \in Index, h \in Heights :
        PutAll(e, bs, I)[h] = IF put(h) THEN bs[last(h)] ELSE e[h]
  BY DEF PutAll
<1>4. PutAll(f, bs, I) \in Index
  <2>1. PutAll(f, bs, I) = [h \in Heights |-> IF put(h) THEN bs[last(h)] ELSE f[h]]
    BY DEF PutAll
  <2> HIDE DEF put, last
  <2>2. \A h \in Heights : (IF put(h) THEN bs[last(h)] ELSE f[h]) \in Slot
    BY <1>2 DEF Index, Slot
  <2> QED BY <2>1, <2>2 DEF Index
<1> HIDE DEF put, last
<1>5. \A h \in Heights : \/ PutAll(f, bs, I)[h] = f[h]
                         \/ \E i \in I : PutAll(f, bs, I)[h] = bs[i] /\ Height[bs[i]] = h
  <2> SUFFICES ASSUME NEW h \in Heights, put(h)
               PROVE  \E i \in I : PutAll(f, bs, I)[h] = bs[i] /\ Height[bs[i]] = h
    BY <1>3
  <2>1. last(h) \in I BY <1>1 DEF put, last
  <2> QED BY <2>1, <1>2, <1>3
<1> QED BY <1>3, <1>4, <1>5

\* The last block of the list at a height is the one that stays there, and a
\* height that the list does not name keeps its entry.
LEMMA PutAllLast ==
  ASSUME NEW f \in Index, NEW bs, NEW I \in SUBSET Int, \A i \in I : bs[i] \in Blocks
  PROVE  /\ \A i \in I : (\A j \in I : i < j => Height[bs[j]] # Height[bs[i]])
                          => PutAll(f, bs, I)[Height[bs[i]]] = bs[i]
         /\ \A h \in Heights : (\A i \in I : Height[bs[i]] # h)
                                => PutAll(f, bs, I)[h] = f[h]
<1>1. ASSUME NEW i \in I, \A j \in I : i < j => Height[bs[j]] # Height[bs[i]]
      PROVE  PutAll(f, bs, I)[Height[bs[i]]] = bs[i]
  <2> DEFINE h == Height[bs[i]]
  <2>1. h \in Heights BY HeightAssumption
  <2>2. IsLastAt(bs, I, h, i) BY <1>1 DEF IsLastAt
  <2>3. \A k \in I : IsLastAt(bs, I, h, k) => k = i BY <2>2 DEF IsLastAt
  <2>4. (CHOOSE k \in I : IsLastAt(bs, I, h, k)) = i BY <2>2, <2>3
  <2> QED BY <2>1, <2>2, <2>4 DEF PutAll
<1>2. ASSUME NEW h \in Heights, \A i \in I : Height[bs[i]] # h
      PROVE  PutAll(f, bs, I)[h] = f[h]
  BY <1>2 DEF PutAll, IsLastAt
<1> QED BY <1>1, <1>2

\* An insert into the bounded cache: an entry is an old one, a new one, or none.
LEMMA CacheInsertEntries ==
  ASSUME NEW c \in Index, NEW new \in Index
  PROVE  /\ CacheInsert(c, new) \in Index
         /\ \A h \in Heights : CacheInsert(c, new)[h] \in {NoBlock, c[h], new[h]}
         /\ \A h \in Heights : new[h] # NoBlock /\ HeightCacheCapacity # 0
              => CacheInsert(c, new)[h] \in {NoBlock, new[h]}
<1> DEFINE d == [h \in Heights |-> IF new[h] # NoBlock THEN new[h] ELSE c[h]]
<1>1. d \in Index
  BY DEF Index, Slot
<1>2. /\ KeepHighest(d) \in Index
      /\ \A h \in Heights : KeepHighest(d)[h] \in {NoBlock, d[h]}
  <2> HIDE DEF d
  <2>1. NoBlock \in Slot BY DEF Slot
  <2> QED BY <1>1, <2>1 DEF KeepHighest, Index
<1>3. \A h \in Heights : new[h] # NoBlock => h \in Held(new)
  BY DEF Held
<1>4. CASE HeightCacheCapacity = 0 \/ Held(new) = {}
  <2>1. CacheInsert(c, new) = c BY <1>4 DEF CacheInsert
  <2> QED BY <2>1, <1>3, <1>4
<1>5. CASE ~(HeightCacheCapacity = 0 \/ Held(new) = {})
  <2>1. CacheInsert(c, new) = KeepHighest(d) BY <1>5 DEF CacheInsert
  <2>2. \A h \in Heights : d[h] = IF new[h] # NoBlock THEN new[h] ELSE c[h] OBVIOUS
  <2> HIDE DEF d
  <2> QED BY <2>1, <2>2, <1>2
<1> QED BY <1>4, <1>5

\* The same for one entry.
LEMMA CacheInsertOneEntries ==
  ASSUME NEW c \in Index, NEW k \in Heights, NEW b \in Blocks
  PROVE  /\ CacheInsertOne(c, k, b) \in Index
         /\ \A h \in Heights : h # k => CacheInsertOne(c, k, b)[h] \in {NoBlock, c[h]}
         /\ CacheInsertOne(c, k, b)[k] \in {NoBlock, c[k], b}
         /\ HeightCacheCapacity # 0 => CacheInsertOne(c, k, b)[k] \in {NoBlock, b}
<1> DEFINE new == [NoIndex EXCEPT ![k] = b]
<1>1. new \in Index /\ \A h \in Heights : new[h] = IF h = k THEN b ELSE NoBlock
  BY BlockHeight DEF NoIndex, Index, Slot
<1>2. CacheInsertOne(c, k, b) = CacheInsert(c, new) BY DEF CacheInsertOne
<1>3. b # NoBlock BY BlockHeight
<1> HIDE DEF new
<1> QED BY <1>1, <1>2, <1>3, CacheInsertEntries

\* get_hash_by_height answers from the cache or from the tiers below it.
LEMMA LookupInEntries ==
  ASSUME NEW c \in Index, NEW lower \in Index, NEW floor \in Int, NEW h \in Heights
  PROVE  /\ LookupIn(c, lower, floor, h) \in Slot
         /\ LookupIn(c, lower, floor, h) # NoBlock =>
              h >= floor /\ LookupIn(c, lower, floor, h) \in {c[h], lower[h]}
BY MaxHeightAssumption DEF LookupIn, Index, Slot, Heights

\* A loop of lookups fills the cache with what it found below, at or above the
\* pruning floor, and leaves the other entries as they were or drops them.
LEMMA ReadThroughEntries ==
  ASSUME NEW c \in Index, NEW lower \in Index, NEW floor \in Int, NEW hs
  PROVE  /\ ReadThrough(c, lower, floor, hs) \in Index
         /\ \A h \in Heights :
              \/ ReadThrough(c, lower, floor, hs)[h] \in {NoBlock, c[h]}
              \/ h >= floor /\ ReadThrough(c, lower, floor, hs)[h] = lower[h]
<1> DEFINE m == Misses(c, lower, floor, hs)
<1>1. /\ m \in Index
      /\ \A h \in Heights : m[h] = NoBlock \/ (h >= floor /\ m[h] = lower[h])
  BY DEF Misses, Index, Slot
<1>2. ReadThrough(c, lower, floor, hs) = CacheInsert(c, m) BY DEF ReadThrough
<1> HIDE DEF m
<1> QED BY <1>1, <1>2, CacheInsertEntries

\* What a downward walk reads at h comes from the cache or from below.
LEMMA WalkSeesEntries ==
  ASSUME NEW c \in Index, NEW lower \in Index, NEW floor \in Int, NEW top,
         NEW h \in Heights
  PROVE  /\ WalkSees(c, lower, floor, top, h) \in Slot
         /\ WalkSees(c, lower, floor, top, h) # NoBlock =>
              /\ h >= floor
              /\ WalkSees(c, lower, floor, top, h) \in {c[h], lower[h]}
<1>1. NoIndex \in Index /\ NoIndex[h] = NoBlock BY NoIndexType
<1>2. WalkSees(c, lower, floor, top, h) \in
        {LookupIn(NoIndex, lower, floor, h), LookupIn(c, lower, floor, h)}
  BY DEF WalkSees
<1> QED BY <1>1, <1>2, LookupInEntries

=============================================================================
