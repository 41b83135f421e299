-------------------------- MODULE HeightWalkProofs --------------------------
(***************************************************************************)
(* The closed forms ReadThrough and WalkSees of HeightIndex compute what   *)
(* the loop of get_hash_by_height calls does, for every cache, capacity,   *)
(* floor and range of heights.                                             *)
(***************************************************************************)
EXTENDS HeightWalk, HeightIndexProofs, FiniteSetTheorems

-----------------------------------------------------------------------------
(***************************************************************************)
(* Keeping the highest entries of a cache.  An entry stays if at most      *)
(* HeightCacheCapacity entries are at its height or above.                 *)
(***************************************************************************)

\* The members of S that are not below h.
Above(S, h) == {k \in S : h <= k}

\* The members of S that a full cache keeps.
Kept(S) == {k \in S : Cardinality(Above(S, k)) <= HeightCacheCapacity}

\* Sets of heights are finite, and smaller sets have fewer members.
LEMMA HeightSets ==
  ASSUME NEW S \in SUBSET Heights
  PROVE  /\ IsFiniteSet(S) /\ Cardinality(S) \in Nat
         /\ \A T \in SUBSET S : Cardinality(T) \in Nat /\ Cardinality(T) <= Cardinality(S)
         /\ \A x \in Heights : x \notin S => Cardinality(S \cup {x}) = Cardinality(S) + 1
<1>1. IsFiniteSet(Heights) BY MaxHeightAssumption, FS_Interval DEF Heights
<1>2. IsFiniteSet(S) BY <1>1, FS_Subset
<1>3. \A T \in SUBSET S : IsFiniteSet(T) /\ Cardinality(T) <= Cardinality(S) BY <1>2, FS_Subset
<1>4. \A T : IsFiniteSet(T) => Cardinality(T) \in Nat BY FS_CardinalityType
<1>5. \A x \in Heights : x \notin S => Cardinality(S \cup {x}) = Cardinality(S) + 1
  BY <1>2, FS_AddElement
<1> QED BY <1>2, <1>3, <1>4, <1>5

\* The members above a height, and above a higher one.
LEMMA AboveSets ==
  ASSUME NEW S \in SUBSET Heights, NEW h \in Heights
  PROVE  /\ Above(S, h) \in SUBSET Heights /\ Above(S, h) \in SUBSET S
         /\ Cardinality(Above(S, h)) \in Nat
         /\ \A k \in Heights : h <= k => Above(S, k) \in SUBSET Above(S, h)
<1>1. \A k \in Heights : k \in Int BY DEF Heights
<1>2. Above(S, h) \in SUBSET Heights /\ Above(S, h) \in SUBSET S BY DEF Above
<1>3. Cardinality(Above(S, h)) \in Nat BY <1>2, HeightSets
<1>4. \A k \in Heights : h <= k => Above(S, k) \in SUBSET Above(S, h) BY <1>1 DEF Above
<1> QED BY <1>2, <1>3, <1>4

\* What is kept at h decides what is kept above it.
LEMMA KeptUpwards ==
  ASSUME NEW S \in SUBSET Heights, NEW h \in Heights,
         Cardinality(Above(S, h)) <= HeightCacheCapacity
  PROVE  Above(Kept(S), h) = Above(S, h)
<1>1. ASSUME NEW k \in Above(S, h) PROVE k \in Kept(S)
  <2>1. k \in S /\ k \in Heights /\ h <= k BY <1>1 DEF Above
  <2>2. Above(S, k) \in SUBSET Above(S, h) /\ Above(S, h) \in SUBSET Heights
    BY <2>1, AboveSets
  <2>3. Cardinality(Above(S, k)) <= Cardinality(Above(S, h)) BY <2>2, HeightSets
  <2>4. Cardinality(Above(S, k)) \in Nat /\ Cardinality(Above(S, h)) \in Nat
    BY <2>1, AboveSets
  <2>5. Cardinality(Above(S, k)) <= HeightCacheCapacity
    BY <2>3, <2>4, CapacityAssumption
  <2> QED BY <2>1, <2>5 DEF Kept
<1> QED BY <1>1 DEF Above, Kept

\* If there are as many members above h as the capacity, a full cache keeps as
\* many of them as the capacity.
LEMMA KeptFills ==
  ASSUME NEW S \in SUBSET Heights, NEW h \in Heights,
         Cardinality(Above(S, h)) >= HeightCacheCapacity
  PROVE  Cardinality(Above(Kept(S), h)) >= HeightCacheCapacity
<1> DEFINE lost == Above(S, h) \ Kept(S)
<1>1. Kept(S) \in SUBSET S /\ Kept(S) \in SUBSET Heights BY DEF Kept
<1>2. HeightCacheCapacity \in Nat BY CapacityAssumption
<1>3. CASE lost = {}
  <2>1. Above(Kept(S), h) = Above(S, h) BY <1>1, <1>3 DEF Above
  <2> QED BY <2>1
<1>4. CASE lost # {}
  <2>1. lost \in SUBSET Heights BY DEF Above
  <2>2. PICK m \in lost : \A k \in lost : k <= m BY <1>4, <2>1, HighestOf
  <2> DEFINE over == {k \in S : m < k}
  <2>3. m \in S /\ m \in Heights /\ h <= m /\ m \notin Kept(S) BY <2>2 DEF Above
  <2>4. \A k \in Heights : k \in Int BY DEF Heights
  <2>5. over \in SUBSET Heights /\ m \notin over BY <2>3, <2>4
  <2>6. Above(S, m) = over \cup {m} BY <2>3, <2>4 DEF Above
  <2>7. Cardinality(Above(S, m)) = Cardinality(over) + 1
    <3> HIDE DEF over
    <3> QED BY <2>3, <2>5, <2>6, HeightSets
  <2>8. Cardinality(Above(S, m)) > HeightCacheCapacity
    <3>1. ~(Cardinality(Above(S, m)) <= HeightCacheCapacity) BY <2>3 DEF Kept
    <3>2. Cardinality(Above(S, m)) \in Nat BY <2>3, AboveSets
    <3> QED BY <1>2, <3>1, <3>2
  <2>9. over \in SUBSET Above(Kept(S), h)
    <3> SUFFICES ASSUME NEW k \in over PROVE k \in Above(Kept(S), h) OBVIOUS
    <3>1. k \in S /\ k \in Int /\ m < k /\ m \in Int /\ h \in Int BY <2>3, <2>4
    <3>2. h <= k /\ ~(k <= m) BY <2>3, <3>1
    <3>3. k \notin lost BY <2>2, <3>2
    <3>4. k \in Above(S, h) BY <3>1, <3>2 DEF Above
    <3>5. k \in Kept(S) BY <3>3, <3>4
    <3> QED BY <3>2, <3>5 DEF Above
  <2> HIDE DEF over
  <2>10. Above(Kept(S), h) \in SUBSET Heights BY <1>1, AboveSets
  <2>11. Cardinality(over) <= Cardinality(Above(Kept(S), h)) BY <2>9, <2>10, HeightSets
  <2>12. Cardinality(over) \in Nat /\ Cardinality(Above(Kept(S), h)) \in Nat
    BY <2>5, <2>10, HeightSets
  <2> QED BY <1>2, <2>7, <2>8, <2>11, <2>12
<1> QED BY <1>3, <1>4

\* KeepHighest in these terms.
LEMMA KeepHighestKeeps ==
  ASSUME NEW c \in Index
  PROVE  /\ Held(c) \in SUBSET Heights
         /\ \A h \in Heights : h \in Held(c) <=> c[h] # NoBlock
         /\ KeepHighest(c) \in Index
         /\ \A h \in Heights : KeepHighest(c)[h] = IF h \in Kept(Held(c)) THEN c[h] ELSE NoBlock
         /\ Held(KeepHighest(c)) = Kept(Held(c))
<1>1. Held(c) \in SUBSET Heights /\ \A h \in Heights : h \in Held(c) <=> c[h] # NoBlock
  BY DEF Held
<1>2. \A h \in Heights : c[h] \in Slot /\ NoBlock \in Slot BY DEF Index, Slot
<1>3. KeepHighest(c) =
        [h \in Heights |-> IF Cardinality(Above(Held(c), h)) <= HeightCacheCapacity
                             THEN c[h] ELSE NoBlock]
  BY DEF KeepHighest, Above
<1>4. \A h \in Heights : KeepHighest(c)[h] = IF h \in Kept(Held(c)) THEN c[h] ELSE NoBlock
  BY <1>1, <1>3 DEF Kept
<1>5. KeepHighest(c) \in Index BY <1>2, <1>3 DEF Index
<1>6. Held(KeepHighest(c)) = Kept(Held(c))
  <2>1. Kept(Held(c)) \in SUBSET Held(c) BY DEF Kept
  <2>2. \A h \in Heights : KeepHighest(c)[h] # NoBlock <=> h \in Kept(Held(c))
    BY <1>1, <1>4, <2>1
  <2>3. Held(KeepHighest(c)) = {h \in Heights : KeepHighest(c)[h] # NoBlock} BY DEF Held
  <2> QED BY <1>1, <2>1, <2>2, <2>3
<1> QED BY <1>1, <1>4, <1>5, <1>6

\* Two indexes are equal when their entries are.
LEMMA IndexEqual ==
  ASSUME NEW c \in Index, NEW d \in Index, \A h \in Heights : c[h] = d[h]
  PROVE  c = d
BY DEF Index

\* The entry at q set to x, or removed.
Put(c, q, x) == [c EXCEPT ![q] = x]

\* The other entries stay, and the heights that are then held.
LEMMA HeldPut ==
  ASSUME NEW c \in Index, NEW q \in Heights, NEW x \in Slot
  PROVE  /\ Put(c, q, x) \in Index
         /\ \A h \in Heights : Put(c, q, x)[h] = IF h = q THEN x ELSE c[h]
         /\ x # NoBlock => Held(Put(c, q, x)) = Held(c) \cup {q}
         /\ x = NoBlock => Held(Put(c, q, x)) = Held(c) \ {q}
<1>1. /\ Put(c, q, x) \in Index
      /\ \A h \in Heights : Put(c, q, x)[h] = IF h = q THEN x ELSE c[h]
  BY DEF Put, Index
<1>2. x # NoBlock => Held(Put(c, q, x)) = Held(c) \cup {q} BY <1>1 DEF Held
<1>3. x = NoBlock => Held(Put(c, q, x)) = Held(c) \ {q} BY <1>1 DEF Held
<1> QED BY <1>1, <1>2, <1>3

\* What a full cache keeps does not change when the lowest entry goes: one turn
\* of the eviction loop.
LEMMA KeptWithoutLowest ==
  ASSUME NEW S \in SUBSET Heights, NEW l \in S, \A k \in S : l <= k,
         Cardinality(S) > HeightCacheCapacity
  PROVE  Kept(S \ {l}) = Kept(S)
<1>1. \A k \in Heights : k \in Int BY DEF Heights
<1>2. Above(S, l) = S BY DEF Above
<1>3. Cardinality(S) \in Nat /\ HeightCacheCapacity \in Nat BY HeightSets, CapacityAssumption
<1>4. l \notin Kept(S) BY <1>2, <1>3 DEF Kept
<1>5. \A k \in S \ {l} : Above(S \ {l}, k) = Above(S, k)
  <2> SUFFICES ASSUME NEW k \in S \ {l} PROVE l \notin Above(S, k) BY DEF Above
  <2> QED BY <1>1 DEF Above
<1>6. Kept(S \ {l}) \subseteq S \ {l} /\ Kept(S) \subseteq S \ {l} BY <1>4 DEF Kept
<1>7. \A k \in S \ {l} : k \in Kept(S \ {l}) <=> k \in Kept(S) BY <1>5 DEF Kept
<1> QED BY <1>6, <1>7

\* A set that fits is kept as it is: the end of the eviction loop.
LEMMA KeptAll ==
  ASSUME NEW S \in SUBSET Heights, Cardinality(S) <= HeightCacheCapacity
  PROVE  Kept(S) = S
<1>1. ASSUME NEW k \in S PROVE k \in Kept(S)
  <2>1. Above(S, k) \in SUBSET S /\ Cardinality(Above(S, k)) \in Nat BY AboveSets
  <2>2. Cardinality(Above(S, k)) <= Cardinality(S) BY <2>1, HeightSets
  <2>3. Cardinality(Above(S, k)) <= HeightCacheCapacity
    BY <2>1, <2>2, HeightSets, CapacityAssumption
  <2> QED BY <2>3 DEF Kept
<1> QED BY <1>1 DEF Kept

\* One more height above h is one more member of the set above h.
LEMMA AboveAdd ==
  ASSUME NEW S \in SUBSET Heights, NEW q \in Heights, q \notin S
  PROVE  Cardinality(Above(S \cup {q}, q)) = Cardinality(Above(S, q)) + 1
<1>1. q \in Int BY DEF Heights
<1>2. Above(S \cup {q}, q) = Above(S, q) \cup {q} BY <1>1 DEF Above
<1>3. Above(S, q) \in SUBSET Heights /\ q \notin Above(S, q) BY AboveSets DEF Above
<1> QED BY <1>2, <1>3, HeightSets

\* Adding a height to what was kept, or to everything, keeps the same heights:
\* evicting after each insert is evicting once at the end.
LEMMA KeptAdd ==
  ASSUME NEW S \in SUBSET Heights, NEW q \in Heights, q \notin S
  PROVE  Kept(Kept(S) \cup {q}) = Kept(S \cup {q})
<1> DEFINE A == Kept(S) \cup {q}
           B == S \cup {q}
<1>1. A \in SUBSET Heights /\ B \in SUBSET Heights /\ A \in SUBSET B BY DEF Kept
<1>2. HeightCacheCapacity \in Nat BY CapacityAssumption
<1>3. ASSUME NEW h \in Kept(S) PROVE h \in Kept(A) <=> h \in Kept(B)
  <2>1. h \in Heights /\ Above(Kept(S), h) = Above(S, h) BY KeptUpwards DEF Kept
  <2>2. Above(A, h) = Above(B, h) BY <2>1 DEF Above
  <2>3. h \in A /\ h \in B BY DEF Kept
  <2> QED BY <2>2, <2>3 DEF Kept
<1>4. q \in Kept(A) <=> q \in Kept(B)
  <2>1. Kept(S) \in SUBSET Heights /\ q \notin Kept(S) BY DEF Kept
  <2>2. Cardinality(Above(A, q)) = Cardinality(Above(Kept(S), q)) + 1 BY <2>1, AboveAdd
  <2>3. Cardinality(Above(B, q)) = Cardinality(Above(S, q)) + 1 BY AboveAdd
  <2>4. Cardinality(Above(Kept(S), q)) \in Nat /\ Cardinality(Above(S, q)) \in Nat
    BY <2>1, AboveSets
  <2>5. Cardinality(Above(Kept(S), q)) <= Cardinality(Above(S, q))
    <3>1. Above(Kept(S), q) \in SUBSET Above(S, q) BY DEF Above, Kept
    <3>2. Above(S, q) \in SUBSET Heights BY AboveSets
    <3> QED BY <3>1, <3>2, HeightSets
  <2>6. Cardinality(Above(S, q)) >= HeightCacheCapacity
          => Cardinality(Above(Kept(S), q)) >= HeightCacheCapacity
    BY KeptFills
  <2>7. Cardinality(Above(A, q)) <= HeightCacheCapacity
          <=> Cardinality(Above(B, q)) <= HeightCacheCapacity
    BY <1>2, <2>2, <2>3, <2>4, <2>5, <2>6
  <2> QED BY <2>7 DEF Kept
<1>5. ASSUME NEW h \in B, h \notin A PROVE h \notin Kept(A) /\ h \notin Kept(B)
  <2>1. h \in S /\ h \in Heights /\ h \notin Kept(S) BY <1>5
  <2>2. ~(Cardinality(Above(S, h)) <= HeightCacheCapacity) BY <2>1 DEF Kept
  <2>3. Above(S, h) \in SUBSET Above(B, h) BY DEF Above
  <2>4. Above(B, h) \in SUBSET Heights BY <1>1, <2>1, AboveSets
  <2>5. Cardinality(Above(S, h)) <= Cardinality(Above(B, h)) BY <2>3, <2>4, HeightSets
  <2>6. Cardinality(Above(S, h)) \in Nat /\ Cardinality(Above(B, h)) \in Nat
    BY <1>1, <2>1, AboveSets
  <2>7. ~(Cardinality(Above(B, h)) <= HeightCacheCapacity)
    BY <1>2, <2>2, <2>5, <2>6
  <2> QED BY <1>5, <2>7 DEF Kept
<1>6. Kept(A) \subseteq A /\ Kept(B) \subseteq B BY DEF Kept
<1>7. \A h \in B : h \in Kept(A) <=> h \in Kept(B)
  <2> SUFFICES ASSUME NEW h \in B PROVE h \in Kept(A) <=> h \in Kept(B) OBVIOUS
  <2>1. h \in Kept(S) \/ h = q \/ h \notin A OBVIOUS
  <2> HIDE DEF A, B
  <2> QED BY <1>3, <1>4, <1>5, <2>1
<1> HIDE DEF A, B
<1>8. Kept(A) = Kept(B) BY <1>1, <1>6, <1>7
<1> QED BY <1>8 DEF A, B

\* A height that was pushed out before is pushed out again when it is added.
LEMMA KeptAddAgain ==
  ASSUME NEW S \in SUBSET Heights, NEW q \in S, q \notin Kept(S)
  PROVE  Kept(Kept(S) \cup {q}) = Kept(S)
<1> DEFINE A == Kept(S) \cup {q}
<1>1. Kept(S) \in SUBSET Heights /\ q \in Heights /\ A \in SUBSET Heights BY DEF Kept
<1>2. HeightCacheCapacity \in Nat /\ \A k \in Heights : k \in Int
  BY CapacityAssumption DEF Heights
<1>3. Cardinality(Above(S, q)) > HeightCacheCapacity
  <2>1. ~(Cardinality(Above(S, q)) <= HeightCacheCapacity) BY DEF Kept
  <2> QED BY <1>1, <1>2, <2>1, AboveSets
<1>4. q \notin Kept(A)
  <2>1. Cardinality(Above(S, q)) >= HeightCacheCapacity BY <1>1, <1>2, <1>3, AboveSets
  <2>2. Cardinality(Above(Kept(S), q)) >= HeightCacheCapacity BY <1>1, <2>1, KeptFills
  <2>3. Cardinality(Above(A, q)) = Cardinality(Above(Kept(S), q)) + 1 BY <1>1, AboveAdd
  <2>4. Cardinality(Above(Kept(S), q)) \in Nat BY <1>1, AboveSets
  <2>5. ~(Cardinality(Above(A, q)) <= HeightCacheCapacity) BY <1>2, <2>2, <2>3, <2>4
  <2> QED BY <2>5 DEF Kept
<1>5. ASSUME NEW h \in Kept(S) PROVE h \in Kept(A)
  <2>1. h \in S /\ h \in Heights /\ Cardinality(Above(S, h)) <= HeightCacheCapacity
    BY DEF Kept
  <2>2. ~(h <= q)
    <3> SUFFICES ASSUME h <= q PROVE FALSE OBVIOUS
    <3>1. Above(S, q) \in SUBSET Above(S, h) /\ Above(S, h) \in SUBSET Heights
      BY <1>1, <2>1, AboveSets
    <3>2. Cardinality(Above(S, q)) <= Cardinality(Above(S, h)) BY <3>1, HeightSets
    <3>3. Cardinality(Above(S, q)) \in Nat /\ Cardinality(Above(S, h)) \in Nat
      BY <1>1, <2>1, AboveSets
    <3> QED BY <1>2, <1>3, <2>1, <3>2, <3>3
  <2>3. Above(A, h) = Above(Kept(S), h) BY <2>2 DEF Above
  <2>4. Above(Kept(S), h) = Above(S, h) BY <2>1, KeptUpwards
  <2> QED BY <2>1, <2>3, <2>4 DEF Kept
<1>6. Kept(A) \subseteq A BY DEF Kept
<1> HIDE DEF A
<1>7. Kept(A) = Kept(S) BY <1>4, <1>5, <1>6 DEF A
<1> QED BY <1>7 DEF A

-----------------------------------------------------------------------------
(***************************************************************************)
(* The eviction loop of insert_canonical_height_cache and KeepHighest.     *)
(***************************************************************************)

\* Removing the lowest entry of a cache that is too large.
LEMMA KeepHighestEvict ==
  ASSUME NEW c \in Index, NEW l \in Held(c), \A k \in Held(c) : l <= k,
         Cardinality(Held(c)) > HeightCacheCapacity
  PROVE  KeepHighest(Put(c, l, NoBlock)) = KeepHighest(c)
<1> DEFINE d == Put(c, l, NoBlock)
<1>1. Held(c) \in SUBSET Heights /\ l \in Heights /\ NoBlock \in Slot BY DEF Held, Slot
<1>2. /\ d \in Index /\ Held(d) = Held(c) \ {l}
      /\ \A h \in Heights : d[h] = IF h = l THEN NoBlock ELSE c[h]
  BY <1>1, HeldPut
<1>3. Kept(Held(d)) = Kept(Held(c)) BY <1>1, <1>2, KeptWithoutLowest
<1>4. l \notin Kept(Held(d)) BY <1>2 DEF Kept
<1> HIDE DEF d
<1>5. \A h \in Heights : KeepHighest(d)[h] = KeepHighest(c)[h]
  <2>1. \A h \in Heights :
          KeepHighest(d)[h] = IF h \in Kept(Held(d)) THEN d[h] ELSE NoBlock
    BY <1>2, KeepHighestKeeps
  <2>2. \A h \in Heights :
          KeepHighest(c)[h] = IF h \in Kept(Held(c)) THEN c[h] ELSE NoBlock
    BY KeepHighestKeeps
  <2> QED BY <1>2, <1>3, <1>4, <2>1, <2>2
<1>6. KeepHighest(d) = KeepHighest(c) BY <1>2, <1>5, KeepHighestKeeps, IndexEqual
<1> QED BY <1>6 DEF d

\* A cache that fits.
LEMMA KeepHighestFits ==
  ASSUME NEW c \in Index, Cardinality(Held(c)) <= HeightCacheCapacity
  PROVE  KeepHighest(c) = c
<1>1. Held(c) \in SUBSET Heights BY DEF Held
<1>2. Kept(Held(c)) = Held(c) BY <1>1, KeptAll
<1>3. \A h \in Heights : KeepHighest(c)[h] = c[h] BY <1>2, KeepHighestKeeps
<1> QED BY <1>3, KeepHighestKeeps, IndexEqual

\* A new entry at a height that was free.
LEMMA KeepHighestAdd ==
  ASSUME NEW c \in Index, NEW q \in Heights, NEW x \in Blocks, c[q] = NoBlock
  PROVE  KeepHighest(Put(KeepHighest(c), q, x)) = KeepHighest(Put(c, q, x))
<1> DEFINE k == KeepHighest(c)
           d == Put(k, q, x)
           e == Put(c, q, x)
<1>1. /\ Held(c) \in SUBSET Heights /\ q \notin Held(c)
      /\ k \in Index /\ Held(k) = Kept(Held(c))
      /\ \A h \in Heights : k[h] = IF h \in Kept(Held(c)) THEN c[h] ELSE NoBlock
  BY KeepHighestKeeps
<1>2. x \in Slot /\ x # NoBlock BY BlockHeight
<1> HIDE DEF k
<1>3. /\ d \in Index /\ Held(d) = Held(k) \cup {q}
      /\ \A h \in Heights : d[h] = IF h = q THEN x ELSE k[h]
  BY <1>1, <1>2, HeldPut DEF d
<1>4. /\ e \in Index /\ Held(e) = Held(c) \cup {q}
      /\ \A h \in Heights : e[h] = IF h = q THEN x ELSE c[h]
  BY <1>2, HeldPut
<1> HIDE DEF d, e
<1>5. Kept(Held(d)) = Kept(Held(e)) BY <1>1, <1>3, <1>4, KeptAdd
<1>6. \A h \in Heights : KeepHighest(d)[h] = KeepHighest(e)[h]
  <2> SUFFICES ASSUME NEW h \in Heights PROVE KeepHighest(d)[h] = KeepHighest(e)[h]
    OBVIOUS
  <2>1. h \in Kept(Held(d)) => h = q \/ h \in Kept(Held(c)) BY <1>1, <1>3 DEF Kept
  <2>2. h \in Kept(Held(d)) => d[h] = e[h] BY <1>1, <1>3, <1>4, <2>1
  <2>3. KeepHighest(d)[h] = IF h \in Kept(Held(d)) THEN d[h] ELSE NoBlock
    BY <1>3, KeepHighestKeeps
  <2>4. KeepHighest(e)[h] = IF h \in Kept(Held(e)) THEN e[h] ELSE NoBlock
    BY <1>4, KeepHighestKeeps
  <2> QED BY <1>5, <2>2, <2>3, <2>4
<1>7. KeepHighest(d) = KeepHighest(e) BY <1>3, <1>4, <1>6, KeepHighestKeeps, IndexEqual
<1> QED BY <1>7 DEF d, e, k

\* A new entry at a height whose entry had been evicted is evicted in its turn.
LEMMA KeepHighestAddAgain ==
  ASSUME NEW c \in Index, NEW q \in Heights, NEW x \in Blocks, c[q] # NoBlock,
         KeepHighest(c)[q] = NoBlock
  PROVE  KeepHighest(Put(KeepHighest(c), q, x)) = KeepHighest(c)
<1> DEFINE k == KeepHighest(c)
           d == Put(k, q, x)
<1>1. /\ Held(c) \in SUBSET Heights /\ q \in Held(c)
      /\ k \in Index /\ Held(k) = Kept(Held(c))
      /\ \A h \in Heights : k[h] = IF h \in Kept(Held(c)) THEN c[h] ELSE NoBlock
  BY KeepHighestKeeps
<1>2. x \in Slot /\ x # NoBlock BY BlockHeight
<1>3. k[q] = NoBlock OBVIOUS
<1> HIDE DEF k
<1>4. q \notin Kept(Held(c)) BY <1>1, <1>3
<1>5. /\ d \in Index /\ Held(d) = Held(k) \cup {q}
      /\ \A h \in Heights : d[h] = IF h = q THEN x ELSE k[h]
  BY <1>1, <1>2, HeldPut
<1> HIDE DEF d
<1>6. Kept(Held(d)) = Kept(Held(c)) BY <1>1, <1>4, <1>5, KeptAddAgain
<1>7. \A h \in Heights : KeepHighest(d)[h] = k[h]
  <2>1. \A h \in Heights :
          KeepHighest(d)[h] = IF h \in Kept(Held(d)) THEN d[h] ELSE NoBlock
    BY <1>5, KeepHighestKeeps
  <2> QED BY <1>1, <1>4, <1>5, <1>6, <2>1
<1>8. KeepHighest(d) = k BY <1>1, <1>5, <1>7, KeepHighestKeeps, IndexEqual
<1> QED BY <1>8 DEF d, k

-----------------------------------------------------------------------------
(***************************************************************************)
(* One get_hash_by_height of the loop and the closed forms.                *)
(***************************************************************************)

\* The cache c with the misses of a walk over hs put in and nothing evicted.
Overlay(c, low, flr, hs) ==
  [h \in Heights |-> IF Misses(c, low, flr, hs)[h] # NoBlock
                       THEN Misses(c, low, flr, hs)[h] ELSE c[h]]

\* The misses are an index, only of heights that were free, and ReadThrough is
\* the overlay with the lowest entries evicted.
LEMMA OverlayFacts ==
  ASSUME NEW c \in Index, NEW low \in Index, NEW flr \in Heights, NEW hs
  PROVE  /\ Misses(c, low, flr, hs) \in Index
         /\ \A h \in Heights : Misses(c, low, flr, hs)[h] =
              IF h \in hs /\ h >= flr /\ c[h] = NoBlock THEN low[h] ELSE NoBlock
         /\ Overlay(c, low, flr, hs) \in Index
         /\ \A h \in Heights : Overlay(c, low, flr, hs)[h] =
              IF h \in hs /\ h >= flr /\ c[h] = NoBlock THEN low[h] ELSE c[h]
         /\ ReadThrough(c, low, flr, hs) =
              IF HeightCacheCapacity = 0 \/ Held(Misses(c, low, flr, hs)) = {}
                THEN c ELSE KeepHighest(Overlay(c, low, flr, hs))
<1> DEFINE m == Misses(c, low, flr, hs)
           o == Overlay(c, low, flr, hs)
<1>1. /\ m \in Index
      /\ \A h \in Heights :
           m[h] = IF h \in hs /\ h >= flr /\ c[h] = NoBlock THEN low[h] ELSE NoBlock
  BY DEF Misses, Index, Slot
<1>2. o = [h \in Heights |-> IF m[h] # NoBlock THEN m[h] ELSE c[h]] BY DEF Overlay
<1>3. ReadThrough(c, low, flr, hs) =
        IF HeightCacheCapacity = 0 \/ Held(m) = {} THEN c ELSE KeepHighest(o)
  BY DEF ReadThrough, CacheInsert, Overlay
<1> HIDE DEF m, o
<1>4. o \in Index BY <1>1, <1>2 DEF Index
<1>5. \A h \in Heights :
        o[h] = IF h \in hs /\ h >= flr /\ c[h] = NoBlock THEN low[h] ELSE c[h]
  BY <1>1, <1>2
<1> QED BY <1>1, <1>3, <1>4, <1>5 DEF m, o

\* A read that inserts nothing leaves ReadThrough as it was.
LEMMA NoInsertStep ==
  ASSUME NEW c \in Index, NEW low \in Index, NEW flr \in Heights, NEW hs,
         NEW q \in Heights, q \notin hs,
         \/ q < flr
         \/ ReadThrough(c, low, flr, hs)[q] # NoBlock
         \/ low[q] = NoBlock
         \/ HeightCacheCapacity = 0
  PROVE  ReadThrough(c, low, flr, hs \cup {q}) = ReadThrough(c, low, flr, hs)
<1> DEFINE m == Misses(c, low, flr, hs)
           n == Misses(c, low, flr, hs \cup {q})
<1>1. CASE HeightCacheCapacity = 0 BY <1>1, OverlayFacts
<1>2. CASE q < flr \/ c[q] # NoBlock \/ low[q] = NoBlock
  <2>1. m \in Index /\ n \in Index BY OverlayFacts
  <2>2. \A h \in Heights : n[h] = m[h]
    <3>1. ~(q >= flr) \/ c[q] # NoBlock \/ low[q] = NoBlock BY <1>2 DEF Heights
    <3> QED BY <3>1, OverlayFacts
  <2> HIDE DEF m, n
  <2>3. m = n BY <2>1, <2>2, IndexEqual
  <2> QED BY <2>3 DEF ReadThrough, m, n
<1>3. CASE ReadThrough(c, low, flr, hs)[q] # NoBlock
  <2>1. m \in Index /\ m[q] = NoBlock BY OverlayFacts
  <2>2. ReadThrough(c, low, flr, hs) = CacheInsert(c, m) BY DEF ReadThrough
  <2> HIDE DEF m
  <2>3. ReadThrough(c, low, flr, hs)[q] \in {NoBlock, c[q], m[q]}
    BY <2>1, <2>2, CacheInsertEntries
  <2>4. c[q] # NoBlock BY <1>3, <2>1, <2>3
  <2> QED BY <1>2, <2>4
<1> QED BY <1>1, <1>2, <1>3

\* A read that inserts, followed by its evictions, is ReadThrough of one height
\* more, whether the height was free or its entry had been evicted before.
LEMMA InsertStep ==
  ASSUME NEW c \in Index, NEW low \in Index, NEW flr \in Heights, NEW hs,
         NEW q \in Heights, q \notin hs, q >= flr, low[q] # NoBlock,
         ReadThrough(c, low, flr, hs)[q] = NoBlock, HeightCacheCapacity # 0
  PROVE  KeepHighest(Put(ReadThrough(c, low, flr, hs), q, low[q]))
           = ReadThrough(c, low, flr, hs \cup {q})
<1> DEFINE hq == hs \cup {q}
           r == ReadThrough(c, low, flr, hs)
           m == Misses(c, low, flr, hs)
           n == Misses(c, low, flr, hq)
           o == Overlay(c, low, flr, hs)
           p == Overlay(c, low, flr, hq)
<1>1. low[q] \in Blocks /\ low[q] \in Slot BY DEF Index, Slot
<1>2. \A h \in Heights : h \in hq <=> h \in hs \/ h = q OBVIOUS
<1> HIDE DEF hq
<1>3. /\ m \in Index /\ o \in Index
      /\ \A h \in Heights :
           m[h] = IF h \in hs /\ h >= flr /\ c[h] = NoBlock THEN low[h] ELSE NoBlock
      /\ \A h \in Heights :
           o[h] = IF h \in hs /\ h >= flr /\ c[h] = NoBlock THEN low[h] ELSE c[h]
      /\ r = IF HeightCacheCapacity = 0 \/ Held(m) = {} THEN c ELSE KeepHighest(o)
  BY OverlayFacts
<1>4. /\ n \in Index /\ p \in Index
      /\ \A h \in Heights :
           n[h] = IF h \in hq /\ h >= flr /\ c[h] = NoBlock THEN low[h] ELSE NoBlock
      /\ \A h \in Heights :
           p[h] = IF h \in hq /\ h >= flr /\ c[h] = NoBlock THEN low[h] ELSE c[h]
      /\ ReadThrough(c, low, flr, hq)
           = IF HeightCacheCapacity = 0 \/ Held(n) = {} THEN c ELSE KeepHighest(p)
  BY OverlayFacts
<1> HIDE DEF m, n, o, p
<1>5. CASE c[q] = NoBlock
  <2>1. o[q] = NoBlock BY <1>3, <1>5
  <2>2. q \in Held(n) BY <1>4, <1>2, <1>5 DEF Held
  <2>3. p = Put(o, q, low[q])
    <3>1. /\ Put(o, q, low[q]) \in Index
          /\ \A h \in Heights : Put(o, q, low[q])[h] = IF h = q THEN low[q] ELSE o[h]
      BY <1>1, <1>3, HeldPut
    <3>2. \A h \in Heights : p[h] = Put(o, q, low[q])[h]
      BY <1>3, <1>4, <1>2, <1>5, <3>1
    <3> QED BY <1>4, <3>1, <3>2, IndexEqual
  <2>4. KeepHighest(Put(r, q, low[q])) = KeepHighest(p)
    <3>1. CASE Held(m) = {}
      <4>1. \A h \in Heights : m[h] = NoBlock BY <3>1 DEF Held
      <4>2. \A h \in Heights : o[h] = c[h] BY <1>3, <4>1
      <4>3. o = c BY <1>3, <4>2, IndexEqual
      <4> QED BY <1>3, <2>3, <3>1, <4>3
    <3>2. CASE Held(m) # {}
      <4>1. r = KeepHighest(o) BY <1>3, <3>2
      <4>2. KeepHighest(Put(KeepHighest(o), q, low[q])) = KeepHighest(Put(o, q, low[q]))
        BY <1>1, <1>3, <2>1, KeepHighestAdd
      <4> QED BY <2>3, <4>1, <4>2
    <3> QED BY <3>1, <3>2
  <2>5. ReadThrough(c, low, flr, hq) = KeepHighest(p) BY <1>4, <2>2
  <2> QED BY <2>4, <2>5 DEF hq
<1>6. CASE c[q] # NoBlock
  <2>1. r[q] = NoBlock OBVIOUS
  <2>2. Held(m) # {} /\ r = KeepHighest(o) BY <1>3, <1>6, <2>1
  <2>3. o[q] # NoBlock BY <1>3, <1>6
  <2>4. KeepHighest(Put(r, q, low[q])) = r
    BY <1>1, <1>3, <2>1, <2>2, <2>3, KeepHighestAddAgain
  <2>5. m = n
    <3>1. \A h \in Heights : m[h] = n[h] BY <1>3, <1>4, <1>2, <1>6
    <3> QED BY <1>3, <1>4, <3>1, IndexEqual
  <2>6. ReadThrough(c, low, flr, hq) = r BY <2>5 DEF ReadThrough, m, n
  <2> QED BY <2>4, <2>6 DEF hq
<1> QED BY <1>5, <1>6

\* A downward walk reads at h what WalkSees says: its inserts above h push out
\* an entry at h exactly when EvictedBefore.
LEMMA WalkReads ==
  ASSUME NEW c \in Index, NEW low \in Index, NEW flr \in Heights, NEW t \in Heights,
         NEW h \in Heights
  PROVE  LookupIn(ReadThrough(c, low, flr, (h + 1)..t), low, flr, h)
           = WalkSees(c, low, flr, t, h)
<1> DEFINE hs == (h + 1)..t
           r == ReadThrough(c, low, flr, hs)
           m == Misses(c, low, flr, hs)
           o == Overlay(c, low, flr, hs)
<1>1. h \in Int /\ h \notin hs /\ (\A k \in Heights : k \in Int) BY DEF Heights
<1>2. \A k \in Heights : k \in hs => h <= k BY <1>1
<1>3. EvictedBefore(c, low, flr, t, h) <=>
        /\ HeightCacheCapacity # 0
        /\ Held(m) # {}
        /\ Cardinality(Above(Held(c), h) \cup Held(m)) > HeightCacheCapacity
  BY DEF EvictedBefore, Above
<1> HIDE DEF hs
<1>4. /\ m \in Index /\ o \in Index
      /\ \A k \in Heights :
           m[k] = IF k \in hs /\ k >= flr /\ c[k] = NoBlock THEN low[k] ELSE NoBlock
      /\ \A k \in Heights :
           o[k] = IF k \in hs /\ k >= flr /\ c[k] = NoBlock THEN low[k] ELSE c[k]
      /\ r = IF HeightCacheCapacity = 0 \/ Held(m) = {} THEN c ELSE KeepHighest(o)
  BY OverlayFacts
<1>5. NoIndex[h] = NoBlock BY NoIndexType
<1> HIDE DEF m, o
<1>6. CASE HeightCacheCapacity = 0 \/ Held(m) = {}
  BY <1>4, <1>3, <1>6 DEF WalkSees, hs
<1>7. CASE ~(HeightCacheCapacity = 0 \/ Held(m) = {})
  <2>1. r = KeepHighest(o) BY <1>4, <1>7
  <2>2. o[h] = c[h] BY <1>1, <1>4
  <2>3. Above(Held(o), h) = Above(Held(c), h) \cup Held(m)
    <3>1. \A k \in Heights : o[k] # NoBlock <=> c[k] # NoBlock \/ m[k] # NoBlock
      BY <1>4
    <3>2. \A k \in Heights : m[k] # NoBlock => h <= k BY <1>4, <1>2
    <3> QED BY <3>1, <3>2 DEF Above, Held
  <2>4. Cardinality(Above(Held(o), h)) \in Nat /\ HeightCacheCapacity \in Nat
    BY <1>4, KeepHighestKeeps, AboveSets, CapacityAssumption
  <2>5. EvictedBefore(c, low, flr, t, h) <=>
          ~(Cardinality(Above(Held(o), h)) <= HeightCacheCapacity)
    BY <1>3, <1>7, <2>3, <2>4
  <2>6. h \in Held(o) <=> c[h] # NoBlock BY <1>4, <2>2, KeepHighestKeeps
  <2>7. r[h] = IF c[h] # NoBlock /\ ~EvictedBefore(c, low, flr, t, h) THEN c[h] ELSE NoBlock
    <3>1. r[h] = IF h \in Kept(Held(o)) THEN o[h] ELSE NoBlock
      BY <1>4, <2>1, KeepHighestKeeps
    <3>2. h \in Kept(Held(o)) <=> c[h] # NoBlock /\ ~EvictedBefore(c, low, flr, t, h)
      BY <2>5, <2>6 DEF Kept
    <3> QED BY <2>2, <3>1, <3>2
  <2> HIDE DEF r
  <2>8. LookupIn(r, low, flr, h) = WalkSees(c, low, flr, t, h)
    BY <1>5, <2>7 DEF WalkSees, LookupIn
  <2> QED BY <2>8 DEF r, hs
<1> QED BY <1>6, <1>7

-----------------------------------------------------------------------------
(***************************************************************************)
(* The loop.  The inductive invariant says what ReadThrough and WalkSees   *)
(* say, of the heights visited so far; while entries are being evicted,    *)
(* the cache is one whose highest entries are the ones to be left.         *)
(***************************************************************************)

\* The heights whose lookup is behind the loop.
Visited == IF descending THEN (pos + 1)..top ELSE bottom..(pos - 1)

WalkType ==
  /\ start \in Index /\ lower \in Index /\ cache \in Index /\ seen \in Index
  /\ floor \in Heights /\ bottom \in Heights /\ top \in Heights /\ bottom <= top
  /\ descending \in BOOLEAN /\ evicting \in BOOLEAN
  /\ pos \in Int
  /\ IF descending THEN bottom - 1 <= pos /\ pos <= top ELSE bottom <= pos /\ pos <= top + 1

CacheSoFar ==
  IF evicting
    THEN HeightCacheCapacity # 0 /\ KeepHighest(cache) = ReadThrough(start, lower, floor, Visited)
    ELSE cache = ReadThrough(start, lower, floor, Visited)

SeenSoFar ==
  descending => \A h \in Heights :
    seen[h] = IF h \in Visited THEN WalkSees(start, lower, floor, top, h) ELSE NoBlock

WalkInv == WalkType /\ CacheSoFar /\ SeenSoFar

\* Heights are whole numbers.
LEMMA HeightsAreInts == \A h \in Heights : h \in Int
BY DEF Heights

\* Before the first lookup nothing is visited and nothing has changed.
LEMMA WalkInit == Init => WalkInv
<1> SUFFICES ASSUME Init PROVE WalkInv OBVIOUS
<1>1. /\ start \in Index /\ lower \in Index /\ cache = start /\ seen = NoIndex
      /\ evicting = FALSE /\ descending \in BOOLEAN
  BY InputsAssumption DEF Init
<1>2. /\ floor \in Heights /\ bottom \in Heights /\ top \in bottom..MaxHeight
      /\ pos = IF descending THEN top ELSE bottom
  BY DEF Init
<1>3. bottom \in Int /\ top \in Int /\ bottom <= top /\ top \in Heights
  BY <1>2, MaxHeightAssumption DEF Heights
<1>4. /\ pos \in Int
      /\ IF descending THEN bottom - 1 <= pos /\ pos <= top
                       ELSE bottom <= pos /\ pos <= top + 1
  BY <1>1, <1>2, <1>3
<1>5. WalkType BY <1>1, <1>2, <1>3, <1>4, NoIndexType DEF WalkType
<1>6. Visited = {} BY <1>1, <1>2, <1>3 DEF Visited
<1>7. CacheSoFar
  <2>1. /\ Misses(start, lower, floor, {}) \in Index
        /\ \A h \in Heights : Misses(start, lower, floor, {})[h] = NoBlock
    BY <1>1 DEF Misses, Index, Slot
  <2>2. Held(Misses(start, lower, floor, {})) = {} BY <2>1 DEF Held
  <2>3. ReadThrough(start, lower, floor, {}) = start BY <2>2 DEF ReadThrough, CacheInsert
  <2> QED BY <1>1, <1>6, <2>3 DEF CacheSoFar
<1>8. SeenSoFar BY <1>1, <1>6, NoIndexType DEF SeenSoFar
<1> QED BY <1>5, <1>7, <1>8 DEF WalkInv

\* A lookup adds its own height to the visited ones.
LEMMA AdvanceVisits ==
  ASSUME WalkType, Running, Advance, UNCHANGED inputs
  PROVE  /\ pos \in Heights /\ pos \notin Visited
         /\ Visited' = Visited \cup {pos}
         /\ descending => Visited = (pos + 1)..top
         /\ pos' \in Int
         /\ (IF descending THEN bottom - 1 <= pos /\ pos <= top
                           ELSE bottom <= pos /\ pos <= top + 1)'
<1>1. bottom \in Int /\ top \in Int /\ pos \in Int /\ descending \in BOOLEAN
  BY HeightsAreInts DEF WalkType
<1>2. bottom <= pos /\ pos <= top BY DEF Running
<1>3. pos' = (IF descending THEN pos - 1 ELSE pos + 1) /\ bottom' = bottom /\ top' = top
      /\ descending' = descending
  BY DEF Advance, inputs
<1>4. pos \in Heights BY <1>1, <1>2, MaxHeightAssumption DEF WalkType, Heights
<1>5. CASE descending
  <2>1. Visited = (pos + 1)..top /\ Visited' = pos..top BY <1>1, <1>3, <1>5 DEF Visited
  <2>2. pos \notin Visited /\ Visited' = Visited \cup {pos} BY <1>1, <1>2, <2>1
  <2> QED BY <1>1, <1>2, <1>3, <1>4, <1>5, <2>1, <2>2
<1>6. CASE ~descending
  <2>1. Visited = bottom..(pos - 1) /\ Visited' = bottom..pos BY <1>1, <1>3, <1>6 DEF Visited
  <2>2. pos \notin Visited /\ Visited' = Visited \cup {pos} BY <1>1, <1>2, <2>1
  <2> QED BY <1>1, <1>2, <1>3, <1>4, <1>6, <2>2
<1> QED BY <1>1, <1>5, <1>6

\* A lookup that records what it read keeps SeenSoFar.
LEMMA SeenStep ==
  ASSUME WalkInv, Running, Advance, UNCHANGED inputs,
         \A h \in Heights : h # pos => seen'[h] = seen[h],
         descending => seen'[pos] = LookupIn(cache, lower, floor, pos)
  PROVE  SeenSoFar'
<1>1. WalkType /\ CacheSoFar /\ SeenSoFar /\ ~evicting BY DEF WalkInv, Running
<1>2. /\ pos \in Heights /\ pos \notin Visited /\ Visited' = Visited \cup {pos}
      /\ descending => Visited = (pos + 1)..top
  BY <1>1, AdvanceVisits
<1>3. /\ start' = start /\ lower' = lower /\ floor' = floor /\ top' = top
      /\ descending' = descending
  BY DEF inputs
<1> SUFFICES ASSUME descending, NEW h \in Heights
             PROVE  seen'[h] = IF h \in Visited'
                                 THEN WalkSees(start, lower, floor, top, h) ELSE NoBlock
  BY <1>3 DEF SeenSoFar
<1>4. CASE h = pos
  <2>1. cache = ReadThrough(start, lower, floor, (h + 1)..top)
    BY <1>1, <1>2, <1>4 DEF CacheSoFar
  <2>2. LookupIn(cache, lower, floor, h) = WalkSees(start, lower, floor, top, h)
    BY <1>1, <2>1, WalkReads DEF WalkType
  <2> QED BY <1>2, <1>4, <2>2
<1>5. CASE h # pos
  <2>1. seen[h] = IF h \in Visited THEN WalkSees(start, lower, floor, top, h) ELSE NoBlock
    BY <1>1 DEF SeenSoFar
  <2> QED BY <1>2, <1>5, <2>1
<1> QED BY <1>4, <1>5

\* Below the floor, a hit, or nothing to find.
LEMMA ReadNoInsertKeeps == WalkInv /\ ReadNoInsert => WalkInv'
<1> SUFFICES ASSUME WalkInv, ReadNoInsert PROVE WalkInv' OBVIOUS
<1>1. WalkType /\ CacheSoFar /\ SeenSoFar BY DEF WalkInv
<1>2. /\ Running /\ Advance /\ UNCHANGED inputs /\ cache' = cache /\ evicting' = evicting
      /\ ~evicting
  BY DEF ReadNoInsert, Running
<1>3. /\ start' = start /\ lower' = lower /\ floor' = floor /\ bottom' = bottom
      /\ top' = top /\ descending' = descending
  BY <1>2 DEF inputs
<1>4. /\ pos \in Heights /\ pos \notin Visited /\ Visited' = Visited \cup {pos}
      /\ pos' \in Int
      /\ (IF descending THEN bottom - 1 <= pos /\ pos <= top
                        ELSE bottom <= pos /\ pos <= top + 1)'
  BY <1>1, <1>2, AdvanceVisits
<1>5. cache[pos] \in Slot /\ seen \in Index /\ floor \in Int /\ pos \in Int
  BY <1>1, <1>4, HeightsAreInts DEF WalkType, Index
<1>6. \/ pos < floor /\ seen' = seen
      \/ pos >= floor /\ cache[pos] # NoBlock /\ seen' = Put(seen, pos, cache[pos])
      \/ pos >= floor /\ cache[pos] = NoBlock /\ lower[pos] = NoBlock /\ seen' = seen
  BY DEF ReadNoInsert, Put
<1>7. seen' \in Index /\ \A h \in Heights : h # pos => seen'[h] = seen[h]
  <2>1. /\ Put(seen, pos, cache[pos]) \in Index
        /\ \A h \in Heights : h # pos => Put(seen, pos, cache[pos])[h] = seen[h]
    BY <1>4, <1>5, HeldPut
  <2> QED BY <1>5, <1>6, <2>1
<1>8. descending => seen'[pos] = LookupIn(cache, lower, floor, pos)
  <2> SUFFICES ASSUME descending PROVE seen'[pos] = LookupIn(cache, lower, floor, pos)
    OBVIOUS
  <2>1. seen[pos] = NoBlock BY <1>1, <1>4 DEF SeenSoFar
  <2>2. Put(seen, pos, cache[pos])[pos] = cache[pos] BY <1>4, <1>5, HeldPut
  <2> QED BY <1>5, <1>6, <2>1, <2>2 DEF LookupIn
<1>9. SeenSoFar' BY <1>2, <1>7, <1>8, SeenStep
<1>10. WalkType' BY <1>1, <1>2, <1>3, <1>4, <1>7 DEF WalkType
<1>11. CacheSoFar'
  <2>1. cache = ReadThrough(start, lower, floor, Visited) BY <1>1, <1>2 DEF CacheSoFar
  <2>2. pos < floor \/ cache[pos] # NoBlock \/ lower[pos] = NoBlock BY <1>6
  <2>3. ReadThrough(start, lower, floor, Visited \cup {pos})
          = ReadThrough(start, lower, floor, Visited)
    BY <1>1, <1>4, <2>1, <2>2, NoInsertStep DEF WalkType
  <2> QED BY <1>2, <1>3, <1>4, <2>1, <2>3 DEF CacheSoFar
<1> QED BY <1>9, <1>10, <1>11 DEF WalkInv

\* A miss answered by a lower tier.
LEMMA ReadInsertKeeps == WalkInv /\ ReadInsert => WalkInv'
<1> SUFFICES ASSUME WalkInv, ReadInsert PROVE WalkInv' OBVIOUS
<1>1. WalkType /\ CacheSoFar /\ SeenSoFar BY DEF WalkInv
<1>2. /\ Running /\ Advance /\ UNCHANGED inputs /\ ~evicting
      /\ pos >= floor /\ cache[pos] = NoBlock /\ lower[pos] # NoBlock
      /\ seen' = Put(seen, pos, lower[pos])
      /\ cache' = (IF HeightCacheCapacity = 0 THEN cache ELSE Put(cache, pos, lower[pos]))
      /\ evicting' = (HeightCacheCapacity # 0)
  BY DEF ReadInsert, Running, Put
<1>3. /\ start' = start /\ lower' = lower /\ floor' = floor /\ bottom' = bottom
      /\ top' = top /\ descending' = descending
  BY <1>2 DEF inputs
<1>4. /\ pos \in Heights /\ pos \notin Visited /\ Visited' = Visited \cup {pos}
      /\ pos' \in Int
      /\ (IF descending THEN bottom - 1 <= pos /\ pos <= top
                        ELSE bottom <= pos /\ pos <= top + 1)'
  BY <1>1, <1>2, AdvanceVisits
<1>5. lower[pos] \in Slot /\ seen \in Index /\ cache \in Index /\ floor \in Int /\ pos \in Int
  BY <1>1, <1>4, HeightsAreInts DEF WalkType, Index
<1>6. /\ seen' \in Index /\ \A h \in Heights : h # pos => seen'[h] = seen[h]
      /\ seen'[pos] = lower[pos]
  BY <1>2, <1>4, <1>5, HeldPut
<1>7. seen'[pos] = LookupIn(cache, lower, floor, pos) BY <1>2, <1>5, <1>6 DEF LookupIn
<1>8. SeenSoFar' BY <1>2, <1>6, <1>7, SeenStep
<1>9. cache' \in Index
  <2>1. Put(cache, pos, lower[pos]) \in Index BY <1>4, <1>5, HeldPut
  <2> QED BY <1>2, <1>5, <2>1
<1>10. WalkType'
  <2>1. evicting' \in BOOLEAN BY <1>2
  <2> QED BY <1>1, <1>3, <1>4, <1>6, <1>9, <2>1 DEF WalkType
<1>11. cache = ReadThrough(start, lower, floor, Visited) BY <1>1, <1>2 DEF CacheSoFar
<1>12. CacheSoFar'
  <2>1. CASE HeightCacheCapacity = 0
    <3>1. ReadThrough(start, lower, floor, Visited \cup {pos})
            = ReadThrough(start, lower, floor, Visited)
      BY <1>1, <1>4, <2>1, NoInsertStep DEF WalkType
    <3>2. cache' = cache /\ ~evicting' BY <1>2, <2>1
    <3> QED BY <1>3, <1>4, <1>11, <3>1, <3>2 DEF CacheSoFar
  <2>2. CASE HeightCacheCapacity # 0
    <3>1. KeepHighest(Put(ReadThrough(start, lower, floor, Visited), pos, lower[pos]))
            = ReadThrough(start, lower, floor, Visited \cup {pos})
      BY <1>1, <1>2, <1>4, <1>11, <2>2, InsertStep DEF WalkType
    <3>2. cache' = Put(cache, pos, lower[pos]) /\ evicting' BY <1>2, <2>2
    <3>3. KeepHighest(cache') = ReadThrough(start, lower, floor, Visited \cup {pos})
      BY <1>11, <3>1, <3>2
    <3> QED BY <1>3, <1>4, <2>2, <3>2, <3>3 DEF CacheSoFar
  <2> QED BY <2>1, <2>2
<1> QED BY <1>8, <1>10, <1>12 DEF WalkInv

\* One turn of the eviction loop, and its end.
LEMMA EvictKeeps == WalkInv /\ (EvictLowest \/ EvictDone) => WalkInv'
<1> SUFFICES ASSUME WalkInv, EvictLowest \/ EvictDone PROVE WalkInv' OBVIOUS
<1>1. WalkType /\ CacheSoFar /\ SeenSoFar BY DEF WalkInv
<1>2. evicting /\ UNCHANGED inputs /\ pos' = pos /\ seen' = seen
  BY DEF EvictLowest, EvictDone
<1>3. /\ start' = start /\ lower' = lower /\ floor' = floor /\ bottom' = bottom
      /\ top' = top /\ descending' = descending /\ Visited' = Visited
  BY <1>2 DEF inputs, Visited
<1>4. /\ HeightCacheCapacity # 0
      /\ KeepHighest(cache) = ReadThrough(start, lower, floor, Visited)
  BY <1>1, <1>2 DEF CacheSoFar
<1>5. SeenSoFar' BY <1>1, <1>2, <1>3 DEF SeenSoFar
<1>6. CASE EvictLowest
  <2>1. evicting' = evicting /\ Cardinality(Held(cache)) > HeightCacheCapacity
    BY <1>6 DEF EvictLowest
  <2>2. PICK l \in Held(cache) : /\ \A k \in Held(cache) : l <= k
                                 /\ cache' = Put(cache, l, NoBlock)
    BY <1>6 DEF EvictLowest, Put
  <2>3. cache' \in Index BY <1>1, <2>2, HeldPut DEF WalkType, Held, Slot
  <2>4. KeepHighest(cache') = KeepHighest(cache)
    BY <1>1, <2>1, <2>2, KeepHighestEvict DEF WalkType
  <2>5. CacheSoFar' BY <1>2, <1>3, <1>4, <2>1, <2>4 DEF CacheSoFar
  <2>6. WalkType' BY <1>1, <1>2, <1>3, <2>1, <2>3 DEF WalkType
  <2> QED BY <1>5, <2>5, <2>6 DEF WalkInv
<1>7. CASE EvictDone
  <2>1. /\ evicting' = FALSE /\ cache' = cache
        /\ Cardinality(Held(cache)) <= HeightCacheCapacity
    BY <1>7 DEF EvictDone
  <2>2. KeepHighest(cache) = cache BY <1>1, <2>1, KeepHighestFits DEF WalkType
  <2>3. CacheSoFar' BY <1>3, <1>4, <2>1, <2>2 DEF CacheSoFar
  <2>4. WalkType' BY <1>1, <1>2, <1>3, <2>1 DEF WalkType
  <2> QED BY <1>5, <2>3, <2>4 DEF WalkInv
<1> QED BY <1>6, <1>7

\* WalkInv holds before and after every lookup and every eviction of a loop of
\* get_hash_by_height calls.
THEOREM WalkInvariant == Spec => []WalkInv
<1>1. WalkInv /\ [Next]_vars => WalkInv'
  <2> SUFFICES ASSUME WalkInv, [Next]_vars PROVE WalkInv' OBVIOUS
  <2>1. CASE ReadNoInsert BY <2>1, ReadNoInsertKeeps
  <2>2. CASE ReadInsert BY <2>2, ReadInsertKeeps
  <2>3. CASE EvictLowest \/ EvictDone BY <2>3, EvictKeeps
  <2>4. CASE UNCHANGED vars
    BY <2>4 DEF vars, WalkInv, WalkType, CacheSoFar, SeenSoFar, Visited
  <2> QED BY <2>1, <2>2, <2>3, <2>4 DEF Next
<1> QED BY <1>1, WalkInit, PTL DEF Spec

\* A loop that has ended has visited its whole range.
LEMMA DoneVisited == WalkType /\ Done => Visited = bottom..top
<1> SUFFICES ASSUME WalkType, Done PROVE Visited = bottom..top OBVIOUS
<1>1. bottom \in Int /\ top \in Int /\ pos \in Int BY HeightsAreInts DEF WalkType
<1>2. ~(bottom <= pos /\ pos <= top) BY DEF Done, Running
<1>3. CASE descending
  <2>1. pos = bottom - 1 BY <1>1, <1>2, <1>3 DEF WalkType
  <2> QED BY <1>1, <1>3, <2>1 DEF Visited
<1>4. CASE ~descending
  <2>1. pos = top + 1 BY <1>1, <1>2, <1>4 DEF WalkType
  <2> QED BY <1>1, <1>4, <2>1 DEF Visited
<1> QED BY <1>3, <1>4

\* When a loop of get_hash_by_height calls ends, the bounded height cache holds
\* what ReadThrough says, for every cache and capacity it began with.
THEOREM WalkCacheMatches == Spec => []CacheMatches
<1>1. WalkInv => CacheMatches
  <2> SUFFICES ASSUME WalkInv, Done
               PROVE  cache = ReadThrough(start, lower, floor, bottom..top)
    BY DEF CacheMatches
  <2>1. Visited = bottom..top BY DoneVisited DEF WalkInv
  <2> QED BY <2>1 DEF WalkInv, CacheSoFar, Done
<1> QED BY <1>1, WalkInvariant, PTL

\* When a downward loop ends, it has collected what WalkSees says: the entry it
\* found, or the lower tiers' answer where its own inserts evicted that entry.
THEOREM WalkSeenMatches == Spec => []SeenMatches
<1>1. WalkInv => SeenMatches
  <2> SUFFICES ASSUME WalkInv, Done, descending, NEW h \in bottom..top
               PROVE  seen[h] = WalkSees(start, lower, floor, top, h)
    BY DEF SeenMatches
  <2>1. Visited = bottom..top BY DoneVisited DEF WalkInv
  <2>2. h \in Heights BY MaxHeightAssumption DEF WalkInv, WalkType, Heights
  <2> QED BY <2>1, <2>2 DEF WalkInv, SeenSoFar
<1> QED BY <1>1, WalkInvariant, PTL

=============================================================================
