------------------------ MODULE ChainFollowerProofs ------------------------
(***************************************************************************)
(* Proofs about ChainFollower, for any tree of blocks, any depth of the    *)
(* ancestor search, any cache capacity, and with or without crashes.       *)
(***************************************************************************)
EXTENDS ChainFollower, BlockStoreProofs

-----------------------------------------------------------------------------
(***************************************************************************)
(* The walk of find_common_ancestor.                                       *)
(***************************************************************************)

\* A parent is a block one height below.
LEMMA ParentHeight ==
  ASSUME NEW b \in Blocks
  PROVE  /\ Parent[b] \in Slot
         /\ Parent[b] = NoBlock => Height[b] = 0
         /\ Parent[b] # NoBlock => Parent[b] \in Blocks /\ Height[b] = Height[Parent[b]] + 1
BY ParentAssumption DEF Slot

\* One step of the walk.
Up(p) == IF p = NoBlock THEN NoBlock ELSE Parent[p]

\* A path of n steps up from b.
IsPath(f, b, n) ==
  /\ f \in [0..n -> Slot]
  /\ f[0] = b
  /\ \A i \in 0..(n - 1) : f[i + 1] = Up(f[i])

\* There is a path of every length.
LEMMA PathExists ==
  ASSUME NEW b \in Blocks, NEW n \in Nat
  PROVE  \E f : IsPath(f, b, n)
<1> DEFINE S == {m \in Nat : \E f : IsPath(f, b, m)}
<1>1. 0 \in S
  <2>1. IsPath([i \in 0..0 |-> b], b, 0) BY DEF IsPath, Slot
  <2> QED BY <2>1
<1>2. ASSUME NEW m \in Nat, m \in S PROVE m + 1 \in S
  <2>1. PICK f : IsPath(f, b, m) BY <1>2
  <2> DEFINE g == [i \in 0..(m + 1) |-> IF i <= m THEN f[i] ELSE Up(f[m])]
  <2>2. \A i \in 0..m : f[i] \in Slot BY <2>1 DEF IsPath
  <2>3. \A p \in Slot : Up(p) \in Slot BY ParentHeight DEF Up, Slot
  <2>4. g \in [0..(m + 1) -> Slot] BY <2>2, <2>3
  <2>5. /\ \A i \in 0..m : g[i] = f[i]
        /\ g[m + 1] = Up(f[m])
    OBVIOUS
  <2> HIDE DEF g
  <2>6. g[0] = b BY <2>1, <2>5 DEF IsPath
  <2>7. \A i \in 0..((m + 1) - 1) : g[i + 1] = Up(g[i])
    <3> SUFFICES ASSUME NEW i \in 0..m PROVE g[i + 1] = Up(g[i]) OBVIOUS
    <3>1. CASE i = m BY <3>1, <2>5
    <3>2. CASE i # m
      <4>1. i \in 0..(m - 1) /\ i + 1 \in 0..m BY <3>2
      <4>2. f[i + 1] = Up(f[i]) BY <2>1, <4>1 DEF IsPath
      <4> QED BY <2>5, <4>1, <4>2
    <3> QED BY <3>1, <3>2
  <2>8. IsPath(g, b, m + 1) BY <2>4, <2>6, <2>7 DEF IsPath
  <2> QED BY <2>8
<1> HIDE DEF S
<1>3. n \in S BY <1>1, <1>2, SuccessorClosed
<1> QED BY <1>3 DEF S

\* Ancestry(b) is the path of MaxDepth steps from b.
LEMMA AncestryIsPath ==
  ASSUME NEW b \in Blocks
  PROVE  IsPath(Ancestry(b), b, MaxDepth)
<1> DEFINE body(path) ==
      [i \in 0..MaxDepth |->
         IF i = 0 THEN b
         ELSE IF path[i - 1] = NoBlock THEN NoBlock ELSE Parent[path[i - 1]]]
<1>1. MaxDepth \in Nat BY MaxDepthAssumption
<1>2. PICK f : IsPath(f, b, MaxDepth) BY <1>1, PathExists
<1>3. f = body(f)
  <2>1. f \in [0..MaxDepth -> Slot] BY <1>2 DEF IsPath
  <2>2. \A i \in 0..MaxDepth : f[i] = body(f)[i]
    <3> SUFFICES ASSUME NEW i \in 0..MaxDepth PROVE f[i] = body(f)[i] OBVIOUS
    <3>1. CASE i = 0 BY <3>1, <1>2 DEF IsPath
    <3>2. CASE i # 0
      <4>1. i - 1 \in 0..(MaxDepth - 1) /\ (i - 1) + 1 = i BY <1>1, <3>2
      <4>2. f[i] = Up(f[i - 1]) BY <1>2, <4>1 DEF IsPath
      <4> QED BY <3>2, <4>2 DEF Up
    <3> QED BY <3>1, <3>2
  <2> QED BY <2>1, <2>2
<1>4. Ancestry(b) = CHOOSE path : path = body(path) BY DEF Ancestry
<1> DEFINE p == Ancestry(b)
<1>5. p = body(p)
  <2> HIDE DEF body
  <2> QED BY <1>3, <1>4
<1> HIDE DEF p
<1>6. \A i \in 0..MaxDepth :
        p[i] = IF i = 0 THEN b
               ELSE IF p[i - 1] = NoBlock THEN NoBlock ELSE Parent[p[i - 1]]
  BY <1>5
<1>7. p[0] = b BY <1>1, <1>6
<1>8. \A i \in 0..(MaxDepth - 1) : p[i + 1] = Up(p[i])
  <2> SUFFICES ASSUME NEW i \in 0..(MaxDepth - 1) PROVE p[i + 1] = Up(p[i]) OBVIOUS
  <2>1. i + 1 \in 0..MaxDepth /\ i + 1 # 0 /\ (i + 1) - 1 = i BY <1>1
  <2> QED BY <1>6, <2>1 DEF Up
<1>9. p \in [0..MaxDepth -> Slot]
  <2> DEFINE S == {m \in Nat : m <= MaxDepth => p[m] \in Slot}
  <2>1. 0 \in S BY <1>7 DEF Slot
  <2>2. ASSUME NEW m \in Nat, m \in S PROVE m + 1 \in S
    <3> SUFFICES ASSUME m + 1 <= MaxDepth PROVE p[m + 1] \in Slot OBVIOUS
    <3>1. m \in 0..(MaxDepth - 1) /\ p[m] \in Slot BY <1>1, <2>2
    <3>2. p[m + 1] = Up(p[m]) BY <1>8, <3>1
    <3> QED BY <3>1, <3>2, ParentHeight DEF Up, Slot
  <2> HIDE DEF S
  <2>3. Nat \subseteq S BY <2>1, <2>2, SuccessorClosed
  <2>4. \A i \in 0..MaxDepth : p[i] \in Slot BY <2>3 DEF S
  <2> QED BY <1>5, <2>4
<1> QED BY <1>7, <1>8, <1>9 DEF IsPath, p

\* Along the path heights fall by one, and a path that has ended stays ended.
LEMMA AncestryHeights ==
  ASSUME NEW b \in Blocks, NEW i \in 0..MaxDepth, Ancestry(b)[i] # NoBlock
  PROVE  /\ Ancestry(b)[i] \in Blocks
         /\ Height[Ancestry(b)[i]] = Height[b] - i
         /\ \A j \in 0..i : Ancestry(b)[j] # NoBlock /\ Ancestry(b)[j] \in Blocks
<1> DEFINE p == Ancestry(b)
<1>1. MaxDepth \in Nat BY MaxDepthAssumption
<1>2. IsPath(p, b, MaxDepth) BY AncestryIsPath
<1> HIDE DEF p
<1> DEFINE S == {m \in Nat : m <= MaxDepth /\ p[m] # NoBlock =>
                    /\ p[m] \in Blocks /\ Height[p[m]] = Height[b] - m
                    /\ \A j \in 0..m : p[j] # NoBlock /\ p[j] \in Blocks}
<1>3. 0 \in S BY <1>2, BlockHeight DEF IsPath
<1>4. ASSUME NEW m \in Nat, m \in S PROVE m + 1 \in S
  <2> SUFFICES ASSUME m + 1 <= MaxDepth, p[m + 1] # NoBlock
               PROVE  /\ p[m + 1] \in Blocks /\ Height[p[m + 1]] = Height[b] - (m + 1)
                      /\ \A j \in 0..(m + 1) : p[j] # NoBlock /\ p[j] \in Blocks
    OBVIOUS
  <2>1. m \in 0..(MaxDepth - 1) /\ m <= MaxDepth BY <1>1
  <2>2. p[m + 1] = Up(p[m]) BY <1>2, <2>1 DEF IsPath
  <2>3. p[m] # NoBlock /\ p[m + 1] = Parent[p[m]] BY <2>2 DEF Up
  <2>4. /\ p[m] \in Blocks /\ Height[p[m]] = Height[b] - m
        /\ \A j \in 0..m : p[j] # NoBlock /\ p[j] \in Blocks
    BY <1>4, <2>1, <2>3
  <2>5. p[m + 1] \in Blocks /\ Height[p[m]] = Height[p[m + 1]] + 1
    BY <2>3, <2>4, ParentHeight
  <2>6. Height[p[m + 1]] \in Nat /\ Height[b] \in Nat BY <2>5, BlockHeight
  <2>7. \A j \in 0..(m + 1) : j \in 0..m \/ j = m + 1 OBVIOUS
  <2> QED BY <2>4, <2>5, <2>6, <2>7
<1> HIDE DEF S
<1>5. i \in S BY <1>3, <1>4, SuccessorClosed
<1> QED BY <1>5 DEF S, p

\* Each block of the path is the parent of the one before.
LEMMA AncestryParent ==
  ASSUME NEW b \in Blocks, NEW i \in 0..(MaxDepth - 1), Ancestry(b)[i] # NoBlock
  PROVE  Ancestry(b)[i + 1] = Parent[Ancestry(b)[i]]
BY AncestryIsPath DEF IsPath, Up

\* The block at step i of the walk is the ancestor searched for: every record
\* on the way was found and the block is canonical.
Shared(b, i) ==
  /\ \A j \in 0..i : Ancestry(b)[j] # NoBlock /\ Known(Ancestry(b)[j])
  /\ Lookup(Height[Ancestry(b)[i]]) = Ancestry(b)[i]

\* find_common_ancestor stops at the first such step, or at the depth limit.
LEMMA AncestorStepsFirst ==
  ASSUME NEW b \in Blocks
  PROVE  /\ AncestorSteps(b) \in 0..MaxDepth
         /\ AncestorSteps(b) < MaxDepth => Shared(b, AncestorSteps(b))
         /\ \A j \in 0..(AncestorSteps(b) - 1) : ~Shared(b, j)
<1> DEFINE first(i) == /\ i < MaxDepth => Shared(b, i)
                       /\ \A j \in 0..(i - 1) : ~Shared(b, j)
<1>1. MaxDepth \in Nat BY MaxDepthAssumption
<1>2. AncestorSteps(b) = CHOOSE i \in 0..MaxDepth : first(i)
  BY DEF AncestorSteps, Shared
<1>3. \E i \in 0..MaxDepth : first(i)
  <2> DEFINE S == {i \in Nat : i < MaxDepth /\ Shared(b, i)}
  <2>1. CASE S = {}
    <3>1. first(MaxDepth) BY <1>1, <2>1
    <3> QED BY <1>1, <3>1
  <2>2. CASE S # {}
    <3> HIDE DEF S
    <3>1. PICK k \in S : \A x \in S : k <= x BY <2>2, LeastNumber DEF S
    <3>2. k \in 0..MaxDepth /\ k < MaxDepth /\ Shared(b, k) BY <1>1, <3>1 DEF S
    <3>3. \A j \in 0..(k - 1) : ~Shared(b, j) BY <1>1, <3>1, <3>2 DEF S
    <3> QED BY <3>2, <3>3
  <2> QED BY <2>1, <2>2
<1> HIDE DEF first
<1>4. AncestorSteps(b) \in 0..MaxDepth /\ first(AncestorSteps(b)) BY <1>2, <1>3
<1> QED BY <1>4 DEF first

-----------------------------------------------------------------------------
(***************************************************************************)
(* The inductive invariant.  The canonical rows are one range of heights   *)
(* that begins at the pruning floor; while the tip is not corrected, where *)
(* the range ends is not known, but it is never empty, so the scan of      *)
(* CorrectTip finds its top.                                               *)
(***************************************************************************)
RowsUpTo(top) ==
  /\ minRetained <= top
  /\ \A h \in Heights : cfCanonical[h] # NoBlock <=> minRetained <= h /\ h <= top

NoChainYet ==
  tip = NoBlock => minRetained = 0 /\ \A h \in Heights : cfCanonical[h] = NoBlock

OneRange ==
  tip # NoBlock =>
    \E top \in Heights : /\ RowsUpTo(top)
                         /\ ~dirty => top = Height[tip] /\ cfCanonical[top] = tip

RowsLinked ==
  \A h \in Heights \ {0} :
    cfCanonical[h] # NoBlock /\ cfCanonical[h - 1] # NoBlock
      => Parent[cfCanonical[h]] = cfCanonical[h - 1]

\* The records that the walk of find_common_ancestor needs above the floor.
HeadersLinked ==
  \A b \in cfHeaders :
    Parent[b] # NoBlock /\ Height[Parent[b]] >= minRetained => Parent[b] \in cfHeaders

StoreInv == TypeOK /\ StoredInv /\ BinInv /\ CacheInv
ChainInv == NoChainYet /\ OneRange /\ RowsLinked
FollowerInv == StoreInv /\ ChainInv /\ HeadersLinked

\* Below the floor there is no row, so a lookup answers with the row at every
\* height.
LEMMA LookupRow ==
  ASSUME StoreInv, NoChainYet, OneRange, NEW h \in Heights
  PROVE  Lookup(h) = cfCanonical[h]
<1>1. TypeOK /\ BinInv /\ CacheInv BY DEF StoreInv
<1>2. minRetained \in Int /\ h \in Int BY <1>1, LowerType DEF Heights
<1>3. CASE h >= minRetained
  <2>1. Lookup(h) = IF heightCache[h] # NoBlock THEN heightCache[h] ELSE Lower[h]
    BY <1>2, <1>3 DEF Lookup, LookupIn
  <2> QED BY <1>1, <1>3, <2>1, LowerAgrees DEF CacheInv, Agrees
<1>4. CASE h < minRetained
  <2>1. Lookup(h) = NoBlock BY <1>4 DEF Lookup, LookupIn
  <2>2. cfCanonical[h] = NoBlock BY <1>2, <1>4 DEF NoChainYet, OneRange, RowsUpTo
  <2> QED BY <2>1, <2>2
<1> QED BY <1>2, <1>3, <1>4

\* Once the tip is corrected, it is the top row of the range.
LEMMA CleanTop ==
  ASSUME TypeOK, OneRange, ~dirty, tip # NoBlock
  PROVE  /\ tip \in Blocks /\ Height[tip] \in Heights
         /\ RowsUpTo(Height[tip]) /\ cfCanonical[Height[tip]] = tip
<1>1. tip \in Blocks BY DEF TypeOK, Slot
<1> QED BY <1>1, BlockHeight DEF OneRange

\* A step that leaves rows, floor and tip alone.
LEMMA ChainUntouched ==
  ASSUME ChainInv, UNCHANGED <<cfCanonical, minRetained, tip>>, dirty' \/ ~dirty
  PROVE  ChainInv'
<1>1. NoChainYet' BY DEF ChainInv, NoChainYet
<1>2. RowsLinked' BY DEF ChainInv, RowsLinked
<1>3. OneRange'
  <2> SUFFICES ASSUME tip # NoBlock PROVE OneRange' BY DEF OneRange
  <2>1. PICK top \in Heights : /\ RowsUpTo(top)
                               /\ ~dirty => top = Height[tip] /\ cfCanonical[top] = tip
    BY DEF ChainInv, OneRange
  <2>2. RowsUpTo(top)' BY <2>1 DEF RowsUpTo
  <2> QED BY <2>1, <2>2 DEF OneRange
<1> QED BY <1>1, <1>2, <1>3 DEF ChainInv

\* A step after which the range ends at top.
LEMMA ChainEndsAt ==
  ASSUME NEW top \in Heights, RowsUpTo(top)', RowsLinked', tip' # NoBlock,
         dirty' \/ (top = Height[tip'] /\ cfCanonical'[top] = tip')
  PROVE  ChainInv'
BY DEF ChainInv, NoChainYet, OneRange

\* A child of the tip written above it extends the range by one row.
LEMMA RowOnTop ==
  ASSUME TypeOK, ChainInv, ~dirty, tip # NoBlock, NEW b \in Blocks, Parent[b] = tip,
         cfCanonical' = [cfCanonical EXCEPT ![Height[b]] = b], minRetained' = minRetained,
         tip' # NoBlock, dirty' \/ tip' = b
  PROVE  /\ ChainInv'
         /\ cfCanonical[Height[b]] = NoBlock
         /\ \A h \in Heights : h <= Height[tip] => cfCanonical'[h] = cfCanonical[h]
<1>1. /\ tip \in Blocks /\ Height[tip] \in Heights
      /\ RowsUpTo(Height[tip]) /\ cfCanonical[Height[tip]] = tip
  BY CleanTop DEF ChainInv
<1>2. /\ Height[b] = Height[tip] + 1 /\ Height[b] \in Heights
      /\ Height[tip] \in Nat /\ Height[b] \in Nat /\ minRetained \in Int
  BY <1>1, ParentHeight, BlockHeight, LowerType
<1>3. \A h \in Heights : cfCanonical'[h] = IF h = Height[b] THEN b ELSE cfCanonical[h]
  BY RowPutType DEF TypeOK
<1>4. b # NoBlock BY BlockHeight
<1>5. RowsUpTo(Height[b])'
  <2>1. minRetained <= Height[b] BY <1>1, <1>2 DEF RowsUpTo
  <2>2. \A h \in Heights : h \in Int /\ (h <= Height[b] <=> h <= Height[tip] \/ h = Height[b])
    BY <1>2 DEF Heights
  <2>3. \A h \in Heights : cfCanonical'[h] # NoBlock <=> minRetained <= h /\ h <= Height[b]
    BY <1>1, <1>3, <1>4, <2>1, <2>2 DEF RowsUpTo
  <2> QED BY <2>1, <2>3 DEF RowsUpTo
<1>6. RowsLinked'
  <2> SUFFICES ASSUME NEW h \in Heights \ {0}, cfCanonical'[h] # NoBlock,
                      cfCanonical'[h - 1] # NoBlock
               PROVE  Parent[cfCanonical'[h]] = cfCanonical'[h - 1]
    BY DEF RowsLinked
  <2>1. h - 1 \in Heights /\ h \in Int BY MaxHeightAssumption DEF Heights
  <2>2. CASE h = Height[b]
    <3>1. h - 1 = Height[tip] /\ h - 1 # Height[b] BY <1>2, <2>2
    <3> QED BY <1>1, <1>3, <2>1, <2>2, <3>1
  <2>3. CASE h # Height[b]
    <3>1. h - 1 # Height[b]
      <4> SUFFICES ASSUME h - 1 = Height[b] PROVE FALSE OBVIOUS
      <4>1. cfCanonical[h] # NoBlock BY <1>3, <2>3
      <4>2. h <= Height[tip] BY <1>1, <4>1 DEF RowsUpTo
      <4> QED BY <1>2, <2>1, <4>2
    <3> QED BY <1>3, <2>1, <2>3, <3>1 DEF ChainInv, RowsLinked
  <2> QED BY <2>2, <2>3
<1>7. ChainInv'
  <2>1. cfCanonical'[Height[b]] = b BY <1>2, <1>3
  <2> QED BY <1>2, <1>5, <1>6, <2>1, ChainEndsAt
<1>8. cfCanonical[Height[b]] = NoBlock BY <1>1, <1>2 DEF RowsUpTo
<1>9. \A h \in Heights : h <= Height[tip] => cfCanonical'[h] = cfCanonical[h]
  BY <1>2, <1>3
<1> QED BY <1>7, <1>8, <1>9

\* Deleting the rows above t cuts the range there.
LEMMA RowsCut ==
  ASSUME TypeOK, ChainInv, ~dirty, NEW t \in Heights, CanRollback(t),
         cfCanonical' = Without(cfCanonical, (t + 1)..Height[tip]),
         minRetained' = minRetained,
         tip' # NoBlock, dirty' \/ tip' = cfCanonical[t], StoredInv
  PROVE  /\ ChainInv'
         /\ cfCanonical[t] # NoBlock
         /\ \A h \in Heights : cfCanonical'[h] = IF h <= t THEN cfCanonical[h] ELSE NoBlock
<1>1. tip # NoBlock /\ t < Height[tip] /\ t >= minRetained BY DEF CanRollback
<1>2. RowsUpTo(Height[tip]) /\ Height[tip] \in Heights BY <1>1, CleanTop DEF ChainInv
<1>3. t \in Int /\ Height[tip] \in Int /\ minRetained \in Int
  BY <1>2, LowerType DEF Heights
<1>4. \A h \in Heights : cfCanonical'[h] = IF h <= t THEN cfCanonical[h] ELSE NoBlock
  <2> SUFFICES ASSUME NEW h \in Heights
               PROVE  cfCanonical'[h] = IF h <= t THEN cfCanonical[h] ELSE NoBlock
    OBVIOUS
  <2> DEFINE gone == (t + 1)..Height[tip]
  <2>1. cfCanonical'[h] = IF h \in gone THEN NoBlock ELSE cfCanonical[h]
    <3>1. cfCanonical' = Without(cfCanonical, gone) OBVIOUS
    <3> HIDE DEF gone
    <3> QED BY <3>1, WithoutType DEF TypeOK
  <2>2. h \in Int BY DEF Heights
  <2>3. h > Height[tip] => cfCanonical[h] = NoBlock BY <1>2, <1>3, <2>2 DEF RowsUpTo
  <2> QED BY <1>3, <2>1, <2>2, <2>3
<1>5. cfCanonical[t] # NoBlock BY <1>1, <1>2, <1>3 DEF RowsUpTo
<1>6. RowsUpTo(t)'
  <2>1. \A h \in Heights : h \in Int /\ (h <= t => h <= Height[tip])
    BY <1>1, <1>3 DEF Heights
  <2> QED BY <1>1, <1>2, <1>4, <2>1 DEF RowsUpTo
<1>7. RowsLinked'
  <2>1. \A h \in Heights \ {0} : h - 1 \in Heights BY MaxHeightAssumption DEF Heights
  <2>2. \A h \in Heights : cfCanonical'[h] # NoBlock => cfCanonical'[h] = cfCanonical[h]
    BY <1>4
  <2> QED BY <2>1, <2>2 DEF ChainInv, RowsLinked
<1>8. Height[cfCanonical[t]] = t BY <1>5 DEF StoredInv, EntriesStored
<1>9. ChainInv'
  <2>1. cfCanonical'[t] = cfCanonical[t] BY <1>3, <1>4
  <2> QED BY <1>6, <1>7, <1>8, <2>1, ChainEndsAt
<1> QED BY <1>4, <1>5, <1>9

\* Pruning below p, at or below the tip, moves the lower end of the range.
LEMMA RowsForgotten ==
  ASSUME TypeOK, ChainInv, ~dirty, tip # NoBlock, NEW p \in Heights, p <= Height[tip],
         PruneBeforeHeight(p), ~dirty'
  PROVE  /\ ChainInv'
         /\ \A h \in Heights : cfCanonical'[h] = IF p <= h THEN cfCanonical[h] ELSE NoBlock
<1> DEFINE walked == {h \in Heights : minRetained <= h /\ h < p}
<1>1. /\ p > minRetained /\ minRetained' = p /\ tip' = tip
      /\ cfCanonical' = Without(cfCanonical, walked)
  BY DEF PruneBeforeHeight
<1>2. /\ RowsUpTo(Height[tip]) /\ Height[tip] \in Heights
      /\ cfCanonical[Height[tip]] = tip
  BY CleanTop DEF ChainInv
<1>3. p \in Int /\ Height[tip] \in Int /\ minRetained \in Int
  BY <1>2, LowerType DEF Heights
<1>4. \A h \in Heights : cfCanonical'[h] = IF p <= h THEN cfCanonical[h] ELSE NoBlock
  <2> SUFFICES ASSUME NEW h \in Heights
               PROVE  cfCanonical'[h] = IF p <= h THEN cfCanonical[h] ELSE NoBlock
    OBVIOUS
  <2>1. h \in Int BY DEF Heights
  <2>2. h \in walked <=> minRetained <= h /\ h < p OBVIOUS
  <2>3. cfCanonical'[h] = IF h \in walked THEN NoBlock ELSE cfCanonical[h]
    <3> HIDE DEF walked
    <3> QED BY <1>1, WithoutType DEF TypeOK
  <2>4. h < minRetained => cfCanonical[h] = NoBlock BY <1>2, <1>3, <2>1 DEF RowsUpTo
  <2> QED BY <1>1, <1>3, <2>1, <2>2, <2>3, <2>4
<1>5. RowsUpTo(Height[tip])'
  <2>1. \A h \in Heights : h \in Int /\ (p <= h => minRetained <= h)
    BY <1>1, <1>3 DEF Heights
  <2>2. \A h \in Heights : cfCanonical'[h] # NoBlock <=> p <= h /\ h <= Height[tip]
    BY <1>2, <1>4, <2>1 DEF RowsUpTo
  <2> QED BY <1>1, <2>2 DEF RowsUpTo
<1>6. RowsLinked'
  <2>1. \A h \in Heights \ {0} : h - 1 \in Heights BY MaxHeightAssumption DEF Heights
  <2>2. \A h \in Heights : cfCanonical'[h] # NoBlock => cfCanonical'[h] = cfCanonical[h]
    BY <1>4
  <2> QED BY <2>1, <2>2 DEF ChainInv, RowsLinked
<1>7. ChainInv'
  <2>1. cfCanonical'[Height[tip]] = tip BY <1>2, <1>3, <1>4
  <2> QED BY <1>1, <1>2, <1>5, <1>6, <2>1, ChainEndsAt
<1> QED BY <1>4, <1>7

-----------------------------------------------------------------------------
(***************************************************************************)
(* Adopting a fork: apply_reorg above find_common_ancestor.                *)
(***************************************************************************)

\* The list that is adopted: known blocks, one at each height above the
\* ancestor, which is a canonical block.
LEMMA NewChainFacts ==
  ASSUME TypeOK, NEW b \in Blocks, FindCommonAncestor(b) \notin {NoBlock, b}
  PROVE  LET n == AncestorSteps(b)
             anc == FindCommonAncestor(b)
         IN  /\ n \in 1..(MaxDepth - 1)
             /\ anc = Ancestry(b)[n] /\ anc \in Blocks
             /\ Height[anc] = Height[b] - n
             /\ Lookup(Height[anc]) = anc
             /\ IsList(NewChain(b))
             /\ DOMAIN NewChain(b) = 1..n
             /\ NewChain(b)[Len(NewChain(b))] = b
             /\ \A i \in 1..n : /\ NewChain(b)[i] = Ancestry(b)[n - i]
                                /\ NewChain(b)[i] \in Blocks
                                /\ Height[NewChain(b)[i]] = Height[anc] + i
<1> DEFINE n == AncestorSteps(b)
           anc == FindCommonAncestor(b)
           bs == NewChain(b)
           p == Ancestry(b)
<1>1. MaxDepth \in Nat /\ Height[b] \in Nat BY MaxDepthAssumption, BlockHeight
<1>2. /\ n \in 0..MaxDepth
      /\ n < MaxDepth => Shared(b, n)
  BY AncestorStepsFirst
<1>3. n # MaxDepth /\ anc = p[n] BY DEF FindCommonAncestor
<1>4. p[0] = b BY AncestryIsPath DEF IsPath
<1> HIDE DEF n, anc, p
<1>5. n \in 1..(MaxDepth - 1) BY <1>1, <1>2, <1>3, <1>4 DEF anc
<1>6. Shared(b, n) BY <1>1, <1>2, <1>3
<1>7. p[n] # NoBlock /\ Lookup(Height[p[n]]) = p[n] BY <1>5, <1>6 DEF Shared, p
<1>8. p[n] \in Blocks /\ Height[p[n]] = Height[b] - n
  BY <1>2, <1>7, AncestryHeights DEF p
<1>9. \A j \in 0..n : p[j] \in Blocks /\ Height[p[j]] = Height[b] - j
  <2> SUFFICES ASSUME NEW j \in 0..n
               PROVE  p[j] \in Blocks /\ Height[p[j]] = Height[b] - j
    OBVIOUS
  <2>1. p[j] # NoBlock BY <1>2, <1>7, AncestryHeights DEF p
  <2>2. j \in 0..MaxDepth BY <1>1, <1>5
  <2> QED BY <2>1, <2>2, AncestryHeights DEF p
<1>10. bs = [i \in 1..n |-> p[n - i]] BY DEF NewChain, n, p
<1>11. \A i \in 1..n : /\ bs[i] = p[n - i] /\ n - i \in 0..n
                       /\ bs[i] \in Blocks
                       /\ Height[bs[i]] = Height[b] - (n - i)
  BY <1>5, <1>9, <1>10
<1>12. \A i \in 1..n : Height[bs[i]] = Height[anc] + i
  <2>1. Height[anc] = Height[b] - n BY <1>3, <1>8
  <2> QED BY <1>1, <1>5, <1>11, <2>1
<1>13. DOMAIN bs = 1..n BY <1>10
<1>14. Len(bs) = n
  <2>1. bs \in Seq(Blocks) BY <1>5, <1>10, <1>11
  <2> QED BY <1>5, <1>13, <2>1
<1>15. bs[Len(bs)] = b
  <2>1. n \in 1..n /\ n - n = 0 BY <1>5
  <2> QED BY <1>4, <1>11, <1>14, <2>1
<1>16. IsList(bs) BY <1>5, <1>11, <1>13, <1>14 DEF IsList
<1> QED BY <1>3, <1>5, <1>7, <1>8, <1>11, <1>12, <1>13, <1>15, <1>16 DEF n, anc, p

\* The rows up to the ancestor stay, the adopted blocks follow, and nothing is
\* left above them.
LEMMA RowsAdopted ==
  ASSUME StoreInv, ChainInv, ~dirty, ~dirty', NEW b \in Blocks, Adopt(b)
  PROVE  /\ ChainInv'
         /\ \E a \in Heights : /\ cfCanonical[a] # NoBlock
                               /\ \A h \in Heights : h <= a => cfCanonical'[h] = cfCanonical[h]
<1> DEFINE n == AncestorSteps(b)
           anc == FindCommonAncestor(b)
           a == Height[anc]
           bs == NewChain(b)
           p == Ancestry(b)
           gone == (a + 1)..Height[tip]
           kept == Without(cfCanonical, gone)
<1>1. /\ FindCommonAncestor(b) \notin {NoBlock, b}
      /\ ApplyReorg(a, bs)
  BY DEF Adopt
<1>2. TypeOK BY DEF StoreInv
<1>3. /\ n \in 1..(MaxDepth - 1)
      /\ anc = p[n] /\ anc \in Blocks
      /\ a = Height[b] - n
      /\ Lookup(a) = anc
      /\ IsList(bs)
      /\ DOMAIN bs = 1..n
      /\ bs[Len(bs)] = b
      /\ \A i \in 1..n : bs[i] = p[n - i] /\ bs[i] \in Blocks /\ Height[bs[i]] = a + i
  BY <1>1, <1>2, NewChainFacts
<1>4. /\ tip # NoBlock /\ tip' = bs[Len(bs)] /\ minRetained' = minRetained
      /\ cfCanonical' = PutAll(kept, bs, DOMAIN bs)
  BY <1>1 DEF ApplyReorg, floorVars
<1>5. MaxDepth \in Nat BY MaxDepthAssumption
<1> HIDE DEF n, anc, bs, p
<1>6. /\ a \in Heights /\ a \in Nat /\ Height[b] \in Heights /\ Height[b] \in Nat
      /\ n \in Nat /\ n >= 1 /\ Height[b] = a + n
  <2>1. a \in Heights /\ a \in Nat /\ Height[b] \in Heights /\ Height[b] \in Nat
    BY <1>3, BlockHeight
  <2> QED BY <1>3, <2>1
<1> HIDE DEF a
<1>7. RowsUpTo(Height[tip]) /\ Height[tip] \in Nat /\ minRetained \in Int
  BY <1>2, <1>4, CleanTop, LowerType, BlockHeight DEF ChainInv
<1>8. cfCanonical[a] = anc /\ anc # NoBlock /\ minRetained <= a
  <2>1. cfCanonical[a] = anc BY <1>3, <1>6, LookupRow DEF ChainInv
  <2>2. anc # NoBlock BY <1>3, BlockHeight
  <2> QED BY <1>6, <1>7, <2>1, <2>2 DEF RowsUpTo
<1>9. kept \in Index /\ \A h \in Heights : kept[h] = IF h \in gone THEN NoBlock ELSE cfCanonical[h]
  <2> HIDE DEF gone
  <2> QED BY <1>2, WithoutType DEF TypeOK
<1> HIDE DEF kept
<1>10. /\ 1..n \in SUBSET Int
       /\ \A i \in 1..n : bs[i] \in Blocks
       /\ cfCanonical' = PutAll(kept, bs, 1..n)
  BY <1>3, <1>4
<1>11. /\ \A i \in 1..n : (\A j \in 1..n : i < j => Height[bs[j]] # Height[bs[i]])
                           => cfCanonical'[Height[bs[i]]] = bs[i]
       /\ \A h \in Heights : (\A i \in 1..n : Height[bs[i]] # h) => cfCanonical'[h] = kept[h]
  <2> DEFINE I == 1..n
  <2>1. I \in SUBSET Int /\ (\A i \in I : bs[i] \in Blocks) /\ cfCanonical' = PutAll(kept, bs, I)
    BY <1>10
  <2> HIDE DEF I
  <2>2. /\ \A i \in I : (\A j \in I : i < j => Height[bs[j]] # Height[bs[i]])
                          => cfCanonical'[Height[bs[i]]] = bs[i]
        /\ \A h \in Heights : (\A i \in I : Height[bs[i]] # h) => cfCanonical'[h] = kept[h]
    BY <1>9, <2>1, PutAllLast
  <2> QED BY <2>2 DEF I
<1>12. \A h \in Heights : h <= a => cfCanonical'[h] = cfCanonical[h]
  <2> SUFFICES ASSUME NEW h \in Heights, h <= a PROVE cfCanonical'[h] = cfCanonical[h]
    OBVIOUS
  <2>1. h \in Int BY DEF Heights
  <2>2. h \notin gone BY <1>6, <2>1
  <2>3. \A i \in 1..n : Height[bs[i]] # h
    <3>1. \A i \in 1..n : a + i # h BY <1>6, <2>1
    <3> QED BY <1>3, <3>1
  <2> QED BY <1>9, <1>11, <2>2, <2>3
<1>13. \A i \in 1..n : cfCanonical'[a + i] = p[n - i]
  <2> SUFFICES ASSUME NEW i \in 1..n PROVE cfCanonical'[a + i] = p[n - i] OBVIOUS
  <2>1. \A j \in 1..n : i < j => a + j # a + i BY <1>6
  <2>2. \A j \in 1..n : i < j => Height[bs[j]] # Height[bs[i]] BY <1>3, <2>1
  <2> QED BY <1>3, <1>11, <2>2
<1>14. \A h \in Heights : h > Height[b] => cfCanonical'[h] = NoBlock
  <2> SUFFICES ASSUME NEW h \in Heights, h > Height[b] PROVE cfCanonical'[h] = NoBlock
    OBVIOUS
  <2>1. h \in Int BY DEF Heights
  <2>2. \A i \in 1..n : Height[bs[i]] # h BY <1>3, <1>6, <2>1
  <2>3. h \in gone \/ h > Height[tip] BY <1>3, <1>6, <1>7, <2>1
  <2>4. h > Height[tip] => cfCanonical[h] = NoBlock BY <1>7, <2>1 DEF RowsUpTo
  <2> QED BY <1>9, <1>11, <2>2, <2>3, <2>4
<1> HIDE DEF gone
<1>15. \A i \in 0..n : p[n - i] \in Blocks /\ p[n - i] # NoBlock /\ cfCanonical'[a + i] = p[n - i]
  <2> SUFFICES ASSUME NEW i \in 0..n
               PROVE  p[n - i] \in Blocks /\ cfCanonical'[a + i] = p[n - i]
    BY BlockHeight
  <2>1. CASE i = 0
    <3>1. n - i = n /\ a + i = a BY <1>6, <2>1
    <3>2. cfCanonical'[a] = cfCanonical[a] BY <1>6, <1>12
    <3>3. cfCanonical'[a] = p[n] /\ p[n] \in Blocks BY <1>3, <1>8, <3>2
    <3> QED BY <3>1, <3>3
  <2>2. CASE i # 0
    <3>1. i \in 1..n BY <2>2, <1>3
    <3> QED BY <1>3, <1>13, <3>1
  <2> QED BY <2>1, <2>2
<1>16. \A h \in Heights : a <= h /\ h <= Height[b] => h - a \in 0..n /\ a + (h - a) = h
  BY <1>6 DEF Heights
<1>17. RowsUpTo(Height[b])'
  <2>1. minRetained <= Height[b] BY <1>3, <1>6, <1>7, <1>8
  <2> SUFFICES ASSUME NEW h \in Heights
               PROVE  cfCanonical'[h] # NoBlock <=> minRetained <= h /\ h <= Height[b]
    BY <1>4, <2>1 DEF RowsUpTo
  <2>2. h \in Int BY DEF Heights
  <2>3. CASE h < a
    <3>1. a <= Height[tip] BY <1>6, <1>7, <1>8 DEF RowsUpTo
    <3>2. h <= Height[tip] /\ h <= Height[b] BY <1>6, <1>7, <2>2, <2>3, <3>1
    <3>3. cfCanonical'[h] = cfCanonical[h] BY <1>6, <1>12, <2>2, <2>3
    <3> QED BY <1>7, <3>2, <3>3 DEF RowsUpTo
  <2>4. CASE a <= h /\ h <= Height[b]
    <3>1. cfCanonical'[h] # NoBlock BY <1>15, <1>16, <2>4
    <3> QED BY <1>6, <1>7, <1>8, <2>2, <2>4, <3>1
  <2>5. CASE h > Height[b] BY <1>6, <1>14, <2>2, <2>5
  <2> QED BY <1>6, <2>2, <2>3, <2>4, <2>5
<1>18. RowsLinked'
  <2> SUFFICES ASSUME NEW h \in Heights \ {0}, cfCanonical'[h] # NoBlock,
                      cfCanonical'[h - 1] # NoBlock
               PROVE  Parent[cfCanonical'[h]] = cfCanonical'[h - 1]
    BY DEF RowsLinked
  <2>1. h - 1 \in Heights /\ h \in Int BY MaxHeightAssumption DEF Heights
  <2>2. CASE h <= a
    <3>1. h - 1 <= a BY <1>6, <2>1, <2>2
    <3> QED BY <1>12, <2>1, <2>2, <3>1 DEF ChainInv, RowsLinked
  <2>3. CASE a < h
    <3>1. h <= Height[b] BY <1>6, <1>14, <2>1
    <3> DEFINE i == h - a
    <3>2. i \in 1..n /\ a + i = h /\ i - 1 \in 0..n /\ a + (i - 1) = h - 1
      BY <1>6, <2>1, <2>3, <3>1
    <3> HIDE DEF i
    <3>3. cfCanonical'[h] = p[n - i] /\ cfCanonical'[h - 1] = p[n - (i - 1)]
      <4>1. i \in 0..n BY <3>2
      <4> QED BY <1>15, <3>2, <4>1
    <3>4. n - i \in 0..(MaxDepth - 1) /\ (n - i) + 1 = n - (i - 1)
      BY <1>3, <1>5, <3>2
    <3>5. p[n - i] # NoBlock BY <3>3
    <3> QED BY <3>3, <3>4, <3>5, AncestryParent DEF p
  <2> QED BY <1>6, <2>1, <2>2, <2>3
<1>19. cfCanonical'[Height[b]] = b
  <2>1. n \in 0..n /\ n - n = 0 /\ a + n = Height[b] BY <1>3, <1>6
  <2>2. p[0] = b BY AncestryIsPath DEF IsPath, p
  <2> QED BY <1>15, <2>1, <2>2
<1>20. ChainInv'
  <2>1. b # NoBlock BY BlockHeight
  <2> QED BY <1>3, <1>4, <1>6, <1>17, <1>18, <1>19, <2>1, ChainEndsAt
<1> QED BY <1>6, <1>8, <1>12, <1>20

-----------------------------------------------------------------------------
(***************************************************************************)
(* Every step of the follower.                                             *)
(***************************************************************************)

\* A step is one of the store's operations, or the adoption of a fork.
LEMMA FollowerStepKinds ==
  ASSUME TypeOK, [FollowerNext]_followerVars
  PROVE  [Next]_vars \/ \E b \in Blocks : Adopt(b)
<1>1. ASSUME NEW b \in Blocks, Start(b) \/ Extend(b) \/ ExtendFails(b) \/ StoreFork(b)
      PROVE  Next
  BY <1>1 DEF Start, Extend, ExtendFails, StoreFork, Next, BodyNext, IndexNext, StagingNext
<1>2. ASSUME NEW t \in Heights, Revert(t) \/ Prune(t) PROVE Next
  <2>1. t \in 0..(MaxHeight + 1) BY MaxHeightAssumption DEF Heights
  <2> QED BY <1>2, <2>1 DEF Revert, Prune, Next, IndexNext
<1>3. CASE Read
  BY <1>3 DEF Read, Next, IndexNext, BodyNext
<1>4. ASSUME NEW warm \in BOOLEAN, Restart(warm) PROVE Next
  BY <1>4 DEF Restart, Next, IndexNext
<1>5. CASE CorrectTip
  <2>1. ASSUME NEW h \in Heights, Lookup(h) # NoBlock, SetTip(Lookup(h)) PROVE Next
    <3>1. Lookup(h) \in Blocks BY <2>1, LookupEntries DEF Slot
    <3> QED BY <2>1, <3>1 DEF Next, IndexNext
  <2> QED BY <1>5, <2>1 DEF CorrectTip
<1>6. CASE UNCHANGED followerVars BY <1>6 DEF followerVars
<1> QED BY <1>1, <1>2, <1>3, <1>4, <1>5, <1>6 DEF FollowerNext

\* What one adoption does to types, stored blocks and the three tiers.
LEMMA AdoptStore ==
  ASSUME StoreInv, NEW b \in Blocks, Adopt(b)
  PROVE  StoreInv'
<1>1. TypeOK /\ StoredInv /\ BinInv /\ CacheInv BY DEF StoreInv
<1>2. /\ FindCommonAncestor(b) \notin {NoBlock, b}
      /\ ApplyReorg(Height[FindCommonAncestor(b)], NewChain(b))
  BY DEF Adopt
<1>3. IsList(NewChain(b)) /\ FindCommonAncestor(b) \in Blocks BY <1>1, <1>2, NewChainFacts
<1>4. Height[FindCommonAncestor(b)] \in Heights BY <1>3, BlockHeight
<1>5. TypeOK' BY <1>1, <1>2, <1>3, <1>4, ReorgType
<1>6. StoredInv' BY <1>1, <1>2, <1>3, <1>4, <1>5, ReorgStored
<1>7. BinInv' BY <1>1, <1>2, <1>3, <1>4, <1>5, ReorgBin
<1>8. CacheInv' BY <1>1, <1>2, <1>3, <1>4, ReorgCache
<1> QED BY <1>5, <1>6, <1>7, <1>8 DEF StoreInv

\* The height cache agrees with the rows for any capacity, 0 included: the
\* follower writes a row outside apply_reorg only where there was none.
LEMMA FollowerCache ==
  ASSUME StoreInv, ChainInv, TypeOK', [FollowerNext]_followerVars,
         ~ \E b \in Blocks : Adopt(b)
  PROVE  CacheInv'
<1>1. TypeOK /\ BinInv /\ CacheInv BY DEF StoreInv
<1>2. ASSUME NEW b \in Blocks, Start(b) PROVE CacheInv'
  <2>1. tip = NoBlock /\ InitGenesis(b) BY <1>2 DEF Start
  <2>2. 0 \in Heights BY MaxHeightAssumption DEF Heights
  <2>3. cfCanonical[0] = NoBlock BY <2>1, <2>2 DEF ChainInv, NoChainYet
  <2> QED BY <1>1, <2>1, <2>3, QuietStepCache DEF QuietStep, GenesisFirst
<1>3. ASSUME NEW b \in Blocks, Extend(b) \/ ExtendFails(b) PROVE CacheInv'
  <2>1. /\ ~dirty /\ tip # NoBlock /\ Parent[b] = tip
        /\ cfCanonical' = [cfCanonical EXCEPT ![Height[b]] = b]
        /\ heightCache' = CacheInsertOne(heightCache, Height[b], b)
        /\ minRetained' = minRetained
    BY <1>3 DEF Extend, ExtendFails, Clean, ExtendChain, PutBlock, StoreRows, PutPostCommit,
                floorVars
  <2>2. cfCanonical[Height[b]] = NoBlock
    <3>1. tip \in Blocks /\ RowsUpTo(Height[tip]) BY <1>1, <2>1, CleanTop DEF ChainInv
    <3>2. Height[b] = Height[tip] + 1 /\ Height[tip] \in Nat /\ Height[b] \in Heights
      BY <2>1, <3>1, ParentHeight, BlockHeight
    <3> QED BY <3>1, <3>2 DEF RowsUpTo
  <2> QED BY <1>1, <2>1, <2>2, InsertAgrees
<1>4. ASSUME NEW b \in Blocks, StoreFork(b) PROVE CacheInv'
  BY <1>1, <1>4, QuietStepCache DEF StoreFork, QuietStep, BodyNext
<1>5. ASSUME NEW t \in Heights, Revert(t) \/ Prune(t) PROVE CacheInv'
  <2>1. t \in 0..(MaxHeight + 1) BY MaxHeightAssumption DEF Heights
  <2> QED BY <1>1, <1>5, <2>1, QuietStepCache DEF Revert, Prune, QuietStep
<1>6. CASE Read BY <1>1, <1>6, QuietStepCache DEF Read, QuietStep, BodyNext
<1>7. ASSUME NEW warm \in BOOLEAN, Restart(warm) PROVE CacheInv'
  BY <1>1, <1>7, QuietStepCache
     DEF Restart, QuietStep, Reopen, ExtendChainCrash, RollbackCrash
<1>8. CASE CorrectTip
  <2>1. ASSUME NEW h \in Heights, Lookup(h) # NoBlock, SetTip(Lookup(h)) PROVE QuietStep
    <3>1. Lookup(h) \in Blocks BY <1>1, <2>1, LookupEntries DEF Slot
    <3> QED BY <2>1, <3>1 DEF QuietStep
  <2>2. QuietStep BY <1>8, <2>1 DEF CorrectTip, QuietStep
  <2> QED BY <1>1, <2>2, QuietStepCache
<1>9. CASE UNCHANGED followerVars
  BY <1>1, <1>9, QuietStepCache DEF followerVars, QuietStep
<1> QED BY <1>2, <1>3, <1>4, <1>5, <1>6, <1>7, <1>8, <1>9 DEF FollowerNext

\* Types, stored blocks and the three tiers, through any step.
LEMMA FollowerStore ==
  ASSUME StoreInv, ChainInv, [FollowerNext]_followerVars
  PROVE  StoreInv'
<1>1. TypeOK /\ StoredInv /\ BinInv /\ CacheInv BY DEF StoreInv
<1>2. CASE \E b \in Blocks : Adopt(b) BY <1>2, AdoptStore
<1>3. CASE ~ \E b \in Blocks : Adopt(b)
  <2>1. [Next]_vars BY <1>1, <1>3, FollowerStepKinds
  <2>2. TypeOK' /\ StoredInv' BY <1>1, <2>1, StepType, StepStored
  <2>3. BinInv' BY <1>1, <2>1, <2>2, StepBin
  <2>4. CacheInv' BY <1>3, <2>2, FollowerCache
  <2> QED BY <2>2, <2>3, <2>4 DEF StoreInv
<1> QED BY <1>2, <1>3

\* What one step does to the canonical rows: nothing, a first row, a new upper
\* part above a row that stays, or the loss of a lower part.
RowsBegin ==
  /\ \A h \in Heights : cfCanonical[h] = NoBlock
  /\ \E b \in Blocks : /\ Parent[b] = NoBlock
                       /\ \A h \in Heights : cfCanonical'[h] = IF h = 0 THEN b ELSE NoBlock
RowsReplace ==
  \E a \in Heights : /\ cfCanonical[a] # NoBlock
                     /\ \A h \in Heights : h <= a => cfCanonical'[h] = cfCanonical[h]
RowsForget ==
  \E p \in Heights :
    /\ cfCanonical'[p] # NoBlock
    /\ \A h \in Heights : cfCanonical'[h] = IF p <= h THEN cfCanonical[h] ELSE NoBlock
RowsStep == UNCHANGED cfCanonical \/ RowsBegin \/ RowsReplace \/ RowsForget

\* The first block.
LEMMA StartRows ==
  ASSUME StoreInv, ChainInv, NEW b \in Blocks, Start(b)
  PROVE  ChainInv' /\ RowsBegin
<1>1. /\ tip = NoBlock /\ Parent[b] = NoBlock /\ ~dirty'
      /\ Height[b] = 0 /\ tip' = b /\ minRetained' = minRetained
      /\ cfCanonical' = [cfCanonical EXCEPT ![Height[b]] = b]
  BY DEF Start, Clean, InitGenesis, floorVars
<1>2. minRetained = 0 /\ \A h \in Heights : cfCanonical[h] = NoBlock
  BY <1>1 DEF ChainInv, NoChainYet
<1>3. \A h \in Heights : cfCanonical'[h] = IF h = 0 THEN b ELSE NoBlock
  BY <1>1, <1>2, RowPutType DEF StoreInv, TypeOK
<1>4. 0 \in Heights /\ b # NoBlock /\ \A h \in Heights : h \in Nat
  BY MaxHeightAssumption, BlockHeight DEF Heights
<1>5. RowsUpTo(0)' BY <1>1, <1>2, <1>3, <1>4 DEF RowsUpTo
<1>6. RowsLinked' BY <1>3 DEF RowsLinked
<1>7. ChainInv' BY <1>1, <1>3, <1>4, <1>5, <1>6, ChainEndsAt
<1> QED BY <1>1, <1>2, <1>3, <1>7 DEF RowsBegin

\* A child of the tip, whether extend_chain returns, fails or is cut short.
LEMMA ExtendRows ==
  ASSUME StoreInv, ChainInv, NEW b \in Blocks, NEW warm \in BOOLEAN,
         \/ Extend(b) \/ ExtendFails(b)
         \/ ~dirty /\ dirty' /\ Parent[b] = tip /\ tip # NoBlock /\ ExtendChainCrash(b, warm)
  PROVE  ChainInv' /\ RowsReplace
<1>1. TypeOK BY DEF StoreInv
<1>2. /\ ~dirty /\ tip # NoBlock /\ Parent[b] = tip
      /\ cfCanonical' = [cfCanonical EXCEPT ![Height[b]] = b]
      /\ minRetained' = minRetained
      /\ tip' = b \/ (dirty' /\ tip' = tip)
  <2>1. CASE Extend(b)
    BY <2>1 DEF Extend, Clean, ExtendChain, StoreRows, floorVars
  <2>2. CASE ExtendFails(b)
    BY <2>2 DEF ExtendFails, PutBlock, StoreRows
  <2>3. CASE ~dirty /\ dirty' /\ Parent[b] = tip /\ tip # NoBlock /\ ExtendChainCrash(b, warm)
    BY <1>1, <2>3 DEF ExtendChainCrash, StoreRows, Recover, metaVars, TypeOK
  <2> QED BY <2>1, <2>2, <2>3
<1>3. b # NoBlock BY BlockHeight
<1>4. /\ ChainInv'
      /\ \A h \in Heights : h <= Height[tip] => cfCanonical'[h] = cfCanonical[h]
  BY <1>1, <1>2, <1>3, RowOnTop
<1>5. Height[tip] \in Heights /\ cfCanonical[Height[tip]] # NoBlock
  BY <1>1, <1>2, CleanTop DEF ChainInv
<1> QED BY <1>4, <1>5 DEF RowsReplace

\* A rollback, complete or cut short before it sets the tip.
LEMMA RevertRows ==
  ASSUME StoreInv, ChainInv, NEW t \in Heights, NEW warm \in BOOLEAN,
         Revert(t) \/ (~dirty /\ dirty' /\ RollbackCrash(t, warm))
  PROVE  ChainInv' /\ RowsReplace
<1>1. TypeOK /\ StoredInv /\ BinInv /\ CacheInv BY DEF StoreInv
<1>2. /\ ~dirty /\ CanRollback(t)
      /\ cfCanonical' = Without(cfCanonical, (t + 1)..Height[tip])
      /\ minRetained' = minRetained
  BY <1>1 DEF Revert, Clean, RollbackToHeight, RollbackCrash, Recover, metaVars, floorVars,
              TypeOK
<1>3. tip # NoBlock /\ t >= minRetained BY <1>2 DEF CanRollback
<1>4. cfCanonical[t] # NoBlock
  <2>1. RowsUpTo(Height[tip]) /\ Height[tip] \in Heights BY <1>1, <1>2, <1>3, CleanTop DEF ChainInv
  <2>2. minRetained <= t /\ t <= Height[tip]
    BY <1>1, <1>2, <1>3, <2>1, LowerType DEF CanRollback, Heights
  <2> QED BY <2>1, <2>2 DEF RowsUpTo
<1>5. RollbackTip(t) = cfCanonical[t]
  <2> DEFINE c == CacheAfter((t + 1)..Height[tip])
  <2>1. c[t] \in {NoBlock, cfCanonical[t]} BY <1>1, <1>3, CacheAfterAgrees
  <2>2. Lower[t] = cfCanonical[t] BY <1>1, <1>3, LowerAgrees
  <2>3. RollbackTip(t) = LookupIn(c, Lower, minRetained, t) BY DEF RollbackTip
  <2> HIDE DEF c
  <2>4. ~(t < minRetained) BY <1>1, <1>3, LowerType DEF Heights
  <2> QED BY <2>1, <2>2, <2>3, <2>4 DEF LookupIn
<1>6. tip' # NoBlock /\ (dirty' \/ tip' = cfCanonical[t])
  <2>1. CASE Revert(t)
    BY <1>4, <1>5, <2>1 DEF Revert, RollbackToHeight
  <2>2. CASE dirty' /\ RollbackCrash(t, warm)
    BY <1>1, <1>3, <2>2 DEF RollbackCrash, Recover, metaVars, TypeOK
  <2> QED BY <2>1, <2>2
<1>7. /\ ChainInv'
      /\ \A h \in Heights : cfCanonical'[h] = IF h <= t THEN cfCanonical[h] ELSE NoBlock
  BY <1>1, <1>2, <1>6, RowsCut
<1> QED BY <1>4, <1>7 DEF RowsReplace

\* Pruning at or below the tip keeps at least the tip.
LEMMA PruneRows ==
  ASSUME StoreInv, ChainInv, NEW p \in Heights, Prune(p)
  PROVE  ChainInv' /\ RowsForget
<1>1. TypeOK BY DEF StoreInv
<1>2. ~dirty /\ ~dirty' /\ tip # NoBlock /\ p <= Height[tip] /\ PruneBeforeHeight(p)
  BY DEF Prune, Clean
<1>3. /\ ChainInv'
      /\ \A h \in Heights : cfCanonical'[h] = IF p <= h THEN cfCanonical[h] ELSE NoBlock
  BY <1>1, <1>2, RowsForgotten
<1>4. cfCanonical[p] # NoBlock
  <2>1. RowsUpTo(Height[tip]) /\ minRetained \in Int /\ p \in Int
    BY <1>1, <1>2, CleanTop, LowerType DEF ChainInv, Heights
  <2>2. p > minRetained BY <1>2 DEF PruneBeforeHeight
  <2> QED BY <1>2, <2>1, <2>2 DEF RowsUpTo
<1>5. cfCanonical'[p] # NoBlock
  <2>1. p <= p BY DEF Heights
  <2> QED BY <1>3, <1>4, <2>1
<1> QED BY <1>3, <1>5 DEF RowsForget

\* The scan after an open or an error finds the top row of the range.
LEMMA CorrectTipRows ==
  ASSUME StoreInv, ChainInv, CorrectTip
  PROVE  ChainInv' /\ UNCHANGED cfCanonical
<1>1. TypeOK /\ StoredInv BY DEF StoreInv
<1>2. \A h \in Heights : Lookup(h) = cfCanonical[h] BY LookupRow DEF ChainInv
<1>3. CASE \A h \in Heights : Lookup(h) = NoBlock
  <2>1. UNCHANGED vars BY <1>3 DEF CorrectTip
  <2>2. tip = NoBlock
    <3> SUFFICES ASSUME tip # NoBlock PROVE FALSE OBVIOUS
    <3>1. PICK top \in Heights : RowsUpTo(top) BY DEF ChainInv, OneRange
    <3>2. top <= top BY DEF Heights
    <3> QED BY <1>2, <1>3, <3>1, <3>2 DEF RowsUpTo
  <2>3. UNCHANGED <<cfCanonical, minRetained, tip>> BY <2>1 DEF vars
  <2> QED BY <2>2, <2>3 DEF ChainInv, NoChainYet, OneRange, RowsLinked
<1>4. CASE ~ \A h \in Heights : Lookup(h) = NoBlock
  <2>1. PICK h \in Heights : /\ Lookup(h) # NoBlock
                             /\ \A k \in Heights : Lookup(k) # NoBlock => k <= h
                             /\ SetTip(Lookup(h))
    BY <1>4 DEF CorrectTip
  <2>2. tip' = cfCanonical[h] /\ UNCHANGED <<cfCanonical, minRetained>>
    BY <1>2, <2>1 DEF SetTip, indexVars, floorVars
  <2>3. tip # NoBlock BY <1>2, <2>1 DEF ChainInv, NoChainYet
  <2>4. PICK top \in Heights : RowsUpTo(top) BY <2>3 DEF ChainInv, OneRange
  <2>5. h = top
    <3>1. h <= top BY <1>2, <2>1, <2>4 DEF RowsUpTo
    <3>2. cfCanonical[top] # NoBlock
      <4>1. top <= top BY DEF Heights
      <4> QED BY <2>4, <4>1 DEF RowsUpTo
    <3>3. top <= h BY <1>2, <2>1, <3>2
    <3> QED BY <3>1, <3>3 DEF Heights
  <2>6. Height[cfCanonical[h]] = h BY <1>1, <1>2, <2>1 DEF StoredInv, EntriesStored
  <2>7. RowsUpTo(h)' BY <2>2, <2>4, <2>5 DEF RowsUpTo
  <2>8. RowsLinked' BY <2>2 DEF ChainInv, RowsLinked
  <2>9. tip' # NoBlock BY <1>2, <2>1, <2>2
  <2>10. ChainInv' BY <2>2, <2>6, <2>7, <2>8, <2>9, ChainEndsAt
  <2> QED BY <2>2, <2>10
<1> QED BY <1>3, <1>4

\* Every step keeps one range of linked rows.
LEMMA FollowerRows ==
  ASSUME StoreInv, ChainInv, [FollowerNext]_followerVars
  PROVE  ChainInv' /\ RowsStep
<1>1. TypeOK BY DEF StoreInv
<1>2. ASSUME UNCHANGED <<cfCanonical, minRetained, tip>>, dirty' \/ ~dirty
      PROVE  ChainInv' /\ RowsStep
  BY <1>2, ChainUntouched DEF RowsStep
<1>3. ASSUME NEW b \in Blocks, Start(b) PROVE ChainInv' /\ RowsStep
  BY <1>3, StartRows DEF RowsStep
<1>4. ASSUME NEW b \in Blocks, Extend(b) \/ ExtendFails(b) PROVE ChainInv' /\ RowsStep
  BY <1>4, ExtendRows DEF RowsStep
<1>5. ASSUME NEW b \in Blocks, StoreFork(b) PROVE ChainInv' /\ RowsStep
  <2>1. UNCHANGED <<cfCanonical, minRetained, tip>> /\ ~dirty
    BY <1>5 DEF StoreFork, Clean, PutBlock, StoreRows
  <2> QED BY <1>2, <2>1
<1>6. ASSUME NEW b \in Blocks, Adopt(b) PROVE ChainInv' /\ RowsStep
  <2>1. ~dirty /\ ~dirty' BY <1>6 DEF Adopt, Clean
  <2> QED BY <1>6, <2>1, RowsAdopted DEF RowsStep, RowsReplace
<1>7. ASSUME NEW t \in Heights, Revert(t) PROVE ChainInv' /\ RowsStep
  BY <1>7, RevertRows DEF RowsStep
<1>8. ASSUME NEW t \in Heights, Prune(t) PROVE ChainInv' /\ RowsStep
  BY <1>8, PruneRows DEF RowsStep
<1>9. CASE Read
  <2>1. UNCHANGED <<cfCanonical, minRetained, tip>> /\ ~dirty
    BY <1>9 DEF Read, Clean, GetHashByHeight, GetRecord, GetBlock, InvalidateRecord,
                UpdateStatus, DisableBin, indexVars
  <2> QED BY <1>2, <2>1
<1>10. ASSUME NEW warm \in BOOLEAN, Restart(warm) PROVE ChainInv' /\ RowsStep
  <2>1. dirty' BY <1>10 DEF Restart
  <2>2. CASE Reopen(warm)
    <3>1. UNCHANGED <<cfCanonical, minRetained, tip>>
      BY <1>1, <2>2 DEF Reopen, Recover, metaVars, TypeOK
    <3> QED BY <1>2, <2>1, <3>1
  <2>3. ASSUME NEW b \in Blocks, ~dirty, Parent[b] = tip, tip # NoBlock,
               ExtendChainCrash(b, warm)
        PROVE  ChainInv' /\ RowsStep
    BY <2>1, <2>3, ExtendRows DEF RowsStep
  <2>4. ASSUME NEW t \in Heights, ~dirty, RollbackCrash(t, warm) PROVE ChainInv' /\ RowsStep
    BY <2>1, <2>4, RevertRows DEF RowsStep
  <2> QED BY <1>10, <2>2, <2>3, <2>4 DEF Restart
<1>11. CASE CorrectTip BY <1>11, CorrectTipRows DEF RowsStep
<1>12. CASE UNCHANGED followerVars
  <2>1. UNCHANGED <<cfCanonical, minRetained, tip>> /\ dirty' = dirty
    BY <1>12 DEF followerVars, vars
  <2> QED BY <2>1 DEF ChainInv, NoChainYet, OneRange, RowsUpTo, RowsLinked, RowsStep
<1> QED BY <1>3, <1>4, <1>5, <1>6, <1>7, <1>8, <1>9, <1>10, <1>11, <1>12 DEF FollowerNext

\* A stored header at or above the floor keeps a stored parent: the follower
\* stores a block only on top of a known one, and pruning takes whole heights.
LEMMA FollowerHeaders ==
  ASSUME StoreInv, ChainInv, HeadersLinked, StoreInv', [FollowerNext]_followerVars
  PROVE  HeadersLinked'
<1>1. TypeOK /\ StoredInv BY DEF StoreInv
<1>2. ASSUME UNCHANGED <<cfHeaders, minRetained>> PROVE HeadersLinked'
  BY <1>2 DEF HeadersLinked
<1>3. ASSUME NEW b \in Blocks, cfHeaders' = cfHeaders \cup {b}, minRetained' = minRetained,
             Parent[b] = NoBlock \/ Known(Parent[b])
      PROVE  HeadersLinked'
  <2>1. Parent[b] # NoBlock /\ Height[Parent[b]] >= minRetained => Parent[b] \in cfHeaders
    BY <1>1, <1>3, ParentHeight, KnownBacked DEF Backed
  <2> QED BY <1>3, <2>1 DEF HeadersLinked
<1>4. ASSUME ~dirty, tip # NoBlock PROVE Known(tip)
  <2>1. /\ tip \in Blocks /\ Height[tip] \in Heights
        /\ RowsUpTo(Height[tip]) /\ cfCanonical[Height[tip]] = tip
    BY <1>1, <1>4, CleanTop DEF ChainInv
  <2>2. Backed(tip) BY <1>1, <1>4, <2>1 DEF StoredInv, EntriesStored
  <2>3. Height[tip] >= minRetained BY <1>1, <2>1, LowerType DEF RowsUpTo, Heights
  <2> QED BY <2>2, <2>3 DEF Backed, Known
<1>5. ASSUME NEW b \in Blocks, Start(b) PROVE HeadersLinked'
  BY <1>3, <1>5 DEF Start, InitGenesis, floorVars
<1>6. ASSUME NEW b \in Blocks, Extend(b) \/ ExtendFails(b) PROVE HeadersLinked'
  <2>1. /\ ~dirty /\ tip # NoBlock /\ Parent[b] = tip
        /\ cfHeaders' = cfHeaders \cup {b} /\ minRetained' = minRetained
    BY <1>6 DEF Extend, ExtendFails, Clean, ExtendChain, PutBlock, StoreRows, floorVars
  <2> QED BY <1>3, <1>4, <2>1
<1>7. ASSUME NEW b \in Blocks, StoreFork(b) PROVE HeadersLinked'
  BY <1>3, <1>7 DEF StoreFork, PutBlock, StoreRows
<1>8. ASSUME NEW b \in Blocks, Adopt(b) PROVE HeadersLinked'
  BY <1>2, <1>8 DEF Adopt, ApplyReorg, durableBlocks, floorVars
<1>9. ASSUME NEW t \in Heights, Revert(t) PROVE HeadersLinked'
  BY <1>2, <1>9 DEF Revert, RollbackToHeight, durableBlocks, floorVars
<1>10. ASSUME NEW p \in Heights, Prune(p) PROVE HeadersLinked'
  <2>1. /\ PruneBeforeHeight(p) /\ p > minRetained /\ minRetained' = p
        /\ cfHeaders' \subseteq cfHeaders
    BY <1>10 DEF Prune, PruneBeforeHeight
  <2>2. p \in Int /\ minRetained \in Int /\ TypeOK'
    BY <1>1, LowerType DEF Heights, StoreInv
  <2>3. \A b \in Blocks : Height[b] >= p => (b \in cfHeaders' <=> b \in cfHeaders)
    BY <1>1, <2>1, <2>2, PruneKeeps
  <2> SUFFICES ASSUME NEW b \in cfHeaders', Parent[b] # NoBlock, Height[Parent[b]] >= p
               PROVE  Parent[b] \in cfHeaders'
    BY <2>1 DEF HeadersLinked
  <2>4. b \in Blocks /\ b \in cfHeaders BY <1>1, <2>1 DEF TypeOK
  <2>5. Parent[b] \in Blocks /\ Height[Parent[b]] \in Nat BY <2>4, ParentHeight, BlockHeight
  <2>6. Height[Parent[b]] >= minRetained BY <2>1, <2>2, <2>5
  <2>7. Parent[b] \in cfHeaders BY <2>4, <2>6 DEF HeadersLinked
  <2> QED BY <2>3, <2>5, <2>7
<1>11. CASE Read
  BY <1>2, <1>11 DEF Read, GetHashByHeight, GetRecord, GetBlock, InvalidateRecord,
                     UpdateStatus, DisableBin, durableBlocks
<1>12. ASSUME NEW warm \in BOOLEAN, Restart(warm) PROVE HeadersLinked'
  <2>1. ASSUME NEW t \in Heights, Reopen(warm) \/ RollbackCrash(t, warm)
        PROVE  HeadersLinked'
    BY <1>1, <1>2, <2>1 DEF Reopen, RollbackCrash, Recover, durableBlocks, metaVars, TypeOK
  <2>2. ASSUME NEW b \in Blocks, ~dirty, Parent[b] = tip, tip # NoBlock,
               ExtendChainCrash(b, warm)
        PROVE  HeadersLinked'
    <3>1. cfHeaders' = cfHeaders \cup {b} /\ minRetained' = minRetained
      BY <1>1, <2>2 DEF ExtendChainCrash, StoreRows, Recover, metaVars, TypeOK
    <3> QED BY <1>3, <1>4, <2>2, <3>1
  <2>3. 0 \in Heights BY MaxHeightAssumption DEF Heights
  <2> QED BY <1>12, <2>1, <2>2, <2>3 DEF Restart
<1>13. CASE CorrectTip
  BY <1>2, <1>13 DEF CorrectTip, SetTip, durableBlocks, floorVars, vars
<1>14. CASE UNCHANGED followerVars BY <1>2, <1>14 DEF followerVars, vars
<1> QED
  BY <1>5, <1>6, <1>7, <1>8, <1>9, <1>10, <1>11, <1>12, <1>13, <1>14 DEF FollowerNext

\* The invariant holds in the empty store ...
LEMMA FollowerInvInit == ASSUME FollowerInit PROVE FollowerInv
<1>1. Init BY DEF FollowerInit
<1>2. StoreInv
  BY <1>1, InitType, InitStored, NoIndexType DEF Init, StoreInv, BinInv, CacheInv, Agrees
<1>3. ChainInv
  BY <1>1, NoIndexType DEF Init, ChainInv, NoChainYet, OneRange, RowsLinked
<1>4. HeadersLinked BY <1>1 DEF Init, HeadersLinked
<1> QED BY <1>2, <1>3, <1>4 DEF FollowerInv

\* ... and after every step.
LEMMA FollowerInvStep ==
  ASSUME FollowerInv, [FollowerNext]_followerVars
  PROVE  FollowerInv'
<1>1. StoreInv /\ ChainInv /\ HeadersLinked BY DEF FollowerInv
<1>2. StoreInv' BY <1>1, FollowerStore
<1>3. ChainInv' BY <1>1, FollowerRows
<1>4. HeadersLinked' BY <1>1, <1>2, FollowerHeaders
<1> QED BY <1>2, <1>3, <1>4 DEF FollowerInv

\* The inductive invariant of a node that follows one chain.
THEOREM FollowerInvariant == FollowerSpec => []FollowerInv
<1>1. FollowerInit => FollowerInv BY FollowerInvInit
<1>2. FollowerInv /\ [FollowerNext]_followerVars => FollowerInv' BY FollowerInvStep
<1> QED BY <1>1, <1>2, PTL DEF FollowerSpec

\* A node that calls the store as documented always has one gap-free chain of
\* parent-linked canonical rows from the pruning floor to its tip, for any tree
\* of blocks: no mix of extensions, failed or interrupted extensions, reorgs,
\* rollbacks, pruning and reopens leaves a gap or a row above the tip.
THEOREM ChainAlwaysIntact == FollowerSpec => []ChainIntact
<1>1. FollowerInv => ChainIntact
  <2> SUFFICES ASSUME FollowerInv, ~dirty PROVE ChainIntact BY DEF ChainIntact
  <2>1. TypeOK /\ NoChainYet /\ OneRange /\ RowsLinked
    BY DEF FollowerInv, StoreInv, ChainInv
  <2>2. CASE tip = NoBlock
    BY <2>1, <2>2 DEF ChainIntact, NoChainYet, RowsLinked
  <2>3. CASE tip # NoBlock
    <3>1. RowsUpTo(Height[tip]) /\ cfCanonical[Height[tip]] = tip BY <2>1, <2>3, CleanTop
    <3> QED BY <2>1, <2>3, <3>1 DEF ChainIntact, RowsUpTo, RowsLinked
  <2> QED BY <2>2, <2>3
<1> QED BY <1>1, FollowerInvariant, PTL

\* For such a node get_hash_by_height answers with the CF_CANONICAL row for
\* every capacity of the height cache, also 0.
THEOREM FollowerLookupCanonical == FollowerSpec => []LookupIsCanonical
<1>1. FollowerInv => LookupIsCanonical
  BY LookupRow DEF FollowerInv, ChainInv, LookupIsCanonical
<1> QED BY <1>1, FollowerInvariant, PTL

\* The walk from a known block finds the record of each of its ancestors at or
\* above the pruning floor.
LEMMA AncestorsKnown ==
  ASSUME FollowerInv, NEW b \in Blocks, Known(b), NEW k \in 0..MaxDepth,
         Ancestry(b)[k] # NoBlock, Height[Ancestry(b)[k]] >= minRetained
  PROVE  \A j \in 0..k : Ancestry(b)[j] # NoBlock /\ Known(Ancestry(b)[j])
<1> DEFINE p == Ancestry(b)
<1>1. MaxDepth \in Nat /\ Height[b] \in Nat /\ minRetained \in Int /\ k \in Nat
  BY MaxDepthAssumption, BlockHeight, LowerType DEF FollowerInv, StoreInv
<1>2. TypeOK /\ StoredInv /\ HeadersLinked BY DEF FollowerInv, StoreInv
<1>3. p[0] = b BY AncestryIsPath DEF IsPath
<1>4. \A j \in 0..k : p[j] # NoBlock /\ p[j] \in Blocks BY AncestryHeights
<1>5. \A j \in 0..k : Height[p[j]] >= minRetained
  <2> SUFFICES ASSUME NEW j \in 0..k PROVE Height[p[j]] >= minRetained OBVIOUS
  <2>1. Height[p[k]] = Height[b] - k BY AncestryHeights
  <2>2. j \in 0..MaxDepth BY <1>1
  <2>3. Height[p[j]] = Height[b] - j BY <1>4, <2>2, AncestryHeights
  <2> QED BY <1>1, <2>1, <2>3
<1>6. \A j \in 0..(k - 1) : p[j + 1] = Parent[p[j]]
  <2> SUFFICES ASSUME NEW j \in 0..(k - 1) PROVE p[j + 1] = Parent[p[j]] OBVIOUS
  <2>1. j \in 0..(MaxDepth - 1) /\ j \in 0..k BY <1>1
  <2> QED BY <1>4, <2>1, AncestryParent
<1> HIDE DEF p
<1> DEFINE S == {j \in Nat : j <= k => p[j] \in cfHeaders}
<1>7. 0 \in S
  <2>1. Backed(b) BY <1>2, KnownBacked
  <2>2. Height[b] >= minRetained
    <3>1. 0 \in 0..k BY <1>1
    <3> QED BY <1>3, <1>5, <3>1
  <2> QED BY <1>3, <2>1, <2>2 DEF Backed
<1>8. ASSUME NEW j \in Nat, j \in S PROVE j + 1 \in S
  <2> SUFFICES ASSUME j + 1 <= k PROVE p[j + 1] \in cfHeaders OBVIOUS
  <2>1. j \in 0..(k - 1) /\ j + 1 \in 0..k /\ j <= k BY <1>1
  <2>2. p[j] \in cfHeaders BY <1>8, <2>1
  <2> QED BY <1>2, <1>4, <1>5, <1>6, <2>1, <2>2 DEF HeadersLinked
<1> HIDE DEF S
<1>9. Nat \subseteq S BY <1>7, <1>8, SuccessorClosed
<1>10. \A j \in 0..k : p[j] \in cfHeaders BY <1>9 DEF S
<1> QED BY <1>4, <1>10 DEF Known, p

\* find_common_ancestor returns the fork point whenever the walk can reach one:
\* the highest canonical block among a known block and its ancestors.  Neither
\* evicted records nor pruned headers end the walk too early.
THEOREM ForkPointAlwaysFound == FollowerSpec => []AncestorIsForkPoint
<1>1. FollowerInv => AncestorIsForkPoint
  <2> SUFFICES ASSUME FollowerInv PROVE AncestorIsForkPoint OBVIOUS
  <2> SUFFICES ASSUME NEW b \in Blocks, Known(b),
                      {i \in 0..(MaxDepth - 1) : /\ Ancestry(b)[i] # NoBlock
                                                 /\ Lookup(Height[Ancestry(b)[i]]) = Ancestry(b)[i]} # {}
               PROVE  LET path == Ancestry(b)
                          shared == {i \in 0..(MaxDepth - 1) :
                                       path[i] # NoBlock /\ Lookup(Height[path[i]]) = path[i]}
                      IN  /\ FindCommonAncestor(b) \in {path[i] : i \in shared}
                          /\ \A i \in shared : Height[path[i]] <= Height[FindCommonAncestor(b)]
    BY DEF AncestorIsForkPoint
  <2> DEFINE p == Ancestry(b)
             shared == {i \in 0..(MaxDepth - 1) : p[i] # NoBlock /\ Lookup(Height[p[i]]) = p[i]}
             n == AncestorSteps(b)
  <2>1. MaxDepth \in Nat /\ Height[b] \in Nat BY MaxDepthAssumption, BlockHeight
  <2>2. \A i \in shared : /\ i \in 0..MaxDepth /\ i < MaxDepth /\ i \in Nat
                          /\ p[i] # NoBlock /\ Lookup(Height[p[i]]) = p[i]
    BY <2>1
  <2>3. \A i \in shared : p[i] \in Blocks /\ Height[p[i]] = Height[b] - i
    <3> HIDE DEF shared
    <3> QED BY <2>2, AncestryHeights
  <2>4. PICK k \in shared : \A i \in shared : k <= i
    <3>1. shared \in SUBSET Nat /\ shared # {} BY <2>2
    <3> HIDE DEF shared
    <3> QED BY <3>1, LeastNumber
  <2>5. Shared(b, k)
    <3>1. /\ k \in 0..MaxDepth /\ p[k] # NoBlock /\ Lookup(Height[p[k]]) = p[k]
          /\ p[k] \in Blocks
      BY <2>2, <2>3, <2>4
    <3>2. Height[p[k]] >= minRetained
      BY <3>1, BlockHeight, LookupEntries DEF FollowerInv, StoreInv
    <3> QED BY <3>1, <3>2, AncestorsKnown DEF Shared
  <2>6. /\ n \in 0..MaxDepth
        /\ n < MaxDepth => Shared(b, n)
        /\ \A j \in 0..(n - 1) : ~Shared(b, j)
    BY AncestorStepsFirst
  <2>7. k \in Nat /\ k < MaxDepth BY <2>2, <2>4
  <2> HIDE DEF n, shared
  <2>8. n <= k
    <3> SUFFICES ASSUME k < n PROVE FALSE BY <2>6, <2>7
    <3>1. k \in 0..(n - 1) BY <2>6, <2>7
    <3> QED BY <2>5, <2>6, <3>1
  <2>9. n < MaxDepth /\ n \in 0..(MaxDepth - 1) /\ n \in 0..n BY <2>1, <2>6, <2>7, <2>8
  <2>10. n \in shared BY <2>6, <2>9 DEF shared, Shared
  <2>11. n = k BY <2>4, <2>6, <2>7, <2>8, <2>10
  <2>12. FindCommonAncestor(b) = p[n] BY <2>1, <2>6, <2>9 DEF FindCommonAncestor, n
  <2>13. \A i \in shared : Height[p[i]] <= Height[p[n]]
    <3> SUFFICES ASSUME NEW i \in shared PROVE Height[p[i]] <= Height[p[n]] OBVIOUS
    <3>1. n <= i /\ i \in Nat BY <2>2, <2>4, <2>11
    <3>2. Height[p[i]] = Height[b] - i /\ Height[p[n]] = Height[b] - n BY <2>3, <2>10
    <3> HIDE DEF p
    <3> QED BY <2>1, <2>6, <3>1, <3>2
  <2> QED BY <2>10, <2>12, <2>13 DEF shared
<1> QED BY <1>1, FollowerInvariant, PTL

-----------------------------------------------------------------------------
(***************************************************************************)
(* The store, driven this way, implements CanonicalChain.                  *)
(***************************************************************************)

\* The chain that the rows form, and the one readers see.
RowChain == [h \in Held(cfCanonical) |-> cfCanonical[h]]

\* They are the same.
LEMMA VisibleIsRows == ASSUME StoreInv, ChainInv PROVE VisibleChain = RowChain
<1>1. \A h \in Heights : Lookup(h) = cfCanonical[h] BY LookupRow DEF ChainInv
<1>2. {k \in Heights : Lookup(k) # NoBlock} = Held(cfCanonical) BY <1>1 DEF Held
<1>3. \A h \in Held(cfCanonical) : Lookup(h) = cfCanonical[h] BY <1>1 DEF Held
<1> QED BY <1>2, <1>3 DEF VisibleChain, RowChain

\* Rows of one linked range form a chain.
LEMMA RowsAreChain == ASSUME StoreInv, ChainInv PROVE Abstract!IsChain(RowChain)
<1>1. /\ DOMAIN RowChain = Held(cfCanonical)
      /\ \A h \in Held(cfCanonical) : RowChain[h] = cfCanonical[h]
  BY DEF RowChain
<1>2. /\ Held(cfCanonical) \subseteq Heights
      /\ \A h \in Heights : h \in Held(cfCanonical) <=> cfCanonical[h] # NoBlock
  BY DEF Held
<1>3. cfCanonical \in Index /\ minRetained \in Int BY LowerType DEF StoreInv, TypeOK
<1>4. \A h \in Held(cfCanonical) : cfCanonical[h] \in Blocks BY <1>2, <1>3 DEF Index, Slot
<1>5. \A h, k \in Held(cfCanonical) : \A m \in h..k : m \in Held(cfCanonical)
  <2> SUFFICES ASSUME NEW h \in Held(cfCanonical), NEW k \in Held(cfCanonical), NEW m \in h..k
               PROVE  m \in Held(cfCanonical)
    OBVIOUS
  <2>1. tip # NoBlock BY <1>2 DEF ChainInv, NoChainYet
  <2>2. PICK top \in Heights : RowsUpTo(top) BY <2>1 DEF ChainInv, OneRange
  <2>3. minRetained <= h /\ k <= top BY <1>2, <2>2 DEF RowsUpTo
  <2>4. m \in Heights /\ h \in Int /\ k \in Int /\ m \in Int /\ top \in Int
    <3>1. h \in Heights /\ k \in Heights BY <1>2
    <3> QED BY <3>1, MaxHeightAssumption DEF Heights
  <2>5. minRetained <= m /\ m <= top BY <1>3, <2>3, <2>4
  <2> QED BY <1>2, <2>2, <2>4, <2>5 DEF RowsUpTo
<1>6. \A h \in Held(cfCanonical) : h + 1 \in Held(cfCanonical)
        => Parent[cfCanonical[h + 1]] = cfCanonical[h]
  <2> SUFFICES ASSUME NEW h \in Held(cfCanonical), h + 1 \in Held(cfCanonical)
               PROVE  Parent[cfCanonical[h + 1]] = cfCanonical[h]
    OBVIOUS
  <2>1. h + 1 \in Heights \ {0} /\ (h + 1) - 1 = h BY <1>2 DEF Heights
  <2> QED BY <1>2, <2>1 DEF ChainInv, RowsLinked
<1>7. Abstract!Gapless(RowChain) BY <1>1, <1>5 DEF Abstract!Gapless
<1>8. Abstract!Linked(RowChain) BY <1>1, <1>6 DEF Abstract!Linked
<1> QED BY <1>1, <1>4, <1>7, <1>8 DEF Abstract!IsChain

\* A step of the rows is a step of the chain.
LEMMA RowsStepIsChainStep ==
  ASSUME StoreInv, ChainInv, StoreInv', ChainInv', RowsStep
  PROVE  [Abstract!Next]_VisibleChain
<1>1. VisibleChain = RowChain BY VisibleIsRows
<1>2. VisibleChain' = RowChain'
  <2>1. (StoreInv /\ ChainInv => VisibleChain = RowChain)' BY VisibleIsRows, PTL
  <2> QED BY <2>1
<1>3. Abstract!IsChain(RowChain)'
  <2>1. (StoreInv /\ ChainInv => Abstract!IsChain(RowChain))' BY RowsAreChain, PTL
  <2> QED BY <2>1
<1>4. /\ DOMAIN RowChain = Held(cfCanonical)
      /\ \A h \in Held(cfCanonical) : RowChain[h] = cfCanonical[h]
      /\ DOMAIN RowChain' = Held(cfCanonical')
      /\ \A h \in Held(cfCanonical') : RowChain'[h] = cfCanonical'[h]
  BY DEF RowChain
<1>5. \A h : /\ h \in Held(cfCanonical) <=> h \in Heights /\ cfCanonical[h] # NoBlock
             /\ h \in Held(cfCanonical') <=> h \in Heights /\ cfCanonical'[h] # NoBlock
  BY DEF Held
<1>6. CASE UNCHANGED cfCanonical
  <2>1. RowChain' = RowChain BY <1>6 DEF RowChain
  <2> QED BY <1>1, <1>2, <2>1
<1>7. CASE RowsBegin
  <2>1. PICK b \in Blocks :
          /\ Parent[b] = NoBlock
          /\ \A h \in Heights : cfCanonical'[h] = IF h = 0 THEN b ELSE NoBlock
    BY <1>7 DEF RowsBegin
  <2>2. 0 \in Heights /\ b # NoBlock BY MaxHeightAssumption, BlockHeight DEF Heights
  <2>3. DOMAIN RowChain = {} BY <1>4, <1>5, <1>7 DEF RowsBegin
  <2>4. DOMAIN RowChain' = {0}
    <3>1. \A h : h \in Held(cfCanonical') <=> h = 0 BY <1>5, <2>1, <2>2
    <3> QED BY <1>4, <3>1
  <2>5. Parent[RowChain'[0]] = NoBlock BY <1>4, <1>5, <2>1, <2>2
  <2> QED BY <1>1, <1>2, <1>3, <2>3, <2>4, <2>5 DEF Abstract!Next, Abstract!Begin
<1>8. CASE RowsReplace
  <2>1. PICK a \in Heights : /\ cfCanonical[a] # NoBlock
                             /\ \A h \in Heights : h <= a => cfCanonical'[h] = cfCanonical[h]
    BY <1>8 DEF RowsReplace
  <2>2. a \in DOMAIN RowChain BY <1>4, <1>5, <2>1
  <2>3. \A h \in DOMAIN RowChain \cup DOMAIN RowChain' :
          h <= a => /\ h \in DOMAIN RowChain \cap DOMAIN RowChain'
                    /\ RowChain'[h] = RowChain[h]
    BY <1>4, <1>5, <2>1
  <2> QED BY <1>1, <1>2, <1>3, <2>2, <2>3 DEF Abstract!Next, Abstract!Replace
<1>9. CASE RowsForget
  <2>1. PICK p \in Heights :
          /\ cfCanonical'[p] # NoBlock
          /\ \A h \in Heights : cfCanonical'[h] = IF p <= h THEN cfCanonical[h] ELSE NoBlock
    BY <1>9 DEF RowsForget
  <2>2. p \in DOMAIN RowChain' BY <1>4, <1>5, <2>1
  <2>3. DOMAIN RowChain' \subseteq DOMAIN RowChain BY <1>4, <1>5, <2>1
  <2>4. \A h \in DOMAIN RowChain' : RowChain'[h] = RowChain[h] BY <1>4, <1>5, <2>1
  <2>5. \A h \in DOMAIN RowChain, k \in DOMAIN RowChain' : h >= k => h \in DOMAIN RowChain'
    <3> SUFFICES ASSUME NEW h \in DOMAIN RowChain, NEW k \in DOMAIN RowChain', h >= k
                 PROVE  h \in DOMAIN RowChain'
      OBVIOUS
    <3>1. h \in Heights /\ k \in Heights /\ cfCanonical[h] # NoBlock /\ cfCanonical'[k] # NoBlock
      BY <1>4, <1>5
    <3>2. p <= k BY <2>1, <3>1
    <3>3. p <= h BY <3>1, <3>2 DEF Heights
    <3> QED BY <1>4, <1>5, <2>1, <3>1, <3>3
  <2> QED BY <1>1, <1>2, <2>2, <2>3, <2>4, <2>5 DEF Abstract!Next, Abstract!Forget
<1> QED BY <1>6, <1>7, <1>8, <1>9 DEF RowsStep

\* Readers of a node that follows one chain see what CanonicalChain describes:
\* a chain that begins with a genesis block, whose upper part is replaced in
\* one step above a block that stays, and whose lower part is forgotten; at no
\* step, crashes and reopens included, do they see anything in between.
THEOREM FollowerImplementsChain == FollowerSpec => ImplementsChain
<1>1. FollowerInit => Abstract!Init
  <2> SUFFICES ASSUME FollowerInit PROVE DOMAIN VisibleChain = {} BY DEF Abstract!Init
  <2>1. VisibleChain = RowChain BY FollowerInvInit, VisibleIsRows DEF FollowerInv
  <2>2. Held(cfCanonical) = {} BY NoIndexType DEF FollowerInit, Init, Held
  <2> QED BY <2>1, <2>2 DEF RowChain
<1>2. FollowerInv /\ FollowerInv' /\ [FollowerNext]_followerVars
        => [Abstract!Next]_VisibleChain
  BY FollowerRows, RowsStepIsChainStep DEF FollowerInv
<1> QED BY <1>1, <1>2, FollowerInvariant, PTL DEF FollowerSpec, ImplementsChain, Abstract!Spec

=============================================================================
