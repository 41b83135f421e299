---------------------------- MODULE ChainFollower ----------------------------
(***************************************************************************)
(* The block store driven the way its documentation tells a node to: the   *)
(* genesis block first, extend_chain with a child of the tip, fork blocks  *)
(* stored without canonicalizing them, a fork adopted with apply_reorg     *)
(* above find_common_ancestor, rollback and pruning at or below the tip.   *)
(*                                                                         *)
(* The process may die inside extend_chain and rollback_to_height, which   *)
(* commit twice, and the first half of extend_chain may return an error.   *)
(* open does not correct the tip; CAN-005 leaves that to the caller ("tip  *)
(* can be corrected by scanning CF_CANONICAL"), and this caller does it    *)
(* before anything else.                                                   *)
(***************************************************************************)
EXTENDS BlockStore

CONSTANTS
  Parent,       \* parent_hash of a block; NoBlock for a genesis block
  MaxDepth,     \* max_depth that the node gives to find_common_ancestor
  Crashes       \* bound: an operation may stop between its two commits

ASSUME ParentAssumption ==
  /\ Parent \in [Blocks -> Slot]
  /\ \A b \in Blocks : IF Parent[b] = NoBlock THEN Height[b] = 0
                                             ELSE Height[b] = Height[Parent[b]] + 1
ASSUME MaxDepthAssumption == MaxDepth \in Nat \ {0}
ASSUME FollowerAssumption == Crashes \in BOOLEAN

VARIABLE dirty   \* opened or failed, and the tip is not yet corrected

followerVars == <<vars, dirty>>

-----------------------------------------------------------------------------
\* find_common_ancestor walks parent_hash links from b, MaxDepth records at
\* most, and stops at the first block that is canonical at its height.
Ancestry(b) ==
  LET path[i \in 0..MaxDepth] ==
        IF i = 0 THEN b
        ELSE IF path[i - 1] = NoBlock THEN NoBlock ELSE Parent[path[i - 1]]
  IN  path

\* Mutant: any row at the block's height counts as the block.
AncestorStepsAnyRow(b) ==
  LET path == Ancestry(b)
      ok(i) == /\ \A j \in 0..i : path[j] # NoBlock /\ Known(path[j])
               /\ Lookup(Height[path[i]]) # NoBlock
  IN  CHOOSE i \in 0..MaxDepth :
        /\ i < MaxDepth => ok(i)
        /\ \A j \in 0..(i - 1) : ~ok(j)

\* The number of steps to the common ancestor; MaxDepth when there is none.
AncestorSteps(b) ==
  LET path == Ancestry(b)
      ok(i) == /\ \A j \in 0..i : path[j] # NoBlock /\ Known(path[j])
               /\ Lookup(Height[path[i]]) = path[i]
  IN  CHOOSE i \in 0..MaxDepth :
        /\ i < MaxDepth => ok(i)
        /\ \A j \in 0..(i - 1) : ~ok(j)

FindCommonAncestor(b) ==
  IF AncestorSteps(b) = MaxDepth THEN NoBlock ELSE Ancestry(b)[AncestorSteps(b)]

\* The blocks above the common ancestor, up to b.
NewChain(b) == [i \in 1..AncestorSteps(b) |-> Ancestry(b)[AncestorSteps(b) - i]]

-----------------------------------------------------------------------------
Clean == ~dirty /\ dirty' = FALSE

Start(b) == Clean /\ tip = NoBlock /\ Parent[b] = NoBlock /\ InitGenesis(b)

Extend(b) == Clean /\ tip # NoBlock /\ Parent[b] = tip /\ ExtendChain(b)

\* Dictionary training fails in put, after its commit: extend_chain returns
\* the error and the tip stays behind.
ExtendFails(b) ==
  /\ Crashes /\ ~dirty /\ dirty' = TRUE
  /\ tip # NoBlock /\ Parent[b] = tip
  /\ ~HasBlock(b)
  /\ PutBlock(b, TRUE)

\* A block of a fork: its parent is known and is not the tip.
StoreFork(b) ==
  /\ Clean
  /\ Parent[b] # NoBlock /\ Parent[b] # tip
  /\ Known(Parent[b])
  /\ PutBlock(b, FALSE)

\* A reorg to a known fork block, above the fork point.  What
\* find_common_ancestor caches on its way, by get_record and get_hash_by_height,
\* is left to the steps of Read, any number of which may come before this one:
\* heights one by one, and the records of the blocks in Probed.
Adopt(b) ==
  /\ Clean
  /\ b # tip /\ Known(b)
  /\ FindCommonAncestor(b) \notin {NoBlock, b}
  /\ ApplyReorg(Height[FindCommonAncestor(b)], NewChain(b))

Revert(t) == Clean /\ RollbackToHeight(t)

Prune(p) == Clean /\ tip # NoBlock /\ p <= Height[tip] /\ PruneBeforeHeight(p)

Read ==
  /\ Clean
  /\ \/ \E h \in Heights : GetHashByHeight(h)
     \/ \E b \in Probed : GetRecord(b) \/ GetBlock(b) \/ InvalidateRecord(b)
     \/ \E b \in Probed, s \in Statuses : UpdateStatus(b, s)
     \/ DisableBin

\* The process ends at any time, also between open and the correction.
Restart(warm) ==
  /\ dirty' = TRUE
  /\ \/ Reopen(warm)
     \/ Crashes /\ ~dirty /\ \E b \in Blocks : Parent[b] = tip /\ tip # NoBlock
                                                /\ ExtendChainCrash(b, warm)
     \/ Crashes /\ ~dirty /\ \E t \in Heights : RollbackCrash(t, warm)

\* The scan that CAN-005 prescribes: the highest height with a canonical
\* block becomes the tip.
CorrectTip ==
  /\ dirty /\ dirty' = FALSE
  /\ IF \A h \in Heights : Lookup(h) = NoBlock
       THEN UNCHANGED vars
       ELSE \E h \in Heights : /\ Lookup(h) # NoBlock
                               /\ \A k \in Heights : Lookup(k) # NoBlock => k <= h
                               /\ SetTip(Lookup(h))

FollowerInit == Init /\ dirty = FALSE
FollowerNext ==
  \/ \E b \in Blocks : Start(b) \/ Extend(b) \/ ExtendFails(b)
  \/ \E b \in Blocks : StoreFork(b) \/ Adopt(b)
  \/ \E t \in Heights : Revert(t) \/ Prune(t)
  \/ Read
  \/ \E warm \in BOOLEAN : Restart(warm)
  \/ CorrectTip

FollowerSpec == FollowerInit /\ [][FollowerNext]_followerVars

-----------------------------------------------------------------------------
\* What readers see as the canonical chain.
VisibleChain == [h \in {k \in Heights : Lookup(k) # NoBlock} |-> Lookup(h)]

\* Whenever the tip has been corrected, the canonical rows are exactly the
\* heights from the pruning floor to the tip, the tip is the top row, and
\* each block is the child of the one below: no gap, no row above the tip,
\* after any mix of extensions, reorgs, rollbacks, pruning and crashes.
ChainIntact ==
  ~dirty =>
    /\ \A h \in Heights : cfCanonical[h] # NoBlock
         <=> tip # NoBlock /\ minRetained <= h /\ h <= Height[tip]
    /\ tip # NoBlock => cfCanonical[Height[tip]] = tip
    /\ \A h \in Heights \ {0} :
         cfCanonical[h] # NoBlock /\ cfCanonical[h - 1] # NoBlock
           => Parent[cfCanonical[h]] = cfCanonical[h - 1]

\* find_common_ancestor returns the fork point: the highest canonical block
\* among b and its ancestors, when it is within reach of the walk.
AncestorIsForkPoint ==
  \A b \in Blocks :
    LET path == Ancestry(b)
        shared == {i \in 0..(MaxDepth - 1) :
                     path[i] # NoBlock /\ Lookup(Height[path[i]]) = path[i]}
    IN  Known(b) /\ shared # {} /\ tip # NoBlock =>
          /\ FindCommonAncestor(b) \in {path[i] : i \in shared}
          /\ \A i \in shared : Height[path[i]] <= Height[FindCommonAncestor(b)]

\* The store, driven this way, implements one gap-free chain.
Abstract == INSTANCE CanonicalChain WITH chain <- VisibleChain
ImplementsChain == Abstract!Spec

=============================================================================
