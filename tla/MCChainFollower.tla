---- MODULE MCChainFollower ----
(***************************************************************************)
(* Small instances of ChainFollower: a genesis block and two branches.     *)
(***************************************************************************)
EXTENDS ChainFollower, TLC

CONSTANTS g, a1, a2, b1, b2

\* Two branches of two blocks each.
ForkBlocks == {g, a1, a2, b1, b2}
ForkHeight == (g :> 0) @@ (a1 :> 1) @@ (a2 :> 2) @@ (b1 :> 1) @@ (b2 :> 2)
ForkParent == (g :> NoBlock) @@ (a1 :> g) @@ (a2 :> a1) @@ (b1 :> g) @@ (b2 :> b1)
=============================================================================
