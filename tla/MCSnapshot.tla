---- MODULE MCSnapshot ----
(***************************************************************************)
(* A branch of two blocks and a rival of its first one, heights counted    *)
(* from the fork; the second stored block makes the exporter train a       *)
(* dictionary.                                                             *)
(***************************************************************************)
EXTENDS Snapshot, TLC

CONSTANTS a1, b1, a2, d1, d2

ForkHeight == (a1 :> 0) @@ (b1 :> 0) @@ (a2 :> 1)
ForkParent == (a1 :> NoBlock) @@ (b1 :> NoBlock) @@ (a2 :> a1)
ForkChains == {<<a1, a2>>, <<b1>>}

\* The dictionaries are interchangeable.
Interchange == Permutations({d1, d2})
====
