---- MODULE MCCanonicalFile ----
(***************************************************************************)
(* Three heights with a fork at the second; a batch may name a height      *)
(* twice, or come in any order.                                            *)
(***************************************************************************)
EXTENDS CanonicalFile, TLC

CONSTANTS g, a, b, c

ForkHeight == (g :> 0) @@ (a :> 1) @@ (b :> 1) @@ (c :> 2)
ForkBatches == {<<g>>, <<a>>, <<c>>, <<a, c>>, <<c, b>>, <<a, b>>}
====
