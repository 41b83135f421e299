---- MODULE MCHeightWalk ----
(***************************************************************************)
(* HeightWalk over every cache and a choice of lower tiers.                *)
(***************************************************************************)
EXTENDS HeightWalk

CONSTANTS x, y   \* x: what the lower tiers hold; y: a stale entry

MCHeight == [c \in {x, y} |-> 0]
MCLowers == [Heights -> {x, NoBlock}]
=============================================================================
