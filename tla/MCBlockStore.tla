---- MODULE MCBlockStore ----
(***************************************************************************)
(* Small instances of BlockStore: a genesis block and blocks above it.     *)
(***************************************************************************)
EXTENDS BlockStore, TLC

CONSTANTS g, a, b

\* Two rival blocks above the genesis block.
RivalBlocks == {g, a, b}
RivalHeight == (g :> 0) @@ (a :> 1) @@ (b :> 1)
RivalBatches == {<<g, a>>, <<g, b>>, <<a, b>>, <<b, a>>}
RivalJobs == {<< <<a, TRUE>>, <<b, TRUE>> >>, << <<b, TRUE>>, <<a, TRUE>> >>,
              << <<a, TRUE>>, <<a, FALSE>> >>, << <<b, TRUE>>, <<b, FALSE>> >>}
Rivals == Permutations({a, b})
=============================================================================
