---- MODULE MCWritePipeline ----
(***************************************************************************)
(* Small instances of WritePipeline.                                       *)
(***************************************************************************)
EXTENDS WritePipeline, TLC

CONSTANTS j1, j2, j3, j4, d1, x, y

\* Four pipelined calls that carry two blocks, each twice, and a direct put.
MCBlock == (j1 :> x) @@ (j2 :> x) @@ (j3 :> y) @@ (j4 :> y) @@ (d1 :> x)
=============================================================================
