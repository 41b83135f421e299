---- MODULE MCStoreThreads ----
(***************************************************************************)
(* Small instances of StoreThreads: genesis and two rivals above it.       *)
(***************************************************************************)
EXTENDS StoreThreads, TLC

CONSTANTS g, a1, b1, w, v, r

RivalHeight == (g :> 0) @@ (a1 :> 1) @@ (b1 :> 1)
RivalChains == {<<a1>>, <<b1>>}

\* One writer and one reader.
WriterReader == (w :> WriteOps) @@ (r :> ReadOps)
WriterReaderCalls == (w :> 3) @@ (r :> 1)

\* Two writers, one of which makes blocks canonical.
TwoWriters == (w :> {"put_block", "set_canonical"}) @@ (v :> {"prune_before_height"})
TwoWritersCalls == (w :> 2) @@ (v :> 1)

\* Two threads that prune.
TwoPruners == (w :> {"prune_before_height"}) @@ (v :> {"prune_before_height"})
TwoPrunersCalls == (w :> 1) @@ (v :> 1)
====
