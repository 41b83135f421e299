---- MODULE MCDictionary ----
(***************************************************************************)
(* Two threads store blocks at the training threshold.                     *)
(***************************************************************************)
EXTENDS Dictionary, TLC
====
