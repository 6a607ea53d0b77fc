---------------------------- MODULE MCMorningRun ----------------------------
(* MorningRun on small instances. *)
EXTENDS MorningRun
=============================================================================
