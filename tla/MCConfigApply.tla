---------------------------- MODULE MCConfigApply ----------------------------
(* ConfigApply on small instances: threads are interchangeable. *)
EXTENDS ConfigApply, TLC

ThreadSymmetry == Permutations(Thread)
=============================================================================
