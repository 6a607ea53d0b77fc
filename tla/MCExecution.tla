----------------------------- MODULE MCExecution -----------------------------
(* Execution on small instances: keys and threads are interchangeable. *)
EXTENDS Execution, TLC

KeySymmetry == Permutations(Key) \cup Permutations(Worker)
=============================================================================
