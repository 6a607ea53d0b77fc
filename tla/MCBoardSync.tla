----------------------------- MODULE MCBoardSync -----------------------------
(* BoardSync on small instances. *)
EXTENDS BoardSync, TLC

PageSymmetry == Permutations(Page)
=============================================================================
