---------------------------- MODULE MCLiveSession ----------------------------
(* LiveSession on a small instance. The condition search nests handlers deeply,
   so that one fault is all TLC can follow there. *)
EXTENDS LiveSession

MCFaults == [search \in BOOLEAN |-> IF search THEN 1 ELSE 2]
=============================================================================
