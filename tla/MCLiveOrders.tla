----------------------------- MODULE MCLiveOrders -----------------------------
(* LiveOrders for the archived engine on a small instance. *)
EXTENDS LiveOrders

MCLevels == {-2, 0, 3}
MCDailyLoss == -4
MCFillLevels == {-2}
=============================================================================
