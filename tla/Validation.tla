------------------------------ MODULE Validation ------------------------------
(***************************************************************************)
(* Business checks made inside the ledger's transaction before an append   *)
(* (execution/validation.py, execution/freshness.py).  Each is TRUE when   *)
(* the code raises no LedgerError.                                         *)
(***************************************************************************)
EXTENDS Projection

\* Defect: quantity already reserved by open sell orders is offered again.
CheckNewIgnoringReserved(j, c) ==
  IF c.side = "BUY" THEN ~j.stopped /\ ~PositionReconcile(j)
                    ELSE c.qty <= Managed(j)

\* validation._check_new
CheckNew(j, c) ==
  IF c.side = "BUY" THEN ~j.stopped /\ ~PositionReconcile(j)
                    ELSE c.qty <= Available(j)

\* validation._check_change: ownership, link version, proven quantity and one
\* unsettled change per order.
CheckChange(j, c) ==
  /\ c.target \in NewOrders(j)
  /\ j.requests[c.target].side = c.side
  /\ c.link = Link(j, c.target)
  /\ ~OrderReconcile(j, c.target)
  /\ LET active == Active(j, c.target)
     IN  /\ active > 0
         /\ (IF c.kind = "Amend" THEN -c.qty ELSE c.qty) <= active
  /\ \A k \in Changes(j) \cap Accepted(j) :
       j.requests[k].target = c.target => EffectSettled(j, k)

CheckCommand(j, c) == IF c.kind = "New" THEN CheckNew(j, c) ELSE CheckChange(j, c)

\* Defect: an effect is only believed after its acknowledgement.
CheckEffectAfterAck(j, f) == Transport(j, f.request) = "ACKED"

\* validation._check_effect
CheckEffect(j, f) ==
  /\ f.request \in Accepted(j)
  /\ LET c == j.requests[f.request]
     IN  /\ c.target = f.order
         /\ \/ f.type = "Amended" /\ c.kind = "Amend" /\ c.qty = f.qty
            \/ f.type = "Cancelled" /\ c.kind = "Cancel" /\ f.qty <= c.qty
  /\ Effect(j, f.request) # "CONFIRMED"

\* validation._check_unsent
CheckUnsent(j, f) ==
  /\ f.request \in Accepted(j)
  /\ ~Positive(j, f.request)
  /\ IF f.proof = "NOT_INVOKED"
       THEN Transport(j, f.request) = "INTENT_PERSISTED"
       ELSE Transport(j, f.request) \in {"SENDING", "UNKNOWN", "RECONCILING"}

\* validation._check_rejection
CheckRejection(j, f) ==
  /\ f.request \in Accepted(j)
  /\ Transport(j, f.request) # "INTENT_PERSISTED"
  /\ f.type = "EffectRejected" => f.request \in Changes(j)

\* validation.check_fact, for the facts about orders
CheckFact(j, f) ==
  CASE f.type = "Fill" -> f.order \in NewOrders(j)
    [] f.type = "Ack" -> f.request \in Accepted(j)
    [] f.type \in {"Amended", "Cancelled"} -> CheckEffect(j, f)
    [] f.type = "SendFailed" -> CheckUnsent(j, f)
    [] f.type \in {"Rejected", "EffectRejected"} -> CheckRejection(j, f)
    [] OTHER -> TRUE
=============================================================================
