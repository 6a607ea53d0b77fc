------------------------------ MODULE Projection ------------------------------
(***************************************************************************)
(* What a journal says: request outcomes (execution/outcomes.py) and       *)
(* order and portfolio quantities (execution/projection.py).  Nothing here *)
(* has state; every operator takes the journal j of one symbol:            *)
(*                                                                         *)
(*   j.requests   key -> request; NoRequest when nothing was submitted     *)
(*   j.facts      the unique facts, Transport facts excepted               *)
(*   j.observed   key -> state of the last Transport fact, or "NONE"       *)
(*   j.allocated  the initial allocation, or Unallocated                   *)
(*   j.stopped, j.liquidating   the last Control                           *)
(*   j.version    the applied configuration version                        *)
(*                                                                         *)
(* Request ids are idempotency keys (the journal keeps one request per     *)
(* key), and the order id of a New is its own key.  The code keeps facts   *)
(* in arrival order; its projections depend on that order only through the *)
(* last Transport, kept in j.observed, and through ties of evidence        *)
(* versions, which contradict each other and require reconciliation.       *)
(***************************************************************************)
EXTENDS Integers, FiniteSets, FiniteSetsExt, Functions

CONSTANT Key

NoRequest == [kind |-> "None"]
Unallocated == -1

Submitted(j) == {k \in Key : j.requests[k] # NoRequest}
NewOrders(j) == {k \in Submitted(j) : j.requests[k].kind = "New"}
Changes(j) == {k \in Submitted(j) : j.requests[k].kind \in {"Amend", "Cancel"}}

\* A larger Amend is journalled for audit but is never sent.
Accepted(j) == {k \in Submitted(j) : j.requests[k].decision = "ACCEPTED"}

Told(j, k, types) == \E f \in j.facts : f.type \in types /\ f.request = k

Fills(j, o) == {f \in j.facts : f.type = "Fill" /\ f.order = o}
Cancels(j, o) == {f \in j.facts : f.type = "Cancelled" /\ f.order = o}
Amendments(j, o) == {f \in j.facts : f.type = "Amended" /\ f.order = o}

SumQty(facts) == SumFunction([f \in facts |-> f.qty])

-----------------------------------------------------------------------------
(* execution/outcomes.py *)

Acknowledged(j, k) == Told(j, k, {"Ack", "Amended", "Cancelled", "EffectRejected"})
Confirmed(j, k) == Told(j, k, {"Amended", "Cancelled"})
EffectRefused(j, k) == Told(j, k, {"EffectRejected"})
Failed(j, k) == Told(j, k, {"SendFailed"})
Rejected(j, k) == Told(j, k, {"Rejected"})

\* Evidence that the broker took the request: acceptance, or a fill of the order.
Positive(j, k) == Acknowledged(j, k) \/ (k \in NewOrders(j) /\ Fills(j, k) # {})

\* Late transport facts never undo a terminal outcome.
Transport(j, k) ==
  IF Acknowledged(j, k) THEN "ACKED"
  ELSE IF Rejected(j, k) THEN "REJECTED_BY_BROKER"
  ELSE IF Failed(j, k) THEN "SEND_FAILED"
  ELSE IF j.observed[k] = "NONE" THEN "INTENT_PERSISTED"
  ELSE j.observed[k]

\* Effect of a change request.
Effect(j, k) ==
  IF Confirmed(j, k) THEN "CONFIRMED"
  ELSE IF Failed(j, k) \/ Rejected(j, k) \/ EffectRefused(j, k) THEN "REJECTED"
  ELSE IF Transport(j, k) \in {"UNKNOWN", "RECONCILING"} THEN "UNKNOWN"
  ELSE "PENDING"

Conflict(j, k) ==
  \/ (Failed(j, k) \/ Rejected(j, k)) /\ Positive(j, k)
  \/ Failed(j, k) /\ Rejected(j, k)
  \/ Confirmed(j, k) /\ EffectRefused(j, k)

InDoubt == {"SENDING", "SENT", "UNKNOWN", "RECONCILING"}

Unresolved(j, k) ==
  \/ Conflict(j, k)
  \/ Transport(j, k) = "INTENT_PERSISTED" /\ Positive(j, k)
  \/ Transport(j, k) \in InDoubt
  \/ /\ Transport(j, k) = "ACKED"
     /\ k \in Changes(j)
     /\ Effect(j, k) \in {"PENDING", "UNKNOWN"}

\* Defect: a rejected change is never settled.
EffectSettledIfConfirmed(j, k) == ~Conflict(j, k) /\ Effect(j, k) = "CONFIRMED"

EffectSettled(j, k) == ~Conflict(j, k) /\ Effect(j, k) \in {"CONFIRMED", "REJECTED"}

-----------------------------------------------------------------------------
(* execution/projection.py *)

\* active = Unconfirmed: no evidence yet tells the quantity live at the broker.
Unconfirmed == -1

\* Broker evidence that carries the remaining quantity and a causal version.
Observations(j, o) == Fills(j, o) \cup Cancels(j, o) \cup Amendments(j, o)

\* Defect: the oldest evidence wins.
LatestOldest(seen) == {f \in seen : \A g \in seen : f.ver <= g.ver}

Latest(seen) == {f \in seen : \A g \in seen : f.ver >= g.ver}

\* The order never came to life: a negative outcome and no positive evidence.
Void(j, o) ==
  (Failed(j, o) \/ Rejected(j, o)) /\ ~Positive(j, o)

TerminalCancel(j, o) == \E f \in Cancels(j, o) : f.remaining = 0

\* Defect: an accepted Cancel request already frees the quantity it asks for.
ExposureOnCancelRequest(j, o) ==
  j.requests[o].qty + SumQty(Amendments(j, o)) - SumQty(Fills(j, o))
    - SumQty({j.requests[k] : k \in {c \in Accepted(j) : /\ j.requests[c].kind = "Cancel"
                                                        /\ j.requests[c].target = o}})

\* What proven fills, cancels and decreases leave of the original quantity.
Exposure(j, o) ==
  j.requests[o].qty + SumQty(Amendments(j, o)) - SumQty(Fills(j, o))
    - SumQty(Cancels(j, o))

Active(j, o) ==
  LET seen == Observations(j, o)
  IN  IF Void(j, o) \/ TerminalCancel(j, o) THEN 0
      ELSE IF seen # {} THEN (CHOOSE f \in Latest(seen) : TRUE).remaining
      ELSE IF Transport(j, o) = "ACKED" THEN j.requests[o].qty
      ELSE Unconfirmed

\* Same version with different remainders, or life after a terminal cancel.
Contradiction(j, o) ==
  LET seen == Observations(j, o)
  IN  \/ \E f, g \in seen : f.ver = g.ver /\ f.remaining # g.remaining
      \/ \E c \in Cancels(j, o) : \E f \in seen :
           c.remaining = 0 /\ f.ver > c.ver /\ f.remaining > 0

Filled(j, o) == SumQty(Fills(j, o))

ReservedFor(j, o) ==
  IF j.requests[o].side = "BUY" \/ Void(j, o) THEN 0 ELSE Max({0, Exposure(j, o)})

Link(j, o) == 1 + Cardinality(Amendments(j, o))

\* The quantity proven live differs from what the evidence leaves.
Gap(j, o) ==
  LET active == Active(j, o)
  IN  active # Unconfirmed /\ ~Void(j, o) /\ active # Exposure(j, o)

OrderReconcile(j, o) ==
  Gap(j, o) \/ Exposure(j, o) < 0 \/ Contradiction(j, o) \/ Conflict(j, o)

\* Unresolved Discrepancy and unreleased QuarantinedFill facts block the symbol.
OpenDiscrepancy(j) ==
  \E f \in j.facts :
    \/ f.type = "Discrepancy" /\ [f EXCEPT !.type = "Reconciled"] \notin j.facts
    \/ f.type = "QuarantinedFill"
       /\ [f EXCEPT !.type = "QuarantineReleased"] \notin j.facts

SellUncertain(j) ==
  \E k \in Accepted(j) :
    /\ j.requests[k].side = "SELL"
    /\ \/ Transport(j, k) \in InDoubt
       \/ k \in Changes(j) /\ ~EffectSettled(j, k)

FilledOn(j, side) ==
  SumQty({f \in j.facts : /\ f.type = "Fill"
                          /\ f.order \in NewOrders(j)
                          /\ j.requests[f.order].side = side})

Managed(j) == Max({0, j.allocated}) + FilledOn(j, "BUY") - FilledOn(j, "SELL")

Reserved(j) == SumFunction([o \in NewOrders(j) |-> ReservedFor(j, o)])

PositionReconcile(j) ==
  \/ OpenDiscrepancy(j)
  \/ \E k \in Submitted(j) : Conflict(j, k)
  \/ \E o \in NewOrders(j) : OrderReconcile(j, o)
  \/ SellUncertain(j)
  \/ Managed(j) < 0
  \/ Reserved(j) > Managed(j)

\* What may still be offered for sale.
Available(j) ==
  IF PositionReconcile(j) \/ SellUncertain(j) THEN 0
  ELSE Max({0, Managed(j) - Reserved(j)})
=============================================================================
