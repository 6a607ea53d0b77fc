------------------------------ MODULE Protection ------------------------------
(***************************************************************************)
(* Stop protection of managed shares, as operators over the journal j of   *)
(* Projection with the fields the stop entries add:                        *)
(*                                                                         *)
(*   j.rule         version -> "PRICE", "COST" (a stop binding) or "NONE"  *)
(*   j.assigned     the buy fills that have a stop_assignment              *)
(*   j.latch        rule version of the stop latch, or NoLatch             *)
(*   j.obligations  keys of the requests with a stop_sell_obligation       *)
(*   j.cursor       the quote checkpoint: received and evaluated times     *)
(*                                                                         *)
(* Prices and thresholds are abstracted: whether a quote triggers a rule   *)
(* is an input.  An assignment's rule version is the config_version of the *)
(* buy it belongs to, so only the assigned fills are kept.                 *)
(***************************************************************************)
EXTENDS Validation

NoLatch == 0

Refused(j, k) == Failed(j, k) \/ Rejected(j, k)

SellRefused(j) ==
  \E k \in Submitted(j) : j.requests[k].side = "SELL" /\ Refused(j, k)

StopRequests(j) == {k \in NewOrders(j) : j.requests[k].stop # NoLatch}

BuyFills(j) ==
  {f \in j.facts : /\ f.type = "Fill"
                   /\ f.order \in NewOrders(j)
                   /\ j.requests[f.order].side = "BUY"}

-----------------------------------------------------------------------------
(* projection.confirmed_stop_holdings and confirmed_stop_cost_basis *)

\* Version v's rule covers every managed share: nothing was allocated, every buy
\* fill is assigned to v, and no evidence is open.
StopHoldings(j, v) ==
  /\ j.allocated <= 0
  /\ BuyFills(j) # {} /\ BuyFills(j) \subseteq j.assigned
  /\ \A f \in BuyFills(j) : j.requests[f.order].version = v
  /\ j.rule[v] # "NONE"
  /\ Managed(j) > 0 /\ ~PositionReconcile(j)

Released(f) == [type |-> "QuarantineReleased", fill |-> f]

\* A fill linked from quarantine carries no price (linkage.linked_fill).  A
\* direct fill without one is, like any other reason, a quote that does not trigger.
CostKnown(j) ==
  \A f \in j.facts : f.type = "Fill" => f \in BuyFills(j) /\ Released(f) \notin j.facts

-----------------------------------------------------------------------------
(* Stop trigger, latch and candidate: ledger.py *)

\* stop_evaluation.protection_candidate: a triggered stop has shares to sell.
Unreserved(j) == Available(j) > 0

\* A triggering quote makes a candidate of the shares version v covers, by a price,
\* or by a cost basis.
PriceStopCandidate(j, v) == StopHoldings(j, v) /\ Unreserved(j) /\ j.rule[v] = "PRICE"
CostStopCandidate(j, v) ==
  StopHoldings(j, v) /\ Unreserved(j) /\ j.rule[v] = "COST" /\ CostKnown(j)

\* A triggering quote latches version v now, in any of the three latching operations.
Latchable(j, v) ==
  j.latch = NoLatch /\ (PriceStopCandidate(j, v) \/ CostStopCandidate(j, v))

\* ledger._quote_rejection_reason gives no reason to refuse the quote.
QuoteAcceptable(j, received, now, maxAge) ==
  /\ now - received \in 0..maxAge
  /\ now >= j.cursor.evaluated
  /\ received > j.cursor.received
  /\ j.latch = NoLatch

\* ledger.virtual_latched_stop_candidate: the quantity to sell, 0 when none.
StopCandidate(j) ==
  IF j.latch # NoLatch /\ StopHoldings(j, j.latch) THEN Available(j) ELSE 0

\* ledger._check_virtual_stop_link
CheckStopLink(j, c) == c.stop # NoLatch => j.latch = c.stop

-----------------------------------------------------------------------------
(* stop_obligations.stop_obligation_views *)

ObligationState(j, k) ==
  LET q == j.requests[k].qty
  IN  IF \/ k \notin j.obligations
         \/ j.requests[k].side # "SELL" \/ j.latch # j.requests[k].stop
         \/ Filled(j, k) > q \/ OrderReconcile(j, k)
         \/ PositionReconcile(j)
        THEN "BLOCKED_EVIDENCE"
      ELSE IF Filled(j, k) = q THEN "FULFILLED"
      ELSE IF Refused(j, k) \/ TerminalCancel(j, k) THEN "REVIEW_REQUIRED"
      ELSE IF Transport(j, k) \in {"UNKNOWN", "RECONCILING"} THEN "BLOCKED_EVIDENCE"
      ELSE "PENDING"

ObligationsClear(j) ==
  \A k \in StopRequests(j) :
    ObligationState(j, k) \notin {"REVIEW_REQUIRED", "BLOCKED_EVIDENCE"}
=============================================================================
