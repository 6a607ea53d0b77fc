------------------------------ MODULE Execution ------------------------------
(***************************************************************************)
(* The order ledger (execution/ledger.py, quarantine.py), the virtual      *)
(* dispatcher (execution/virtual.py) and the account lease                 *)
(* (execution/ownership.py), with a broker that accepts, rejects, fills    *)
(* and changes orders while its evidence reaches the ledger late, in any   *)
(* order, or never, and a process that may stop between any two writes.    *)
(*                                                                         *)
(* Every public operation of the ledger is one SQLite transaction inside   *)
(* the lease's mutex and hence one action.  VirtualDispatcher.send is      *)
(* three: it holds the mutex from the SENDING claim to the SENT record, so *)
(* no other thread intervenes, but the process can stop in between.        *)
(* drain_virtual_stop and process are sequences of such operations that    *)
(* hold nothing between them: each thread inside one is a worker with a    *)
(* program counter and the values it read.                                 *)
(***************************************************************************)
EXTENDS Protection

CONSTANTS
  Qty,           \* order quantities callers use
  MaxSubmits,    \* bound: callers submit while fewer requests are journalled
  Allocations,   \* initial allocations
  MaxVersion,    \* bound: configuration versions 1..MaxVersion
  Expirable,     \* keys whose command carries expires_at
  MaxRestarts,   \* bound: process restarts
  MaxControls,   \* bound: Control entries
  ChangeKinds,   \* kinds of change requests callers use
  Rules,         \* kinds of stop rules that are configured
  MaxTime,       \* bound: quote and evaluation times 1..MaxTime
  MaxAge,        \* max_quote_age_seconds
  Worker,        \* threads that drain a stop or a liquidation
  MaxIncidents,  \* bound: quarantined fills and reported discrepancies
  NoKey

ASSUME QtyAssumption == Qty \subseteq Nat \ {0} /\ Allocations \subseteq Nat
ASSUME BoundAssumption ==
  /\ MaxSubmits \in Nat
  /\ MaxVersion \in Nat \ {0}
  /\ MaxRestarts \in Nat
  /\ MaxControls \in Nat
  /\ MaxTime \in Nat /\ MaxAge \in Nat
  /\ MaxIncidents \in Nat
ASSUME KindAssumption ==
  ChangeKinds \subseteq {"Amend", "Cancel"} /\ Rules \subseteq {"PRICE", "COST"}
ASSUME ExpirableAssumption == Expirable \subseteq Key
ASSUME NoKeyAssumption == NoKey \notin Key

VARIABLES
  journal,   \* durable: the SQLite journal
  ready,     \* the lease's session gate
  sending,   \* the request inside send, NoKey when none
  called,    \* the broker call of that send was made
  reviewed,  \* an operator's expected_revision equals the journal's revision
  expired,   \* keys whose deadline has passed
  worker,    \* what each thread inside drain_virtual_stop or process holds
  named,     \* the stop and liquidation keys the present journal determines
  restarts, controls, incidents,   \* how often the bounded actions were taken
  calls,     \* broker: calls received per request
  book,      \* broker: state of each order and change it handled
  emitted    \* broker: evidence it produced, delivered or not

ledgerVars == <<journal, ready, sending, called, reviewed>>
workVars == <<worker, named>>
boundVars == <<expired, restarts, controls, incidents>>
brokerVars == <<calls, book, emitted>>
vars == <<ledgerVars, workVars, boundVars, brokerVars>>

Version == 1..MaxVersion

Idle == [step |-> "idle", stop |-> NoLatch, key |-> NoKey, qty |-> 0, version |-> 0]
Unnamed == [stop |-> NoKey, liquidation |-> NoKey]

NotHandled == [state |-> "NONE", remaining |-> 0, ver |-> 0]

Init ==
  /\ journal = [requests |-> [k \in Key |-> NoRequest], facts |-> {},
                observed |-> [k \in Key |-> "NONE"], allocated |-> Unallocated,
                stopped |-> FALSE, liquidating |-> FALSE, version |-> 1,
                rule |-> [v \in Version |-> "NONE"], assigned |-> {},
                latch |-> NoLatch, obligations |-> {},
                cursor |-> [received |-> 0, evaluated |-> 0]]
  /\ ready = FALSE
  /\ sending = NoKey
  /\ called = FALSE
  /\ reviewed = FALSE
  /\ worker = [w \in Worker |-> Idle]
  /\ named = Unnamed
  /\ expired = {}
  /\ restarts = 0
  /\ controls = 0
  /\ incidents = 0
  /\ calls = [k \in Key |-> 0]
  /\ book = [k \in Key |-> NotHandled]
  /\ emitted = {}

\* Storage.transaction takes the lease's mutex, which send holds throughout.
MutexFree == sending = NoKey

\* Storage.append: one more entry makes every revision read before stale and
\* gives the next stop command a new key; a liquidation's key counts the facts.
AppendEntry(j) ==
  /\ journal' = j
  /\ reviewed' = FALSE
  /\ named' = [named EXCEPT !.stop = NoKey]

AppendFacts(j) ==
  /\ journal' = j
  /\ reviewed' = FALSE
  /\ named' = Unnamed

AppendFact(f) == AppendFacts([journal EXCEPT !.facts = @ \cup {f}])
AppendTransport(k, state) == AppendFacts([journal EXCEPT !.observed[k] = state])

-----------------------------------------------------------------------------
(* Ledger operations *)

Allocate(q) ==
  /\ MutexFree /\ ready
  /\ journal.allocated = Unallocated
  /\ Submitted(journal) = {}
  /\ AppendEntry([journal EXCEPT !.allocated = q])
  /\ UNCHANGED <<ready, sending, called, worker, boundVars, brokerVars>>

Control(stopped, liquidating) ==
  /\ MutexFree /\ ready
  /\ controls < MaxControls
  /\ AppendEntry([journal EXCEPT !.stopped = stopped, !.liquidating = liquidating])
  /\ controls' = controls + 1
  /\ UNCHANGED <<ready, sending, called, worker, expired, restarts, incidents, brokerVars>>

\* The implicit baseline is version 1 without a configuration.
Configured(j) == j.version > 1 \/ j.rule[1] # "NONE"

\* apply_config (rule "NONE") and apply_virtual_stop_config raise the version;
\* the first apply_inbox_config may bind its rule to the baseline's version 1.
ApplyConfig(version, rule) ==
  /\ MutexFree /\ ready
  /\ \/ version > journal.version
     \/ version = 1 /\ ~Configured(journal) /\ rule # "NONE"
  /\ AppendEntry([journal EXCEPT !.version = version, !.rule[version] = rule])
  /\ UNCHANGED <<ready, sending, called, worker, boundVars, brokerVars>>

\* freshness.check_freshness
Fresh(j, k, version) == k \notin expired /\ version = j.version

New(side, qty, key, version, stop) ==
  [kind |-> "New", side |-> side, qty |-> qty, target |-> key, link |-> 0,
   version |-> version, decision |-> "ACCEPTED", stop |-> stop]

NewCommand(k) ==
  {New(s, q, k, journal.version, NoLatch) : s \in {"BUY", "SELL"}, q \in Qty}

\* qty of an Amend is its signed qty_delta; an increase is only journalled.
ChangeCommand ==
  {c \in {[kind |-> kind, side |-> journal.requests[o].side, qty |-> q, target |-> o,
           link |-> Link(journal, o), version |-> journal.version,
           decision |-> IF kind = "Amend" /\ q > 0
                          THEN "REJECTED_UNSUPPORTED" ELSE "ACCEPTED",
           stop |-> NoLatch] :
             o \in NewOrders(journal), kind \in ChangeKinds,
             q \in Qty \cup {-q : q \in Qty}} :
     c.kind = "Cancel" => c.qty > 0}

IsBuy(c) == c.kind = "New" /\ c.side = "BUY"

\* What submit checks of a new key; a stop sell gets its obligation with it.
Submittable(k, c) ==
  /\ ready
  /\ Fresh(journal, k, c.version)
  /\ IsBuy(c) => journal.latch = NoLatch
  /\ CheckStopLink(journal, c)
  /\ CheckCommand(journal, c)

AppendRequest(k, c) ==
  AppendEntry([journal EXCEPT
    !.requests[k] = c,
    !.obligations = IF c.stop = NoLatch THEN @ ELSE @ \cup {k}])

\* A replayed key returns the stored request or a conflict: no step.  A key that
\* a worker is about to use is that worker's.
Submit(k, c) ==
  /\ MutexFree
  /\ journal.requests[k] = NoRequest
  /\ Cardinality(Submitted(journal)) < MaxSubmits
  /\ k \notin {worker[w].key : w \in Worker} \cup {named.stop, named.liquidation}
  /\ Submittable(k, c)
  /\ AppendRequest(k, c)
  /\ UNCHANGED <<ready, sending, called, worker, boundVars, brokerVars>>

\* ingest: no session gate; evidence is taken whenever it arrives.  A buy fill
\* is assigned the stop rule of its order's configuration version, if any.
Ingest(f) ==
  /\ f \notin journal.facts
  /\ CheckFact(journal, f)
  /\ AppendFacts([journal EXCEPT
       !.facts = @ \cup {f},
       !.assigned = IF /\ f.type = "Fill"
                       /\ journal.requests[f.order].side = "BUY"
                       /\ journal.rule[journal.requests[f.order].version] # "NONE"
                      THEN @ \cup {f} ELSE @])

Quarantined(f) == [type |-> "QuarantinedFill", fill |-> f]

\* Evidence reaches the ledger directly or, a fill, through quarantine.
Deliver(f) ==
  /\ MutexFree
  /\ f \in emitted /\ Quarantined(f) \notin journal.facts
  /\ Ingest(f)
  /\ UNCHANGED <<ready, sending, called, worker, boundVars, brokerVars>>

Unsent(k, proof) == [type |-> "SendFailed", request |-> k, proof |-> proof]

\* The two proofs an honest operator can feed to ingest: the call was never
\* made, from the journal alone or from the broker's silence about the request.
ReportUnsent(k, proof) ==
  /\ MutexFree
  /\ k \in Submitted(journal)
  /\ calls[k] = 0
  /\ Ingest(Unsent(k, proof))
  /\ UNCHANGED <<ready, sending, called, worker, boundVars, brokerVars>>

Discard(k) ==
  /\ MutexFree /\ ready /\ reviewed
  /\ k \in Submitted(journal)
  /\ Unsent(k, "NOT_INVOKED") \notin journal.facts
  /\ CheckFact(journal, Unsent(k, "NOT_INVOKED"))
  /\ AppendFact(Unsent(k, "NOT_INVOKED"))
  /\ UNCHANGED <<ready, sending, called, worker, boundVars, brokerVars>>

\* A fill arrives whose order number is not linked yet.
Quarantine(f) ==
  /\ MutexFree
  /\ f \in emitted \ journal.facts
  /\ f.type = "Fill"
  /\ Quarantined(f) \notin journal.facts
  /\ incidents < MaxIncidents
  /\ AppendFact(Quarantined(f))
  /\ incidents' = incidents + 1
  /\ UNCHANGED <<ready, sending, called, worker, expired, restarts, controls, brokerVars>>

\* quarantine.reprocess: the Ack links the order number; fill and release are
\* appended together, without the assignment that ingest makes.
Reprocess(f) ==
  /\ MutexFree /\ reviewed
  /\ Quarantined(f) \in journal.facts
  /\ Released(f) \notin journal.facts
  /\ Told(journal, f.order, {"Ack"})
  /\ f.order \in Accepted(journal)
  /\ AppendFacts([journal EXCEPT !.facts = @ \cup {f, Released(f)}])
  /\ UNCHANGED <<ready, sending, called, worker, boundVars, brokerVars>>

\* What the account really holds: the broker's own record.
Sells == {k \in NewOrders(journal) : journal.requests[k].side = "SELL"}
Buys == {k \in NewOrders(journal) : journal.requests[k].side = "BUY"}

Executed(orders) ==
  SumQty({f \in emitted : f.type = "Fill" /\ f.order \in orders})

Held == Max({0, journal.allocated}) + Executed(Buys) - Executed(Sells)

Discrepancy(n) == [type |-> "Discrepancy", number |-> n]
Reconciled(n) == [type |-> "Reconciled", number |-> n]

ReportDiscrepancy ==
  /\ MutexFree
  /\ incidents < MaxIncidents
  /\ AppendFact(Discrepancy(incidents))
  /\ incidents' = incidents + 1
  /\ UNCHANGED <<ready, sending, called, worker, expired, restarts, controls, brokerVars>>

\* validation._check_reconciliation, for a complete query that found the true
\* holding at the reviewed revision.
Reconcile(n) ==
  /\ MutexFree /\ reviewed
  /\ Discrepancy(n) \in journal.facts
  /\ Reconciled(n) \notin journal.facts
  /\ \A k \in Submitted(journal) :
       /\ ~Unresolved(journal, k)
       /\ ~OrderReconcile(journal, journal.requests[k].target)
  /\ Managed(journal) = Held
  /\ AppendFact(Reconciled(n))
  /\ UNCHANGED <<ready, sending, called, worker, boundVars, brokerVars>>

-----------------------------------------------------------------------------
(* Stop quotes and the latch *)

\* Defect: quotes are taken in the order they arrive.
ProcessAnyQuote(received, now, triggered) ==
  /\ MutexFree /\ ready
  /\ now - received \in 0..MaxAge /\ journal.latch = NoLatch
  /\ LET j == [journal EXCEPT !.cursor = [received |-> received, evaluated |-> now]]
     IN  \/ \E v \in Version : /\ triggered /\ Latchable(journal, v)
                              /\ AppendEntry([j EXCEPT !.latch = v])
         \/ /\ triggered => \A v \in Version : ~Latchable(journal, v)
            /\ journal' = j
            /\ UNCHANGED <<reviewed, named>>
  /\ UNCHANGED <<ready, sending, called, worker, boundVars, brokerVars>>

\* process_virtual_stop_quote: the checkpoint is no journal entry, so reviews
\* stay valid unless the quote latches.
ProcessQuote(received, now, triggered) ==
  /\ MutexFree /\ ready
  /\ QuoteAcceptable(journal, received, now, MaxAge)
  /\ LET j == [journal EXCEPT !.cursor = [received |-> received, evaluated |-> now]]
     IN  \/ \E v \in Version : /\ triggered /\ Latchable(journal, v)
                              /\ AppendEntry([j EXCEPT !.latch = v])
         \/ /\ triggered => \A v \in Version : ~Latchable(journal, v)
            /\ journal' = j
            /\ UNCHANGED <<reviewed, named>>
  /\ UNCHANGED <<ready, sending, called, worker, boundVars, brokerVars>>

\* Defect: an existing latch is overwritten.
LatchAgain ==
  /\ MutexFree /\ ready
  /\ \E v \in Version : /\ journal.rule[v] # "NONE"
                       /\ AppendEntry([journal EXCEPT !.latch = v])
  /\ UNCHANGED <<ready, sending, called, worker, boundVars, brokerVars>>

\* latch_virtual_price_stop and latch_virtual_cost_stop on a triggering quote.
Latch ==
  /\ MutexFree /\ ready
  /\ \E v \in Version : /\ Latchable(journal, v)
                       /\ AppendEntry([journal EXCEPT !.latch = v])
  /\ UNCHANGED <<ready, sending, called, worker, boundVars, brokerVars>>

-----------------------------------------------------------------------------
(* Session: lease, review, recovery *)

Review ==
  /\ MutexFree
  /\ reviewed' = TRUE
  /\ UNCHANGED <<journal, ready, sending, called, workVars, boundVars, brokerVars>>

Approve ==
  /\ MutexFree /\ reviewed /\ ~ready
  /\ \A k \in Submitted(journal) : ~Unresolved(journal, k)
  /\ ~PositionReconcile(journal)
  /\ ready' = TRUE
  /\ UNCHANGED <<journal, sending, called, reviewed, workVars, boundVars, brokerVars>>

\* Defect: an undecided request is recorded as failed.
RecoverAsFailed ==
  /\ MutexFree
  /\ \E k \in Accepted(journal) : /\ Unresolved(journal, k)
                                 /\ AppendTransport(k, "SEND_FAILED")
  /\ UNCHANGED <<ready, sending, called, worker, boundVars, brokerVars>>

\* VirtualDispatcher.recover: mark, never resend.
Recover ==
  /\ MutexFree
  /\ LET open == {k \in Accepted(journal) : Unresolved(journal, k)}
     IN  /\ open # {}
         /\ AppendFacts([journal EXCEPT !.observed =
              [k \in Key |-> IF k \notin open THEN @[k]
                             ELSE IF Transport(journal, k) = "SENDING"
                               THEN "UNKNOWN" ELSE "RECONCILING"]])
  /\ UNCHANGED <<ready, sending, called, worker, boundVars, brokerVars>>

\* The process stops anywhere and a new one acquires the account lock: only
\* the journal survives and the new lease is not ready.
Restart ==
  /\ restarts < MaxRestarts
  /\ restarts' = restarts + 1
  /\ ready' = FALSE
  /\ sending' = NoKey
  /\ called' = FALSE
  /\ reviewed' = FALSE
  /\ worker' = [w \in Worker |-> Idle]
  /\ UNCHANGED <<journal, named, expired, controls, incidents, brokerVars>>

Expire(k) ==
  /\ k \in Expirable \ expired
  /\ expired' = expired \cup {k}
  /\ UNCHANGED <<ledgerVars, workVars, restarts, controls, incidents, brokerVars>>

-----------------------------------------------------------------------------
(* VirtualDispatcher.send *)

\* Defect: the entry checks made at submit are not repeated.
BuyNotRechecked(k) == FALSE

BuyBlocked(k) ==
  /\ IsBuy(journal.requests[k])
  /\ \/ journal.stopped
     \/ PositionReconcile(journal)
     \/ journal.latch # NoLatch

\* Defect: the stop checks made by the drain are not repeated.
StopNotRechecked(k) == FALSE

\* For a virtual-stop key, in a regular session.
StopBlocked(k) ==
  /\ journal.requests[k].stop # NoLatch
  /\ \/ ObligationState(journal, k) # "PENDING"
     \/ ~ObligationsClear(journal)

\* Defect: a recovered request may be sent again.
ClaimableAgain(k) == k \in Accepted(journal) /\ ~Positive(journal, k) /\ ready

Claimable(k) ==
  /\ k \in Accepted(journal)
  /\ Transport(journal, k) = "INTENT_PERSISTED"
  /\ ~Positive(journal, k)
  /\ ~StopBlocked(k)
  /\ ready
  /\ Fresh(journal, k, journal.requests[k].version)
  /\ ~BuyBlocked(k)

Claim(k) ==
  /\ AppendTransport(k, "SENDING")
  /\ sending' = k
  /\ called' = FALSE
  /\ UNCHANGED <<ready, boundVars, brokerVars>>

Send(k) ==
  /\ MutexFree
  /\ Claimable(k)
  /\ Claim(k)
  /\ UNCHANGED worker

Call ==
  /\ sending # NoKey /\ ~called
  /\ calls' = [calls EXCEPT ![sending] = @ + 1]
  /\ called' = TRUE
  /\ UNCHANGED <<journal, ready, sending, reviewed, workVars, boundVars, book, emitted>>

RecordSent ==
  /\ sending # NoKey /\ called
  /\ AppendTransport(sending, "SENT")
  /\ sending' = NoKey
  /\ called' = FALSE
  /\ UNCHANGED <<ready, worker, boundVars, brokerVars>>

\* The SENT write fails (disk, lock timeout): send raises after the call, and
\* so does the drain it was called from.
SentNotRecorded ==
  /\ sending # NoKey /\ called
  /\ sending' = NoKey
  /\ called' = FALSE
  /\ worker' = [w \in Worker |-> IF /\ worker[w].step = "ack"
                                    /\ worker[w].key = sending
                                   THEN Idle ELSE worker[w]]
  /\ UNCHANGED <<journal, ready, reviewed, named, boundVars, brokerVars>>

-----------------------------------------------------------------------------
(* drain_virtual_stop and process: several transactions per call *)

\* Keys nobody used or is about to use; two workers that read the same revision
\* (for a liquidation: the same number of facts) compute the same key.
FreeKeys ==
  {k \in Key : /\ journal.requests[k] = NoRequest
               /\ k \notin {worker[w].key : w \in Worker}
               /\ k \notin {named.stop, named.liquidation}}

KeyFor(given) == IF given # NoKey THEN {given} ELSE FreeKeys

PositiveQty == Nat \ {0}

Step(w, next) == worker' = [worker EXCEPT ![w] = next]

workerFrame == <<ready, sending, called, boundVars, brokerVars>>

DrainLook(w) ==
  /\ MutexFree
  /\ worker[w] = Idle
  /\ journal.latch # NoLatch
  /\ ~journal.liquidating
  /\ ~SellRefused(journal)
  /\ \E k \in KeyFor(named.stop) :
       /\ named' = [named EXCEPT !.stop = k]
       /\ Step(w, [step |-> "obligations", stop |-> journal.latch, key |-> k,
                   qty |-> 0, version |-> journal.version])
  /\ UNCHANGED <<journal, reviewed, workerFrame>>

DrainObligations(w) ==
  /\ MutexFree
  /\ worker[w].step = "obligations"
  /\ Step(w, IF ObligationsClear(journal)
               THEN [worker[w] EXCEPT !.step = "candidate"] ELSE Idle)
  /\ UNCHANGED <<journal, reviewed, named, workerFrame>>

DrainCandidate(w) ==
  /\ MutexFree
  /\ worker[w].step = "candidate"
  /\ Step(w, IF ready /\ StopCandidate(journal) \in PositiveQty
               THEN [worker[w] EXCEPT !.step = "submit",
                                      !.qty = StopCandidate(journal)]
               ELSE Idle)
  /\ UNCHANGED <<journal, reviewed, named, workerFrame>>

\* process: after its ingest (Deliver, or a fact the journal already has).
ProcessLook(w) ==
  /\ MutexFree
  /\ worker[w] = Idle
  /\ controls > 0 /\ journal.facts # {}
  /\ ~SellRefused(journal)
  /\ \E k \in KeyFor(named.liquidation) :
       /\ named' = [named EXCEPT !.liquidation = k]
       /\ Step(w, [step |-> "position", stop |-> NoLatch, key |-> k,
                   qty |-> 0, version |-> journal.version])
  /\ UNCHANGED <<journal, reviewed, workerFrame>>

ProcessPosition(w) ==
  /\ MutexFree
  /\ worker[w].step = "position"
  /\ Step(w, IF journal.liquidating /\ Available(journal) \in PositiveQty
               THEN [worker[w] EXCEPT !.step = "submit",
                                      !.qty = Available(journal)]
               ELSE Idle)
  /\ UNCHANGED <<journal, reviewed, named, workerFrame>>

\* A refused submit ends the call: the drain returns None or the error rises.
WorkerSubmit(w) ==
  /\ MutexFree
  /\ worker[w].step = "submit"
  /\ LET k == worker[w].key
         c == New("SELL", worker[w].qty, k, worker[w].version, worker[w].stop)
     IN  \/ /\ journal.requests[k] = NoRequest
            /\ Submittable(k, c)
            /\ AppendRequest(k, c)
            /\ Step(w, [worker[w] EXCEPT !.step = "send"])
         \/ /\ journal.requests[k] = c
            /\ Step(w, [worker[w] EXCEPT !.step = "send"])
            /\ UNCHANGED <<journal, reviewed, named>>
         \/ /\ journal.requests[k] # c
            /\ journal.requests[k] = NoRequest => ~Submittable(k, c)
            /\ Step(w, Idle)
            /\ UNCHANGED <<journal, reviewed, named>>
  /\ UNCHANGED workerFrame

WorkerSend(w) ==
  /\ MutexFree
  /\ worker[w].step = "send"
  /\ \/ /\ Claimable(worker[w].key)
        /\ Claim(worker[w].key)
        /\ Step(w, [worker[w] EXCEPT !.step = "ack"])
     \/ /\ ~Claimable(worker[w].key)
        /\ Step(w, Idle)
        /\ UNCHANGED <<journal, reviewed, named, workerFrame>>

-----------------------------------------------------------------------------
(* The broker: handles each call once and reports with causal versions *)

Told1(type, k) == [type |-> type, request |-> k]

Waiting(k) == calls[k] > 0 /\ book[k] = NotHandled

\* VirtualDispatcher.acknowledge follows a worker's send: that order's broker is
\* the dispatcher itself.
SelfAcknowledged(k) == \E w \in Worker : worker[w].step = "ack" /\ worker[w].key = k

Opened(k) == [state |-> "LIVE", ver |-> 1, remaining |-> journal.requests[k].qty]

WorkerAck(w) ==
  /\ MutexFree
  /\ worker[w].step = "ack"
  /\ LET k == worker[w].key
     IN  /\ book' = [book EXCEPT ![k] = Opened(k)]
         /\ emitted' = emitted \cup {Told1("Ack", k)}
         /\ Ingest(Told1("Ack", k))
  /\ Step(w, Idle)
  /\ UNCHANGED <<ready, sending, called, boundVars, calls>>

BrokerAccept(k) ==
  /\ Waiting(k) /\ ~SelfAcknowledged(k)
  /\ journal.requests[k].kind = "New"
  /\ book' = [book EXCEPT ![k] = Opened(k)]
  /\ emitted' = emitted \cup {Told1("Ack", k)}
  /\ UNCHANGED <<ledgerVars, workVars, boundVars, calls>>

BrokerReject(k) ==
  /\ Waiting(k) /\ ~SelfAcknowledged(k)
  /\ book' = [book EXCEPT ![k].state = "REJECTED"]
  /\ emitted' = emitted \cup {Told1("Rejected", k)}
  /\ UNCHANGED <<ledgerVars, workVars, boundVars, calls>>

BrokerFill(k, n) ==
  /\ book[k].state = "LIVE" /\ n <= book[k].remaining
  /\ LET left == book[k].remaining - n
         ver  == book[k].ver + 1
     IN  /\ book' = [book EXCEPT ![k].remaining = left, ![k].ver = ver]
         /\ emitted' = emitted \cup {[type |-> "Fill", order |-> k, qty |-> n,
                                      remaining |-> left, ver |-> ver]}
  /\ UNCHANGED <<ledgerVars, workVars, boundVars, calls>>

\* A Cancel takes what is left of the asked quantity, an Amend its whole delta;
\* with too little left the change is accepted and its effect rejected.
BrokerChange(k) ==
  /\ Waiting(k) /\ journal.requests[k].kind \in {"Amend", "Cancel"}
  /\ LET c    == journal.requests[k]
         live == book[c.target].remaining
         cut  == IF c.kind = "Amend" THEN -c.qty
                 ELSE IF c.qty < live THEN c.qty ELSE live
         ver  == book[c.target].ver + 1
         done == [type |-> IF c.kind = "Cancel" THEN "Cancelled" ELSE "Amended",
                  request |-> k, order |-> c.target, ver |-> ver,
                  qty |-> IF c.kind = "Cancel" THEN cut ELSE c.qty,
                  remaining |-> live - cut]
     IN  IF live > 0 /\ cut <= live
           THEN /\ book' = [book EXCEPT ![k].state = "DONE",
                              ![c.target].remaining = live - cut,
                              ![c.target].ver = ver]
                /\ emitted' = emitted \cup {Told1("Ack", k), done}
           ELSE /\ book' = [book EXCEPT ![k].state = "DONE"]
                /\ emitted' = emitted \cup {Told1("Ack", k), Told1("EffectRejected", k)}
  /\ UNCHANGED <<ledgerVars, workVars, boundVars, calls>>

-----------------------------------------------------------------------------
LedgerNext ==
  \/ \E q \in Allocations : Allocate(q)
  \/ \E s, l \in BOOLEAN : Control(s, l)
  \/ \E v \in Version, r \in Rules \cup {"NONE"} : ApplyConfig(v, r)
  \/ \E k \in Key : \E c \in NewCommand(k) \cup ChangeCommand : Submit(k, c)
  \/ \E f \in emitted : Deliver(f)
  \/ \E k \in Key : \E p \in {"NOT_INVOKED", "VERIFIED_UNSENT"} : ReportUnsent(k, p)
  \/ \E k \in Key : Discard(k)
  \/ \E f \in emitted : Quarantine(f)
  \/ \E f \in emitted : Reprocess(f)
  \/ ReportDiscrepancy
  \/ \E n \in 0..MaxIncidents : Reconcile(n)
  \/ \E r, n \in 1..MaxTime : \E t \in BOOLEAN : ProcessQuote(r, n, t)
  \/ Latch

SessionNext ==
  \/ Review
  \/ Approve
  \/ Recover
  \/ Restart
  \/ \E k \in Key : Expire(k)

DispatchNext ==
  \/ \E k \in Key : Send(k)
  \/ Call
  \/ RecordSent
  \/ SentNotRecorded

WorkerNext ==
  \E w \in Worker :
    \/ DrainLook(w)
    \/ DrainObligations(w)
    \/ DrainCandidate(w)
    \/ ProcessLook(w)
    \/ ProcessPosition(w)
    \/ WorkerSubmit(w)
    \/ WorkerSend(w)
    \/ WorkerAck(w)

BrokerNext ==
  \E k \in Key :
    \/ BrokerAccept(k)
    \/ BrokerReject(k)
    \/ \E n \in Qty : BrokerFill(k, n)
    \/ BrokerChange(k)

Next == LedgerNext \/ SessionNext \/ DispatchNext \/ WorkerNext \/ BrokerNext

Spec == Init /\ [][Next]_vars

\* The operator keeps reviewing, releases and reconciles what the review covers,
\* proves unsent what never reached the broker, and the broker answers every call and its answers arrive.  Nothing obliges
\* it to fill an order, a caller to submit one, or the process to restart.
Fairness ==
  /\ WF_vars(Review)
  /\ WF_vars(Approve)
  /\ WF_vars(Call)
  /\ WF_vars(RecordSent)
  /\ WF_vars(\E f \in emitted : Deliver(f))
  /\ WF_vars(\E f \in emitted : Reprocess(f))
  /\ WF_vars(\E n \in 0..MaxIncidents : Reconcile(n))
  /\ WF_vars(\E k \in Key : ~ready /\ \E p \in {"NOT_INVOKED", "VERIFIED_UNSENT"} :
                              ReportUnsent(k, p))
  /\ WF_vars(\E k \in Key : BrokerAccept(k) \/ BrokerReject(k) \/ BrokerChange(k))

FairSpec == Spec /\ Fairness
-----------------------------------------------------------------------------
(* Properties *)

Request ==
  [kind : {"New"}, side : {"BUY", "SELL"}, qty : PositiveQty, target : Key, link : {0},
   version : Version, decision : {"ACCEPTED"}, stop : Version \cup {NoLatch}]
  \cup
  [kind : {"Cancel", "Amend"}, side : {"BUY", "SELL"}, qty : Int, target : Key,
   link : Nat, version : Version,
   decision : {"ACCEPTED", "REJECTED_UNSUPPORTED"}, stop : {NoLatch}]

FillFact == [type : {"Fill"}, order : Key, qty : Qty, remaining : Int, ver : Nat]

Fact ==
  [type : {"Ack", "Rejected", "EffectRejected"}, request : Key]
  \cup [type : {"SendFailed"}, request : Key, proof : {"NOT_INVOKED", "VERIFIED_UNSENT"}]
  \cup FillFact
  \cup [type : {"Cancelled", "Amended"}, request : Key, order : Key, qty : Int,
        remaining : Int, ver : Nat]
  \cup [type : {"QuarantinedFill", "QuarantineReleased"}, fill : FillFact]
  \cup [type : {"Discrepancy", "Reconciled"}, number : Nat]

Journal ==
  [requests : [Key -> Request \cup {NoRequest}],
   facts : SUBSET Fact,
   observed : [Key -> InDoubt \cup {"NONE"}],
   allocated : Allocations \cup {Unallocated},
   stopped : BOOLEAN, liquidating : BOOLEAN,
   version : Version,
   rule : [Version -> {"PRICE", "COST", "NONE"}],
   assigned : SUBSET FillFact,
   latch : Version \cup {NoLatch},
   obligations : SUBSET Key,
   cursor : [received : 0..MaxTime, evaluated : 0..MaxTime]]

WorkerState ==
  {Idle}
  \cup [step : {"obligations", "candidate", "position"},
        stop : Version \cup {NoLatch}, key : Key, qty : {0}, version : Version]
  \cup [step : {"submit", "send", "ack"},
        stop : Version \cup {NoLatch}, key : Key, qty : PositiveQty, version : Version]

\* The variables have the shapes the comments above give them; in particular
\* only transport states of the contract are ever recorded.
TypeOK ==
  /\ journal \in Journal /\ IsFiniteSet(journal.facts)
  /\ ready \in BOOLEAN /\ called \in BOOLEAN /\ reviewed \in BOOLEAN
  /\ sending \in Key \cup {NoKey}
  /\ expired \subseteq Expirable
  /\ worker \in [Worker -> WorkerState]
  /\ named \in [stop : Key \cup {NoKey}, liquidation : Key \cup {NoKey}]
  /\ restarts \in 0..MaxRestarts /\ controls \in 0..MaxControls
  /\ incidents \in 0..MaxIncidents
  /\ calls \in [Key -> Nat]
  /\ book \in [Key -> [state : {"NONE", "LIVE", "REJECTED", "DONE"},
                       remaining : Int, ver : Nat]]
  /\ emitted \subseteq Fact

\* What the broker may still sell for order k: an unhandled call may yet become
\* a live order for the whole quantity.
Outstanding(k) == IF Waiting(k) THEN journal.requests[k].qty ELSE book[k].remaining

\* The dispatcher never sends a request to the broker twice, whatever crashes,
\* lost SENT records, recoveries and re-approved sessions lie in between
\* (claim before send; recover never resends).
CallOnce == \A k \in Key : calls[k] <= 1

\* The inductive core of CallOnce and CallIsCurrent.  A call is preceded by a
\* durable Transport fact; between the SENDING claim and the end of send the
\* request is exactly as the claim checked it.
ClaimedBeforeCall ==
  /\ \A k \in Key : calls[k] > 0 => journal.observed[k] # "NONE"
  /\ sending # NoKey =>
       /\ journal.observed[sending] # "NONE"
       /\ calls[sending] = IF called THEN 1 ELSE 0
       /\ ready
       /\ journal.requests[sending].version = journal.version
       /\ IsBuy(journal.requests[sending]) =>
            ~journal.stopped /\ journal.latch = NoLatch

\* The broker is never asked to sell more than the account really holds: the
\* reservation made at submit survives until evidence, not a request, ends it.
NeverOversell == SumFunction([k \in Sells |-> Outstanding(k)]) <= Held

\* A sell order's reservation covers everything the broker may still execute
\* for it, at every moment and for every subset of the evidence delivered.
ReservationCovers == \A k \in Sells : Outstanding(k) <= ReservedFor(journal, k)

\* Evidence of a broker that does not contradict itself is never refused by
\* check_fact, in whatever order and however late it is ingested.
EvidenceAdmissible ==
  MutexFree => \A f \in emitted \ journal.facts : CheckFact(journal, f)

Settled ==
  /\ MutexFree
  /\ emitted \subseteq journal.facts
  /\ \A k \in Key : ~Waiting(k)

\* Once everything the broker did has been ingested, ledger and broker agree:
\* managed quantity, live quantity of every order it handled, and no order
\* needs reconciliation, in whatever order the facts came.
SettledAgreement ==
  Settled =>
    /\ Managed(journal) = Held
    /\ \A k \in NewOrders(journal) :
         /\ ~OrderReconcile(journal, k)
         /\ book[k] # NotHandled => Active(journal, k) = book[k].remaining

CurrentCall ==
  \A k \in Key : calls'[k] # calls[k] =>
    /\ ready
    /\ journal.requests[k].version = journal.version
    /\ IsBuy(journal.requests[k]) => ~journal.stopped /\ journal.latch = NoLatch

\* A call is only made in an approved session, for the applied configuration
\* version, and a buy never after entry was stopped or a stop latched: what submit checked is
\* checked again at the claim, and nothing changes between claim and call.
CallIsCurrent == [][CurrentCall]_vars

\* Stop requests and obligations are the same, all sells under the one latch:
\* no interleaving of drains, restarts, configurations and quotes creates a
\* stop sell without its durable obligation or for another rule.
ObligationsMatchLatch ==
  /\ journal.obligations = StopRequests(journal)
  /\ \A k \in journal.obligations :
       /\ journal.requests[k].side = "SELL"
       /\ journal.requests[k].stop = journal.latch

RetriedStop ==
  \A k \in Key :
    /\ calls'[k] # calls[k]
    /\ journal.requests[k].stop # NoLatch
    => \A o \in StopRequests(journal) \ {k} : ~Refused(journal, o)

\* A stop sell never goes out after another stop sell was refused: a drain that
\* looked before the refusal arrived is still held back at the send.
NoStopRetry == [][RetriedStop]_vars

\* Accepted quotes move forward in time, however they are reordered, repeated
\* or delayed on their way, and a latched symbol accepts none.
QuotesAdvance ==
  [][journal'.cursor # journal.cursor =>
       /\ journal'.cursor.received > journal.cursor.received
       /\ journal'.cursor.evaluated >= journal.cursor.evaluated
       /\ journal.latch = NoLatch]_vars

\* REBUILD-02-CONTRACTS.md: every confirmed buy fill is registered for protection
\* at once under the rule of its order.
FillsProtected ==
  [][\A f \in BuyFills(journal') \ BuyFills(journal) :
       journal.rule[journal.requests[f.order].version] # "NONE"
         => f \in journal'.assigned]_vars

\* What becomes of a request, told by the journal alone.
PhaseOf(k) ==
  IF k \notin Submitted(journal) THEN "none"
  ELSE IF Unresolved(journal, k) THEN "doubt"
  ELSE IF Transport(journal, k) = "INTENT_PERSISTED" THEN "intent" ELSE "settled"

Life ==
  INSTANCE RequestLife WITH
    phase <- [k \in Key |-> PhaseOf(k)], inside <- sending, open <- ready,
    answered <- {k \in Key : book[k].state # "NONE"}

\* The journal's view of requests, whatever part of the evidence it has, and what
\* really happened at the broker live the life RequestLife describes: claimed and
\* called once, settled only by an answer or without any call ever, and no session
\* opens over a request in doubt.
RequestsImplemented == Life!Spec

\* No crash locks the account out for good: as long as the process stays up,
\* reviewed evidence eventually reopens the session gate.
SessionReopens == []<>ready
=============================================================================
