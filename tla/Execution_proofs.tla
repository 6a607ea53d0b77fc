--------------------------- MODULE Execution_proofs ---------------------------
(***************************************************************************)
(* Theorems about Execution for every set of keys, quantities and bounds.  *)
(* The dispatcher's safety rests on what the journal knows about a request *)
(* at the moment send makes its call.                                      *)
(***************************************************************************)
EXTENDS Execution, Sums, FiniteSetTheorems, TLAPS

\* A request whose transport projects to INTENT_PERSISTED has no Transport fact.
LEMMA IntentHasNoTransport ==
  ASSUME NEW j, NEW k, j.observed[k] \in InDoubt \cup {"NONE"},
         Transport(j, k) = "INTENT_PERSISTED"
  PROVE  j.observed[k] = "NONE"
BY DEF Transport, InDoubt

-----------------------------------------------------------------------------
(* Type correctness *)

LEMMA TypeInit == Init => TypeOK
<1> SUFFICES ASSUME Init PROVE TypeOK
  OBVIOUS
<1>1. journal \in Journal
  BY BoundAssumption DEF Init, Journal, NoRequest, Unallocated, NoLatch, Version
<1>2. IsFiniteSet(journal.facts)
  BY FS_EmptySet DEF Init
<1>3. ready \in BOOLEAN /\ called \in BOOLEAN /\ reviewed \in BOOLEAN
  BY DEF Init
<1>4. /\ restarts \in 0..MaxRestarts
      /\ controls \in 0..MaxControls
      /\ incidents \in 0..MaxIncidents
  BY BoundAssumption DEF Init
<1>5. calls \in [Key -> Nat] /\ book \in [Key -> [state : {"NONE", "LIVE", "REJECTED", "DONE"},
                                               remaining : Int, ver : Nat]]
  BY DEF Init, NotHandled
<1>6. worker \in [Worker -> WorkerState]
  BY DEF Init, WorkerState
<1>7. named \in [stop : Key \cup {NoKey}, liquidation : Key \cup {NoKey}]
  BY DEF Init, Unnamed
<1>8. QED BY <1>1, <1>2, <1>3, <1>4, <1>5, <1>6, <1>7 DEF Init, TypeOK

\* Every command a caller can submit is a well-formed request.
LEMMA CommandType ==
  ASSUME TypeOK, NEW k \in Key, NEW c \in NewCommand(k) \cup ChangeCommand
  PROVE  c \in Request
<1>1. journal \in Journal
  BY DEF TypeOK
<1>2. CASE c \in NewCommand(k)
  BY <1>1, <1>2, QtyAssumption
     DEF NewCommand, New, Request, Journal, PositiveQty, NoLatch, Version
<1>3. ASSUME NEW o \in NewOrders(journal)
      PROVE  o \in Key /\ journal.requests[o].side \in {"BUY", "SELL"}
  BY <1>1 DEF NewOrders, Submitted, Journal, Request, NoRequest
<1>4. ASSUME NEW o \in NewOrders(journal) PROVE Link(journal, o) \in Nat
  <2>1. IsFiniteSet(Amendments(journal, o))
    BY FS_Subset DEF TypeOK, Amendments
  <2>2. Cardinality(Amendments(journal, o)) \in Nat
    BY <2>1, FS_CardinalityType
  <2>3. Link(journal, o) = 1 + Cardinality(Amendments(journal, o))
    BY DEF Link
  <2>4. QED BY <2>2, <2>3
<1>5. CASE c \in ChangeCommand
  <2>1. PICK o \in NewOrders(journal), kind \in ChangeKinds,
             q \in Qty \cup {-i : i \in Qty} :
          c = [kind |-> kind, side |-> journal.requests[o].side, qty |-> q, target |-> o,
               link |-> Link(journal, o), version |-> journal.version,
               decision |-> IF kind = "Amend" /\ q > 0
                              THEN "REJECTED_UNSUPPORTED" ELSE "ACCEPTED",
               stop |-> NoLatch]
    BY <1>5 DEF ChangeCommand
  <2>2. q \in Int
    BY QtyAssumption
  <2>3. QED
    BY <1>1, <1>3, <1>4, <2>1, <2>2, KindAssumption DEF Request, Journal
<1>6. QED BY <1>2, <1>5

\* The journal stays well-formed and finite when a request, a well-formed set
\* of facts or a Transport fact is appended.
LEMMA RequestType ==
  ASSUME TypeOK, NEW k \in Key, NEW c \in Request, AppendRequest(k, c)
  PROVE  /\ journal' \in Journal /\ IsFiniteSet(journal'.facts)
         /\ reviewed' \in BOOLEAN
         /\ named' \in [stop : Key \cup {NoKey}, liquidation : Key \cup {NoKey}]
BY DEF AppendRequest, AppendEntry, TypeOK, Journal

LEMMA FactsType ==
  ASSUME TypeOK, NEW F \in SUBSET Fact, IsFiniteSet(F), NEW A \in SUBSET FillFact,
         AppendFacts([journal EXCEPT !.facts = @ \cup F, !.assigned = @ \cup A])
  PROVE  /\ journal' \in Journal /\ IsFiniteSet(journal'.facts)
         /\ reviewed' \in BOOLEAN
         /\ named' \in [stop : Key \cup {NoKey}, liquidation : Key \cup {NoKey}]
<1>1. journal' \in Journal /\ journal'.facts = journal.facts \cup F
  BY DEF TypeOK, AppendFacts, Journal
<1>2. IsFiniteSet(journal.facts \cup F)
  BY FS_Union DEF TypeOK
<1>3. QED BY <1>1, <1>2 DEF AppendFacts, Unnamed

LEMMA AppendFactType ==
  ASSUME TypeOK, NEW f \in Fact, AppendFact(f)
  PROVE  /\ journal' \in Journal /\ IsFiniteSet(journal'.facts)
         /\ reviewed' \in BOOLEAN
         /\ named' \in [stop : Key \cup {NoKey}, liquidation : Key \cup {NoKey}]
<1>1. [journal EXCEPT !.facts = @ \cup {f}] =
        [journal EXCEPT !.facts = @ \cup {f}, !.assigned = @ \cup {}]
  BY DEF TypeOK, Journal
<1>2. AppendFacts([journal EXCEPT !.facts = @ \cup {f}, !.assigned = @ \cup {}])
  BY <1>1 DEF AppendFact
<1>3. IsFiniteSet({f})
  BY FS_Singleton
<1>4. {f} \in SUBSET Fact /\ {} \in SUBSET FillFact
  OBVIOUS
<1>5. QED BY ONLY TypeOK, <1>2, <1>3, <1>4, FactsType

LEMMA IngestType ==
  ASSUME TypeOK, NEW f \in Fact, Ingest(f)
  PROVE  /\ journal' \in Journal /\ IsFiniteSet(journal'.facts)
         /\ reviewed' \in BOOLEAN
         /\ named' \in [stop : Key \cup {NoKey}, liquidation : Key \cup {NoKey}]
<1>1. PICK A \in {{}, {f}} :
        /\ A # {} => f.type = "Fill"
        /\ AppendFacts([journal EXCEPT !.facts = @ \cup {f}, !.assigned = @ \cup A])
  <2>1. CASE /\ f.type = "Fill"
             /\ journal.requests[f.order].side = "BUY"
             /\ journal.rule[journal.requests[f.order].version] # "NONE"
    BY <2>1 DEF Ingest
  <2>2. CASE ~(/\ f.type = "Fill"
               /\ journal.requests[f.order].side = "BUY"
               /\ journal.rule[journal.requests[f.order].version] # "NONE")
    <3>1. [journal EXCEPT !.facts = @ \cup {f}, !.assigned = @] =
            [journal EXCEPT !.facts = @ \cup {f}, !.assigned = @ \cup {}]
      BY DEF TypeOK, Journal
    <3>2. QED BY <2>2, <3>1 DEF Ingest
  <2>3. QED BY <2>1, <2>2
<1>2. A \subseteq FillFact
  BY <1>1 DEF Fact
<1>3. IsFiniteSet({f})
  BY FS_Singleton
<1>4. QED BY <1>1, <1>2, <1>3, FactsType

LEMMA TransportType ==
  ASSUME TypeOK, NEW k \in Key, NEW state \in InDoubt, AppendTransport(k, state)
  PROVE  /\ journal' \in Journal /\ IsFiniteSet(journal'.facts)
         /\ reviewed' \in BOOLEAN
         /\ named' \in [stop : Key \cup {NoKey}, liquidation : Key \cup {NoKey}]
BY DEF AppendTransport, AppendFacts, Unnamed, TypeOK, Journal

\* A submitted change request names an order and carries an integer quantity.
LEMMA ChangeType ==
  ASSUME TypeOK, NEW k \in Key, journal.requests[k] # NoRequest
  PROVE  journal.requests[k].qty \in Int /\ journal.requests[k].target \in Key
<1>1. journal.requests[k] \in Request
  BY DEF TypeOK, Journal
<1>2. ASSUME NEW r \in Request PROVE r.qty \in Int /\ r.target \in Key
  BY DEF Request, PositiveQty
<1>3. QED BY <1>1, <1>2

LEMMA LedgerType == TypeOK /\ LedgerNext => TypeOK'
<1> SUFFICES ASSUME TypeOK, LedgerNext PROVE TypeOK'
  OBVIOUS
<1> USE DEF ledgerVars, workVars, boundVars, brokerVars
<1>1. ASSUME NEW q \in Allocations, Allocate(q) PROVE TypeOK'
  BY <1>1 DEF Allocate, AppendEntry, TypeOK, Journal
<1>2. ASSUME NEW s \in BOOLEAN, NEW l \in BOOLEAN, Control(s, l) PROVE TypeOK'
  <2>1. journal' \in Journal /\ journal'.facts = journal.facts
    BY <1>2 DEF Control, AppendEntry, TypeOK, Journal
  <2>2. controls' \in 0..MaxControls
    BY <1>2, BoundAssumption DEF Control, TypeOK
  <2>3. QED BY <1>2, <2>1, <2>2 DEF Control, AppendEntry, TypeOK
<1>3. ASSUME NEW v \in Version, NEW r \in Rules \cup {"NONE"}, ApplyConfig(v, r)
      PROVE  TypeOK'
  <2>1. r \in {"PRICE", "COST", "NONE"}
    BY KindAssumption
  <2>2. journal' \in Journal /\ journal'.facts = journal.facts
    BY <1>3, <2>1 DEF ApplyConfig, AppendEntry, TypeOK, Journal
  <2>3. QED BY <1>3, <2>2 DEF ApplyConfig, AppendEntry, TypeOK
<1>4. ASSUME NEW k \in Key, NEW c \in NewCommand(k) \cup ChangeCommand, Submit(k, c)
      PROVE  TypeOK'
  <2>1. c \in Request
    BY CommandType
  <2>2. QED BY <1>4, <2>1, RequestType DEF Submit, TypeOK
<1>5. ASSUME NEW f \in emitted, Deliver(f) PROVE TypeOK'
  <2>1. f \in Fact
    BY DEF TypeOK
  <2>2. QED BY <1>5, <2>1, IngestType DEF Deliver, TypeOK
<1>6. ASSUME NEW k \in Key, NEW p \in {"NOT_INVOKED", "VERIFIED_UNSENT"}, ReportUnsent(k, p)
      PROVE  TypeOK'
  <2>1. Unsent(k, p) \in Fact
    BY DEF Unsent, Fact
  <2>2. QED BY <1>6, <2>1, IngestType DEF ReportUnsent, TypeOK
<1>7. ASSUME NEW k \in Key, Discard(k) PROVE TypeOK'
  <2>1. Unsent(k, "NOT_INVOKED") \in Fact
    BY DEF Unsent, Fact
  <2>2. QED BY <1>7, <2>1, AppendFactType DEF Discard, TypeOK
<1>8. ASSUME NEW f \in emitted, Quarantine(f) PROVE TypeOK'
  <2>1. f \in FillFact
    BY <1>8 DEF Quarantine, TypeOK, Fact
  <2>2. Quarantined(f) \in Fact
    BY <2>1 DEF Quarantined, Fact
  <2>3. incidents' \in 0..MaxIncidents
    BY <1>8, BoundAssumption DEF Quarantine, TypeOK
  <2>4. QED BY <1>8, <2>2, <2>3, AppendFactType DEF Quarantine, TypeOK
<1>9. ASSUME NEW f \in emitted, Reprocess(f) PROVE TypeOK'
  <2>1. Quarantined(f) \in Fact
    BY <1>9 DEF Reprocess, TypeOK, Journal
  <2>2. f \in FillFact
    BY <2>1 DEF Quarantined, Fact, FillFact
  <2>3. f \in Fact /\ Released(f) \in Fact
    BY <2>2 DEF Released, Fact
  <2>4. IsFiniteSet({f, Released(f)})
    <3>1. {f, Released(f)} = {f} \cup {Released(f)}
      OBVIOUS
    <3>2. IsFiniteSet({f}) /\ IsFiniteSet({Released(f)})
      BY FS_Singleton
    <3>3. IsFiniteSet({f} \cup {Released(f)})
      BY <3>2, FS_Union
    <3>4. QED BY <3>1, <3>3
  <2>5. [journal EXCEPT !.facts = @ \cup {f, Released(f)}] =
          [journal EXCEPT !.facts = @ \cup {f, Released(f)}, !.assigned = @ \cup {}]
    BY DEF TypeOK, Journal
  <2>6. AppendFacts([journal EXCEPT !.facts = @ \cup {f, Released(f)},
                                    !.assigned = @ \cup {}])
    BY <1>9, <2>5 DEF Reprocess
  <2>7. {f, Released(f)} \in SUBSET Fact /\ {} \in SUBSET FillFact
    BY <2>3
  <2>8. /\ journal' \in Journal /\ IsFiniteSet(journal'.facts)
        /\ reviewed' \in BOOLEAN
        /\ named' \in [stop : Key \cup {NoKey}, liquidation : Key \cup {NoKey}]
    BY ONLY TypeOK, <2>4, <2>6, <2>7, FactsType
  <2>9. QED BY <1>9, <2>8 DEF Reprocess, TypeOK
<1>10. CASE ReportDiscrepancy
  <2>1. Discrepancy(incidents) \in Fact
    BY DEF Discrepancy, Fact, TypeOK
  <2>2. incidents' \in 0..MaxIncidents
    BY <1>10, BoundAssumption DEF ReportDiscrepancy, TypeOK
  <2>3. QED BY <1>10, <2>1, <2>2, AppendFactType DEF ReportDiscrepancy, TypeOK
<1>11. ASSUME NEW n \in 0..MaxIncidents, Reconcile(n) PROVE TypeOK'
  <2>1. Reconciled(n) \in Fact
    BY BoundAssumption DEF Reconciled, Fact
  <2>2. QED BY <1>11, <2>1, AppendFactType DEF Reconcile, TypeOK
<1>12. ASSUME NEW r \in 1..MaxTime, NEW n \in 1..MaxTime, NEW x \in BOOLEAN,
              ProcessQuote(r, n, x)
       PROVE  TypeOK'
  <2> DEFINE j == [journal EXCEPT !.cursor = [received |-> r, evaluated |-> n]]
  <2>1. j \in Journal /\ j.facts = journal.facts
    <3>1. [received |-> r, evaluated |-> n] \in [received : 0..MaxTime, evaluated : 0..MaxTime]
      BY ONLY r \in 1..MaxTime, n \in 1..MaxTime, BoundAssumption
    <3>2. journal \in Journal
      BY DEF TypeOK
    <3>3. QED BY ONLY <3>1, <3>2 DEF Journal
  <2>2. CASE journal' = j /\ UNCHANGED <<reviewed, named>>
    BY <1>12, <2>1, <2>2 DEF ProcessQuote, TypeOK
  <2>3. ASSUME NEW v \in Version, AppendEntry([j EXCEPT !.latch = v]) PROVE TypeOK'
    <3>1. journal' \in Journal /\ journal'.facts = journal.facts
      BY <2>1, <2>3 DEF AppendEntry, Journal
    <3>2. QED BY <1>12, <2>3, <3>1 DEF ProcessQuote, AppendEntry, TypeOK
  <2>4. QED BY <1>12, <2>2, <2>3 DEF ProcessQuote
<1>13. CASE Latch
  <2>1. PICK v \in Version : AppendEntry([journal EXCEPT !.latch = v])
    BY <1>13 DEF Latch
  <2>2. journal' \in Journal /\ journal'.facts = journal.facts
    BY <2>1 DEF AppendEntry, TypeOK, Journal
  <2>3. QED BY <1>13, <2>1, <2>2 DEF Latch, AppendEntry, TypeOK
<1>14. QED
  BY <1>1, <1>2, <1>3, <1>4, <1>5, <1>6, <1>7, <1>8, <1>9, <1>10, <1>11, <1>12, <1>13
     DEF LedgerNext

LEMMA ClaimType ==
  ASSUME TypeOK, NEW k \in Key, Claim(k), worker' \in [Worker -> WorkerState]
  PROVE  TypeOK'
<1>1. "SENDING" \in InDoubt
  BY DEF InDoubt
<1>2. QED BY <1>1, TransportType DEF Claim, boundVars, brokerVars, TypeOK

LEMMA DispatchType == TypeOK /\ (SessionNext \/ DispatchNext) => TypeOK'
<1> SUFFICES ASSUME TypeOK, SessionNext \/ DispatchNext PROVE TypeOK'
  OBVIOUS
<1> USE DEF ledgerVars, workVars, boundVars, brokerVars
<1>1. CASE Review
  BY <1>1 DEF Review, TypeOK
<1>2. CASE Approve
  BY <1>2 DEF Approve, TypeOK
<1>3. CASE Recover
  <2>1. journal' \in Journal /\ journal'.facts = journal.facts
    BY <1>3 DEF Recover, AppendFacts, TypeOK, Journal, InDoubt
  <2>2. QED BY <1>3, <2>1 DEF Recover, AppendFacts, Unnamed, TypeOK
<1>4. CASE Restart
  <2>1. restarts' \in 0..MaxRestarts
    BY <1>4, BoundAssumption DEF Restart, TypeOK
  <2>2. worker' \in [Worker -> WorkerState]
    BY <1>4 DEF Restart, WorkerState
  <2>3. QED BY <1>4, <2>1, <2>2 DEF Restart, TypeOK
<1>5. ASSUME NEW k \in Key, Expire(k) PROVE TypeOK'
  BY <1>5 DEF Expire, TypeOK
<1>6. ASSUME NEW k \in Key, Send(k) PROVE TypeOK'
  BY <1>6, ClaimType DEF Send, TypeOK
<1>7. CASE Call
  BY <1>7 DEF Call, TypeOK
<1>8. CASE RecordSent
  <2>1. sending \in Key /\ "SENT" \in InDoubt
    BY <1>8 DEF RecordSent, TypeOK, InDoubt
  <2>2. QED BY <1>8, <2>1, TransportType DEF RecordSent, TypeOK
<1>9. CASE SentNotRecorded
  <2>1. worker' \in [Worker -> WorkerState]
    BY <1>9 DEF SentNotRecorded, TypeOK, WorkerState
  <2>2. QED BY <1>9, <2>1 DEF SentNotRecorded, TypeOK
<1>10. QED
  BY <1>1, <1>2, <1>3, <1>4, <1>5, <1>6, <1>7, <1>8, <1>9 DEF SessionNext, DispatchNext

LEMMA WorkerType == TypeOK /\ WorkerNext => TypeOK'
<1> SUFFICES ASSUME TypeOK, NEW w \in Worker,
                    \/ DrainLook(w) \/ DrainObligations(w) \/ DrainCandidate(w)
                    \/ ProcessLook(w) \/ ProcessPosition(w)
                    \/ WorkerSubmit(w) \/ WorkerSend(w) \/ WorkerAck(w)
             PROVE  TypeOK'
  BY DEF WorkerNext
<1> USE DEF workerFrame, boundVars, brokerVars
<1>0. /\ worker \in [Worker -> WorkerState]
      /\ journal.version \in Version /\ journal.latch \in Version \cup {NoLatch}
      /\ \A g \in Key \cup {NoKey} : KeyFor(g) \subseteq Key
  BY DEF TypeOK, Journal, KeyFor, FreeKeys
<1>1. CASE DrainLook(w)
  <2>1. PICK k \in KeyFor(named.stop) :
          /\ named' = [named EXCEPT !.stop = k]
          /\ Step(w, [step |-> "obligations", stop |-> journal.latch, key |-> k,
                      qty |-> 0, version |-> journal.version])
    BY <1>1 DEF DrainLook
  <2>2. k \in Key
    BY <1>0 DEF TypeOK
  <2>3. worker' \in [Worker -> WorkerState]
    BY <1>0, <2>1, <2>2 DEF Step, WorkerState
  <2>4. QED BY <1>1, <2>1, <2>2, <2>3 DEF DrainLook, TypeOK
<1>2. CASE DrainObligations(w)
  <2>1. worker' \in [Worker -> WorkerState]
    BY <1>0, <1>2 DEF DrainObligations, Step, WorkerState, Idle
  <2>2. QED BY <1>2, <2>1 DEF DrainObligations, TypeOK
<1>3. CASE DrainCandidate(w)
  <2>0. ASSUME NEW q \in PositiveQty
        PROVE  [worker[w] EXCEPT !.step = "submit", !.qty = q] \in WorkerState
    <3>1. worker[w] \in WorkerState /\ worker[w].step = "candidate"
      BY <1>0, <1>3 DEF DrainCandidate
    <3>2. worker[w] \in [step : {"obligations", "candidate", "position"},
                         stop : Version \cup {NoLatch}, key : Key, qty : {0},
                         version : Version]
      BY <3>1 DEF WorkerState, Idle
    <3>3. [worker[w] EXCEPT !.step = "submit", !.qty = q] \in
            [step : {"submit", "send", "ack"}, stop : Version \cup {NoLatch},
             key : Key, qty : PositiveQty, version : Version]
      BY <3>2
    <3>4. QED BY <3>3 DEF WorkerState
  <2>1. worker' \in [Worker -> WorkerState]
    <3>1. CASE ready /\ StopCandidate(journal) \in PositiveQty
      <4> DEFINE new == [worker[w] EXCEPT !.step = "submit",
                                          !.qty = StopCandidate(journal)]
      <4>1. new \in WorkerState
        BY <2>0, <3>1
      <4>2. worker' = [worker EXCEPT ![w] = new]
        BY <1>3, <3>1 DEF DrainCandidate, Step
      <4> HIDE DEF new
      <4>3. QED BY <1>0, <4>1, <4>2
    <3>2. CASE ~(ready /\ StopCandidate(journal) \in PositiveQty)
      BY <1>0, <1>3, <3>2 DEF DrainCandidate, Step, WorkerState
    <3>3. QED BY <3>1, <3>2
  <2>2. QED BY <1>3, <2>1 DEF DrainCandidate, TypeOK
<1>4. CASE ProcessLook(w)
  <2>1. PICK k \in KeyFor(named.liquidation) :
          /\ named' = [named EXCEPT !.liquidation = k]
          /\ Step(w, [step |-> "position", stop |-> NoLatch, key |-> k,
                      qty |-> 0, version |-> journal.version])
    BY <1>4 DEF ProcessLook
  <2>2. k \in Key
    BY <1>0 DEF TypeOK
  <2>3. worker' \in [Worker -> WorkerState]
    BY <1>0, <2>1, <2>2 DEF Step, WorkerState
  <2>4. QED BY <1>4, <2>1, <2>2, <2>3 DEF ProcessLook, TypeOK
<1>5. CASE ProcessPosition(w)
  <2>0. ASSUME NEW q \in PositiveQty
        PROVE  [worker[w] EXCEPT !.step = "submit", !.qty = q] \in WorkerState
    <3>1. worker[w] \in WorkerState /\ worker[w].step = "position"
      BY <1>0, <1>5 DEF ProcessPosition
    <3>2. worker[w] \in [step : {"obligations", "candidate", "position"},
                         stop : Version \cup {NoLatch}, key : Key, qty : {0},
                         version : Version]
      BY <3>1 DEF WorkerState, Idle
    <3>3. [worker[w] EXCEPT !.step = "submit", !.qty = q] \in
            [step : {"submit", "send", "ack"}, stop : Version \cup {NoLatch},
             key : Key, qty : PositiveQty, version : Version]
      BY <3>2
    <3>4. QED BY <3>3 DEF WorkerState
  <2>1. worker' \in [Worker -> WorkerState]
    <3>1. CASE journal.liquidating /\ Available(journal) \in PositiveQty
      <4> DEFINE new == [worker[w] EXCEPT !.step = "submit",
                                          !.qty = Available(journal)]
      <4>1. new \in WorkerState
        BY <2>0, <3>1
      <4>2. worker' = [worker EXCEPT ![w] = new]
        BY <1>5, <3>1 DEF ProcessPosition, Step
      <4> HIDE DEF new
      <4>3. QED BY <1>0, <4>1, <4>2
    <3>2. CASE ~(journal.liquidating /\ Available(journal) \in PositiveQty)
      BY <1>0, <1>5, <3>2 DEF ProcessPosition, Step, WorkerState
    <3>3. QED BY <3>1, <3>2
  <2>2. QED BY <1>5, <2>1 DEF ProcessPosition, TypeOK
<1>6. CASE WorkerSubmit(w)
  <2> DEFINE c == New("SELL", worker[w].qty, worker[w].key, worker[w].version,
                      worker[w].stop)
  <2>1. worker[w].key \in Key /\ c \in Request
    BY <1>0, <1>6 DEF WorkerSubmit, WorkerState, Idle, New, Request
  <2>2. worker' \in [Worker -> WorkerState]
    BY <1>0, <1>6 DEF WorkerSubmit, Step, WorkerState, Idle
  <2>3. CASE AppendRequest(worker[w].key, c)
    BY <1>6, <2>1, <2>2, <2>3, RequestType DEF WorkerSubmit, TypeOK
  <2>4. CASE UNCHANGED <<journal, reviewed, named>>
    BY <1>6, <2>2, <2>4 DEF WorkerSubmit, TypeOK
  <2>5. QED BY <1>6, <2>3, <2>4 DEF WorkerSubmit
<1>7. CASE WorkerSend(w)
  <2>1. worker' \in [Worker -> WorkerState]
    BY <1>0, <1>7 DEF WorkerSend, Step, WorkerState, Idle
  <2>2. worker[w].key \in Key
    BY <1>0, <1>7 DEF WorkerSend, WorkerState, Idle
  <2>3. CASE Claim(worker[w].key)
    BY <2>1, <2>2, <2>3, ClaimType
  <2>4. CASE UNCHANGED <<journal, reviewed, named, workerFrame>>
    BY <2>1, <2>4 DEF TypeOK
  <2>5. QED BY <1>7, <2>3, <2>4 DEF WorkerSend
<1>8. CASE WorkerAck(w)
  <2> DEFINE k == worker[w].key
  <2>1. k \in Key
    BY <1>0, <1>8 DEF WorkerAck, WorkerState, Idle
  <2>2. Told1("Ack", k) \in Fact
    BY <2>1 DEF Told1, Fact
  <2>3. worker' \in [Worker -> WorkerState]
    BY <1>0, <1>8 DEF WorkerAck, Step, WorkerState
  <2>4. Opened(k) \in [state : {"NONE", "LIVE", "REJECTED", "DONE"},
                       remaining : Int, ver : Nat]
    <3>1. k \in Accepted(journal)
      BY <1>8 DEF WorkerAck, Ingest, CheckFact, Told1
    <3>2. journal.requests[k].qty \in Int
      BY <2>1, <3>1, ChangeType DEF Accepted, Submitted
    <3>3. QED BY <3>2 DEF Opened
  <2>5. Ingest(Told1("Ack", k))
    BY <1>8 DEF WorkerAck
  <2>6. /\ journal' \in Journal /\ IsFiniteSet(journal'.facts)
        /\ reviewed' \in BOOLEAN
        /\ named' \in [stop : Key \cup {NoKey}, liquidation : Key \cup {NoKey}]
    BY <2>2, <2>5, IngestType
  <2>7. /\ book' = [book EXCEPT ![k] = Opened(k)]
        /\ emitted' = emitted \cup {Told1("Ack", k)}
    BY <1>8 DEF WorkerAck
  <2>8. QED BY <1>8, <2>1, <2>2, <2>3, <2>4, <2>6, <2>7 DEF WorkerAck, TypeOK
<1>9. QED BY <1>1, <1>2, <1>3, <1>4, <1>5, <1>6, <1>7, <1>8

LEMMA BrokerType == TypeOK /\ BrokerNext => TypeOK'
<1> SUFFICES ASSUME TypeOK, BrokerNext PROVE TypeOK'
  OBVIOUS
<1> USE DEF TypeOK, ledgerVars, workVars, boundVars, brokerVars
<1>1. ASSUME NEW k \in Key, BrokerAccept(k) PROVE TypeOK'
  <2>1. journal.requests[k].qty \in Int
    <3>1. journal.requests[k] # NoRequest
      BY <1>1 DEF BrokerAccept, NoRequest
    <3>2. QED BY <3>1, ChangeType
  <2>2. Told1("Ack", k) \in Fact
    BY DEF Told1, Fact
  <2>3. QED BY <1>1, <2>1, <2>2 DEF BrokerAccept, Opened
<1>2. ASSUME NEW k \in Key, BrokerReject(k) PROVE TypeOK'
  <2>1. Told1("Rejected", k) \in Fact
    BY DEF Told1, Fact
  <2>2. QED BY <1>2, <2>1 DEF BrokerReject
<1>3. ASSUME NEW k \in Key, NEW n \in Qty, BrokerFill(k, n) PROVE TypeOK'
  <2>1. [type |-> "Fill", order |-> k, qty |-> n, remaining |-> book[k].remaining - n,
         ver |-> book[k].ver + 1] \in Fact
    BY QtyAssumption DEF Fact, FillFact
  <2>2. QED BY <1>3, <2>1, QtyAssumption DEF BrokerFill
<1>4. ASSUME NEW k \in Key, BrokerChange(k) PROVE TypeOK'
  <2> DEFINE c    == journal.requests[k]
             live == book[c.target].remaining
             cut  == IF c.kind = "Amend" THEN -c.qty
                     ELSE IF c.qty < live THEN c.qty ELSE live
             ver  == book[c.target].ver + 1
             done == [type |-> IF c.kind = "Cancel" THEN "Cancelled" ELSE "Amended",
                      request |-> k, order |-> c.target, ver |-> ver,
                      qty |-> IF c.kind = "Cancel" THEN cut ELSE c.qty,
                      remaining |-> live - cut]
  <2>1. c.qty \in Int /\ c.target \in Key
    <3>1. journal.requests[k].kind \in {"Amend", "Cancel"}
      BY <1>4 DEF BrokerChange
    <3>2. journal.requests[k] # NoRequest
      BY <3>1 DEF NoRequest
    <3>3. QED BY <3>2, ChangeType
  <2>2. live \in Int /\ ver \in Nat
    BY <2>1
  <2>3. cut \in Int
    BY <2>1, <2>2
  <2>4. done \in Fact
    <3>1. ASSUME NEW y \in {"Cancelled", "Amended"}, NEW o \in Key, NEW v \in Nat,
                 NEW q \in Int, NEW rest \in Int
          PROVE  [type |-> y, request |-> k, order |-> o, ver |-> v, qty |-> q,
                  remaining |-> rest] \in Fact
      BY ONLY <3>1, k \in Key DEF Fact
    <3>2. done.qty \in Int /\ done.remaining \in Int
      BY <2>1, <2>2, <2>3
    <3>3. done.type \in {"Cancelled", "Amended"} /\ done.order \in Key /\ done.ver \in Nat
      BY <2>1, <2>2
    <3>4. done = [type |-> done.type, request |-> k, order |-> done.order, ver |-> done.ver,
                  qty |-> done.qty, remaining |-> done.remaining]
      OBVIOUS
    <3> HIDE DEF done
    <3>5. QED BY ONLY <3>1, <3>2, <3>3, <3>4
  <2>5. Told1("Ack", k) \in Fact /\ Told1("EffectRejected", k) \in Fact
    BY DEF Told1, Fact
  <2>6. emitted' \subseteq Fact
    BY <1>4, <2>4, <2>5 DEF BrokerChange
  <2>7. book' \in [Key -> [state : {"NONE", "LIVE", "REJECTED", "DONE"},
                           remaining : Int, ver : Nat]]
    <3>1. live - cut \in Int
      BY <2>2, <2>3
    <3> HIDE DEF live, cut, ver, done
    <3>2. \/ book' = [book EXCEPT ![k].state = "DONE", ![c.target].remaining = live - cut,
                                  ![c.target].ver = ver]
          \/ book' = [book EXCEPT ![k].state = "DONE"]
      BY <1>4 DEF BrokerChange, live, cut, ver
    <3>3. book \in [Key -> [state : {"NONE", "LIVE", "REJECTED", "DONE"},
                           remaining : Int, ver : Nat]]
      BY DEF TypeOK
    <3>4. CASE book' = [book EXCEPT ![k].state = "DONE"]
      BY ONLY <3>3, <3>4, k \in Key
    <3>5. CASE book' = [book EXCEPT ![k].state = "DONE", ![c.target].remaining = live - cut,
                                    ![c.target].ver = ver]
      <4> DEFINE Books == [Key -> [state : {"NONE", "LIVE", "REJECTED", "DONE"},
                                   remaining : Int, ver : Nat]]
      <4>1. ASSUME NEW o \in Key, NEW b \in Books, NEW q \in Int, NEW v \in Nat
            PROVE  [b EXCEPT ![o].remaining = q, ![o].ver = v] \in Books
        BY ONLY <4>1
      <4>2. [book EXCEPT ![k].state = "DONE"] \in Books
        BY ONLY <3>3, k \in Key
      <4>3. book' = [[book EXCEPT ![k].state = "DONE"]
                       EXCEPT ![c.target].remaining = live - cut, ![c.target].ver = ver]
        BY ONLY <3>5
      <4>4. QED BY ONLY <2>1, <2>2, <3>1, <4>1, <4>2, <4>3
    <3>6. QED BY <3>2, <3>4, <3>5
  <2>8. QED BY <1>4, <2>6, <2>7 DEF BrokerChange
<1>5. QED BY <1>1, <1>2, <1>3, <1>4 DEF BrokerNext

LEMMA TypeNext == TypeOK /\ [Next]_vars => TypeOK'
<1> SUFFICES ASSUME TypeOK, [Next]_vars PROVE TypeOK'
  OBVIOUS
<1>1. CASE UNCHANGED vars
  BY <1>1 DEF vars, ledgerVars, workVars, boundVars, brokerVars, TypeOK
<1>2. QED BY <1>1, LedgerType, DispatchType, WorkerType, BrokerType DEF Next

\* Only well-formed requests, facts and transport states are ever journalled.
THEOREM TypeCorrect == Spec => []TypeOK
<1>1. QED BY TypeInit, TypeNext, PTL DEF Spec

-----------------------------------------------------------------------------
(* The dispatcher *)

DispatchInv == TypeOK /\ CallOnce /\ ClaimedBeforeCall

LEMMA DispatchInit == Init => DispatchInv
<1> SUFFICES ASSUME Init PROVE DispatchInv
  OBVIOUS
<1>1. TypeOK
  BY TypeInit
<1>2. CallOnce /\ ClaimedBeforeCall
  BY DEF Init, CallOnce, ClaimedBeforeCall
<1>3. QED BY <1>1, <1>2 DEF DispatchInv

\* Actions that leave the dispatcher alone: no call, no send in progress, the
\* same session, and no Transport fact lost.
LEMMA DispatchFrame ==
  ASSUME DispatchInv, MutexFree, UNCHANGED <<sending, called, calls>>,
         \A k \in Key : journal'.observed[k] = "NONE" => journal.observed[k] = "NONE"
  PROVE  CallOnce' /\ ClaimedBeforeCall'
BY DEF DispatchInv, CallOnce, ClaimedBeforeCall, MutexFree

\* A ledger operation runs outside send and keeps every Transport fact.
LEMMA LedgerFrame ==
  ASSUME TypeOK, LedgerNext
  PROVE  /\ MutexFree /\ UNCHANGED <<sending, called, calls>>
         /\ journal'.observed = journal.observed
<1> USE DEF boundVars, brokerVars
<1>0. journal \in Journal
  BY DEF TypeOK
<1> USE DEF Journal
<1>1. ASSUME NEW q \in Allocations, Allocate(q)
      PROVE  MutexFree /\ UNCHANGED <<sending, called, calls>>
             /\ journal'.observed = journal.observed
  BY <1>0, <1>1 DEF Allocate, AppendEntry
<1>2. ASSUME NEW s \in BOOLEAN, NEW l \in BOOLEAN, Control(s, l)
      PROVE  MutexFree /\ UNCHANGED <<sending, called, calls>>
             /\ journal'.observed = journal.observed
  BY <1>0, <1>2 DEF Control, AppendEntry
<1>3. ASSUME NEW v \in Version, NEW r \in Rules \cup {"NONE"}, ApplyConfig(v, r)
      PROVE  MutexFree /\ UNCHANGED <<sending, called, calls>>
             /\ journal'.observed = journal.observed
  BY <1>0, <1>3 DEF ApplyConfig, AppendEntry
<1>4. ASSUME NEW k \in Key, NEW c \in NewCommand(k) \cup ChangeCommand, Submit(k, c)
      PROVE  MutexFree /\ UNCHANGED <<sending, called, calls>>
             /\ journal'.observed = journal.observed
  BY <1>0, <1>4 DEF Submit, AppendRequest, AppendEntry
<1>5. ASSUME NEW f, Ingest(f) PROVE journal'.observed = journal.observed
  BY <1>0, <1>5 DEF Ingest, AppendFacts
<1>6. ASSUME NEW f, AppendFact(f) PROVE journal'.observed = journal.observed
  BY <1>0, <1>6 DEF AppendFact, AppendFacts
<1>7. ASSUME NEW f \in emitted, Deliver(f)
      PROVE  MutexFree /\ UNCHANGED <<sending, called, calls>>
             /\ journal'.observed = journal.observed
  BY <1>5, <1>7 DEF Deliver
<1>8. ASSUME NEW k \in Key, NEW p \in {"NOT_INVOKED", "VERIFIED_UNSENT"}, ReportUnsent(k, p)
      PROVE  MutexFree /\ UNCHANGED <<sending, called, calls>>
             /\ journal'.observed = journal.observed
  BY <1>5, <1>8 DEF ReportUnsent
<1>9. ASSUME NEW k \in Key, Discard(k)
      PROVE  MutexFree /\ UNCHANGED <<sending, called, calls>>
             /\ journal'.observed = journal.observed
  BY <1>6, <1>9 DEF Discard
<1>10. ASSUME NEW f \in emitted, Quarantine(f)
       PROVE  MutexFree /\ UNCHANGED <<sending, called, calls>>
              /\ journal'.observed = journal.observed
  BY <1>6, <1>10 DEF Quarantine
<1>11. ASSUME NEW f \in emitted, Reprocess(f)
       PROVE  MutexFree /\ UNCHANGED <<sending, called, calls>>
              /\ journal'.observed = journal.observed
  BY <1>0, <1>11 DEF Reprocess, AppendFacts
<1>12. CASE ReportDiscrepancy
  BY <1>6, <1>12 DEF ReportDiscrepancy
<1>13. ASSUME NEW n \in 0..MaxIncidents, Reconcile(n)
       PROVE  MutexFree /\ UNCHANGED <<sending, called, calls>>
              /\ journal'.observed = journal.observed
  BY <1>6, <1>13 DEF Reconcile
<1>14. ASSUME NEW r \in 1..MaxTime, NEW n \in 1..MaxTime, NEW x \in BOOLEAN,
              ProcessQuote(r, n, x)
       PROVE  MutexFree /\ UNCHANGED <<sending, called, calls>>
              /\ journal'.observed = journal.observed
  BY <1>0, <1>14 DEF ProcessQuote, AppendEntry
<1>15. CASE Latch
  BY <1>0, <1>15 DEF Latch, AppendEntry
<1>16. QED
  BY <1>1, <1>2, <1>3, <1>4, <1>7, <1>8, <1>9, <1>10, <1>11, <1>12, <1>13, <1>14, <1>15
     DEF LedgerNext

\* The claim: a request without a Transport fact was never called, and what the
\* claim checked is what the call will find.
LEMMA ClaimDispatch ==
  ASSUME DispatchInv, MutexFree, NEW k \in Key, Claimable(k), Claim(k)
  PROVE  CallOnce' /\ ClaimedBeforeCall'
<1>0. journal \in Journal /\ calls \in [Key -> Nat]
  BY DEF DispatchInv, TypeOK
<1>1. journal.observed[k] = "NONE"
  BY <1>0, IntentHasNoTransport DEF Claimable, Journal
<1>2. calls[k] = 0
  BY <1>0, <1>1 DEF DispatchInv, ClaimedBeforeCall
<1>3. /\ journal'.observed = [journal.observed EXCEPT ![k] = "SENDING"]
      /\ journal'.requests = journal.requests
      /\ journal'.version = journal.version
      /\ journal'.stopped = journal.stopped
      /\ journal'.latch = journal.latch
  BY <1>0 DEF Claim, AppendTransport, AppendFacts, Journal
<1>4. CallOnce'
  BY DEF Claim, brokerVars, DispatchInv, CallOnce
<1>5. \A i \in Key : calls'[i] > 0 => journal'.observed[i] # "NONE"
  BY <1>0, <1>3 DEF Claim, brokerVars, DispatchInv, ClaimedBeforeCall, Journal
<1>6. journal.requests[k].version = journal.version
  BY DEF Claimable, Fresh
<1>7. IsBuy(journal.requests[k]) => ~journal.stopped /\ journal.latch = NoLatch
  BY DEF Claimable, BuyBlocked
<1>8. sending' = k /\ called' = FALSE /\ ready' /\ calls' = calls
  BY DEF Claim, Claimable, brokerVars
<1>9. journal'.observed[k] # "NONE"
  BY <1>0, <1>3 DEF Journal
<1>10. QED
  BY <1>2, <1>3, <1>4, <1>5, <1>6, <1>7, <1>8, <1>9 DEF ClaimedBeforeCall

LEMMA DispatchNextInv == DispatchInv /\ [Next]_vars => DispatchInv'
<1> SUFFICES ASSUME DispatchInv, [Next]_vars PROVE CallOnce' /\ ClaimedBeforeCall'
  BY TypeNext DEF DispatchInv
<1> USE DEF ledgerVars, workVars, boundVars, brokerVars
<1>0. journal \in Journal /\ calls \in [Key -> Nat] /\ sending \in Key \cup {NoKey}
  BY DEF DispatchInv, TypeOK
<1>1. CASE LedgerNext
  BY <1>1, LedgerFrame, DispatchFrame DEF DispatchInv
<1>2. CASE Review
  BY <1>2, DispatchFrame DEF Review
<1>3. CASE Approve
  BY <1>3, DispatchFrame DEF Approve
<1>4. CASE Recover
  BY <1>0, <1>4, DispatchFrame DEF Recover, AppendFacts, Journal
<1>5. CASE Restart
  BY <1>5 DEF Restart, DispatchInv, CallOnce, ClaimedBeforeCall
<1>6. ASSUME NEW k \in Key, Expire(k) PROVE CallOnce' /\ ClaimedBeforeCall'
  BY <1>6 DEF Expire, DispatchInv, CallOnce, ClaimedBeforeCall
<1>7. ASSUME NEW k \in Key, Send(k) PROVE CallOnce' /\ ClaimedBeforeCall'
  BY <1>7, ClaimDispatch DEF Send
<1>8. CASE Call
  <2>1. sending \in Key /\ calls[sending] = 0
    BY <1>0, <1>8 DEF Call, DispatchInv, ClaimedBeforeCall
  <2>2. QED
    BY <1>0, <1>8, <2>1 DEF Call, DispatchInv, CallOnce, ClaimedBeforeCall
<1>9. CASE RecordSent
  <2>1. journal'.observed = [journal.observed EXCEPT ![sending] = "SENT"]
    BY <1>0, <1>9 DEF RecordSent, AppendTransport, AppendFacts, Journal
  <2>2. \A i \in Key : journal'.observed[i] = "NONE" => journal.observed[i] = "NONE"
    BY <1>0, <2>1 DEF Journal
  <2>3. QED BY <1>9, <2>2 DEF RecordSent, DispatchInv, CallOnce, ClaimedBeforeCall
<1>10. CASE SentNotRecorded
  BY <1>10 DEF SentNotRecorded, DispatchInv, CallOnce, ClaimedBeforeCall
<1>11. ASSUME NEW w \in Worker,
              \/ DrainLook(w) \/ DrainObligations(w) \/ DrainCandidate(w)
              \/ ProcessLook(w) \/ ProcessPosition(w)
       PROVE  CallOnce' /\ ClaimedBeforeCall'
  BY <1>11, DispatchFrame DEF DrainLook, DrainObligations, DrainCandidate, ProcessLook,
     ProcessPosition, workerFrame
<1>12. ASSUME NEW w \in Worker, WorkerSubmit(w) PROVE CallOnce' /\ ClaimedBeforeCall'
  <2>1. journal'.observed = journal.observed
    BY <1>0, <1>12 DEF WorkerSubmit, AppendRequest, AppendEntry, Journal
  <2>2. QED BY <1>12, <2>1, DispatchFrame DEF WorkerSubmit, workerFrame
<1>13. ASSUME NEW w \in Worker, WorkerSend(w) PROVE CallOnce' /\ ClaimedBeforeCall'
  <2>1. worker[w].key \in Key
    BY <1>13 DEF WorkerSend, DispatchInv, TypeOK, WorkerState, Idle
  <2>2. QED BY <1>13, <2>1, ClaimDispatch, DispatchFrame DEF WorkerSend, workerFrame
<1>14. ASSUME NEW w \in Worker, WorkerAck(w) PROVE CallOnce' /\ ClaimedBeforeCall'
  <2>1. journal'.observed = journal.observed
    BY <1>0, <1>14 DEF WorkerAck, Ingest, AppendFacts, Journal
  <2>2. QED BY <1>14, <2>1, DispatchFrame DEF WorkerAck
<1>15. CASE BrokerNext
  <2>1. UNCHANGED <<journal, ready, sending, called, calls>>
    BY <1>15 DEF BrokerNext, BrokerAccept, BrokerReject, BrokerFill, BrokerChange
  <2>2. QED BY <2>1 DEF DispatchInv, CallOnce, ClaimedBeforeCall
<1>16. CASE UNCHANGED vars
  BY <1>16 DEF vars, DispatchInv, CallOnce, ClaimedBeforeCall
<1>17. QED
  BY <1>1, <1>2, <1>3, <1>4, <1>5, <1>6, <1>7, <1>8, <1>9, <1>10, <1>11, <1>12, <1>13,
     <1>14, <1>15, <1>16 DEF Next, SessionNext, DispatchNext, WorkerNext

\* Claim before send, no resend: for any number of requests, threads, restarts
\* and recoveries the dispatcher calls the broker at most once per request, and
\* only after the claim is in the journal.
THEOREM DispatchSafe == Spec => [](CallOnce /\ ClaimedBeforeCall)
<1>1. DispatchInv => CallOnce /\ ClaimedBeforeCall
  BY DEF DispatchInv
<1>2. QED BY <1>1, DispatchInit, DispatchNextInv, PTL DEF Spec

\* Every call is made in an approved session for the applied configuration
\* version, and no buy is called once entry is stopped or a stop has latched.
THEOREM CallsAreCurrent == Spec => CallIsCurrent
<1>1. DispatchInv /\ [Next]_vars => [CurrentCall]_vars
  <2> SUFFICES ASSUME DispatchInv, Next PROVE CurrentCall
    BY DEF vars
  <2> USE DEF ledgerVars, workVars, boundVars, brokerVars, CurrentCall
  <2>1. CASE Call
    <3>1. sending \in Key /\ calls \in [Key -> Nat]
      BY <2>1 DEF Call, DispatchInv, TypeOK
    <3>2. \A k \in Key : calls'[k] # calls[k] => k = sending
      BY <2>1, <3>1 DEF Call
    <3>3. QED BY <2>1, <3>2 DEF Call, DispatchInv, ClaimedBeforeCall
  <2>2. CASE LedgerNext
    BY <2>2, LedgerFrame DEF DispatchInv
  <2>3. CASE WorkerNext
    BY <2>3 DEF WorkerNext, DrainLook, DrainObligations, DrainCandidate, ProcessLook,
       ProcessPosition, WorkerSubmit, WorkerSend, WorkerAck, Claim, workerFrame
  <2>4. CASE ~Call /\ (SessionNext \/ DispatchNext \/ BrokerNext)
    BY <2>4 DEF SessionNext, DispatchNext, BrokerNext, Review, Approve, Recover, Restart,
       Expire, Send, Claim, RecordSent, SentNotRecorded, BrokerAccept, BrokerReject,
       BrokerFill, BrokerChange
  <2>5. QED BY <2>1, <2>2, <2>3, <2>4 DEF Next
<1>2. QED BY <1>1, DispatchInit, DispatchNextInv, PTL DEF Spec, CallIsCurrent
-----------------------------------------------------------------------------
(* Quotes *)

\* No ledger operation but process_virtual_quote moves the cursor.
LEMMA CursorFrame ==
  ASSUME TypeOK, LedgerNext
  PROVE  \/ journal'.cursor = journal.cursor
         \/ \E r, n \in 1..MaxTime : \E x \in BOOLEAN : ProcessQuote(r, n, x)
<1>0. journal \in Journal
  BY DEF TypeOK
<1> USE DEF Journal
<1>1. ASSUME NEW q \in Allocations, Allocate(q) PROVE journal'.cursor = journal.cursor
  BY <1>0, <1>1 DEF Allocate, AppendEntry
<1>2. ASSUME NEW s \in BOOLEAN, NEW l \in BOOLEAN, Control(s, l) PROVE journal'.cursor = journal.cursor
  BY <1>0, <1>2 DEF Control, AppendEntry
<1>3. ASSUME NEW v \in Version, NEW r \in Rules \cup {"NONE"}, ApplyConfig(v, r)
      PROVE journal'.cursor = journal.cursor
  BY <1>0, <1>3 DEF ApplyConfig, AppendEntry
<1>4. ASSUME NEW k \in Key, NEW c \in NewCommand(k) \cup ChangeCommand, Submit(k, c)
      PROVE journal'.cursor = journal.cursor
  BY <1>0, <1>4 DEF Submit, AppendRequest, AppendEntry
<1>5. ASSUME NEW f, Ingest(f) PROVE journal'.cursor = journal.cursor
  BY <1>0, <1>5 DEF Ingest, AppendFacts
<1>6. ASSUME NEW f, AppendFact(f) PROVE journal'.cursor = journal.cursor
  BY <1>0, <1>6 DEF AppendFact, AppendFacts
<1>7. ASSUME NEW f \in emitted, Reprocess(f) PROVE journal'.cursor = journal.cursor
  BY <1>0, <1>7 DEF Reprocess, AppendFacts
<1>8. CASE Latch
  BY <1>0, <1>8 DEF Latch, AppendEntry
<1>9. CASE \/ \E f \in emitted : Deliver(f)
           \/ \E k \in Key : \E p \in {"NOT_INVOKED", "VERIFIED_UNSENT"} : ReportUnsent(k, p)
  BY <1>5, <1>9 DEF Deliver, ReportUnsent
<1>10. CASE \/ \E f \in emitted : Quarantine(f)
            \/ \E k \in Key : Discard(k)
            \/ ReportDiscrepancy \/ \E n \in 0..MaxIncidents : Reconcile(n)
  BY <1>6, <1>10 DEF Quarantine, Discard, ReportDiscrepancy, Reconcile
<1>11. QED
  BY <1>1, <1>2, <1>3, <1>4, <1>7, <1>8, <1>9, <1>10 DEF LedgerNext

\* For any age limit and any order in which quotes arrive, the cursor of a symbol
\* only moves forward, and not at all once its stop has latched.
THEOREM QuotesMoveForward == Spec => QuotesAdvance
<1> DEFINE Advance ==
      journal'.cursor # journal.cursor =>
        /\ journal'.cursor.received > journal.cursor.received
        /\ journal'.cursor.evaluated >= journal.cursor.evaluated
        /\ journal.latch = NoLatch
<1>1. TypeOK /\ [Next]_vars => [Advance]_vars
  <2> SUFFICES ASSUME TypeOK, Next PROVE Advance
    BY DEF vars
  <2>0. journal \in Journal
    BY DEF TypeOK
  <2>1. CASE \E r, n \in 1..MaxTime : \E t \in BOOLEAN : ProcessQuote(r, n, t)
    <3>1. PICK r \in 1..MaxTime, n \in 1..MaxTime, t \in BOOLEAN : ProcessQuote(r, n, t)
      BY <2>1
    <3>2. journal'.cursor = [received |-> r, evaluated |-> n]
      BY <2>0, <3>1 DEF ProcessQuote, AppendEntry, Journal
    <3>3. QuoteAcceptable(journal, r, n, MaxAge)
      BY <3>1 DEF ProcessQuote
    <3>4. journal'.cursor.received = r /\ journal'.cursor.evaluated = n
      BY <3>2
    <3>5. QED BY <3>3, <3>4 DEF QuoteAcceptable
  <2>2. CASE LedgerNext
    BY <2>1, <2>2, CursorFrame
  <2>3. CASE SessionNext
    BY <2>0, <2>3 DEF SessionNext, Review, Approve, Recover, Restart, Expire, ledgerVars,
       workVars, boundVars, brokerVars, AppendFacts, Journal
  <2>4. CASE DispatchNext
    BY <2>0, <2>4 DEF DispatchNext, Send, Call, RecordSent, SentNotRecorded, Claim,
       AppendTransport, AppendFacts, Journal, ledgerVars, workVars, boundVars, brokerVars
  <2>5. CASE WorkerNext
    <3>1. PICK w \in Worker : \/ DrainLook(w) \/ DrainObligations(w) \/ DrainCandidate(w)
                             \/ ProcessLook(w) \/ ProcessPosition(w) \/ WorkerSubmit(w)
                             \/ WorkerSend(w) \/ WorkerAck(w)
      BY <2>5 DEF WorkerNext
    <3>2. CASE DrainLook(w) \/ DrainObligations(w) \/ DrainCandidate(w)
               \/ ProcessLook(w) \/ ProcessPosition(w)
      BY <3>2 DEF DrainLook, DrainObligations, DrainCandidate, ProcessLook, ProcessPosition
    <3>3. CASE WorkerSubmit(w)
      BY <2>0, <3>3 DEF WorkerSubmit, AppendRequest, AppendEntry, Journal
    <3>4. CASE WorkerSend(w)
      BY <2>0, <3>4 DEF WorkerSend, Claim, AppendTransport, AppendFacts, Journal
    <3>5. CASE WorkerAck(w)
      BY <2>0, <3>5 DEF WorkerAck, Ingest, AppendFacts, AppendFact, Journal
    <3>6. QED BY <3>1, <3>2, <3>3, <3>4, <3>5
  <2>6. CASE BrokerNext
    BY <2>6 DEF BrokerNext, BrokerAccept, BrokerReject, BrokerFill, BrokerChange, ledgerVars
  <2>7. QED BY <2>2, <2>3, <2>4, <2>5, <2>6 DEF Next
<1>2. QED BY <1>1, TypeInit, TypeNext, PTL DEF Spec, QuotesAdvance
-----------------------------------------------------------------------------
(* Stop requests and obligations *)

\* The stop entries as they were, or a first latch.
StopsKept ==
  /\ journal'.requests = journal.requests
  /\ journal'.obligations = journal.obligations
  /\ journal'.latch = journal.latch \/ journal.latch = NoLatch

LEMMA StopsFrame ==
  ASSUME ObligationsMatchLatch, StopsKept
  PROVE  ObligationsMatchLatch'
<1>1. StopRequests(journal') = StopRequests(journal)
  BY DEF StopsKept, StopRequests, NewOrders, Submitted
<1>2. journal.latch = NoLatch => StopRequests(journal) = {}
  BY DEF ObligationsMatchLatch, StopRequests
<1>3. QED BY <1>1, <1>2 DEF StopsKept, ObligationsMatchLatch

\* A request and its obligation are appended together, for the present latch.
LEMMA StopSubmit ==
  ASSUME TypeOK, ObligationsMatchLatch, NEW k \in Key, NEW c \in Request,
         journal.requests[k] = NoRequest, CheckStopLink(journal, c), AppendRequest(k, c),
         c.stop # NoLatch => c.side = "SELL"
  PROVE  ObligationsMatchLatch'
<1>1. /\ journal'.requests = [journal.requests EXCEPT ![k] = c]
      /\ journal'.obligations =
           IF c.stop = NoLatch THEN journal.obligations ELSE journal.obligations \cup {k}
      /\ journal'.latch = journal.latch
      /\ journal.requests \in [Key -> Request \cup {NoRequest}]
  BY DEF AppendRequest, AppendEntry, TypeOK, Journal
<1>2. journal'.requests[k] = c /\ \A i \in Key \ {k} : journal'.requests[i] = journal.requests[i]
  BY <1>1
<1>3. c # NoRequest /\ (c.stop # NoLatch => c.kind = "New")
  BY DEF Request, NoRequest
<1>4. k \notin StopRequests(journal) /\ StopRequests(journal) \subseteq Key
  BY DEF StopRequests, NewOrders, Submitted
<1>5. StopRequests(journal') =
        IF c.stop = NoLatch THEN StopRequests(journal) ELSE StopRequests(journal) \cup {k}
  BY <1>2, <1>3 DEF StopRequests, NewOrders, Submitted
<1>6. c.stop # NoLatch => journal.latch = c.stop
  BY DEF CheckStopLink
<1>7. journal'.obligations = StopRequests(journal')
  BY <1>1, <1>5 DEF ObligationsMatchLatch
<1>8. ASSUME NEW i \in journal'.obligations
      PROVE  journal'.requests[i].side = "SELL" /\ journal'.requests[i].stop = journal'.latch
  <2>1. CASE i = k
    <3>1. c.stop # NoLatch
      BY <1>1, <1>4, <2>1 DEF ObligationsMatchLatch
    <3>2. QED BY <1>1, <1>2, <1>6, <2>1, <3>1
  <2>2. CASE i # k
    <3>1. i \in journal.obligations /\ i \in Key
      BY <1>1, <1>4, <2>2 DEF ObligationsMatchLatch
    <3>2. QED BY <1>1, <1>2, <2>2, <3>1 DEF ObligationsMatchLatch
  <2>3. QED BY <2>1, <2>2
<1>9. QED BY <1>7, <1>8 DEF ObligationsMatchLatch

LEMMA StopsLedger ==
  ASSUME TypeOK, ObligationsMatchLatch, LedgerNext
  PROVE  ObligationsMatchLatch'
<1>0. journal \in Journal
  BY DEF TypeOK
<1>1. ASSUME NEW q \in Allocations, Allocate(q) PROVE StopsKept
  BY <1>0, <1>1 DEF Allocate, AppendEntry, StopsKept, Journal
<1>2. ASSUME NEW s \in BOOLEAN, NEW l \in BOOLEAN, Control(s, l) PROVE StopsKept
  BY <1>0, <1>2 DEF Control, AppendEntry, StopsKept, Journal
<1>3. ASSUME NEW v \in Version, NEW r \in Rules \cup {"NONE"}, ApplyConfig(v, r) PROVE StopsKept
  BY <1>0, <1>3 DEF ApplyConfig, AppendEntry, StopsKept, Journal
<1>4. ASSUME NEW k \in Key, NEW c \in NewCommand(k) \cup ChangeCommand, Submit(k, c)
      PROVE  ObligationsMatchLatch'
  <2>1. c \in Request
    BY CommandType
  <2>2. c.stop = NoLatch
    BY DEF NewCommand, New, ChangeCommand
  <2>3. QED BY <1>4, <2>1, <2>2, StopSubmit DEF Submit, Submittable
<1>5. ASSUME NEW f, Ingest(f) PROVE StopsKept
  BY <1>0, <1>5 DEF Ingest, AppendFacts, StopsKept, Journal
<1>6. ASSUME NEW f, AppendFact(f) PROVE StopsKept
  BY <1>0, <1>6 DEF AppendFact, AppendFacts, StopsKept, Journal
<1>7. ASSUME NEW f \in emitted, Reprocess(f) PROVE StopsKept
  BY <1>0, <1>7 DEF Reprocess, AppendFacts, StopsKept, Journal
<1>8. ASSUME NEW r \in 1..MaxTime, NEW n \in 1..MaxTime, NEW x \in BOOLEAN,
             ProcessQuote(r, n, x)
      PROVE  StopsKept
  BY <1>0, <1>8 DEF ProcessQuote, Latchable, AppendEntry, StopsKept, Journal
<1>9. CASE Latch
  <2>1. PICK v \in Version : /\ Latchable(journal, v)
                             /\ AppendEntry([journal EXCEPT !.latch = v])
    BY <1>9 DEF Latch
  <2>2. journal' = [journal EXCEPT !.latch = v] /\ journal.latch = NoLatch
    BY <2>1 DEF Latchable, AppendEntry
  <2>3. StopsKept
    BY <1>0, <2>2 DEF StopsKept, Journal
  <2>4. QED BY <2>3, StopsFrame
<1>10. CASE \/ \E f \in emitted : Deliver(f)
            \/ \E k \in Key : \E p \in {"NOT_INVOKED", "VERIFIED_UNSENT"} : ReportUnsent(k, p)
  BY <1>5, <1>10, StopsFrame DEF Deliver, ReportUnsent
<1>11. CASE \/ \E f \in emitted : Quarantine(f)
            \/ \E k \in Key : Discard(k)
            \/ ReportDiscrepancy \/ \E n \in 0..MaxIncidents : Reconcile(n)
  BY <1>6, <1>11, StopsFrame DEF Quarantine, Discard, ReportDiscrepancy, Reconcile
<1>12. QED
  BY <1>1, <1>2, <1>3, <1>4, <1>7, <1>8, <1>9, <1>10, <1>11, StopsFrame DEF LedgerNext

LEMMA StopsWorker ==
  ASSUME TypeOK, ObligationsMatchLatch, WorkerNext
  PROVE  ObligationsMatchLatch'
<1>0. journal \in Journal /\ worker \in [Worker -> WorkerState]
  BY DEF TypeOK
<1> SUFFICES ASSUME NEW w \in Worker,
                    \/ DrainLook(w) \/ DrainObligations(w) \/ DrainCandidate(w)
                    \/ ProcessLook(w) \/ ProcessPosition(w)
                    \/ WorkerSubmit(w) \/ WorkerSend(w) \/ WorkerAck(w)
             PROVE  ObligationsMatchLatch'
  BY DEF WorkerNext
<1>1. ASSUME UNCHANGED journal PROVE ObligationsMatchLatch'
  BY <1>1, StopsFrame DEF StopsKept
<1>2. CASE \/ DrainLook(w) \/ DrainObligations(w) \/ DrainCandidate(w)
           \/ ProcessLook(w) \/ ProcessPosition(w)
  BY <1>1, <1>2 DEF DrainLook, DrainObligations, DrainCandidate, ProcessLook, ProcessPosition
<1>3. CASE WorkerSubmit(w)
  <2> DEFINE k == worker[w].key
             c == New("SELL", worker[w].qty, k, worker[w].version, worker[w].stop)
  <2>1. /\ k \in Key /\ worker[w].qty \in PositiveQty /\ worker[w].version \in Version
        /\ worker[w].stop \in Version \cup {NoLatch}
    BY <1>0, <1>3 DEF WorkerSubmit, WorkerState, Idle
  <2>2. c \in Request /\ c.side = "SELL"
    BY <2>1 DEF New, Request
  <2>3. CASE journal.requests[k] = NoRequest /\ Submittable(k, c) /\ AppendRequest(k, c)
    BY <2>1, <2>2, <2>3, StopSubmit DEF Submittable
  <2>4. CASE UNCHANGED journal
    BY <1>1, <2>4
  <2>5. QED BY <1>3, <2>3, <2>4 DEF WorkerSubmit
<1>4. CASE WorkerSend(w)
  <2>1. StopsKept
    BY <1>0, <1>4 DEF WorkerSend, Claim, AppendTransport, AppendFacts, StopsKept, Journal
  <2>2. QED BY <2>1, StopsFrame
<1>5. CASE WorkerAck(w)
  <2>1. StopsKept
    BY <1>0, <1>5 DEF WorkerAck, Ingest, AppendFacts, StopsKept, Journal
  <2>2. QED BY <2>1, StopsFrame
<1>6. QED BY <1>2, <1>3, <1>4, <1>5

LEMMA StopsNext == TypeOK /\ ObligationsMatchLatch /\ [Next]_vars => ObligationsMatchLatch'
<1> SUFFICES ASSUME TypeOK, ObligationsMatchLatch, [Next]_vars PROVE ObligationsMatchLatch'
  OBVIOUS
<1>0. journal \in Journal
  BY DEF TypeOK
<1>1. CASE SessionNext
  <2>1. StopsKept
    BY <1>0, <1>1 DEF SessionNext, Review, Approve, Recover, Restart, Expire, AppendFacts,
       ledgerVars, StopsKept, Journal
  <2>2. QED BY <2>1, StopsFrame
<1>2. CASE DispatchNext
  <2>1. StopsKept
    BY <1>0, <1>2 DEF DispatchNext, Send, Call, RecordSent, SentNotRecorded, Claim,
       AppendTransport, AppendFacts, StopsKept, Journal
  <2>2. QED BY <2>1, StopsFrame
<1>3. CASE BrokerNext \/ UNCHANGED vars
  <2>1. StopsKept
    BY <1>3 DEF BrokerNext, BrokerAccept, BrokerReject, BrokerFill, BrokerChange, vars,
       ledgerVars, StopsKept
  <2>2. QED BY <2>1, StopsFrame
<1>4. QED BY <1>1, <1>2, <1>3, StopsLedger, StopsWorker DEF Next

\* For any interleaving of drains, restarts, configurations and quotes, every
\* stop sell has its durable obligation and sells under the one latch.
THEOREM ObligationsMatch == Spec => []ObligationsMatchLatch
<1>1. Init => ObligationsMatchLatch
  BY DEF Init, ObligationsMatchLatch, StopRequests, NewOrders, Submitted
<1>2. QED BY <1>1, TypeInit, TypeNext, StopsNext, PTL DEF Spec

-----------------------------------------------------------------------------
(* Stop sells are not retried *)

\* From the claim to the end of send no other stop sell is known refused.
NoneRefused ==
  sending # NoKey /\ journal.requests[sending].stop # NoLatch =>
    \A o \in StopRequests(journal) \ {sending} : ~Refused(journal, o)

\* An obligation in order was not refused: a refused one needs review, and one
\* that was filled as well contradicts itself.
LEMMA ClearIsNotRefused ==
  ASSUME TypeOK, NEW o \in StopRequests(journal),
         ObligationState(journal, o) \notin {"REVIEW_REQUIRED", "BLOCKED_EVIDENCE"}
  PROVE  ~Refused(journal, o)
<1> SUFFICES ASSUME Refused(journal, o) PROVE FALSE
  OBVIOUS
<1>1. o \in NewOrders(journal) /\ o \in Submitted(journal)
  BY DEF StopRequests, NewOrders
<1>2. journal.requests[o] \in Request /\ journal.requests[o].kind = "New"
  BY <1>1 DEF TypeOK, Journal, NewOrders, Submitted
<1>3. journal.requests[o].qty # 0
  BY <1>2 DEF Request, PositiveQty
<1>4. Filled(journal, o) = journal.requests[o].qty /\ ~PositionReconcile(journal)
  BY DEF ObligationState
<1>5. Fills(journal, o) # {}
  BY <1>3, <1>4, SumEmpty DEF Filled, SumQty
<1>6. Conflict(journal, o)
  BY <1>1, <1>5 DEF Conflict, Positive, Refused
<1>7. QED BY <1>1, <1>4, <1>6 DEF PositionReconcile

LEMMA ClaimNoneRefused ==
  ASSUME TypeOK, NEW k \in Key, Claimable(k), Claim(k)
  PROVE  NoneRefused'
<1>1. /\ journal'.requests = journal.requests /\ journal'.facts = journal.facts
      /\ sending' = k
  BY DEF Claim, AppendTransport, AppendFacts, TypeOK, Journal
<1>2. ASSUME journal.requests[k].stop # NoLatch, NEW o \in StopRequests(journal)
      PROVE  ~Refused(journal, o)
  BY <1>2, ClearIsNotRefused DEF Claimable, StopBlocked, ObligationsClear
<1>3. StopRequests(journal') = StopRequests(journal)
  BY <1>1 DEF StopRequests, NewOrders, Submitted
<1>4. \A o : Refused(journal', o) <=> Refused(journal, o)
  BY <1>1 DEF Refused, Failed, Rejected, Told
<1>5. QED BY <1>1, <1>2, <1>3, <1>4 DEF NoneRefused

LEMMA NoneRefusedNext == TypeOK /\ NoneRefused /\ [Next]_vars => NoneRefused'
<1> SUFFICES ASSUME TypeOK, NoneRefused, [Next]_vars PROVE NoneRefused'
  OBVIOUS
<1> USE DEF ledgerVars, workVars, boundVars, brokerVars
<1>1. ASSUME sending' = NoKey PROVE NoneRefused'
  BY <1>1 DEF NoneRefused
<1>2. ASSUME UNCHANGED <<journal, sending>> PROVE NoneRefused'
  BY <1>2 DEF NoneRefused
<1>3. CASE LedgerNext
  BY <1>1, <1>3, LedgerFrame DEF MutexFree
<1>4. CASE SessionNext
  BY <1>1, <1>2, <1>4 DEF SessionNext, Review, Approve, Recover, Restart, Expire, MutexFree
<1>5. ASSUME NEW k \in Key, Send(k) PROVE NoneRefused'
  BY <1>5, ClaimNoneRefused DEF Send
<1>6. CASE Call \/ RecordSent \/ SentNotRecorded
  BY <1>1, <1>2, <1>6 DEF Call, RecordSent, SentNotRecorded
<1>7. ASSUME NEW w \in Worker, WorkerSend(w) PROVE NoneRefused'
  <2>1. worker[w].key \in Key
    BY <1>7 DEF WorkerSend, TypeOK, WorkerState, Idle
  <2>2. QED BY <1>1, <1>7, <2>1, ClaimNoneRefused DEF WorkerSend, workerFrame, MutexFree
<1>8. ASSUME NEW w \in Worker,
             \/ DrainLook(w) \/ DrainObligations(w) \/ DrainCandidate(w)
             \/ ProcessLook(w) \/ ProcessPosition(w)
             \/ WorkerSubmit(w) \/ WorkerAck(w)
      PROVE  NoneRefused'
  BY <1>1, <1>8 DEF DrainLook, DrainObligations, DrainCandidate, ProcessLook, ProcessPosition,
     WorkerSubmit, WorkerAck, workerFrame, MutexFree
<1>9. CASE BrokerNext
  BY <1>2, <1>9 DEF BrokerNext, BrokerAccept, BrokerReject, BrokerFill, BrokerChange
<1>10. CASE UNCHANGED vars
  BY <1>2, <1>10 DEF vars
<1>11. QED
  BY <1>3, <1>4, <1>5, <1>6, <1>7, <1>8, <1>9, <1>10 DEF Next, DispatchNext, WorkerNext

\* However drains, refusals and restarts interleave, a stop sell is only called
\* while no other stop sell is known refused.
THEOREM StopsNotRetried == Spec => NoStopRetry
<1>1. Init => NoneRefused
  BY DEF Init, NoneRefused
<1>2. TypeOK /\ NoneRefused /\ [Next]_vars => [RetriedStop]_vars
  <2> SUFFICES ASSUME TypeOK, NoneRefused, Next PROVE RetriedStop
    BY DEF vars
  <2> USE DEF ledgerVars, workVars, boundVars, brokerVars
  <2>1. CASE Call
    <3>1. \A k \in Key : calls'[k] # calls[k] => k = sending
      BY <2>1 DEF Call, TypeOK
    <3>2. QED BY <2>1, <3>1 DEF Call, NoneRefused, RetriedStop
  <2>2. CASE UNCHANGED calls
    BY <2>2 DEF RetriedStop
  <2>3. CASE LedgerNext
    BY <2>2, <2>3, LedgerFrame
  <2>4. CASE WorkerNext
    BY <2>2, <2>4 DEF WorkerNext, DrainLook, DrainObligations, DrainCandidate, ProcessLook,
       ProcessPosition, WorkerSubmit, WorkerSend, WorkerAck, Claim, workerFrame
  <2>5. CASE ~Call /\ (SessionNext \/ DispatchNext \/ BrokerNext)
    BY <2>2, <2>5 DEF SessionNext, DispatchNext, BrokerNext, Review, Approve, Recover, Restart,
       Expire, Send, Claim, RecordSent, SentNotRecorded, BrokerAccept, BrokerReject,
       BrokerFill, BrokerChange
  <2>6. QED BY <2>1, <2>3, <2>4, <2>5 DEF Next
<1>3. QED BY <1>1, <1>2, TypeInit, TypeNext, NoneRefusedNext, PTL DEF Spec, NoStopRetry
=============================================================================
