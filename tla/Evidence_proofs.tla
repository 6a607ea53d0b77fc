--------------------------- MODULE Evidence_proofs ---------------------------
(***************************************************************************)
(* What the ledger knows and what the broker did, for every set of keys,   *)
(* quantities and bounds: the evidence that has arrived is a subset of     *)
(* what the broker produced, and the quantity the broker may still sell    *)
(* follows from all it produced.  From that the reservation of a sell      *)
(* order covers what is live, the account is never oversold, evidence is   *)
(* never refused, and ledger and broker agree once everything arrived.     *)
(* Last, requests live the life that RequestLife states.                   *)
(***************************************************************************)
EXTENDS Execution_proofs, Sums

-----------------------------------------------------------------------------
(* Quantities of facts *)

LEMMA MaxZero ==
  ASSUME NEW n \in Int
  PROVE  /\ Max({0, n}) \in Int /\ Max({0, n}) >= 0 /\ Max({0, n}) >= n
         /\ n >= 0 => Max({0, n}) = n
         /\ n <= 0 => Max({0, n}) = 0
<1> DEFINE m == IF n >= 0 THEN n ELSE 0
<1>1. m \in {0, n} /\ \A y \in {0, n} : m >= y
  OBVIOUS
<1>2. \A x \in {0, n} : (\A y \in {0, n} : x >= y) => x = m
  OBVIOUS
<1> HIDE DEF m
<1>3. Max({0, n}) = m
  BY <1>1, <1>2 DEF Max
<1>4. QED BY <1>3 DEF m

LEMMA QtyEmpty == SumQty({}) = 0
BY SumEmpty DEF SumQty

LEMMA QtyType ==
  ASSUME NEW F, IsFiniteSet(F), \A f \in F : f.qty \in Int
  PROVE  SumQty(F) \in Int
<1> DEFINE q == [f \in F |-> f.qty]
<1>1. q \in [F -> Int]
  OBVIOUS
<1> HIDE DEF q
<1>2. SumFunction(q) \in Int
  BY <1>1, SumType
<1>3. QED BY <1>2 DEF q, SumQty

\* A new fact adds its quantity.
LEMMA QtyAdd ==
  ASSUME NEW F, IsFiniteSet(F), \A f \in F : f.qty \in Int,
         NEW e, e \notin F, e.qty \in Int
  PROVE  SumQty(F \cup {e}) = SumQty(F) + e.qty
<1> DEFINE G == F \cup {e}
           q == [f \in F |-> f.qty]
           r == [f \in G |-> f.qty]
<1>1. /\ q \in [F -> Int] /\ r \in [G -> Int]
      /\ (\A f \in F : q[f] = r[f]) /\ r[e] = e.qty
  OBVIOUS
<1>2. G = F \cup {e}
  OBVIOUS
<1> HIDE DEF q, r, G
<1>3. SumFunction(r) = r[e] + SumFunction(q)
  BY <1>1, <1>2, SumExtend
<1>4. SumFunction(q) \in Int
  BY <1>1, SumType
<1>5. SumFunction(r) = SumFunction(q) + e.qty
  BY <1>1, <1>3, <1>4
<1>6. QED BY <1>5 DEF q, r, G, SumQty

\* The facts that arrived so far: of fills and cancels no more, of decreases no
\* less than of all there are.
LEMMA QtyPart ==
  ASSUME NEW F, IsFiniteSet(F), \A f \in F : f.qty \in Int, NEW G \in SUBSET F
  PROVE  /\ (\A f \in F : f.qty >= 0) => SumQty(G) <= SumQty(F)
         /\ (\A f \in F : f.qty <= 0) => SumQty(G) >= SumQty(F)
<1> DEFINE q == [f \in F |-> f.qty]
           p == [f \in G |-> f.qty]
           m == [f \in F |-> - f.qty]
           n == [f \in G |-> - f.qty]
<1>1. /\ q \in [F -> Int] /\ p \in [G -> Int] /\ m \in [F -> Int] /\ n \in [G -> Int]
      /\ \A f \in F : q[f] = f.qty /\ m[f] = - f.qty
      /\ \A f \in G : p[f] = f.qty /\ n[f] = - f.qty
  OBVIOUS
<1>2. SumQty(F) = SumFunction(q) /\ SumQty(G) = SumFunction(p)
  BY DEF SumQty
<1>3. IsFiniteSet(G)
  BY FS_Subset
<1> HIDE DEF q, p, m, n
<1>4. ASSUME \A f \in F : f.qty >= 0 PROVE SumFunction(p) <= SumFunction(q)
  <2>1. (\A f \in F \ G : q[f] >= 0) /\ \A f \in G : p[f] = q[f]
    BY <1>1, <1>4
  <2>2. QED BY <1>1, <2>1, SumPart
<1>5. ASSUME \A f \in F : f.qty <= 0 PROVE SumFunction(p) >= SumFunction(q)
  <2>1. (\A f \in F \ G : m[f] >= 0) /\ \A f \in G : n[f] = m[f]
    BY <1>1, <1>5
  <2>2. SumFunction(n) <= SumFunction(m)
    BY <1>1, <2>1, SumPart
  <2> DEFINE z == [f \in F |-> 0]
             y == [f \in G |-> 0]
  <2>3. SumFunction(z) = 0 /\ SumFunction(y) = 0 /\ z \in [F -> Int] /\ y \in [G -> Int]
    BY <1>3, SumZero
  <2>4. (\A f \in F : z[f] = q[f] + m[f]) /\ \A f \in G : y[f] = p[f] + n[f]
    BY <1>1
  <2> HIDE DEF z, y
  <2>5. SumFunction(z) = SumFunction(q) + SumFunction(m)
    BY <1>1, <2>3, <2>4, SumPlus
  <2>6. SumFunction(y) = SumFunction(p) + SumFunction(n)
    BY <1>1, <1>3, <2>3, <2>4, SumPlus
  <2>7. /\ SumFunction(q) \in Int /\ SumFunction(m) \in Int
        /\ SumFunction(p) \in Int /\ SumFunction(n) \in Int
    BY <1>1, <1>3, SumType
  <2>8. QED BY <2>2, <2>3, <2>5, <2>6, <2>7
<1>6. QED BY <1>2, <1>4, <1>5

-----------------------------------------------------------------------------
(* The invariant *)

OrderEvidence == {"Fill", "Cancelled", "Amended"}
RequestEvidence == {"Ack", "Rejected", "EffectRejected"}

\* All the evidence of a kind that the broker produced about order k.
ToldOf(type, k) == {f \in emitted : f.type = type /\ f.order = k}

\* What all the evidence leaves of order k.
Left(k) ==
  journal.requests[k].qty + SumQty(ToldOf("Amended", k)) - SumQty(ToldOf("Fill", k))
    - SumQty(ToldOf("Cancelled", k))

\* What the journal says the broker did, the broker did.
KnownIsTold ==
  \A f \in journal.facts : f.type \in OrderEvidence \cup RequestEvidence => f \in emitted

RequestsOK ==
  /\ IsFiniteSet(Submitted(journal))
  /\ \A k \in Changes(journal) :
       /\ journal.requests[k].target \in NewOrders(journal)
       /\ journal.requests[k].kind = "Cancel" => journal.requests[k].qty > 0
       /\ journal.requests[k].kind = "Amend" /\ journal.requests[k].decision = "ACCEPTED"
            => journal.requests[k].qty < 0

\* Only accepted requests are sent, none that was proved unsent, and the broker
\* handles only what was sent.
CallsOK ==
  /\ \A k \in Key : calls[k] > 0 => k \in Accepted(journal)
  /\ sending # NoKey => sending \in Accepted(journal)
  /\ \A k \in Key : Failed(journal, k) => calls[k] = 0 /\ sending # k
  /\ \A k \in Key : book[k].state # "NONE" => calls[k] > 0

\* A thread that is about to acknowledge its send is alone with that order, and
\* the broker has not handled it.
WorkersOK ==
  /\ \A w \in Worker : worker[w].step \in {"send", "ack"} =>
       worker[w].key \in NewOrders(journal)
  /\ \A w \in Worker : worker[w].step = "ack" =>
       /\ journal.observed[worker[w].key] # "NONE"
       /\ sending = worker[w].key \/ calls[worker[w].key] > 0
       /\ book[worker[w].key].state = "NONE"
  /\ \A v, w \in Worker :
       worker[v].step = "ack" /\ worker[w].step = "ack" /\ worker[v].key = worker[w].key
         => v = w

\* The quantity live at the broker is what all its evidence leaves.
BookOK ==
  \A k \in Key :
    /\ book[k].state = "NONE" => book[k] = NotHandled
    /\ book[k].state = "LIVE" =>
         /\ k \in NewOrders(journal)
         /\ book[k].remaining = Left(k) /\ book[k].remaining >= 0
         /\ Told1("Ack", k) \in emitted
    /\ book[k].state = "DONE" => k \in Changes(journal)
    /\ book[k].state = "REJECTED" => Told1("Rejected", k) \in emitted
    /\ book[k].state \in {"REJECTED", "DONE"} => book[k].remaining = 0

\* The versions of an order's evidence identify it and rise; the last one carries
\* what is left, and nothing follows once nothing is left.
OrderToldOK ==
  \A f \in emitted : f.type \in OrderEvidence =>
    /\ book[f.order].state = "LIVE"
    /\ f.ver <= book[f.order].ver /\ f.remaining >= 0
    /\ f.ver = book[f.order].ver => f.remaining = book[f.order].remaining
    /\ f.ver # book[f.order].ver => f.remaining > 0
    /\ \A g \in emitted :
         g.type \in OrderEvidence /\ g.order = f.order /\ g.ver = f.ver => g = f

\* A change takes effect once, on its target, and by what it asked for or less.
EffectToldOK ==
  \A f \in emitted : f.type \in {"Cancelled", "Amended"} =>
    /\ book[f.request].state = "DONE" /\ journal.requests[f.request].target = f.order
    /\ f.type = "Cancelled" =>
         /\ journal.requests[f.request].kind = "Cancel"
         /\ 0 < f.qty /\ f.qty <= journal.requests[f.request].qty
    /\ f.type = "Amended" =>
         /\ journal.requests[f.request].kind = "Amend"
         /\ f.qty < 0 /\ f.qty = journal.requests[f.request].qty
    /\ \A g \in emitted :
         g.type \in {"Cancelled", "Amended"} /\ g.request = f.request => g = f

\* The last evidence of an order that has any carries the order's version.
LastToldOK ==
  \A f \in emitted : f.type \in OrderEvidence =>
    \E g \in emitted :
      g.type \in OrderEvidence /\ g.order = f.order /\ g.ver = book[f.order].ver

RequestToldOK ==
  \A f \in emitted :
    /\ f.type \in OrderEvidence \cup RequestEvidence
    /\ f.type = "Ack" => book[f.request].state \in {"LIVE", "DONE"}
    /\ f.type = "Rejected" => book[f.request].state = "REJECTED"
    /\ f.type = "EffectRejected" => book[f.request].state = "DONE"

\* What may yet be sold for order k, sent or not: a request proved unsent never
\* is, one the broker has not handled may become live for its whole quantity.
Potential(k) ==
  IF Failed(journal, k) THEN 0
  ELSE IF book[k].state = "NONE" THEN journal.requests[k].qty ELSE book[k].remaining

NoneOversold == SumFunction([k \in Sells |-> Potential(k)]) <= Held

ToldOK ==
  IsFiniteSet(emitted) /\ OrderToldOK /\ EffectToldOK /\ RequestToldOK /\ LastToldOK

EvidenceInv ==
  /\ DispatchInv
  /\ KnownIsTold /\ RequestsOK /\ CallsOK /\ WorkersOK /\ BookOK /\ ToldOK
  /\ NoneOversold

-----------------------------------------------------------------------------
(* Types of requests and of evidence *)

LEMMA FactType ==
  ASSUME NEW f \in Fact
  PROVE  /\ f.type \in OrderEvidence =>
              f.order \in Key /\ f.qty \in Int /\ f.remaining \in Int /\ f.ver \in Nat
         /\ f.type = "Fill" => f.qty \in Qty /\ f.qty \in Nat /\ f.qty > 0
         /\ f.type \in RequestEvidence \cup {"Cancelled", "Amended", "SendFailed"} =>
              f.request \in Key
BY QtyAssumption DEF Fact, FillFact, OrderEvidence, RequestEvidence

LEMMA ToldType ==
  ASSUME TypeOK, IsFiniteSet(emitted), NEW k \in Key, NEW type \in OrderEvidence
  PROVE  /\ IsFiniteSet(ToldOf(type, k))
         /\ \A f \in ToldOf(type, k) : f.qty \in Int
         /\ SumQty(ToldOf(type, k)) \in Int
<1>1. IsFiniteSet(ToldOf(type, k))
  BY FS_Subset DEF ToldOf
<1>2. \A f \in ToldOf(type, k) : f.qty \in Int
  BY FactType DEF ToldOf, TypeOK
<1>3. QED BY <1>1, <1>2, QtyType

LEMMA RequestFields ==
  ASSUME TypeOK, NEW k \in Submitted(journal)
  PROVE  /\ k \in Key /\ journal.requests[k] \in Request
         /\ journal.requests[k].qty \in Int /\ journal.requests[k].target \in Key
         /\ journal.requests[k].kind \in {"New", "Amend", "Cancel"}
         /\ journal.requests[k].side \in {"BUY", "SELL"}
         /\ journal.requests[k].decision \in {"ACCEPTED", "REJECTED_UNSUPPORTED"}
         /\ k \in NewOrders(journal) \/ k \in Changes(journal)
         /\ k \in NewOrders(journal) =>
              journal.requests[k].qty \in Nat /\ journal.requests[k].qty > 0
              /\ k \in Accepted(journal)
<1>1. k \in Key /\ journal.requests[k] # NoRequest /\ journal \in Journal
  BY DEF Submitted, TypeOK
<1>2. journal.requests[k] \in Request
  BY <1>1 DEF Journal
<1>3. ASSUME NEW r \in Request
      PROVE  /\ r.qty \in Int /\ r.target \in Key
             /\ r.kind \in {"New", "Amend", "Cancel"} /\ r.side \in {"BUY", "SELL"}
             /\ r.decision \in {"ACCEPTED", "REJECTED_UNSUPPORTED"}
             /\ r.kind = "New" => r.qty \in Nat /\ r.qty > 0 /\ r.decision = "ACCEPTED"
  BY DEF Request, PositiveQty
<1>4. QED BY <1>1, <1>2, <1>3 DEF NewOrders, Changes, Accepted

LEMMA BookType ==
  ASSUME TypeOK, NEW k \in Key
  PROVE  /\ book[k].state \in {"NONE", "LIVE", "REJECTED", "DONE"}
         /\ book[k].remaining \in Int /\ book[k].ver \in Nat /\ calls[k] \in Nat
BY DEF TypeOK

LEMMA ExecutedType ==
  ASSUME TypeOK, IsFiniteSet(emitted), NEW O
  PROVE  /\ IsFiniteSet({f \in emitted : f.type = "Fill" /\ f.order \in O})
         /\ \A f \in {g \in emitted : g.type = "Fill" /\ g.order \in O} :
              f.qty \in Int /\ f.qty >= 0
         /\ Executed(O) \in Int
<1> DEFINE F == {f \in emitted : f.type = "Fill" /\ f.order \in O}
<1>1. IsFiniteSet(F)
  BY FS_Subset
<1>2. \A f \in F : f.qty \in Int /\ f.qty >= 0
  BY FactType DEF TypeOK, OrderEvidence
<1>3. QED BY <1>1, <1>2, QtyType DEF Executed

LEMMA HeldType ==
  ASSUME TypeOK, IsFiniteSet(emitted)
  PROVE  /\ Held \in Int /\ Max({0, journal.allocated}) \in Int
         /\ Executed(Buys) \in Int /\ Executed(Sells) \in Int
<1>1. journal.allocated \in Int
  <2>1. journal.allocated \in Allocations \cup {Unallocated}
    BY DEF TypeOK, Journal
  <2>2. Unallocated \in Int /\ Allocations \subseteq Int
    BY QtyAssumption DEF Unallocated
  <2>3. QED BY <2>1, <2>2
<1>2. Max({0, journal.allocated}) \in Int
  BY <1>1, MaxZero
<1>3. Executed(Buys) \in Int /\ Executed(Sells) \in Int
  BY ExecutedType
<1>4. QED BY <1>2, <1>3 DEF Held

LEMMA EvidenceInit == Init => EvidenceInv
<1> SUFFICES ASSUME Init PROVE EvidenceInv
  OBVIOUS
<1>1. DispatchInv
  BY DispatchInit
<1>2. Submitted(journal) = {} /\ NewOrders(journal) = {} /\ Changes(journal) = {}
  BY DEF Init, Submitted, NewOrders, Changes
<1>3. KnownIsTold /\ RequestsOK /\ BookOK /\ ToldOK
  BY <1>2, FS_EmptySet DEF Init, KnownIsTold, RequestsOK, BookOK, ToldOK, OrderToldOK,
     EffectToldOK, RequestToldOK, LastToldOK, NotHandled
<1>4. CallsOK
  BY DEF Init, CallsOK, NotHandled, Failed, Told
<1>5. WorkersOK
  BY DEF Init, WorkersOK, Idle
<1>6. NoneOversold
  <2>1. SumFunction([k \in Sells |-> Potential(k)]) = 0
    BY <1>2, SumEmpty DEF Sells
  <2>2. Executed(Buys) = 0 /\ Executed(Sells) = 0
    <3>1. {f \in emitted : f.type = "Fill" /\ f.order \in Buys} = {}
          /\ {f \in emitted : f.type = "Fill" /\ f.order \in Sells} = {}
      BY DEF Init
    <3>2. QED BY <3>1, QtyEmpty DEF Executed
  <2>3. Max({0, journal.allocated}) = 0
    BY MaxZero DEF Init, Unallocated
  <2>4. QED BY <2>1, <2>2, <2>3 DEF NoneOversold, Held
<1>7. QED BY <1>1, <1>3, <1>4, <1>5, <1>6 DEF EvidenceInv

-----------------------------------------------------------------------------
(* Frames: what the actions leave alone *)

LEMMA SameRequests ==
  ASSUME journal'.requests = journal.requests
  PROVE  /\ Submitted(journal') = Submitted(journal)
         /\ NewOrders(journal') = NewOrders(journal)
         /\ Changes(journal') = Changes(journal)
         /\ Accepted(journal') = Accepted(journal)
         /\ Sells' = Sells /\ Buys' = Buys
BY DEF Submitted, NewOrders, Changes, Accepted, Sells, Buys

LEMMA SellsFinite ==
  ASSUME RequestsOK
  PROVE  IsFiniteSet(Sells) /\ IsFiniteSet(NewOrders(journal)) /\ IsFiniteSet(Buys)
<1>1. Sells \in SUBSET Submitted(journal) /\ NewOrders(journal) \in SUBSET Submitted(journal)
      /\ Buys \in SUBSET Submitted(journal)
  BY DEF Sells, Buys, NewOrders
<1>2. QED BY <1>1, FS_Subset DEF RequestsOK

LEMMA PotentialType ==
  ASSUME EvidenceInv, NEW k \in Sells
  PROVE  Potential(k) \in Int /\ Potential(k) >= 0
<1>1. k \in NewOrders(journal) /\ k \in Submitted(journal) /\ k \in Key
  BY DEF Sells, NewOrders, Submitted
<1>2. journal.requests[k].qty \in Nat
  BY <1>1, RequestFields DEF EvidenceInv, DispatchInv
<1>3. book[k].remaining \in Int /\ book[k].remaining >= 0
  BY <1>1, BookType DEF EvidenceInv, DispatchInv, BookOK, NotHandled
<1>4. QED BY <1>2, <1>3 DEF Potential

\* The journal gains facts the broker told or facts that are not the broker's;
\* requests, allocation and broker are as they were.
Quiet ==
  /\ journal'.requests = journal.requests /\ journal'.allocated = journal.allocated
  /\ UNCHANGED <<book, emitted>>
  /\ \A f \in journal.facts : f \in journal'.facts
  /\ \A f \in journal'.facts :
       \/ f \in journal.facts \/ f \in emitted
       \/ f.type \in {"SendFailed", "QuarantinedFill", "QuarantineReleased",
                      "Discrepancy", "Reconciled"}

LEMMA FailedKept == ASSUME Quiet, NEW k, Failed(journal, k) PROVE Failed(journal', k)
BY DEF Quiet, Failed, Told

LEMMA QuietFrame ==
  ASSUME EvidenceInv, Quiet
  PROVE  KnownIsTold' /\ RequestsOK' /\ BookOK' /\ ToldOK' /\ NoneOversold'
<1>1. journal'.requests = journal.requests /\ UNCHANGED <<book, emitted>>
  BY DEF Quiet
<1>2. KnownIsTold'
  BY DEF Quiet, EvidenceInv, KnownIsTold, OrderEvidence, RequestEvidence
<1>3. RequestsOK'
  BY <1>1, SameRequests DEF EvidenceInv, RequestsOK
<1>4. BookOK'
  <2>1. \A k \in Key : Left(k)' = Left(k)
    BY <1>1 DEF Left, ToldOf
  <2>2. QED BY <1>1, <2>1, SameRequests DEF EvidenceInv, BookOK
<1>5. ToldOK'
  BY <1>1 DEF EvidenceInv, ToldOK, OrderToldOK, EffectToldOK, RequestToldOK, LastToldOK
<1>6. NoneOversold'
  <2> DEFINE p == [k \in Sells |-> Potential(k)]
             q == [k \in Sells |-> Potential(k)']
  <2>1. ASSUME NEW k \in Sells
        PROVE  /\ Potential(k) \in Int /\ Potential(k)' \in Int
               /\ Potential(k)' <= Potential(k)
    <3>1. Potential(k) \in Int /\ Potential(k) >= 0
      BY PotentialType
    <3>2. Potential(k)' = IF Failed(journal', k) THEN 0 ELSE Potential(k)
      <4>1. Failed(journal, k) => Failed(journal', k)
        BY FailedKept
      <4>2. QED BY <1>1, <4>1 DEF Potential
    <3>3. QED BY <3>1, <3>2
  <2>2. p \in [Sells -> Int] /\ q \in [Sells -> Int] /\ \A k \in Sells : q[k] <= p[k]
    BY <2>1
  <2>3. IsFiniteSet(Sells)
    BY SellsFinite DEF EvidenceInv
  <2> HIDE DEF p, q
  <2>4. SumFunction(q) <= SumFunction(p) /\ SumFunction(q) \in Int /\ SumFunction(p) \in Int
    BY <2>2, <2>3, SumMonotone, SumType
  <2>5. SumFunction([k \in Sells |-> Potential(k)])' = SumFunction(q)
    BY <1>1, SameRequests DEF q
  <2>6. Held' = Held
    BY <1>1, SameRequests DEF Held, Executed, Quiet
  <2>7. SumFunction(p) <= Held /\ Held \in Int
    BY HeldType DEF EvidenceInv, DispatchInv, ToldOK, NoneOversold, p
  <2>8. QED BY <2>4, <2>5, <2>6, <2>7 DEF NoneOversold
<1>7. QED BY <1>2, <1>3, <1>4, <1>5, <1>6

\* No request is newly proved unsent, but ones that were never called.
FailuresUnsent ==
  \A k \in Key : Failed(journal', k) => Failed(journal, k) \/ calls[k] = 0

\* A step outside send that calls nobody and puts no thread at its send.
LEMMA OutsideFrame ==
  ASSUME EvidenceInv, DispatchInv', Quiet, MutexFree, FailuresUnsent,
         UNCHANGED <<calls, sending>>,
         \A k \in Key : journal'.observed[k] = "NONE" => journal.observed[k] = "NONE",
         \A w \in Worker : worker'[w] = worker[w] \/ worker'[w].step \notin {"send", "ack"}
  PROVE  EvidenceInv'
<1>1. UNCHANGED book /\ journal'.requests = journal.requests
  BY DEF Quiet
<1>2. CallsOK'
  <2>1. \A k \in Key : sending' # k
    BY NoKeyAssumption DEF MutexFree
  <2>2. \A k \in Key : Failed(journal', k) => calls'[k] = 0
    BY DEF FailuresUnsent, EvidenceInv, CallsOK
  <2>3. sending' = NoKey
    BY DEF MutexFree
  <2>4. \A k \in Key : calls'[k] > 0 => k \in Accepted(journal')
    BY <1>1, SameRequests DEF EvidenceInv, CallsOK
  <2>5. \A k \in Key : book'[k].state # "NONE" => calls'[k] > 0
    BY <1>1 DEF EvidenceInv, CallsOK
  <2>6. QED BY <2>1, <2>2, <2>3, <2>4, <2>5 DEF CallsOK
<1>3. WorkersOK'
  <2>1. \A w \in Worker : worker'[w].step \in {"send", "ack"} => worker'[w] = worker[w]
    OBVIOUS
  <2>2. \A w \in Worker : worker[w].step \in {"send", "ack"} => worker[w].key \in Key
    BY DEF EvidenceInv, WorkersOK, NewOrders, Submitted
  <2>3. NewOrders(journal') = NewOrders(journal)
    BY <1>1, SameRequests
  <2>4. QED BY <1>1, <2>1, <2>2, <2>3 DEF EvidenceInv, WorkersOK
<1>4. QED BY <1>2, <1>3, QuietFrame DEF EvidenceInv

\* The journal gains the facts F and nothing else the proofs look at.
Gains(F) ==
  /\ journal'.facts = journal.facts \cup F
  /\ journal'.requests = journal.requests /\ journal'.allocated = journal.allocated
  /\ journal'.observed = journal.observed /\ journal'.latch = journal.latch
  /\ journal'.obligations = journal.obligations

LEMMA AppendGains ==
  ASSUME TypeOK, NEW f
  PROVE  /\ Ingest(f) => Gains({f})
         /\ AppendFact(f) => Gains({f})
<1>1. journal \in Journal
  BY DEF TypeOK
<1>2. QED BY <1>1 DEF Gains, Ingest, AppendFact, AppendFacts, Journal

\* Facts that are broker evidence, or no business of the broker's.
LEMMA GainsQuiet ==
  ASSUME EvidenceInv, NEW F, Gains(F), UNCHANGED <<book, emitted>>,
         \A f \in F : \/ f \in emitted
                      \/ f.type \in {"QuarantinedFill", "QuarantineReleased", "Discrepancy",
                                     "Reconciled"}
                      \/ f.type = "SendFailed" /\ calls[f.request] = 0
  PROVE  Quiet /\ FailuresUnsent
<1>1. Quiet
  BY DEF Quiet, Gains
<1>2. \A f \in emitted : f.type # "SendFailed"
  BY DEF EvidenceInv, ToldOK, RequestToldOK, OrderEvidence, RequestEvidence
<1>3. FailuresUnsent
  BY <1>2 DEF FailuresUnsent, Failed, Told, Gains
<1>4. QED BY <1>1, <1>3

LEMMA LedgerEvidence ==
  ASSUME EvidenceInv, LedgerNext, DispatchInv'
  PROVE  \/ EvidenceInv'
         \/ \E q \in Allocations : Allocate(q)
         \/ \E k \in Key : \E c \in NewCommand(k) \cup ChangeCommand : Submit(k, c)
<1> USE DEF boundVars, brokerVars
<1>0. TypeOK /\ journal \in Journal /\ MutexFree /\ UNCHANGED <<calls, sending>>
      /\ journal'.observed = journal.observed
  BY LedgerFrame DEF EvidenceInv, DispatchInv, TypeOK
<1> DEFINE Good == Quiet /\ FailuresUnsent /\ worker' = worker
<1>1. ASSUME Good PROVE EvidenceInv'
  BY <1>0, <1>1, OutsideFrame
<1>2. ASSUME journal'.requests = journal.requests, journal'.allocated = journal.allocated,
             journal'.facts = journal.facts, UNCHANGED <<book, emitted>>
      PROVE  Quiet /\ FailuresUnsent
  BY <1>2 DEF Quiet, FailuresUnsent, Failed, Told
<1>3. ASSUME NEW s \in BOOLEAN, NEW l \in BOOLEAN, Control(s, l) PROVE EvidenceInv'
  BY <1>0, <1>1, <1>2, <1>3 DEF Control, AppendEntry, Journal
<1>4. ASSUME NEW v \in Version, NEW r \in Rules \cup {"NONE"}, ApplyConfig(v, r)
      PROVE  EvidenceInv'
  BY <1>0, <1>1, <1>2, <1>4 DEF ApplyConfig, AppendEntry, Journal
<1>5. ASSUME NEW f \in emitted, Deliver(f) PROVE EvidenceInv'
  BY <1>0, <1>1, <1>5, AppendGains, GainsQuiet DEF Deliver
<1>6. ASSUME NEW k \in Key, NEW p \in {"NOT_INVOKED", "VERIFIED_UNSENT"}, ReportUnsent(k, p)
      PROVE  EvidenceInv'
  <2>1. Gains({Unsent(k, p)})
    BY <1>0, <1>6, AppendGains DEF ReportUnsent
  <2>2. Unsent(k, p).type = "SendFailed" /\ calls[Unsent(k, p).request] = 0
    BY <1>6 DEF ReportUnsent, Unsent
  <2>3. QED BY <1>1, <1>6, <2>1, <2>2, GainsQuiet DEF ReportUnsent
<1>7. ASSUME NEW k \in Key, Discard(k) PROVE EvidenceInv'
  <2> DEFINE f == Unsent(k, "NOT_INVOKED")
  <2>1. Gains({f})
    BY <1>0, <1>7, AppendGains DEF Discard
  <2>2. CheckUnsent(journal, f) /\ f.type = "SendFailed" /\ f.request = k
        /\ f.proof = "NOT_INVOKED"
    BY <1>7 DEF Discard, CheckFact, Unsent
  <2>3. journal.observed[k] = "NONE"
    BY <1>0, <2>2, IntentHasNoTransport DEF CheckUnsent, Journal
  <2>4. calls[k] = 0
    BY <1>0, <2>3, BookType DEF EvidenceInv, DispatchInv, ClaimedBeforeCall
  <2>5. QED BY <1>1, <1>7, <2>1, <2>2, <2>4, GainsQuiet DEF Discard
<1>8. ASSUME NEW f \in emitted, Quarantine(f) PROVE EvidenceInv'
  <2>1. Gains({Quarantined(f)}) /\ Quarantined(f).type = "QuarantinedFill"
    BY <1>0, <1>8, AppendGains DEF Quarantine, Quarantined
  <2>2. QED BY <1>1, <1>8, <2>1, GainsQuiet DEF Quarantine
<1>9. ASSUME NEW f \in emitted, Reprocess(f) PROVE EvidenceInv'
  <2>1. Gains({f, Released(f)}) /\ Released(f).type = "QuarantineReleased"
    BY <1>0, <1>9 DEF Reprocess, AppendFacts, Gains, Released, Journal
  <2>2. QED BY <1>1, <1>9, <2>1, GainsQuiet DEF Reprocess
<1>10. CASE ReportDiscrepancy
  <2>1. Gains({Discrepancy(incidents)}) /\ Discrepancy(incidents).type = "Discrepancy"
    BY <1>0, <1>10, AppendGains DEF ReportDiscrepancy, Discrepancy
  <2>2. QED BY <1>1, <1>10, <2>1, GainsQuiet DEF ReportDiscrepancy
<1>11. ASSUME NEW n \in 0..MaxIncidents, Reconcile(n) PROVE EvidenceInv'
  <2>1. Gains({Reconciled(n)}) /\ Reconciled(n).type = "Reconciled"
    BY <1>0, <1>11, AppendGains DEF Reconcile, Reconciled
  <2>2. QED BY <1>1, <1>11, <2>1, GainsQuiet DEF Reconcile
<1>12. ASSUME NEW r \in 1..MaxTime, NEW n \in 1..MaxTime, NEW x \in BOOLEAN,
              ProcessQuote(r, n, x)
       PROVE  EvidenceInv'
  <2> DEFINE j == [journal EXCEPT !.cursor = [received |-> r, evaluated |-> n]]
  <2>1. journal' = j \/ \E v \in Version : journal' = [j EXCEPT !.latch = v]
    BY <1>12 DEF ProcessQuote, AppendEntry
  <2>2. /\ journal'.requests = journal.requests /\ journal'.allocated = journal.allocated
        /\ journal'.facts = journal.facts
    <3>1. CASE journal' = j
      BY <1>0, <3>1 DEF Journal
    <3>2. ASSUME NEW v \in Version, journal' = [j EXCEPT !.latch = v]
          PROVE  /\ journal'.requests = journal.requests
                 /\ journal'.allocated = journal.allocated
                 /\ journal'.facts = journal.facts
      BY <1>0, <3>2 DEF Journal
    <3>3. QED BY <2>1, <3>1, <3>2
  <2>3. UNCHANGED <<book, emitted, worker>>
    BY <1>12 DEF ProcessQuote
  <2>4. QED BY <1>1, <1>2, <2>2, <2>3
<1>13. CASE Latch
  BY <1>0, <1>1, <1>2, <1>13 DEF Latch, AppendEntry, Journal
<1>14. QED
  BY <1>3, <1>4, <1>5, <1>6, <1>7, <1>8, <1>9, <1>10, <1>11, <1>12, <1>13 DEF LedgerNext

-----------------------------------------------------------------------------
(* What a sell order reserves *)

\* Of what the broker told about an order the journal holds a part.
LEMMA KnownQty ==
  ASSUME EvidenceInv, NEW k \in Key
  PROVE  /\ Filled(journal, k) \in Int /\ Filled(journal, k) <= SumQty(ToldOf("Fill", k))
         /\ SumQty(Cancels(journal, k)) \in Int
         /\ SumQty(Cancels(journal, k)) <= SumQty(ToldOf("Cancelled", k))
         /\ SumQty(Amendments(journal, k)) \in Int
         /\ SumQty(Amendments(journal, k)) >= SumQty(ToldOf("Amended", k))
<1>0. TypeOK /\ IsFiniteSet(emitted) /\ emitted \subseteq Fact /\ KnownIsTold /\ EffectToldOK
  BY DEF EvidenceInv, DispatchInv, ToldOK, TypeOK
<1>1. /\ Fills(journal, k) \in SUBSET ToldOf("Fill", k)
      /\ Cancels(journal, k) \in SUBSET ToldOf("Cancelled", k)
      /\ Amendments(journal, k) \in SUBSET ToldOf("Amended", k)
  BY <1>0 DEF KnownIsTold, OrderEvidence, Fills, Cancels, Amendments, ToldOf
<1>2. ASSUME NEW type \in OrderEvidence, NEW G \in SUBSET ToldOf(type, k)
      PROVE  /\ SumQty(G) \in Int
             /\ (\A f \in ToldOf(type, k) : f.qty >= 0) => SumQty(G) <= SumQty(ToldOf(type, k))
             /\ (\A f \in ToldOf(type, k) : f.qty <= 0) => SumQty(G) >= SumQty(ToldOf(type, k))
  <2>1. IsFiniteSet(ToldOf(type, k)) /\ \A f \in ToldOf(type, k) : f.qty \in Int
    BY <1>0, ToldType
  <2>2. IsFiniteSet(G) /\ \A f \in G : f.qty \in Int
    BY <2>1, FS_Subset
  <2>3. QED BY <2>1, <2>2, QtyPart, QtyType
<1>3. /\ \A f \in ToldOf("Fill", k) : f.qty >= 0
      /\ \A f \in ToldOf("Cancelled", k) : f.qty >= 0
      /\ \A f \in ToldOf("Amended", k) : f.qty <= 0
  <2>1. \A f \in ToldOf("Fill", k) : f.qty \in Nat
    BY <1>0, FactType DEF ToldOf
  <2>2. \A f \in emitted : f.type \in {"Cancelled", "Amended"} => f.qty \in Int
    BY <1>0, FactType DEF OrderEvidence
  <2>3. QED BY <1>0, <2>1, <2>2 DEF EffectToldOK, ToldOf
<1>4. QED BY <1>1, <1>2, <1>3 DEF Filled, OrderEvidence

\* No evidence about an order the broker has not taken.
LEMMA NothingTold ==
  ASSUME EvidenceInv, NEW k \in Key, book[k].state # "LIVE"
  PROVE  /\ \A type \in OrderEvidence : ToldOf(type, k) = {}
         /\ Fills(journal, k) = {} /\ Cancels(journal, k) = {} /\ Amendments(journal, k) = {}
<1>1. \A f \in emitted : f.type \in OrderEvidence => f.order # k
  BY DEF EvidenceInv, ToldOK, OrderToldOK
<1>2. \A f \in journal.facts : f.type \in OrderEvidence => f.order # k
  BY <1>1 DEF EvidenceInv, KnownIsTold
<1>3. QED BY <1>1, <1>2 DEF ToldOf, OrderEvidence, Fills, Cancels, Amendments

\* A request the journal knows rejected was rejected; one that was proved unsent
\* was not handled.
LEMMA VoidOrders ==
  ASSUME EvidenceInv, NEW k \in Key
  PROVE  /\ Rejected(journal, k) => book[k].state = "REJECTED"
         /\ Failed(journal, k) => calls[k] = 0 /\ book[k].state = "NONE"
         /\ Void(journal, k) => book[k].state # "LIVE" /\ (Failed(journal, k) \/ book[k].state = "REJECTED")
<1>1. Rejected(journal, k) => book[k].state = "REJECTED"
  BY DEF EvidenceInv, KnownIsTold, Rejected, Told, RequestEvidence, OrderEvidence, ToldOK,
     RequestToldOK
<1>2. Failed(journal, k) => calls[k] = 0 /\ book[k].state = "NONE"
  BY BookType DEF EvidenceInv, DispatchInv, CallsOK
<1>3. QED BY <1>1, <1>2 DEF Void

LEMMA ReservedFacts ==
  ASSUME EvidenceInv, NEW k \in NewOrders(journal)
  PROVE  /\ Exposure(journal, k) \in Int
         /\ ReservedFor(journal, k) \in Int /\ ReservedFor(journal, k) >= 0
         /\ journal.requests[k].side = "BUY" => ReservedFor(journal, k) = 0
         /\ journal.requests[k].side = "SELL" /\ ~Void(journal, k) =>
              ReservedFor(journal, k) >= Exposure(journal, k)
<1>1. k \in Submitted(journal) /\ TypeOK
  BY DEF NewOrders, EvidenceInv, DispatchInv
<1>2. k \in Key /\ journal.requests[k].qty \in Int
  BY <1>1, RequestFields
<1>3. Exposure(journal, k) \in Int
  BY <1>2, KnownQty DEF Exposure, Filled
<1>4. Max({0, Exposure(journal, k)}) \in Int /\ Max({0, Exposure(journal, k)}) >= 0
      /\ Max({0, Exposure(journal, k)}) >= Exposure(journal, k)
  BY <1>3, MaxZero
<1>5. QED BY <1>3, <1>4 DEF ReservedFor

\* The heart of the matter: for any part of the evidence the journal holds, what
\* may yet be sold for the order is reserved, and what it reserves together with
\* the fills it knows is no less than that together with the fills there were.
LEMMA ReservedCovers ==
  ASSUME EvidenceInv, NEW k \in Sells
  PROVE  /\ Potential(k) <= ReservedFor(journal, k)
         /\ Potential(k) + SumQty(ToldOf("Fill", k)) <=
              ReservedFor(journal, k) + Filled(journal, k)
<1> DEFINE F == SumQty(ToldOf("Fill", k))
           A == SumQty(ToldOf("Amended", k))
           C == SumQty(ToldOf("Cancelled", k))
           Fj == Filled(journal, k)
           Aj == SumQty(Amendments(journal, k))
           Cj == SumQty(Cancels(journal, k))
           q == journal.requests[k].qty
           R == ReservedFor(journal, k)
<1>0. TypeOK /\ IsFiniteSet(emitted) /\ k \in NewOrders(journal) /\ k \in Submitted(journal)
      /\ k \in Key /\ journal.requests[k].side = "SELL"
  BY DEF Sells, NewOrders, Submitted, EvidenceInv, DispatchInv, ToldOK
<1>1. q \in Int /\ q > 0 /\ k \notin Changes(journal)
  BY <1>0, RequestFields DEF NewOrders, Changes
<1>2. F \in Int /\ A \in Int /\ C \in Int
  BY <1>0, ToldType DEF OrderEvidence
<1>3. Fj \in Int /\ Fj <= F /\ Cj \in Int /\ Cj <= C /\ Aj \in Int /\ Aj >= A
  BY <1>0, KnownQty
<1>4. /\ Exposure(journal, k) = q + Aj - Fj - Cj
      /\ R \in Int /\ R >= 0 /\ (~Void(journal, k) => R >= Exposure(journal, k))
  BY <1>0, ReservedFacts DEF Exposure, Filled
<1>5. Left(k) = q + A - F - C
  BY DEF Left
<1>6. CASE book[k].state = "LIVE"
  <2>1. ~Void(journal, k) /\ Potential(k) = Left(k)
    BY <1>0, <1>6, VoidOrders DEF Potential, EvidenceInv, BookOK
  <2> HIDE DEF F, A, C, Fj, Aj, Cj, q, R
  <2>2. QED BY <1>1, <1>2, <1>3, <1>4, <1>5, <1>6, <2>1 DEF F, Fj, R
<1>7. CASE book[k].state # "LIVE"
  <2>1. F = 0 /\ Fj = 0 /\ Aj = 0 /\ Cj = 0
    BY <1>0, <1>7, NothingTold, QtyEmpty DEF OrderEvidence, Filled
  <2>2. CASE Failed(journal, k)
    BY <1>4, <2>1, <2>2 DEF Potential
  <2>3. CASE ~Failed(journal, k) /\ book[k].state = "NONE"
    <3>1. ~Void(journal, k)
      BY <1>0, <2>3, VoidOrders
    <3>2. Potential(k) = q
      BY <2>3 DEF Potential
    <3>3. QED BY <1>1, <1>4, <2>1, <3>1, <3>2
  <2>4. CASE ~Failed(journal, k) /\ book[k].state = "REJECTED"
    <3>1. Potential(k) = 0
      BY <1>0, <2>4 DEF Potential, EvidenceInv, BookOK
    <3>2. QED BY <1>4, <2>1, <3>1
  <2>5. book[k].state # "DONE"
    BY <1>0, <1>1 DEF EvidenceInv, BookOK
  <2>6. QED BY <1>0, <1>7, <2>2, <2>3, <2>4, <2>5, BookType
<1>8. QED BY <1>6, <1>7

\* A quantity of facts is the sum over the orders they are about.
LEMMA QtyByOrder ==
  ASSUME NEW F, IsFiniteSet(F), \A f \in F : f.qty \in Int,
         NEW K, IsFiniteSet(K), \A f \in F : f.order \in K
  PROVE  SumQty(F) = SumFunction([k \in K |-> SumQty({f \in F : f.order = k})])
<1> DEFINE q == [f \in F |-> f.qty]
           h == [f \in F |-> f.order]
<1>1. q \in [F -> Int] /\ h \in [F -> K]
  OBVIOUS
<1>2. ASSUME NEW k \in K PROVE Part(F, q, h, k) = [f \in {g \in F : g.order = k} |-> f.qty]
  <2>1. {y \in F : h[y] = k} = {g \in F : g.order = k}
    OBVIOUS
  <2>2. Part(F, q, h, k) = [x \in {g \in F : g.order = k} |-> q[x]]
    BY <2>1 DEF Part
  <2>3. QED BY <2>2
<1>3. PartSums(F, q, h, K) = [k \in K |-> SumQty({f \in F : f.order = k})]
  BY <1>2 DEF PartSums, SumQty
<1> HIDE DEF h
<1>4. SumFunction(q) = SumFunction(PartSums(F, q, h, K))
  BY <1>1, SumByOrder
<1>5. QED BY <1>3, <1>4 DEF SumQty

LEMMA QtyOfOrders ==
  ASSUME NEW E, IsFiniteSet(E), \A f \in E : f.type = "Fill" => f.qty \in Int,
         NEW K, IsFiniteSet(K)
  PROVE  SumQty({f \in E : f.type = "Fill" /\ f.order \in K}) =
           SumFunction([k \in K |-> SumQty({f \in E : f.type = "Fill" /\ f.order = k})])
<1> DEFINE F == {f \in E : f.type = "Fill" /\ f.order \in K}
<1>1. IsFiniteSet(F) /\ \A f \in F : f.qty \in Int /\ f.order \in K
  BY FS_Subset
<1>2. \A k \in K : {f \in F : f.order = k} = {f \in E : f.type = "Fill" /\ f.order = k}
  OBVIOUS
<1>3. [k \in K |-> SumQty({f \in F : f.order = k})] =
        [k \in K |-> SumQty({f \in E : f.type = "Fill" /\ f.order = k})]
  BY <1>2
<1> HIDE DEF F
<1>4. SumQty(F) = SumFunction([k \in K |-> SumQty({f \in F : f.order = k})])
  BY <1>1, QtyByOrder
<1>5. QED BY <1>3, <1>4 DEF F

\* Summed over all sell orders.
LEMMA SellsBalance ==
  ASSUME EvidenceInv
  PROVE  /\ SumFunction([k \in Sells |-> Potential(k)]) \in Int
         /\ Reserved(journal) \in Int /\ FilledOn(journal, "SELL") \in Int
         /\ SumFunction([k \in Sells |-> Potential(k)]) + Executed(Sells) <=
              Reserved(journal) + FilledOn(journal, "SELL")
<1> DEFINE p == [k \in Sells |-> Potential(k)]
           t == [k \in Sells |-> SumQty(ToldOf("Fill", k))]
           r == [k \in Sells |-> ReservedFor(journal, k)]
           f == [k \in Sells |-> Filled(journal, k)]
           pt == [k \in Sells |-> Potential(k) + SumQty(ToldOf("Fill", k))]
           rf == [k \in Sells |-> ReservedFor(journal, k) + Filled(journal, k)]
           all == [o \in NewOrders(journal) |-> ReservedFor(journal, o)]
<1>0. TypeOK /\ IsFiniteSet(emitted) /\ IsFiniteSet(journal.facts) /\ IsFiniteSet(Sells)
      /\ IsFiniteSet(NewOrders(journal)) /\ Sells \in SUBSET NewOrders(journal)
      /\ Sells \subseteq Key /\ emitted \subseteq Fact /\ journal.facts \subseteq Fact
  BY SellsFinite DEF EvidenceInv, DispatchInv, ToldOK, TypeOK, Journal, Sells, NewOrders,
     Submitted
<1>1. ASSUME NEW k \in Sells
      PROVE  /\ Potential(k) \in Int /\ SumQty(ToldOf("Fill", k)) \in Int
             /\ ReservedFor(journal, k) \in Int /\ Filled(journal, k) \in Int
             /\ Potential(k) + SumQty(ToldOf("Fill", k)) <=
                  ReservedFor(journal, k) + Filled(journal, k)
  BY <1>0, <1>1, PotentialType, ToldType, ReservedFacts, KnownQty, ReservedCovers
     DEF OrderEvidence
<1>2. p \in [Sells -> Int] /\ t \in [Sells -> Int] /\ r \in [Sells -> Int]
      /\ f \in [Sells -> Int] /\ pt \in [Sells -> Int] /\ rf \in [Sells -> Int]
  BY <1>1
<1>3. \A k \in Sells : pt[k] = p[k] + t[k] /\ rf[k] = r[k] + f[k] /\ pt[k] <= rf[k]
  BY <1>1
<1>4. Executed(Sells) = SumFunction(t)
  <2>1. \A g \in emitted : g.type = "Fill" => g.qty \in Int
    BY <1>0, FactType
  <2>2. SumQty({g \in emitted : g.type = "Fill" /\ g.order \in Sells}) =
          SumFunction([k \in Sells |-> SumQty({g \in emitted : g.type = "Fill" /\ g.order = k})])
    BY <1>0, <2>1, QtyOfOrders
  <2>3. QED BY <2>2 DEF Executed, ToldOf
<1>5. FilledOn(journal, "SELL") = SumFunction(f)
  <2>1. \A g \in journal.facts : g.type = "Fill" => g.qty \in Int
    BY <1>0, FactType
  <2>2. SumQty({g \in journal.facts : g.type = "Fill" /\ g.order \in Sells}) =
          SumFunction([k \in Sells |-> SumQty({g \in journal.facts : g.type = "Fill" /\ g.order = k})])
    BY <1>0, <2>1, QtyOfOrders
  <2>3. {g \in journal.facts : g.type = "Fill" /\ g.order \in Sells} =
          {g \in journal.facts : g.type = "Fill" /\ g.order \in NewOrders(journal)
                                 /\ journal.requests[g.order].side = "SELL"}
    BY DEF Sells
  <2>4. QED BY <2>2, <2>3 DEF FilledOn, Filled, Fills
<1>6. Reserved(journal) = SumFunction(r)
  <2>1. all \in [NewOrders(journal) -> Int]
    BY ReservedFacts
  <2>2. \A k \in NewOrders(journal) \ Sells : all[k] = 0
    <3>1. \A k \in NewOrders(journal) \ Sells : journal.requests[k].side = "BUY"
      BY <1>0, RequestFields DEF Sells, NewOrders
    <3>2. QED BY <3>1, ReservedFacts
  <2>3. \A k \in Sells : r[k] = all[k]
    BY <1>0
  <2> HIDE DEF all, r
  <2>4. SumFunction(r) = SumFunction(all)
    <3>1. IsFiniteSet(NewOrders(journal)) /\ Sells \in SUBSET NewOrders(journal)
          /\ r \in [Sells -> Int]
      BY <1>0, <1>2
    <3>2. QED BY ONLY <3>1, <2>1, <2>2, <2>3, SumPart
  <2>5. QED BY <2>4 DEF Reserved, all
<1> HIDE DEF p, t, r, f, pt, rf
<1>7. SumFunction(p) \in Int /\ SumFunction(t) \in Int /\ SumFunction(r) \in Int
      /\ SumFunction(f) \in Int
  BY <1>0, <1>2, SumType
<1>8. SumFunction(pt) = SumFunction(p) + SumFunction(t)
  <2>1. IsFiniteSet(Sells) /\ \A k \in Sells : pt[k] = p[k] + t[k]
    BY <1>0, <1>3
  <2>2. QED BY ONLY <1>2, <2>1, SumPlus
<1>9. SumFunction(rf) = SumFunction(r) + SumFunction(f)
  <2>1. IsFiniteSet(Sells) /\ \A k \in Sells : rf[k] = r[k] + f[k]
    BY <1>0, <1>3
  <2>2. QED BY ONLY <1>2, <2>1, SumPlus
<1>10. SumFunction(pt) <= SumFunction(rf)
  BY <1>0, <1>2, <1>3, SumMonotone
<1>11. QED BY <1>4, <1>5, <1>6, <1>7, <1>8, <1>9, <1>10 DEF p

\* No more may be offered than what the account holds beyond what may yet be sold.
LEMMA OfferedIsHeld ==
  ASSUME EvidenceInv, NEW n \in Int, n > 0, n <= Available(journal)
  PROVE  SumFunction([k \in Sells |-> Potential(k)]) + n <= Held
<1> DEFINE P == SumFunction([k \in Sells |-> Potential(k)])
           a == Max({0, journal.allocated})
<1>0. TypeOK /\ IsFiniteSet(emitted) /\ IsFiniteSet(journal.facts) /\ journal.facts \subseteq Fact
  BY DEF EvidenceInv, DispatchInv, ToldOK, TypeOK, Journal
<1>1. /\ P \in Int /\ Reserved(journal) \in Int /\ FilledOn(journal, "SELL") \in Int
      /\ P + Executed(Sells) <= Reserved(journal) + FilledOn(journal, "SELL")
  BY SellsBalance
<1>2. a \in Int /\ Executed(Buys) \in Int /\ Executed(Sells) \in Int
      /\ Held = a + Executed(Buys) - Executed(Sells)
  BY <1>0, HeldType DEF Held
<1>3. FilledOn(journal, "BUY") \in Int /\ FilledOn(journal, "BUY") <= Executed(Buys)
  <2> DEFINE G == {f \in journal.facts : /\ f.type = "Fill" /\ f.order \in NewOrders(journal)
                                         /\ journal.requests[f.order].side = "BUY"}
             F == {f \in emitted : f.type = "Fill" /\ f.order \in Buys}
  <2>1. G \in SUBSET F
    BY DEF EvidenceInv, KnownIsTold, OrderEvidence, Buys
  <2>2. IsFiniteSet(F) /\ \A f \in F : f.qty \in Int /\ f.qty >= 0
    BY <1>0, ExecutedType
  <2>3. IsFiniteSet(G) /\ \A f \in G : f.qty \in Int
    BY <2>1, <2>2, FS_Subset
  <2>4. SumQty(G) \in Int
    BY <2>3, QtyType
  <2>5. SumQty(G) <= SumQty(F)
    BY <2>1, <2>2, QtyPart
  <2>6. QED BY <2>4, <2>5 DEF FilledOn, Executed
<1>4. Managed(journal) = a + FilledOn(journal, "BUY") - FilledOn(journal, "SELL")
  BY DEF Managed
<1>5. n <= Managed(journal) - Reserved(journal)
  <2> DEFINE m == Managed(journal) - Reserved(journal)
  <2>1. m \in Int
    BY <1>1, <1>2, <1>3, <1>4
  <2>2. Available(journal) = Max({0, m})
    BY DEF Available
  <2> HIDE DEF m
  <2>3. m >= 0 => Max({0, m}) = m
    BY <2>1, MaxZero
  <2>4. m <= 0 => Max({0, m}) = 0
    BY <2>1, MaxZero
  <2>5. n <= m
    BY <2>1, <2>2, <2>3, <2>4
  <2>6. QED BY <2>5 DEF m
<1> HIDE DEF P, a
<1>6. QED BY <1>1, <1>2, <1>3, <1>4, <1>5 DEF P

-----------------------------------------------------------------------------
(* A request is appended, and the initial allocation *)

LEMMA NotSubmitted ==
  ASSUME EvidenceInv, NEW k \in Key, journal.requests[k] = NoRequest
  PROVE  /\ k \notin Submitted(journal) /\ calls[k] = 0 /\ book[k].state = "NONE"
         /\ \A f \in emitted : f.type \in OrderEvidence => f.order # k
         /\ \A f \in emitted : f.type \in {"Cancelled", "Amended"} => f.request # k
<1>1. k \notin Submitted(journal)
  BY DEF Submitted
<1>2. calls[k] = 0
  BY <1>1, BookType DEF EvidenceInv, DispatchInv, CallsOK, Accepted
<1>3. book[k].state = "NONE"
  BY <1>2, BookType DEF EvidenceInv, DispatchInv, CallsOK
<1>4. QED BY <1>1, <1>2, <1>3 DEF EvidenceInv, ToldOK, OrderToldOK, EffectToldOK

LEMMA RequestAppended ==
  ASSUME TypeOK, NEW k \in Key, NEW c \in Request, journal.requests[k] = NoRequest,
         AppendRequest(k, c)
  PROVE  /\ journal'.facts = journal.facts /\ journal'.allocated = journal.allocated
         /\ journal'.observed = journal.observed /\ journal'.latch = journal.latch
         /\ journal'.requests[k] = c
         /\ \A i \in Key \ {k} : journal'.requests[i] = journal.requests[i]
         /\ Submitted(journal') = Submitted(journal) \cup {k}
         /\ NewOrders(journal') = NewOrders(journal) \cup (IF c.kind = "New" THEN {k} ELSE {})
         /\ Changes(journal') = Changes(journal) \cup (IF c.kind = "New" THEN {} ELSE {k})
         /\ Accepted(journal) \subseteq Accepted(journal')
         /\ Sells' = Sells \cup (IF c.kind = "New" /\ c.side = "SELL" THEN {k} ELSE {})
         /\ Buys' = Buys \cup (IF c.kind = "New" /\ c.side = "BUY" THEN {k} ELSE {})
         /\ k \notin NewOrders(journal) /\ k \notin Changes(journal)
<1>0. journal \in Journal
  BY DEF TypeOK
<1>1. /\ journal'.facts = journal.facts /\ journal'.allocated = journal.allocated
      /\ journal'.observed = journal.observed /\ journal'.latch = journal.latch
      /\ journal'.requests = [journal.requests EXCEPT ![k] = c]
      /\ journal.requests \in [Key -> Request \cup {NoRequest}]
  BY <1>0 DEF AppendRequest, AppendEntry, Journal
<1>2. journal'.requests[k] = c /\ \A i \in Key \ {k} : journal'.requests[i] = journal.requests[i]
  BY <1>1
<1>3. c # NoRequest /\ c.kind \in {"New", "Amend", "Cancel"}
  BY DEF Request, NoRequest
<1>4. Submitted(journal') = Submitted(journal) \cup {k} /\ k \notin Submitted(journal)
  BY <1>2, <1>3 DEF Submitted
<1>5. /\ NewOrders(journal') = NewOrders(journal) \cup (IF c.kind = "New" THEN {k} ELSE {})
      /\ Changes(journal') = Changes(journal) \cup (IF c.kind = "New" THEN {} ELSE {k})
      /\ k \notin NewOrders(journal) /\ k \notin Changes(journal)
  <2>1. \A i \in Submitted(journal) : i \in Key /\ i # k
    BY <1>4 DEF Submitted
  <2>2. QED BY <1>2, <1>3, <1>4, <2>1 DEF NewOrders, Changes
<1>6. /\ Sells' = Sells \cup (IF c.kind = "New" /\ c.side = "SELL" THEN {k} ELSE {})
      /\ Buys' = Buys \cup (IF c.kind = "New" /\ c.side = "BUY" THEN {k} ELSE {})
  <2>1. \A i \in NewOrders(journal) : i \in Key /\ i # k
    BY <1>4 DEF Submitted, NewOrders
  <2>2. QED BY <1>2, <1>5, <2>1 DEF Sells, Buys
<1>7. Accepted(journal) \subseteq Accepted(journal')
  <2>1. \A i \in Submitted(journal) : i \in Key /\ i # k
    BY <1>4 DEF Submitted
  <2>2. QED BY <1>2, <1>4, <2>1 DEF Accepted
<1>8. QED BY <1>1, <1>2, <1>4, <1>5, <1>6, <1>7

\* What every submit checks of its command, the caller's and a thread's.
Wellformed(c) ==
  /\ c.kind = "Cancel" => c.qty > 0
  /\ c.kind = "Amend" /\ c.decision = "ACCEPTED" => c.qty < 0

LEMMA RequestNoneOversold ==
  ASSUME EvidenceInv, NEW k \in Key, NEW c \in Request, journal.requests[k] = NoRequest,
         AppendRequest(k, c), CheckCommand(journal, c), UNCHANGED <<book, emitted>>
  PROVE  NoneOversold'
<1> DEFINE p == [i \in Sells |-> Potential(i)]
           q == [i \in Sells' |-> Potential(i)']
<1>0. TypeOK /\ IsFiniteSet(emitted) /\ IsFiniteSet(Sells)
  BY SellsFinite DEF EvidenceInv, DispatchInv, ToldOK
<1>1. /\ journal'.facts = journal.facts /\ journal'.allocated = journal.allocated
      /\ journal'.requests[k] = c
      /\ \A i \in Key \ {k} : journal'.requests[i] = journal.requests[i]
      /\ Sells' = Sells \cup (IF c.kind = "New" /\ c.side = "SELL" THEN {k} ELSE {})
      /\ Buys' = Buys \cup (IF c.kind = "New" /\ c.side = "BUY" THEN {k} ELSE {})
      /\ k \notin NewOrders(journal)
  BY <1>0, RequestAppended
<1>2. \A i \in Sells : i \in Key /\ i # k
  BY <1>1 DEF Sells, NewOrders, Submitted
<1>3. Held' = Held
  <2>1. \A f \in emitted : f.type = "Fill" => f.order # k
    BY NotSubmitted DEF OrderEvidence
  <2>2. Executed(Sells)' = Executed(Sells) /\ Executed(Buys)' = Executed(Buys)
    <3>1. {f \in emitted : f.type = "Fill" /\ f.order \in Sells'} =
            {f \in emitted : f.type = "Fill" /\ f.order \in Sells}
      BY <1>1, <2>1
    <3>2. {f \in emitted : f.type = "Fill" /\ f.order \in Buys'} =
            {f \in emitted : f.type = "Fill" /\ f.order \in Buys}
      BY <1>1, <2>1
    <3>3. QED BY <3>1, <3>2 DEF Executed
  <2>3. QED BY <1>1, <2>2 DEF Held
<1>4. \A i \in Sells : Potential(i) \in Int /\ Potential(i)' = Potential(i)
  <2>1. \A i \in Sells : Potential(i)' = Potential(i)
    BY <1>1, <1>2 DEF Potential, Failed, Told
  <2>2. QED BY <2>1, PotentialType
<1>5. Held \in Int /\ SumFunction(p) <= Held /\ p \in [Sells -> Int]
  BY <1>0, <1>4, HeldType DEF EvidenceInv, NoneOversold
<1>6. CASE ~(c.kind = "New" /\ c.side = "SELL")
  <2>1. Sells' = Sells
    BY <1>1, <1>6
  <2>2. q = p
    BY <1>4, <2>1
  <2>3. QED BY <1>3, <1>5, <2>2 DEF NoneOversold
<1>7. CASE c.kind = "New" /\ c.side = "SELL"
  <2>1. c.qty \in Int /\ c.qty > 0
    BY <1>7 DEF Request, PositiveQty
  <2>2. c.qty <= Available(journal)
    BY <1>7 DEF CheckCommand, CheckNew
  <2>3. SumFunction(p) + c.qty <= Held
    BY <2>1, <2>2, OfferedIsHeld
  <2>4. Sells' = Sells \cup {k} /\ k \notin Sells
    BY <1>1, <1>2, <1>7
  <2>5. Potential(k)' \in {0, c.qty}
    <3>1. book[k].state = "NONE"
      BY NotSubmitted
    <3>2. QED BY <1>1, <3>1 DEF Potential
  <2>6. q \in [Sells' -> Int] /\ q[k] <= c.qty /\ \A i \in Sells : p[i] = q[i]
    BY <1>4, <2>1, <2>4, <2>5
  <2> DEFINE S == Sells'
  <2> HIDE DEF p, q, S
  <2>7. S = Sells \cup {k} /\ q \in [S -> Int]
    BY <2>4, <2>6 DEF S
  <2>8. SumFunction(q) = q[k] + SumFunction(p)
    BY <1>0, <1>5, <2>4, <2>6, <2>7, SumExtend
  <2>9. SumFunction(p) \in Int
    BY <1>0, <1>5, SumType
  <2>10. SumFunction(q) <= Held
    <3>1. q[k] \in Int
      BY <2>1, <2>4, <2>6
    <3>2. QED BY <1>5, <2>1, <2>3, <2>6, <2>8, <2>9, <3>1
  <2>11. QED BY <1>3, <2>10 DEF NoneOversold, q
<1>8. QED BY <1>6, <1>7

LEMMA SubmitEvidence ==
  ASSUME EvidenceInv, DispatchInv', MutexFree, NEW k \in Key, NEW c \in Request,
         journal.requests[k] = NoRequest, AppendRequest(k, c), CheckCommand(journal, c),
         Wellformed(c), UNCHANGED <<sending, calls, book, emitted>>,
         \A w \in Worker :
           \/ worker'[w] = worker[w]
           \/ worker'[w].step = "send" /\ worker'[w].key = k /\ c.kind = "New"
  PROVE  EvidenceInv'
<1>0. TypeOK /\ IsFiniteSet(emitted) /\ c.kind \in {"New", "Amend", "Cancel"}
  BY DEF EvidenceInv, DispatchInv, ToldOK, Request
<1>1. /\ journal'.facts = journal.facts /\ journal'.observed = journal.observed
      /\ journal'.requests[k] = c
      /\ \A i \in Key \ {k} : journal'.requests[i] = journal.requests[i]
      /\ Submitted(journal') = Submitted(journal) \cup {k}
      /\ NewOrders(journal') = NewOrders(journal) \cup (IF c.kind = "New" THEN {k} ELSE {})
      /\ Changes(journal') = Changes(journal) \cup (IF c.kind = "New" THEN {} ELSE {k})
      /\ Accepted(journal) \subseteq Accepted(journal')
      /\ k \notin Changes(journal)
  BY <1>0, RequestAppended
<1>2. /\ k \notin Submitted(journal) /\ calls[k] = 0 /\ book[k].state = "NONE"
      /\ \A f \in emitted : f.type \in OrderEvidence => f.order # k
      /\ \A f \in emitted : f.type \in {"Cancelled", "Amended"} => f.request # k
  BY NotSubmitted
<1>3. KnownIsTold'
  BY <1>1 DEF EvidenceInv, KnownIsTold
<1>4. RequestsOK'
  <2>1. IsFiniteSet(Submitted(journal'))
    BY <1>1, FS_AddElement DEF EvidenceInv, RequestsOK
  <2>2. ASSUME NEW i \in Changes(journal'), i # k
        PROVE  i \in Changes(journal) /\ i \in Key /\ journal'.requests[i] = journal.requests[i]
    BY <1>1, <2>2 DEF Changes, Submitted
  <2>3. c.kind # "New" => c.target \in NewOrders(journal)
    BY DEF CheckCommand, CheckChange
  <2>4. ASSUME NEW i \in Changes(journal')
        PROVE  /\ journal'.requests[i].target \in NewOrders(journal')
               /\ journal'.requests[i].kind = "Cancel" => journal'.requests[i].qty > 0
               /\ journal'.requests[i].kind = "Amend" /\ journal'.requests[i].decision = "ACCEPTED"
                    => journal'.requests[i].qty < 0
    <3>1. CASE i = k
      <4>1. c.kind # "New"
        BY <1>1, <3>1 DEF Changes
      <4>2. QED BY <1>1, <2>3, <3>1, <4>1 DEF Wellformed
    <3>2. CASE i # k
      BY <1>1, <2>2, <3>2 DEF EvidenceInv, RequestsOK
    <3>3. QED BY <3>1, <3>2
  <2>5. QED BY <2>1, <2>4 DEF RequestsOK
<1>5. CallsOK'
  BY <1>1 DEF EvidenceInv, CallsOK, Failed, Told
<1>6. WorkersOK'
  <2>1. \A w \in Worker : worker'[w].step = "ack" => worker'[w] = worker[w]
    OBVIOUS
  <2>2. ASSUME NEW w \in Worker, worker'[w].step \in {"send", "ack"}
        PROVE  worker'[w].key \in NewOrders(journal')
    <3>1. CASE worker'[w] = worker[w]
      BY <1>1, <2>2, <3>1 DEF EvidenceInv, WorkersOK
    <3>2. CASE worker'[w].key = k /\ c.kind = "New"
      BY <1>1, <3>2
    <3>3. QED BY <3>1, <3>2
  <2>3. QED BY <1>1, <2>1, <2>2 DEF EvidenceInv, WorkersOK
<1>7. BookOK'
  <2>1. \A i \in Key \ {k} : Left(i)' = Left(i)
    BY <1>1 DEF Left, ToldOf
  <2>2. ASSUME NEW i \in Key
        PROVE  /\ book'[i].state = "NONE" => book'[i] = NotHandled
               /\ book'[i].state = "LIVE" =>
                    /\ i \in NewOrders(journal')
                    /\ book'[i].remaining = Left(i)' /\ book'[i].remaining >= 0
                    /\ Told1("Ack", i) \in emitted'
               /\ book'[i].state = "DONE" => i \in Changes(journal')
               /\ book'[i].state = "REJECTED" => Told1("Rejected", i) \in emitted'
               /\ book'[i].state \in {"REJECTED", "DONE"} => book'[i].remaining = 0
    <3>1. CASE i = k
      BY <1>2, <3>1 DEF EvidenceInv, BookOK
    <3>2. CASE i # k
      BY <1>1, <2>1, <3>2 DEF EvidenceInv, BookOK
    <3>3. QED BY <3>1, <3>2
  <2>3. QED BY <2>2 DEF BookOK
<1>8. ToldOK'
  <2>1. OrderToldOK' /\ RequestToldOK' /\ LastToldOK' /\ IsFiniteSet(emitted')
    BY DEF EvidenceInv, ToldOK, OrderToldOK, RequestToldOK, LastToldOK
  <2>2. \A f \in emitted : f.type \in {"Cancelled", "Amended"} =>
          journal'.requests[f.request] = journal.requests[f.request]
    <3>1. \A f \in emitted : f.type \in {"Cancelled", "Amended"} => f.request \in Key
      BY <1>0, FactType DEF TypeOK
    <3>2. QED BY <1>1, <1>2, <3>1
  <2>3. EffectToldOK'
    BY <2>2 DEF EvidenceInv, ToldOK, EffectToldOK
  <2>4. QED BY <2>1, <2>3 DEF ToldOK
<1>9. NoneOversold'
  BY RequestNoneOversold
<1>10. QED BY <1>3, <1>4, <1>5, <1>6, <1>7, <1>8, <1>9 DEF EvidenceInv

LEMMA CommandWellformed ==
  ASSUME NEW k \in Key, NEW c \in NewCommand(k) \cup ChangeCommand,
         CheckCommand(journal, c)
  PROVE  Wellformed(c)
<1>1. CASE c \in NewCommand(k)
  BY <1>1 DEF NewCommand, New, Wellformed
<1>2. CASE c \in ChangeCommand
  <2>1. /\ c.qty \in Int /\ c.qty # 0
        /\ c.kind = "Cancel" => c.qty > 0
        /\ c.kind = "Amend" /\ c.decision = "ACCEPTED" => ~(c.qty > 0)
    BY <1>2, QtyAssumption DEF ChangeCommand
  <2>2. QED BY <2>1 DEF Wellformed
<1>3. QED BY <1>1, <1>2

LEMMA AllocateEvidence ==
  ASSUME EvidenceInv, DispatchInv', NEW n \in Allocations, Allocate(n)
  PROVE  EvidenceInv'
<1> USE DEF boundVars, brokerVars
<1>0. TypeOK /\ journal \in Journal /\ IsFiniteSet(emitted) /\ emitted \subseteq Fact
  BY DEF EvidenceInv, DispatchInv, ToldOK, TypeOK
<1>1. /\ journal'.requests = journal.requests /\ journal'.facts = journal.facts
      /\ journal'.observed = journal.observed /\ journal'.allocated = n
      /\ UNCHANGED <<sending, worker, calls, book, emitted>>
  BY <1>0 DEF Allocate, AppendEntry, Journal
<1>2. Sells = {} /\ Buys = {}
  BY DEF Allocate, Sells, Buys, NewOrders
<1>3. Sells' = {} /\ Buys' = {}
  BY <1>1, <1>2, SameRequests
<1>4. NoneOversold'
  <2>1. SumFunction([k \in Sells |-> Potential(k)])' = 0
    BY <1>3, SumEmpty
  <2>2. Executed(Sells)' = 0 /\ Executed(Buys)' = 0
    <3>1. {f \in emitted' : f.type = "Fill" /\ f.order \in Sells'} = {}
          /\ {f \in emitted' : f.type = "Fill" /\ f.order \in Buys'} = {}
      BY <1>3
    <3>2. QED BY <3>1, QtyEmpty DEF Executed
  <2>3. n \in Int /\ n >= 0
    BY QtyAssumption
  <2>4. Max({0, n}) \in Int /\ Max({0, n}) >= 0
    BY <2>3, MaxZero
  <2>5. QED BY <1>1, <2>1, <2>2, <2>4 DEF NoneOversold, Held
<1>5. KnownIsTold' /\ RequestsOK' /\ ToldOK'
  BY <1>1, SameRequests DEF EvidenceInv, KnownIsTold, RequestsOK, ToldOK, OrderToldOK,
     EffectToldOK, RequestToldOK, LastToldOK
<1>6. BookOK'
  <2>1. \A k \in Key : Left(k)' = Left(k)
    BY <1>1 DEF Left, ToldOf
  <2>2. QED BY <1>1, <2>1, SameRequests DEF EvidenceInv, BookOK
<1>7. CallsOK'
  BY <1>1, SameRequests DEF EvidenceInv, CallsOK, Failed, Told
<1>8. WorkersOK'
  BY <1>1, SameRequests DEF EvidenceInv, WorkersOK
<1>9. QED BY <1>4, <1>5, <1>6, <1>7, <1>8 DEF EvidenceInv

LEMMA LedgerKeeps == EvidenceInv /\ LedgerNext /\ DispatchInv' => EvidenceInv'
<1> SUFFICES ASSUME EvidenceInv, LedgerNext, DispatchInv' PROVE EvidenceInv'
  OBVIOUS
<1>1. ASSUME NEW k \in Key, NEW c \in NewCommand(k) \cup ChangeCommand, Submit(k, c)
      PROVE  EvidenceInv'
  <2>1. c \in Request
    BY CommandType DEF EvidenceInv, DispatchInv
  <2>2. CheckCommand(journal, c) /\ MutexFree /\ journal.requests[k] = NoRequest
        /\ AppendRequest(k, c) /\ UNCHANGED <<sending, calls, book, emitted, worker>>
    BY <1>1 DEF Submit, Submittable, brokerVars
  <2>3. Wellformed(c)
    BY <2>2, CommandWellformed
  <2>4. QED BY <2>1, <2>2, <2>3, SubmitEvidence
<1>2. QED BY <1>1, AllocateEvidence, LedgerEvidence

-----------------------------------------------------------------------------
(* Session, dispatcher and threads *)

\* Journal and broker as they were, but for Transport facts.
Untold ==
  /\ journal'.requests = journal.requests /\ journal'.facts = journal.facts
  /\ journal'.allocated = journal.allocated
  /\ UNCHANGED <<book, emitted>>

LEMMA UntoldFrame ==
  ASSUME EvidenceInv, Untold
  PROVE  /\ Quiet /\ FailuresUnsent
         /\ KnownIsTold' /\ RequestsOK' /\ BookOK' /\ ToldOK' /\ NoneOversold'
         /\ NewOrders(journal') = NewOrders(journal) /\ Accepted(journal') = Accepted(journal)
         /\ \A k : Failed(journal', k) <=> Failed(journal, k)
<1>1. Quiet /\ FailuresUnsent /\ \A k : Failed(journal', k) <=> Failed(journal, k)
  BY DEF Untold, Quiet, FailuresUnsent, Failed, Told
<1>2. QED BY <1>1, QuietFrame, SameRequests DEF Untold

\* A step outside send that tells nothing.
LEMMA OutsideUntold ==
  ASSUME EvidenceInv, DispatchInv', Untold, MutexFree, UNCHANGED <<calls, sending>>,
         \A k \in Key : journal'.observed[k] = "NONE" => journal.observed[k] = "NONE",
         \A w \in Worker : worker'[w] = worker[w] \/ worker'[w].step \notin {"send", "ack"}
  PROVE  EvidenceInv'
BY UntoldFrame, OutsideFrame

LEMMA SessionEvidence == EvidenceInv /\ DispatchInv' /\ SessionNext => EvidenceInv'
<1> SUFFICES ASSUME EvidenceInv, DispatchInv', SessionNext PROVE EvidenceInv'
  OBVIOUS
<1> USE DEF ledgerVars, workVars, boundVars, brokerVars
<1>0. journal \in Journal
  BY DEF EvidenceInv, DispatchInv, TypeOK
<1>1. CASE Review
  BY <1>1, OutsideUntold DEF Review, Untold
<1>2. CASE Approve
  BY <1>2, OutsideUntold DEF Approve, Untold
<1>3. CASE Recover
  <2>1. Untold
    BY <1>0, <1>3 DEF Recover, AppendFacts, Untold, Journal
  <2>2. \A k \in Key : journal'.observed[k] = "NONE" => journal.observed[k] = "NONE"
    BY <1>0, <1>3 DEF Recover, AppendFacts, Journal
  <2>3. QED BY <1>3, <2>1, <2>2, OutsideUntold DEF Recover
<1>4. CASE Restart
  <2>1. Untold /\ sending' = NoKey /\ UNCHANGED <<calls, journal, book>>
    BY <1>4 DEF Restart, Untold
  <2>2. CallsOK'
    BY <2>1, UntoldFrame, NoKeyAssumption DEF EvidenceInv, CallsOK
  <2>3. \A w \in Worker : worker'[w].step = "idle"
    BY <1>4 DEF Restart, Idle
  <2>4. WorkersOK'
    BY <2>3 DEF WorkersOK
  <2>5. QED BY <2>1, <2>2, <2>4, UntoldFrame DEF EvidenceInv
<1>5. ASSUME NEW k \in Key, Expire(k) PROVE EvidenceInv'
  <2>1. UNCHANGED <<journal, sending, calls, worker, book, emitted>>
    BY <1>5 DEF Expire
  <2>2. Untold
    BY <2>1 DEF Untold
  <2>3. CallsOK' /\ WorkersOK'
    BY <2>1 DEF EvidenceInv, CallsOK, WorkersOK
  <2>4. QED BY <2>2, <2>3, UntoldFrame DEF EvidenceInv
<1>6. QED BY <1>1, <1>2, <1>3, <1>4, <1>5 DEF SessionNext

\* The claim is of an accepted request without a Transport fact, so no other
\* thread is between its send and its acknowledgement of it.
LEMMA ClaimEvidence ==
  ASSUME EvidenceInv, DispatchInv', MutexFree, NEW k \in Key, Claimable(k), Claim(k),
         \A w \in Worker :
           \/ worker'[w] = worker[w]
           \/ /\ worker[w].step = "send" /\ worker[w].key = k
              /\ worker'[w].step = "ack" /\ worker'[w].key = k
              /\ \A v \in Worker \ {w} : worker'[v] = worker[v]
  PROVE  EvidenceInv'
<1> USE DEF boundVars, brokerVars
<1>0. journal \in Journal /\ calls \in [Key -> Nat]
  BY DEF EvidenceInv, DispatchInv, TypeOK
<1>1. Untold /\ journal'.observed = [journal.observed EXCEPT ![k] = "SENDING"]
      /\ sending' = k /\ UNCHANGED calls
  BY <1>0 DEF Claim, AppendTransport, AppendFacts, Untold, Journal
<1>2. journal.observed[k] = "NONE" /\ ~Failed(journal, k) /\ k \in Accepted(journal)
  <2>1. Transport(journal, k) = "INTENT_PERSISTED" /\ k \in Accepted(journal)
    BY DEF Claimable
  <2>2. journal.observed[k] = "NONE"
    BY <1>0, <2>1, IntentHasNoTransport DEF Journal
  <2>3. ~Failed(journal, k)
    BY <2>1 DEF Transport
  <2>4. QED BY <2>1, <2>2, <2>3
<1>3. calls[k] = 0 /\ book[k].state = "NONE"
  <2>1. calls[k] = 0
    BY <1>0, <1>2 DEF EvidenceInv, DispatchInv, ClaimedBeforeCall
  <2>2. QED BY <2>1, BookType DEF EvidenceInv, DispatchInv, CallsOK
<1>4. CallsOK'
  BY <1>1, <1>2, UntoldFrame DEF EvidenceInv, CallsOK, Untold
<1>5. WorkersOK'
  <2>1. \A w \in Worker : worker[w].step = "ack" =>
          worker[w].key # k /\ worker'[w] = worker[w] /\ calls[worker[w].key] > 0
    <3>1. \A w \in Worker : worker[w].step = "ack" => worker[w].key \in Key
      BY DEF EvidenceInv, WorkersOK, NewOrders, Submitted
    <3>2. \A w \in Worker : worker[w].step = "ack" => worker[w].key # k
      BY <1>2 DEF EvidenceInv, WorkersOK
    <3>3. \A w \in Worker : worker[w].step = "ack" => calls[worker[w].key] > 0
      BY <3>1, NoKeyAssumption DEF EvidenceInv, WorkersOK, MutexFree
    <3>4. \A w \in Worker : worker[w].step = "ack" => worker'[w] = worker[w]
      OBVIOUS
    <3>5. QED BY <3>2, <3>3, <3>4
  <2>2. ASSUME NEW w \in Worker, worker'[w].step \in {"send", "ack"}
        PROVE  worker'[w].key \in NewOrders(journal')
    BY <2>2, UntoldFrame, <1>1 DEF EvidenceInv, WorkersOK
  <2>3. ASSUME NEW w \in Worker, worker'[w].step = "ack"
        PROVE  /\ journal'.observed[worker'[w].key] # "NONE"
               /\ sending' = worker'[w].key \/ calls'[worker'[w].key] > 0
               /\ book'[worker'[w].key].state = "NONE"
    <3>1. CASE worker'[w] = worker[w]
      <4>1. worker[w].key \in Key
        BY <2>3, <3>1 DEF EvidenceInv, WorkersOK, NewOrders, Submitted
      <4>2. QED BY <1>0, <1>1, <2>1, <2>3, <3>1, <4>1 DEF EvidenceInv, WorkersOK, Untold, Journal
    <3>2. CASE worker'[w].key = k
      BY <1>0, <1>1, <1>3, <3>2 DEF Untold, Journal
    <3>3. QED BY <3>1, <3>2
  <2>4. ASSUME NEW v \in Worker, NEW w \in Worker, worker'[v].step = "ack",
               worker'[w].step = "ack", worker'[v].key = worker'[w].key, v # w
        PROVE  FALSE
    BY <2>1, <2>4 DEF EvidenceInv, WorkersOK
  <2>5. QED BY <2>2, <2>3, <2>4 DEF WorkersOK
<1>6. QED BY <1>1, <1>4, <1>5, UntoldFrame DEF EvidenceInv

LEMMA DispatchEvidence == EvidenceInv /\ DispatchInv' /\ DispatchNext => EvidenceInv'
<1> SUFFICES ASSUME EvidenceInv, DispatchInv', DispatchNext PROVE EvidenceInv'
  OBVIOUS
<1> USE DEF ledgerVars, workVars, boundVars, brokerVars
<1>0. journal \in Journal /\ calls \in [Key -> Nat] /\ sending \in Key \cup {NoKey}
  BY DEF EvidenceInv, DispatchInv, TypeOK
<1>1. ASSUME NEW k \in Key, Send(k) PROVE EvidenceInv'
  BY <1>1, ClaimEvidence DEF Send
<1>2. CASE Call
  <2>1. Untold /\ sending \in Key /\ calls' = [calls EXCEPT ![sending] = @ + 1]
        /\ UNCHANGED <<journal, sending, worker, book>>
    BY <1>0, <1>2 DEF Call, Untold
  <2>2. \A k \in Key : /\ calls'[k] > 0 => calls[k] > 0 \/ k = sending
                       /\ calls[k] > 0 => calls'[k] > 0
                       /\ calls[k] = 0 /\ sending # k => calls'[k] = 0
    BY <1>0, <2>1
  <2>3. CallsOK'
    BY <2>1, <2>2, NoKeyAssumption DEF EvidenceInv, CallsOK
  <2>4. \A w \in Worker : worker[w].step \in {"send", "ack"} => worker[w].key \in Key
    BY DEF EvidenceInv, WorkersOK, NewOrders, Submitted
  <2>5. WorkersOK'
    BY <2>1, <2>2, <2>4 DEF EvidenceInv, WorkersOK
  <2>6. QED BY <2>1, <2>3, <2>5, UntoldFrame DEF EvidenceInv
<1>3. CASE RecordSent
  <2>1. /\ Untold /\ sending \in Key /\ sending' = NoKey /\ UNCHANGED <<calls, worker>>
        /\ journal'.observed = [journal.observed EXCEPT ![sending] = "SENT"]
        /\ calls[sending] > 0
    BY <1>0, <1>3 DEF RecordSent, AppendTransport, AppendFacts, Untold, Journal, EvidenceInv,
       DispatchInv, ClaimedBeforeCall
  <2>2. CallsOK'
    BY <2>1, UntoldFrame, NoKeyAssumption DEF EvidenceInv, CallsOK, Untold
  <2>3. \A w \in Worker : worker[w].step \in {"send", "ack"} => worker[w].key \in Key
    BY DEF EvidenceInv, WorkersOK, NewOrders, Submitted
  <2>4. \A k \in Key : journal'.observed[k] = "NONE" => journal.observed[k] = "NONE"
    BY <1>0, <2>1 DEF Journal
  <2>5. WorkersOK'
    BY <2>1, <2>3, <2>4, UntoldFrame DEF EvidenceInv, WorkersOK, Untold
  <2>6. QED BY <2>1, <2>2, <2>5, UntoldFrame DEF EvidenceInv
<1>4. CASE SentNotRecorded
  <2>1. /\ Untold /\ sending \in Key /\ sending' = NoKey /\ UNCHANGED <<calls, journal, book>>
        /\ \A w \in Worker : worker'[w] = worker[w] \/ worker'[w] = Idle
        /\ calls[sending] > 0
    BY <1>0, <1>4 DEF SentNotRecorded, Untold, EvidenceInv, DispatchInv, ClaimedBeforeCall
  <2>2. CallsOK'
    BY <2>1, UntoldFrame, NoKeyAssumption DEF EvidenceInv, CallsOK, Untold
  <2>3. \A w \in Worker : worker'[w].step \in {"send", "ack"} => worker'[w] = worker[w]
    BY <2>1 DEF Idle
  <2>4. WorkersOK'
    BY <2>1, <2>3 DEF EvidenceInv, WorkersOK
  <2>5. QED BY <2>1, <2>2, <2>4, UntoldFrame DEF EvidenceInv
<1>5. QED BY <1>1, <1>2, <1>3, <1>4 DEF DispatchNext

-----------------------------------------------------------------------------
(* The broker opens, rejects, fills and changes *)

\* What the account holds changes with fills only.
LEMMA HeldKept ==
  ASSUME journal'.requests = journal.requests, journal'.allocated = journal.allocated,
         \A f \in emitted : f \in emitted',
         \A f \in emitted' : f.type = "Fill" => f \in emitted
  PROVE  Held' = Held
<1>1. Sells' = Sells /\ Buys' = Buys
  BY SameRequests
<1>2. /\ {f \in emitted' : f.type = "Fill" /\ f.order \in Sells'} =
           {f \in emitted : f.type = "Fill" /\ f.order \in Sells}
      /\ {f \in emitted' : f.type = "Fill" /\ f.order \in Buys'} =
           {f \in emitted : f.type = "Fill" /\ f.order \in Buys}
  BY <1>1
<1>3. Executed(Sells)' = Executed(Sells) /\ Executed(Buys)' = Executed(Buys)
  BY <1>2 DEF Executed
<1>4. QED BY <1>3 DEF Held

LEMMA LessPotential ==
  ASSUME EvidenceInv, journal'.requests = journal.requests, Held' >= Held, Held' \in Int,
         \A k \in Sells : Potential(k)' \in Int /\ Potential(k)' <= Potential(k)
  PROVE  NoneOversold'
<1> DEFINE p == [k \in Sells |-> Potential(k)]
           q == [k \in Sells |-> Potential(k)']
<1>1. \A k \in Sells : Potential(k) \in Int
  BY PotentialType
<1>2. p \in [Sells -> Int] /\ q \in [Sells -> Int] /\ \A k \in Sells : q[k] <= p[k]
  BY <1>1
<1>3. IsFiniteSet(Sells) /\ Held \in Int /\ SumFunction(p) <= Held
  BY SellsFinite, HeldType DEF EvidenceInv, DispatchInv, ToldOK, NoneOversold
<1>4. SumFunction([k \in Sells |-> Potential(k)])' = SumFunction(q)
  BY SameRequests
<1> HIDE DEF p, q
<1>5. SumFunction(q) <= SumFunction(p) /\ SumFunction(q) \in Int /\ SumFunction(p) \in Int
  BY <1>2, <1>3, SumMonotone, SumType
<1>6. QED BY <1>3, <1>4, <1>5 DEF NoneOversold

LEMMA OpenEvidence ==
  ASSUME EvidenceInv, DispatchInv', NEW k \in NewOrders(journal), book[k].state = "NONE",
         calls[k] > 0, book' = [book EXCEPT ![k] = Opened(k)],
         emitted' = emitted \cup {Told1("Ack", k)},
         journal'.requests = journal.requests, journal'.allocated = journal.allocated,
         journal'.observed = journal.observed,
         \A f \in journal.facts : f \in journal'.facts,
         \A f \in journal'.facts : f \in journal.facts \/ f = Told1("Ack", k),
         UNCHANGED <<calls, sending>>,
         \A w \in Worker : worker'[w].step \in {"send", "ack"} =>
           worker'[w] = worker[w] /\ (worker[w].step = "ack" => worker[w].key # k)
  PROVE  EvidenceInv'
<1> DEFINE e == Told1("Ack", k)
<1>0. TypeOK /\ IsFiniteSet(emitted) /\ k \in Key /\ k \in Submitted(journal)
      /\ book \in [Key -> [state : {"NONE", "LIVE", "REJECTED", "DONE"},
                           remaining : Int, ver : Nat]]
  BY DEF EvidenceInv, DispatchInv, ToldOK, NewOrders, Submitted, TypeOK
<1>1. journal.requests[k].qty \in Nat /\ journal.requests[k].qty > 0
  BY <1>0, RequestFields
<1>2. e.type = "Ack" /\ e.request = k
  BY DEF Told1
<1>3. /\ book'[k].state = "LIVE" /\ book'[k].remaining = journal.requests[k].qty
      /\ \A i \in Key \ {k} : book'[i] = book[i]
  BY <1>0 DEF Opened
<1>4. /\ Submitted(journal') = Submitted(journal) /\ NewOrders(journal') = NewOrders(journal)
      /\ Changes(journal') = Changes(journal) /\ Accepted(journal') = Accepted(journal)
      /\ Sells' = Sells
  BY SameRequests
<1>5. \A f \in emitted : f.type \in OrderEvidence => f.order \in Key \ {k}
  <2>1. \A f \in emitted : f.type \in OrderEvidence => f.order \in Key
    BY <1>0, FactType DEF TypeOK
  <2>2. QED BY <2>1 DEF EvidenceInv, ToldOK, OrderToldOK
<1>6. KnownIsTold'
  BY DEF EvidenceInv, KnownIsTold
<1>7. \A i : Failed(journal', i) => Failed(journal, i)
  BY <1>2 DEF Failed, Told
<1>8. CallsOK'
  <2>1. \A i \in Key : book'[i].state # "NONE" => calls'[i] > 0
    BY <1>3 DEF EvidenceInv, CallsOK
  <2>2. QED BY <1>4, <1>7, <2>1 DEF EvidenceInv, CallsOK
<1>9. RequestsOK'
  BY <1>4 DEF EvidenceInv, RequestsOK
<1>10. WorkersOK'
  <2>1. \A w \in Worker : worker'[w].step = "ack" =>
          worker[w].key \in Key \ {k} /\ worker[w].step = "ack" /\ worker'[w] = worker[w]
    BY DEF EvidenceInv, WorkersOK, NewOrders, Submitted
  <2>2. \A w \in Worker : worker'[w].step \in {"send", "ack"} =>
          worker'[w].key \in NewOrders(journal')
    BY <1>4 DEF EvidenceInv, WorkersOK
  <2>3. \A w \in Worker : worker'[w].step = "ack" =>
          /\ journal'.observed[worker'[w].key] # "NONE"
          /\ sending' = worker'[w].key \/ calls'[worker'[w].key] > 0
          /\ book'[worker'[w].key].state = "NONE"
    BY <1>3, <2>1 DEF EvidenceInv, WorkersOK
  <2>4. QED BY <2>1, <2>2, <2>3 DEF EvidenceInv, WorkersOK
<1>11. \A type \in OrderEvidence, i \in Key : ToldOf(type, i)' = ToldOf(type, i)
  BY <1>2 DEF ToldOf, OrderEvidence
<1>12. BookOK'
  <2>1. \A i \in Key : Left(i)' = Left(i)
    BY <1>11 DEF Left, OrderEvidence
  <2>2. Left(k) = journal.requests[k].qty
    <3>1. \A type \in OrderEvidence : ToldOf(type, k) = {}
      BY <1>0, NothingTold
    <3>2. /\ SumQty(ToldOf("Amended", k)) = 0 /\ SumQty(ToldOf("Fill", k)) = 0
          /\ SumQty(ToldOf("Cancelled", k)) = 0
      BY <3>1, QtyEmpty DEF OrderEvidence
    <3>3. QED BY ONLY <1>1, <3>2 DEF Left
  <2>3. ASSUME NEW i \in Key
        PROVE  /\ book'[i].state = "NONE" => book'[i] = NotHandled
               /\ book'[i].state = "LIVE" =>
                    /\ i \in NewOrders(journal')
                    /\ book'[i].remaining = Left(i)' /\ book'[i].remaining >= 0
                    /\ Told1("Ack", i) \in emitted'
               /\ book'[i].state = "DONE" => i \in Changes(journal')
               /\ book'[i].state = "REJECTED" => Told1("Rejected", i) \in emitted'
               /\ book'[i].state \in {"REJECTED", "DONE"} => book'[i].remaining = 0
    <3>1. CASE i = k
      BY <1>1, <1>3, <1>4, <2>1, <2>2, <3>1
    <3>2. CASE i # k
      BY <1>3, <1>4, <2>1, <3>2 DEF EvidenceInv, BookOK
    <3>3. QED BY <3>1, <3>2
  <2>4. QED BY <2>3 DEF BookOK
<1>13. ToldOK'
  <2>1. IsFiniteSet(emitted')
    BY <1>0, FS_AddElement
  <2>2. OrderToldOK'
    BY <1>2, <1>3, <1>5 DEF EvidenceInv, ToldOK, OrderToldOK, OrderEvidence
  <2>3. \A f \in emitted : f.type \in {"Cancelled", "Amended"} \cup RequestEvidence =>
          f.request \in Key \ {k}
    <3>1. \A f \in emitted : f.type \in {"Cancelled", "Amended"} \cup RequestEvidence =>
            f.request \in Key
      BY <1>0, FactType DEF TypeOK
    <3>2. QED BY <3>1 DEF EvidenceInv, ToldOK, EffectToldOK, RequestToldOK, RequestEvidence
  <2>4. EffectToldOK'
    BY <1>2, <1>3, <2>3 DEF EvidenceInv, ToldOK, EffectToldOK
  <2>5. RequestToldOK'
    BY <1>2, <1>3, <2>3 DEF EvidenceInv, ToldOK, RequestToldOK, RequestEvidence
  <2>6. LastToldOK'
    BY <1>2, <1>3, <1>5 DEF EvidenceInv, ToldOK, LastToldOK, OrderEvidence
  <2>7. QED BY <2>1, <2>2, <2>4, <2>5, <2>6 DEF ToldOK
<1>14. NoneOversold'
  <2>1. Held' = Held /\ Held \in Int
    <3>1. \A f \in emitted' : f.type = "Fill" => f \in emitted
      BY <1>2
    <3>2. QED BY <1>0, <3>1, HeldKept, HeldType
  <2>2. ASSUME NEW i \in Sells PROVE Potential(i)' \in Int /\ Potential(i)' <= Potential(i)
    <3>0. i \in Key /\ Potential(i) \in Int /\ Potential(i) >= 0
      BY PotentialType DEF Sells, NewOrders, Submitted
    <3>1. CASE Failed(journal', i)
      BY <3>0, <3>1 DEF Potential
    <3>2. CASE ~Failed(journal', i) /\ i = k
      <4>1. ~Failed(journal, k)
        BY <1>0 DEF EvidenceInv, CallsOK
      <4>2. QED BY <1>1, <1>3, <3>2, <4>1 DEF Potential
    <3>3. CASE ~Failed(journal', i) /\ i # k
      <4>1. ~Failed(journal, i)
        <5>1. \A f \in journal.facts : f.type = "SendFailed" => f \in journal'.facts
          OBVIOUS
        <5>2. QED BY <3>3, <5>1 DEF Failed, Told
      <4>2. QED BY <1>3, <3>0, <3>3, <4>1 DEF Potential
    <3>4. QED BY <3>1, <3>2, <3>3
  <2>3. QED BY <2>1, <2>2, LessPotential
<1>15. QED BY <1>6, <1>8, <1>9, <1>10, <1>12, <1>13, <1>14 DEF EvidenceInv

\* What every step of the broker but an opening leaves alone: an order's state
\* changes once, after a call, and not while a thread is about to acknowledge it.
LEMMA BrokerFrame ==
  ASSUME EvidenceInv, UNCHANGED <<ledgerVars, workVars, calls>>,
         \A f \in emitted : f \in emitted',
         \A i \in Key : \/ book'[i].state = book[i].state
                        \/ book[i].state = "NONE" /\ calls[i] > 0 /\ ~SelfAcknowledged(i)
  PROVE  KnownIsTold' /\ RequestsOK' /\ CallsOK' /\ WorkersOK'
<1> USE DEF ledgerVars, workVars
<1>1. KnownIsTold' /\ RequestsOK'
  BY DEF EvidenceInv, KnownIsTold, RequestsOK
<1>2. CallsOK'
  BY DEF EvidenceInv, CallsOK
<1>3. WorkersOK'
  <2>1. \A w \in Worker : worker[w].step = "ack" =>
          worker[w].key \in Key /\ book[worker[w].key].state = "NONE"
          /\ SelfAcknowledged(worker[w].key)
    BY DEF EvidenceInv, WorkersOK, NewOrders, Submitted, SelfAcknowledged
  <2>2. \A w \in Worker : worker[w].step = "ack" => book'[worker[w].key].state = "NONE"
    BY <2>1
  <2>3. QED BY <2>2 DEF EvidenceInv, WorkersOK
<1>4. QED BY <1>1, <1>2, <1>3

\* The broker settles request k without touching the quantity of an order.
LEMMA SettleEvidence ==
  ASSUME EvidenceInv, DispatchInv', UNCHANGED <<ledgerVars, workVars, calls>>,
         NEW k \in Key, Waiting(k), ~SelfAcknowledged(k),
         NEW s \in {"REJECTED", "DONE"}, s = "DONE" => k \in Changes(journal),
         book' = [book EXCEPT ![k].state = s],
         s = "REJECTED" => Told1("Rejected", k) \in emitted',
         NEW E, IsFiniteSet(E), emitted' = emitted \cup E,
         \A f \in E : /\ f.request = k
                      /\ IF s = "DONE" THEN f.type \in {"Ack", "EffectRejected"}
                                       ELSE f.type = "Rejected"
  PROVE  EvidenceInv'
<1> USE DEF ledgerVars, workVars
<1>0. TypeOK /\ IsFiniteSet(emitted)
      /\ book \in [Key -> [state : {"NONE", "LIVE", "REJECTED", "DONE"},
                           remaining : Int, ver : Nat]]
  BY DEF EvidenceInv, DispatchInv, ToldOK, TypeOK
<1>1. calls[k] > 0 /\ book[k].state = "NONE" /\ book[k].remaining = 0
  BY DEF Waiting, NotHandled
<1>2. /\ book'[k].state = s /\ book'[k].remaining = 0
      /\ \A i \in Key \ {k} : book'[i] = book[i]
  BY <1>0, <1>1
<1>3. KnownIsTold' /\ RequestsOK' /\ CallsOK' /\ WorkersOK'
  BY <1>1, <1>2, BrokerFrame
<1>4. \A f \in E : f.type \notin OrderEvidence /\ f.type \in RequestEvidence
                   /\ f.type \notin {"Cancelled", "Amended", "Fill"}
  BY DEF OrderEvidence, RequestEvidence
<1>5. \A f \in emitted :
        /\ f.type \in OrderEvidence => f.order \in Key \ {k}
        /\ f.type \in {"Cancelled", "Amended"} \cup RequestEvidence => f.request \in Key \ {k}
  <2>1. \A f \in emitted :
          /\ f.type \in OrderEvidence => f.order \in Key
          /\ f.type \in {"Cancelled", "Amended"} \cup RequestEvidence => f.request \in Key
    BY <1>0, FactType DEF TypeOK
  <2>2. QED BY <1>1, <2>1 DEF EvidenceInv, ToldOK, OrderToldOK, EffectToldOK, RequestToldOK,
        RequestEvidence
<1>6. BookOK'
  <2>1. \A type \in OrderEvidence, i \in Key : ToldOf(type, i)' = ToldOf(type, i)
    BY <1>4 DEF ToldOf
  <2>2. \A i \in Key : Left(i)' = Left(i)
    BY <2>1 DEF Left, OrderEvidence
  <2>3. ASSUME NEW i \in Key
        PROVE  /\ book'[i].state = "NONE" => book'[i] = NotHandled
               /\ book'[i].state = "LIVE" =>
                    /\ i \in NewOrders(journal')
                    /\ book'[i].remaining = Left(i)' /\ book'[i].remaining >= 0
                    /\ Told1("Ack", i) \in emitted'
               /\ book'[i].state = "DONE" => i \in Changes(journal')
               /\ book'[i].state = "REJECTED" => Told1("Rejected", i) \in emitted'
               /\ book'[i].state \in {"REJECTED", "DONE"} => book'[i].remaining = 0
    <3>1. CASE i = k
      BY <1>2, <3>1
    <3>2. CASE i # k
      BY <1>2, <2>2, <3>2 DEF EvidenceInv, BookOK
    <3>3. QED BY <3>1, <3>2
  <2>4. QED BY <2>3 DEF BookOK
<1>7. ToldOK'
  <2>1. IsFiniteSet(emitted')
    BY <1>0, FS_Union
  <2>2. OrderToldOK'
    BY <1>2, <1>4, <1>5 DEF EvidenceInv, ToldOK, OrderToldOK
  <2>3. EffectToldOK'
    BY <1>2, <1>4, <1>5 DEF EvidenceInv, ToldOK, EffectToldOK
  <2>4. RequestToldOK'
    BY <1>2, <1>4, <1>5 DEF EvidenceInv, ToldOK, RequestToldOK, RequestEvidence
  <2>5. LastToldOK'
    BY <1>2, <1>4, <1>5 DEF EvidenceInv, ToldOK, LastToldOK
  <2>6. QED BY <2>1, <2>2, <2>3, <2>4, <2>5 DEF ToldOK
<1>8. NoneOversold'
  <2>1. Held' = Held /\ Held \in Int
    <3>1. \A f \in emitted' : f.type = "Fill" => f \in emitted
      BY <1>4
    <3>2. QED BY <1>0, <3>1, HeldKept, HeldType
  <2>2. ASSUME NEW i \in Sells PROVE Potential(i)' \in Int /\ Potential(i)' <= Potential(i)
    <3>0. i \in Key /\ Potential(i) \in Int /\ Potential(i) >= 0
      BY PotentialType DEF Sells, NewOrders, Submitted
    <3>1. CASE i = k
      BY <1>2, <3>0, <3>1 DEF Potential
    <3>2. CASE i # k
      BY <1>2, <3>0, <3>2 DEF Potential
    <3>3. QED BY <3>1, <3>2
  <2>3. QED BY <2>1, <2>2, LessPotential
<1>9. QED BY <1>3, <1>6, <1>7, <1>8 DEF EvidenceInv

\* New evidence e of order t: the next version, and d less than was left.
LEMMA OrderTold ==
  ASSUME EvidenceInv, UNCHANGED journal, NEW t \in Key, book[t].state = "LIVE",
         NEW d \in Int, d > 0, d <= book[t].remaining,
         NEW e, e.type \in OrderEvidence, e.order = t, e.ver = book[t].ver + 1,
         e.remaining = book[t].remaining - d,
         e.qty = IF e.type = "Amended" THEN -d ELSE d,
         e \in emitted', \A f \in emitted : f \in emitted',
         \A f \in emitted' : f \in emitted \/ f = e \/ f.type \notin OrderEvidence,
         book'[t].state = "LIVE", book'[t].remaining = e.remaining, book'[t].ver = e.ver,
         \A i \in Key \ {t} :
           book[i].state = "LIVE" \/ book'[i].state = "LIVE" => book'[i] = book[i]
  PROVE  /\ e \notin emitted /\ OrderToldOK' /\ LastToldOK'
         /\ Left(t)' = Left(t) - d
         /\ \A i \in Key \ {t} : Left(i)' = Left(i)
<1>0. TypeOK /\ IsFiniteSet(emitted) /\ OrderToldOK /\ emitted \subseteq Fact
  BY DEF EvidenceInv, DispatchInv, ToldOK, TypeOK
<1>1. book[t].remaining \in Int /\ book[t].ver \in Nat
  BY <1>0, BookType
<1>2. \A f \in emitted : f.type \in OrderEvidence =>
        f.order \in Key /\ f.ver \in Nat /\ f.remaining \in Int
  BY <1>0, FactType
<1>3. \A f \in emitted : f.type \in OrderEvidence /\ f.order = t =>
        f.ver < e.ver /\ f.remaining > 0
  <2>1. ASSUME NEW f \in emitted, f.type \in OrderEvidence, f.order = t
        PROVE  f.ver < e.ver /\ f.remaining > 0
    <3>1. /\ f.ver <= book[t].ver
          /\ f.ver = book[t].ver => f.remaining = book[t].remaining
          /\ f.ver # book[t].ver => f.remaining > 0
      BY <1>0, <2>1 DEF OrderToldOK
    <3>2. QED BY <1>1, <1>2, <2>1, <3>1
  <2>2. QED BY <2>1
<1>4. e \notin emitted
  BY <1>1, <1>3
<1>5. OrderToldOK'
  <2>1. ASSUME NEW f \in emitted', f.type \in OrderEvidence
        PROVE  /\ book'[f.order].state = "LIVE"
               /\ f.ver <= book'[f.order].ver /\ f.remaining >= 0
               /\ f.ver = book'[f.order].ver => f.remaining = book'[f.order].remaining
               /\ f.ver # book'[f.order].ver => f.remaining > 0
               /\ \A g \in emitted' :
                    g.type \in OrderEvidence /\ g.order = f.order /\ g.ver = f.ver => g = f
    <3>1. CASE f = e
      BY <1>1, <1>3, <3>1
    <3>2. CASE f \in emitted /\ f.order = t
      <4>1. \A g \in emitted : g.type \in OrderEvidence /\ g.order = f.order /\ g.ver = f.ver
              => g = f
        BY <1>0, <2>1, <3>2 DEF OrderToldOK
      <4>2. /\ f.ver < e.ver /\ f.remaining > 0
            /\ f.ver \in Int /\ e.ver \in Int /\ f.remaining \in Int
        BY <1>1, <1>2, <1>3, <2>1, <3>2
      <4>3. \A g \in emitted' : g.type \in OrderEvidence /\ g.order = f.order /\ g.ver = f.ver
              => g = f
        BY <4>1, <4>2
      <4>4. book'[f.order].ver = e.ver /\ book'[f.order].state = "LIVE"
        BY <3>2
      <4>5. f.ver <= book'[f.order].ver /\ f.ver # book'[f.order].ver /\ f.remaining >= 0
        BY <4>2, <4>4
      <4>6. QED BY <4>2, <4>3, <4>4, <4>5
    <3>3. CASE f \in emitted /\ f.order # t
      <4>1. f.order \in Key \ {t} /\ book[f.order].state = "LIVE"
        BY <1>0, <1>2, <2>1, <3>3 DEF OrderToldOK
      <4>2. book'[f.order] = book[f.order]
        BY <4>1
      <4>3. QED BY <1>0, <2>1, <3>3, <4>1, <4>2 DEF OrderToldOK
    <3>4. QED BY <2>1, <3>1, <3>2, <3>3
  <2>2. QED BY <2>1 DEF OrderToldOK
<1>6. ASSUME NEW type \in OrderEvidence, NEW i \in Key
      PROVE  ToldOf(type, i)' =
               IF type = e.type /\ i = t THEN ToldOf(type, i) \cup {e} ELSE ToldOf(type, i)
  BY DEF ToldOf
<1>7. \A i \in Key \ {t} : Left(i)' = Left(i)
  BY <1>6 DEF Left, OrderEvidence
<1>8. Left(t)' = Left(t) - d
  <2>1. ASSUME NEW type \in OrderEvidence
        PROVE  SumQty(ToldOf(type, t)) \in Int /\
               SumQty(ToldOf(type, t))' =
                 IF type = e.type THEN SumQty(ToldOf(type, t)) + e.qty
                                  ELSE SumQty(ToldOf(type, t))
    <3>1. IsFiniteSet(ToldOf(type, t)) /\ (\A f \in ToldOf(type, t) : f.qty \in Int)
          /\ SumQty(ToldOf(type, t)) \in Int
      BY <1>0, ToldType
    <3>2. e \notin ToldOf(type, t) /\ e.qty \in Int
      BY <1>4 DEF ToldOf
    <3>3. SumQty(ToldOf(type, t) \cup {e}) = SumQty(ToldOf(type, t)) + e.qty
      BY <3>1, <3>2, QtyAdd
    <3>4. SumQty(ToldOf(type, t))' = SumQty(ToldOf(type, t)')
      BY DEF SumQty
    <3>5. QED BY <1>6, <3>1, <3>3, <3>4
  <2>2. journal.requests[t].qty \in Int
    <3>1. t \in NewOrders(journal)
      BY DEF EvidenceInv, BookOK
    <3>2. QED BY <1>0, <3>1, RequestFields DEF NewOrders
  <2> DEFINE q == journal.requests[t].qty
             A == SumQty(ToldOf("Amended", t))
             F == SumQty(ToldOf("Fill", t))
             C == SumQty(ToldOf("Cancelled", t))
  <2>3. Left(t) = q + A - F - C /\ Left(t)' = q + A' - F' - C'
    BY DEF Left
  <2>4. /\ A \in Int /\ F \in Int /\ C \in Int
        /\ A' = IF e.type = "Amended" THEN A + e.qty ELSE A
        /\ F' = IF e.type = "Fill" THEN F + e.qty ELSE F
        /\ C' = IF e.type = "Cancelled" THEN C + e.qty ELSE C
    BY <2>1 DEF OrderEvidence
  <2>5. e.type \in {"Fill", "Cancelled", "Amended"}
    BY DEF OrderEvidence
  <2> HIDE DEF q, A, F, C
  <2>6. CASE e.type = "Amended"
    BY <2>2, <2>3, <2>4, <2>6 DEF q
  <2>7. CASE e.type # "Amended"
    BY <2>2, <2>3, <2>4, <2>5, <2>7 DEF q
  <2>8. QED BY <2>6, <2>7
<1>9. LastToldOK'
  <2>1. ASSUME NEW f \in emitted', f.type \in OrderEvidence
        PROVE  \E g \in emitted' :
                 g.type \in OrderEvidence /\ g.order = f.order /\ g.ver = book'[f.order].ver
    <3>1. CASE f.order = t
      BY <3>1
    <3>2. CASE f.order # t
      <4>1. f \in emitted /\ f.order \in Key \ {t} /\ book[f.order].state = "LIVE"
        BY <1>0, <1>2, <2>1, <3>2 DEF OrderToldOK
      <4>2. book'[f.order] = book[f.order]
        BY <4>1
      <4>3. PICK g \in emitted :
              g.type \in OrderEvidence /\ g.order = f.order /\ g.ver = book[f.order].ver
        BY <2>1, <4>1 DEF EvidenceInv, ToldOK, LastToldOK
      <4>4. QED BY <4>2, <4>3
    <3>3. QED BY <3>1, <3>2
  <2>2. QED BY <2>1 DEF LastToldOK
<1>10. QED BY <1>4, <1>5, <1>7, <1>8, <1>9

LEMMA FillEvidence ==
  ASSUME EvidenceInv, DispatchInv', NEW k \in Key, NEW n \in Qty, BrokerFill(k, n)
  PROVE  EvidenceInv'
<1> USE DEF ledgerVars, workVars, boundVars
<1> DEFINE left == book[k].remaining - n
           e == [type |-> "Fill", order |-> k, qty |-> n, remaining |-> left,
                 ver |-> book[k].ver + 1]
<1>0. TypeOK /\ IsFiniteSet(emitted) /\ emitted \subseteq Fact
      /\ book \in [Key -> [state : {"NONE", "LIVE", "REJECTED", "DONE"},
                           remaining : Int, ver : Nat]]
  BY DEF EvidenceInv, DispatchInv, ToldOK, TypeOK
<1>1. /\ book[k].state = "LIVE" /\ n <= book[k].remaining
      /\ book' = [book EXCEPT ![k].remaining = left, ![k].ver = book[k].ver + 1]
      /\ emitted' = emitted \cup {e}
      /\ UNCHANGED <<ledgerVars, workVars, calls>>
  BY DEF BrokerFill
<1>2. /\ n \in Int /\ n > 0
      /\ book'[k].state = "LIVE" /\ book'[k].remaining = left /\ book'[k].ver = e.ver
      /\ \A i \in Key \ {k} : book'[i] = book[i]
      /\ book[k].remaining \in Int /\ left \in Int /\ left >= 0
  BY <1>0, <1>1, QtyAssumption
<1>3. e.type = "Fill" /\ e.order = k /\ e.qty = n /\ e.remaining = left
      /\ e.ver = book[k].ver + 1
  OBVIOUS
<1> HIDE DEF e, left
<1>4. KnownIsTold' /\ RequestsOK' /\ CallsOK' /\ WorkersOK'
  BY <1>1, <1>2, BrokerFrame
<1>5. /\ e \notin emitted /\ OrderToldOK' /\ LastToldOK' /\ Left(k)' = Left(k) - n
      /\ \A i \in Key \ {k} : Left(i)' = Left(i)
  <2>1. /\ e.type \in OrderEvidence /\ e.type # "Amended"
        /\ e.remaining = book[k].remaining - n
    BY <1>3 DEF OrderEvidence, left
  <2>2. UNCHANGED journal
    BY <1>1
  <2>3. e.order = k /\ e.ver = book[k].ver + 1 /\ e.qty = IF e.type = "Amended" THEN -n ELSE n
    BY <1>3, <2>1
  <2>4. /\ e \in emitted' /\ \A f \in emitted : f \in emitted'
        /\ \A f \in emitted' : f \in emitted \/ f = e \/ f.type \notin OrderEvidence
    BY <1>1
  <2>5. /\ book'[k].remaining = e.remaining
        /\ \A i \in Key \ {k} :
             book[i].state = "LIVE" \/ book'[i].state = "LIVE" => book'[i] = book[i]
    BY <1>2, <1>3
  <2>6. n \in Int /\ n > 0 /\ n <= book[k].remaining /\ book[k].state = "LIVE"
        /\ book'[k].state = "LIVE" /\ book'[k].ver = e.ver
    BY <1>1, <1>2
  <2>7. QED
    BY ONLY EvidenceInv, k \in Key, <2>1, <2>2, <2>3, <2>4, <2>5, <2>6, OrderTold
<1>6. BookOK'
  <2>1. ASSUME NEW i \in Key
        PROVE  /\ book'[i].state = "NONE" => book'[i] = NotHandled
               /\ book'[i].state = "LIVE" =>
                    /\ i \in NewOrders(journal')
                    /\ book'[i].remaining = Left(i)' /\ book'[i].remaining >= 0
                    /\ Told1("Ack", i) \in emitted'
               /\ book'[i].state = "DONE" => i \in Changes(journal')
               /\ book'[i].state = "REJECTED" => Told1("Rejected", i) \in emitted'
               /\ book'[i].state \in {"REJECTED", "DONE"} => book'[i].remaining = 0
    <3>1. CASE i = k
      BY <1>1, <1>2, <1>5, <3>1 DEF EvidenceInv, BookOK, left
    <3>2. CASE i # k
      BY <1>1, <1>2, <1>5, <3>2 DEF EvidenceInv, BookOK
    <3>3. QED BY <3>1, <3>2
  <2>2. QED BY <2>1 DEF BookOK
<1>7. ToldOK'
  <2>1. IsFiniteSet(emitted')
    BY <1>0, <1>1, FS_AddElement
  <2>2. \A f \in emitted :
          f.type \in {"Cancelled", "Amended"} \cup RequestEvidence =>
            f.request \in Key /\ book'[f.request].state = book[f.request].state
    <3>1. \A f \in emitted :
            f.type \in {"Cancelled", "Amended"} \cup RequestEvidence => f.request \in Key
      BY <1>0, FactType
    <3>2. \A i \in Key : book'[i].state = book[i].state
      BY <1>1, <1>2
    <3>3. QED BY <3>1, <3>2
  <2>3. EffectToldOK'
    <3>1. journal' = journal
          /\ \A f \in emitted' : f.type \in {"Cancelled", "Amended"} => f \in emitted
      BY <1>1, <1>3
    <3>2. QED BY <2>2, <3>1 DEF EvidenceInv, ToldOK, EffectToldOK
  <2>4. RequestToldOK'
    BY <1>1, <1>3, <2>2 DEF EvidenceInv, ToldOK, RequestToldOK, RequestEvidence, OrderEvidence
  <2>5. QED BY <1>5, <2>1, <2>3, <2>4 DEF ToldOK
<1>8. NoneOversold'
  <2> DEFINE p == [i \in Sells |-> Potential(i)]
             q == [i \in Sells |-> Potential(i)']
             a == Max({0, journal.allocated})
  <2>1. Sells' = Sells /\ Buys' = Buys /\ a' = a
    BY <1>1, SameRequests
  <2>2. ASSUME NEW O
        PROVE  /\ Executed(O) \in Int
               /\ SumQty({f \in emitted' : f.type = "Fill" /\ f.order \in O}) =
                    IF k \in O THEN Executed(O) + n ELSE Executed(O)
    <3> DEFINE F == {f \in emitted : f.type = "Fill" /\ f.order \in O}
    <3>1. IsFiniteSet(F) /\ (\A f \in F : f.qty \in Int) /\ SumQty(F) \in Int
      BY <1>0, ExecutedType DEF Executed
    <3>2. {f \in emitted' : f.type = "Fill" /\ f.order \in O} =
            IF k \in O THEN F \cup {e} ELSE F
      BY <1>1, <1>3
    <3>3. SumQty(F \cup {e}) = SumQty(F) + n
      <4>1. e \notin F
        BY <1>5
      <4>2. QED BY <1>2, <1>3, <3>1, <4>1, QtyAdd
    <3>4. QED BY <3>1, <3>2, <3>3 DEF Executed
  <2>3. Held = a + Executed(Buys) - Executed(Sells)
        /\ Held' = a + Executed(Buys)' - Executed(Sells)'
    BY <2>1 DEF Held
  <2>4. /\ Executed(Sells)' = IF k \in Sells THEN Executed(Sells) + n ELSE Executed(Sells)
        /\ Executed(Buys)' = IF k \in Buys THEN Executed(Buys) + n ELSE Executed(Buys)
        /\ Executed(Sells) \in Int /\ Executed(Buys) \in Int
    BY <2>1, <2>2 DEF Executed
  <2>5. a \in Int /\ Held \in Int /\ SumFunction(p) <= Held /\ IsFiniteSet(Sells)
    BY <1>0, HeldType, SellsFinite DEF EvidenceInv, NoneOversold
  <2>6. \A i \in Sells : Potential(i) \in Int /\ i \in Key
    BY PotentialType DEF Sells, NewOrders, Submitted
  <2>7. Potential(k)' = Potential(k) - n
    <3>1. ~Failed(journal, k)
      <4>1. calls[k] > 0
        BY <1>1 DEF EvidenceInv, CallsOK
      <4>2. QED BY <4>1, BookType, <1>0 DEF EvidenceInv, CallsOK
    <3>2. ~Failed(journal', k)
      BY <1>1, <3>1
    <3>3. QED BY <1>1, <1>2, <3>1, <3>2 DEF Potential, left
  <2>8. \A i \in Key \ {k} : Potential(i)' = Potential(i)
    <3>1. journal' = journal
      BY <1>1
    <3>2. QED BY <1>2, <3>1 DEF Potential
  <2>9. p \in [Sells -> Int] /\ q \in [Sells -> Int]
    BY <1>2, <2>6, <2>7, <2>8
  <2>10. SumFunction([i \in Sells |-> Potential(i)])' = SumFunction(q)
    BY <2>1
  <2>11. SumFunction(p) \in Int
    BY <2>5, <2>9, SumType
  <2>12. CASE k \in Sells
    <3>1. k \notin Buys
      BY <2>12 DEF Sells, Buys
    <3>2. Held' = Held - n
      BY <1>2, <2>3, <2>4, <2>5, <2>12, <3>1
    <3>3. p[k] \in Int /\ q[k] = p[k] - n /\ \A i \in Sells \ {k} : q[i] = p[i]
      BY <2>6, <2>7, <2>8, <2>12
    <3> HIDE DEF p, q
    <3>4. SumFunction(q) = SumFunction(p) - p[k] + q[k]
      BY <2>5, <2>9, <2>12, <3>3, SumUpdate
    <3>5. SumFunction(q) <= Held'
      BY <1>2, <2>5, <2>11, <3>2, <3>3, <3>4
    <3>6. QED BY <2>10, <3>5 DEF NoneOversold
  <2>13. CASE k \notin Sells
    <3>1. q = p
      BY <2>6, <2>8, <2>13
    <3>2. Held' >= Held /\ Held' \in Int
      BY <1>2, <2>3, <2>4, <2>5, <2>13
    <3> HIDE DEF p, q
    <3>3. SumFunction(q) <= Held'
      BY <2>5, <2>11, <3>1, <3>2
    <3>4. QED BY <2>10, <3>3 DEF NoneOversold
  <2>14. QED BY <2>12, <2>13
<1>9. QED BY <1>4, <1>6, <1>7, <1>8 DEF EvidenceInv

\* A change that takes effect: cut is positive and no more than what is left.
LEMMA ChangeEvidence ==
  ASSUME EvidenceInv, DispatchInv', NEW k \in Key, BrokerChange(k)
  PROVE  EvidenceInv'
<1> USE DEF ledgerVars, workVars, boundVars
<1> DEFINE c    == journal.requests[k]
           t    == c.target
           live == book[t].remaining
           cut  == IF c.kind = "Amend" THEN -c.qty
                   ELSE IF c.qty < live THEN c.qty ELSE live
           ver  == book[t].ver + 1
           done == [type |-> IF c.kind = "Cancel" THEN "Cancelled" ELSE "Amended",
                    request |-> k, order |-> t, ver |-> ver,
                    qty |-> IF c.kind = "Cancel" THEN cut ELSE c.qty,
                    remaining |-> live - cut]
           ack  == Told1("Ack", k)
<1>0. TypeOK /\ IsFiniteSet(emitted) /\ emitted \subseteq Fact
      /\ book \in [Key -> [state : {"NONE", "LIVE", "REJECTED", "DONE"},
                           remaining : Int, ver : Nat]]
  BY DEF EvidenceInv, DispatchInv, ToldOK, TypeOK
<1>1. /\ Waiting(k) /\ c.kind \in {"Amend", "Cancel"}
      /\ UNCHANGED <<ledgerVars, workVars, calls>>
      /\ IF live > 0 /\ cut <= live
           THEN /\ book' = [book EXCEPT ![k].state = "DONE", ![t].remaining = live - cut,
                                        ![t].ver = ver]
                /\ emitted' = emitted \cup {ack, done}
           ELSE /\ book' = [book EXCEPT ![k].state = "DONE"]
                /\ emitted' = emitted \cup {ack, Told1("EffectRejected", k)}
  <2>1. /\ Waiting(k) /\ c.kind \in {"Amend", "Cancel"}
        /\ UNCHANGED <<ledgerVars, workVars, calls>>
    BY DEF BrokerChange
  <2>2. IF live > 0 /\ cut <= live
          THEN /\ book' = [book EXCEPT ![k].state = "DONE", ![t].remaining = live - cut,
                                       ![t].ver = ver]
               /\ emitted' = emitted \cup {ack, done}
          ELSE /\ book' = [book EXCEPT ![k].state = "DONE"]
               /\ emitted' = emitted \cup {ack, Told1("EffectRejected", k)}
    BY Zenon DEF BrokerChange
  <2>3. QED BY <2>1, <2>2
<1>2. /\ calls[k] > 0 /\ book[k] = NotHandled /\ k \in Accepted(journal)
      /\ k \in Changes(journal) /\ ~SelfAcknowledged(k)
  <2>1. calls[k] > 0 /\ book[k] = NotHandled /\ k \in Accepted(journal) /\ k \in Changes(journal)
    BY <1>1 DEF Waiting, EvidenceInv, CallsOK, Accepted, Changes
  <2>2. ~SelfAcknowledged(k)
    BY <1>1 DEF SelfAcknowledged, EvidenceInv, WorkersOK, NewOrders
  <2>3. QED BY <2>1, <2>2
<1>3. /\ t \in NewOrders(journal) /\ t \in Key /\ t # k
      /\ c.qty \in Int
      /\ c.kind = "Cancel" => c.qty > 0
      /\ c.kind = "Amend" => c.qty < 0
  <2>1. t \in NewOrders(journal) /\ (c.kind = "Cancel" => c.qty > 0)
        /\ (c.kind = "Amend" => c.qty < 0)
    BY <1>2 DEF EvidenceInv, RequestsOK, Accepted
  <2>2. c.qty \in Int
    BY <1>0, <1>2, RequestFields DEF Changes
  <2>3. t \in Key /\ t # k
    BY <1>2, <2>1 DEF NewOrders, Changes, Submitted
  <2>4. QED BY <2>1, <2>2, <2>3
<1>4. /\ ack.type = "Ack" /\ ack.request = k
      /\ done.type \in {"Cancelled", "Amended"} /\ done.request = k /\ done.order = t
      /\ done.ver = ver /\ done.remaining = live - cut
      /\ done.type = "Cancelled" <=> c.kind = "Cancel"
      /\ done.type = "Amended" <=> c.kind = "Amend"
      /\ done.qty = IF c.kind = "Cancel" THEN cut ELSE c.qty
      /\ Told1("EffectRejected", k).type = "EffectRejected"
      /\ Told1("EffectRejected", k).request = k
  BY <1>1 DEF Told1
<1>5. live \in Int /\ ver \in Nat /\ cut \in Int
  BY <1>0, <1>3
<1>6. CASE ~(live > 0 /\ cut <= live)
  <2> DEFINE E == {ack, Told1("EffectRejected", k)}
  <2>1. IsFiniteSet(E)
    <3>1. IsFiniteSet({ack}) /\ IsFiniteSet({Told1("EffectRejected", k)})
      BY FS_Singleton
    <3>2. E = {ack} \cup {Told1("EffectRejected", k)}
      OBVIOUS
    <3>3. IsFiniteSet({ack} \cup {Told1("EffectRejected", k)})
      BY <3>1, FS_Union
    <3>4. QED BY <3>2, <3>3
  <2>2. \A f \in E : f.request = k /\ f.type \in {"Ack", "EffectRejected"}
    BY <1>4
  <2>3. book' = [book EXCEPT ![k].state = "DONE"] /\ emitted' = emitted \cup E
    BY <1>1, <1>6
  <2> HIDE DEF E
  <2>4. QED BY <1>1, <1>2, <2>1, <2>2, <2>3, SettleEvidence
<1>7. CASE live > 0 /\ cut <= live
  <2>1. /\ cut > 0 /\ live - cut >= 0
        /\ c.kind = "Cancel" => cut <= c.qty
        /\ c.kind = "Amend" => cut = -c.qty
    <3>1. CASE c.kind = "Amend"
      BY <1>3, <1>5, <1>7, <3>1
    <3>2. CASE c.kind = "Cancel"
      BY <1>3, <1>5, <1>7, <3>2
    <3>3. QED BY <1>1, <3>1, <3>2
  <2> HIDE DEF cut, done, ack, ver
  <2>2. book[t].state = "LIVE"
    <3>1. book[t].state \notin {"NONE", "REJECTED", "DONE"}
      BY <1>3, <1>7 DEF EvidenceInv, BookOK, NotHandled
    <3>2. QED BY <1>0, <1>3, <3>1
  <2>3. /\ book'[k].state = "DONE" /\ book'[k].remaining = 0 /\ book[k].state = "NONE"
        /\ book'[t].state = "LIVE" /\ book'[t].remaining = live - cut /\ book'[t].ver = ver
        /\ \A i \in Key \ {k, t} : book'[i] = book[i]
    <3>1. book' = [book EXCEPT ![k].state = "DONE", ![t].remaining = live - cut,
                               ![t].ver = ver]
      BY <1>1, <1>7
    <3>2. k # t /\ book[k].state = "NONE" /\ book[k].remaining = 0
      BY <1>2, <2>2 DEF NotHandled
    <3>3. t \in Key
      BY <1>3
    <3>4. book'[k].state = "DONE" /\ book'[k].remaining = 0
      BY <1>0, <3>1, <3>2
    <3>5. /\ book'[t].state = "LIVE" /\ book'[t].remaining = live - cut /\ book'[t].ver = ver
          /\ \A i \in Key \ {k, t} : book'[i] = book[i]
      BY <1>0, <2>2, <3>1, <3>2, <3>3
    <3>6. QED BY <3>2, <3>4, <3>5
  <2>4. emitted' = emitted \cup {ack, done} /\ journal' = journal
    BY <1>1, <1>7
  <2>5. KnownIsTold' /\ RequestsOK' /\ CallsOK' /\ WorkersOK'
    <3>1. \A i \in Key : \/ book'[i].state = book[i].state
                         \/ book[i].state = "NONE" /\ calls[i] > 0 /\ ~SelfAcknowledged(i)
      BY <1>1, <1>2, <2>2, <2>3
    <3>2. QED BY <1>1, <2>4, <3>1, BrokerFrame
  <2>6. /\ OrderToldOK' /\ LastToldOK' /\ Left(t)' = Left(t) - cut
        /\ \A i \in Key \ {t} : Left(i)' = Left(i)
    <3>1. /\ done.type \in OrderEvidence /\ done.order = t /\ done.ver = book[t].ver + 1
          /\ done.remaining = book[t].remaining - cut
          /\ done.qty = IF done.type = "Amended" THEN -cut ELSE cut
      <4>1. CASE c.kind = "Cancel"
        BY <1>4, <4>1 DEF OrderEvidence, ver
      <4>2. CASE c.kind = "Amend"
        <5>1. c.qty = -cut
          BY <1>3, <1>5, <2>1, <4>2
        <5>2. QED BY <1>4, <4>2, <5>1 DEF OrderEvidence, ver
      <4>3. QED BY <1>1, <4>1, <4>2
    <3>2. \A f \in emitted' : f \in emitted \/ f = done \/ f.type \notin OrderEvidence
      BY <1>4, <2>4 DEF OrderEvidence
    <3>3. \A i \in Key \ {t} :
            book[i].state = "LIVE" \/ book'[i].state = "LIVE" => book'[i] = book[i]
      BY <2>3
    <3>4. /\ book'[t].remaining = done.remaining /\ book'[t].ver = done.ver
          /\ done \in emitted' /\ \A f \in emitted : f \in emitted'
      BY <1>4, <2>3, <2>4
    <3>5. QED BY <1>3, <1>5, <1>7, <2>1, <2>2, <2>3, <2>4, <3>1, <3>2, <3>3, <3>4, OrderTold
  <2>7. BookOK'
    <3>1. ASSUME NEW i \in Key
          PROVE  /\ book'[i].state = "NONE" => book'[i] = NotHandled
                 /\ book'[i].state = "LIVE" =>
                      /\ i \in NewOrders(journal')
                      /\ book'[i].remaining = Left(i)' /\ book'[i].remaining >= 0
                      /\ Told1("Ack", i) \in emitted'
                 /\ book'[i].state = "DONE" => i \in Changes(journal')
                 /\ book'[i].state = "REJECTED" => Told1("Rejected", i) \in emitted'
                 /\ book'[i].state \in {"REJECTED", "DONE"} => book'[i].remaining = 0
      <4>1. CASE i = k
        BY <1>2, <2>3, <2>4, <4>1
      <4>2. CASE i = t
        <5>1. Told1("Ack", t) \in emitted /\ live = Left(t)
          BY <1>3, <2>2 DEF EvidenceInv, BookOK
        <5>2. QED BY <1>3, <2>1, <2>3, <2>4, <2>6, <4>2, <5>1
      <4>3. CASE i # k /\ i # t
        BY <2>3, <2>4, <2>6, <4>3 DEF EvidenceInv, BookOK
      <4>4. QED BY <4>1, <4>2, <4>3
    <3>2. QED BY <3>1 DEF BookOK
  <2>8. ToldOK'
    <3>1. IsFiniteSet(emitted')
      <4>1. IsFiniteSet(emitted \cup {ack})
        BY <1>0, FS_AddElement
      <4>2. IsFiniteSet((emitted \cup {ack}) \cup {done})
        BY <4>1, FS_AddElement
      <4>3. emitted' = (emitted \cup {ack}) \cup {done}
        BY <2>4
      <4>4. QED BY <4>2, <4>3
    <3>2. \A f \in emitted :
            f.type \in {"Cancelled", "Amended"} \cup RequestEvidence =>
              f.request \in Key \ {k} /\ book'[f.request].state = book[f.request].state
      <4>1. \A f \in emitted :
              f.type \in {"Cancelled", "Amended"} \cup RequestEvidence => f.request \in Key
        BY <1>0, FactType
      <4>2. \A f \in emitted :
              f.type \in {"Cancelled", "Amended"} \cup RequestEvidence => f.request # k
        BY <2>3 DEF EvidenceInv, ToldOK, EffectToldOK, RequestToldOK, RequestEvidence
      <4>3. \A i \in Key \ {k} : book'[i].state = book[i].state
        BY <2>2, <2>3
      <4>4. QED BY <4>1, <4>2, <4>3
    <3>3. EffectToldOK'
      <4>1. ASSUME NEW f \in emitted', f.type \in {"Cancelled", "Amended"}
            PROVE  /\ book'[f.request].state = "DONE"
                   /\ journal'.requests[f.request].target = f.order
                   /\ f.type = "Cancelled" =>
                        /\ journal'.requests[f.request].kind = "Cancel"
                        /\ 0 < f.qty /\ f.qty <= journal'.requests[f.request].qty
                   /\ f.type = "Amended" =>
                        /\ journal'.requests[f.request].kind = "Amend"
                        /\ f.qty < 0 /\ f.qty = journal'.requests[f.request].qty
                   /\ \A g \in emitted' :
                        g.type \in {"Cancelled", "Amended"} /\ g.request = f.request => g = f
        <5>1. CASE f = done
          <6>1. \A g \in emitted' :
                  g.type \in {"Cancelled", "Amended"} /\ g.request = k => g = done
            BY <1>4, <2>4, <3>2
          <6>2. QED BY <1>3, <1>4, <2>1, <2>3, <2>4, <5>1, <6>1
        <5>2. CASE f # done
          <6>1. f \in emitted /\ f.request # k
            BY <1>4, <2>4, <3>2, <4>1, <5>2
          <6>2. \A g \in emitted' :
                  g.type \in {"Cancelled", "Amended"} /\ g.request = f.request => g \in emitted
            BY <1>4, <2>4, <6>1
          <6>3. QED BY <2>4, <3>2, <4>1, <6>1, <6>2 DEF EvidenceInv, ToldOK, EffectToldOK
        <5>3. QED BY <5>1, <5>2
      <4>2. QED BY <4>1 DEF EffectToldOK
    <3>4. RequestToldOK'
      <4>1. ASSUME NEW f \in emitted'
            PROVE  /\ f.type \in OrderEvidence \cup RequestEvidence
                   /\ f.type = "Ack" => book'[f.request].state \in {"LIVE", "DONE"}
                   /\ f.type = "Rejected" => book'[f.request].state = "REJECTED"
                   /\ f.type = "EffectRejected" => book'[f.request].state = "DONE"
        <5>1. CASE f \in emitted
          BY <3>2, <5>1 DEF EvidenceInv, ToldOK, RequestToldOK, RequestEvidence
        <5>2. CASE f = ack
          BY <1>4, <2>3, <5>2 DEF RequestEvidence
        <5>3. CASE f = done
          BY <1>4, <5>3 DEF OrderEvidence
        <5>4. QED BY <2>4, <5>1, <5>2, <5>3
      <4>2. QED BY <4>1 DEF RequestToldOK
    <3>5. QED BY <2>6, <3>1, <3>3, <3>4 DEF ToldOK
  <2>9. NoneOversold'
    <3>1. Held' = Held /\ Held \in Int
      <4>1. \A f \in emitted' : f.type = "Fill" => f \in emitted
        BY <1>4, <2>4
      <4>2. QED BY <1>0, <2>4, <4>1, HeldKept, HeldType
    <3>2. ASSUME NEW i \in Sells PROVE Potential(i)' \in Int /\ Potential(i)' <= Potential(i)
      <4>0. i \in Key /\ i # k /\ Potential(i) \in Int /\ Potential(i) >= 0
        BY <1>2, PotentialType DEF Sells, NewOrders, Submitted, Changes
      <4>1. CASE i = t
        BY <1>5, <2>1, <2>2, <2>3, <2>4, <4>0, <4>1 DEF Potential
      <4>2. CASE i # t
        BY <2>3, <2>4, <4>0, <4>2 DEF Potential
      <4>3. QED BY <4>1, <4>2
    <3>3. QED BY <2>4, <3>1, <3>2, LessPotential
  <2>10. QED BY <2>5, <2>7, <2>8, <2>9 DEF EvidenceInv
<1>8. QED BY <1>6, <1>7

LEMMA BrokerKeeps == EvidenceInv /\ DispatchInv' /\ BrokerNext => EvidenceInv'
<1> SUFFICES ASSUME EvidenceInv, DispatchInv', NEW k \in Key,
                    \/ BrokerAccept(k) \/ BrokerReject(k)
                    \/ \E n \in Qty : BrokerFill(k, n)
                    \/ BrokerChange(k)
             PROVE  EvidenceInv'
  BY DEF BrokerNext
<1> USE DEF ledgerVars, workVars, boundVars
<1>1. CASE BrokerAccept(k)
  <2>1. /\ calls[k] > 0 /\ book[k].state = "NONE" /\ ~SelfAcknowledged(k)
        /\ journal.requests[k].kind = "New"
        /\ book' = [book EXCEPT ![k] = Opened(k)]
        /\ emitted' = emitted \cup {Told1("Ack", k)}
        /\ UNCHANGED <<journal, calls, sending, worker>>
    BY <1>1 DEF BrokerAccept, Waiting, NotHandled
  <2>2. k \in NewOrders(journal)
    BY <2>1 DEF EvidenceInv, CallsOK, Accepted, NewOrders
  <2>3. \A w \in Worker : worker[w].step = "ack" => worker[w].key # k
    BY <2>1 DEF SelfAcknowledged
  <2>4. QED BY <2>1, <2>2, <2>3, OpenEvidence
<1>2. CASE BrokerReject(k)
  <2>1. /\ Waiting(k) /\ ~SelfAcknowledged(k)
        /\ book' = [book EXCEPT ![k].state = "REJECTED"]
        /\ emitted' = emitted \cup {Told1("Rejected", k)}
        /\ UNCHANGED <<ledgerVars, workVars, calls>>
    BY <1>2 DEF BrokerReject
  <2>2. IsFiniteSet({Told1("Rejected", k)})
    BY FS_Singleton
  <2>3. \A f \in {Told1("Rejected", k)} : f.request = k /\ f.type = "Rejected"
    BY DEF Told1
  <2>4. QED BY <2>1, <2>2, <2>3, SettleEvidence
<1>3. QED BY <1>1, <1>2, FillEvidence, ChangeEvidence

LEMMA WorkerEvidence == EvidenceInv /\ DispatchInv' /\ WorkerNext => EvidenceInv'
<1> SUFFICES ASSUME EvidenceInv, DispatchInv', NEW w \in Worker,
                    \/ DrainLook(w) \/ DrainObligations(w) \/ DrainCandidate(w)
                    \/ ProcessLook(w) \/ ProcessPosition(w)
                    \/ WorkerSubmit(w) \/ WorkerSend(w) \/ WorkerAck(w)
             PROVE  EvidenceInv'
  BY DEF WorkerNext
<1> USE DEF workerFrame, boundVars, brokerVars
<1>0. TypeOK /\ journal \in Journal /\ worker \in [Worker -> WorkerState]
  BY DEF EvidenceInv, DispatchInv, TypeOK
<1>1. ASSUME UNCHANGED <<journal, workerFrame>>, MutexFree,
             NEW next, Step(w, next), next.step \notin {"send", "ack"}
      PROVE  EvidenceInv'
  <2>1. Untold
    BY <1>1 DEF Untold
  <2>2. \A v \in Worker : worker'[v] = worker[v] \/ worker'[v].step \notin {"send", "ack"}
    BY <1>0, <1>1 DEF Step
  <2>3. QED BY <1>1, <2>1, <2>2, OutsideUntold
<1>2. Idle.step \notin {"send", "ack"}
  BY DEF Idle
<1>3. CASE DrainLook(w)
  <2>1. PICK k \in KeyFor(named.stop) :
          Step(w, [step |-> "obligations", stop |-> journal.latch, key |-> k, qty |-> 0,
                   version |-> journal.version])
    BY <1>3 DEF DrainLook
  <2>2. UNCHANGED <<journal, workerFrame>> /\ MutexFree
    BY <1>3 DEF DrainLook
  <2>3. QED BY <1>1, <2>1, <2>2
<1>4. CASE DrainObligations(w)
  <2>1. [worker[w] EXCEPT !.step = "candidate"].step = "candidate"
    BY <1>0, <1>4 DEF DrainObligations, WorkerState, Idle
  <2>2. QED BY <1>1, <1>2, <1>4, <2>1 DEF DrainObligations
<1>5. ASSUME NEW q, UNCHANGED <<journal, workerFrame>>, MutexFree,
             Step(w, [worker[w] EXCEPT !.step = "submit", !.qty = q])
      PROVE  EvidenceInv'
  <2>1. [worker[w] EXCEPT !.step = "submit", !.qty = q].step = "submit"
    BY <1>0 DEF WorkerState, Idle
  <2>2. QED BY <1>1, <1>5, <2>1
<1>6. CASE DrainCandidate(w)
  BY <1>1, <1>2, <1>5, <1>6 DEF DrainCandidate
<1>7. CASE ProcessLook(w)
  <2>1. PICK k \in KeyFor(named.liquidation) :
          Step(w, [step |-> "position", stop |-> NoLatch, key |-> k, qty |-> 0,
                   version |-> journal.version])
    BY <1>7 DEF ProcessLook
  <2>2. UNCHANGED <<journal, workerFrame>> /\ MutexFree
    BY <1>7 DEF ProcessLook
  <2>3. QED BY <1>1, <2>1, <2>2
<1>8. CASE ProcessPosition(w)
  BY <1>1, <1>2, <1>5, <1>8 DEF ProcessPosition
<1>9. CASE WorkerSubmit(w)
  <2> DEFINE k == worker[w].key
             c == New("SELL", worker[w].qty, k, worker[w].version, worker[w].stop)
             next == [worker[w] EXCEPT !.step = "send"]
  <2>1. /\ k \in Key /\ next.step = "send" /\ next.key = k
        /\ worker[w].qty \in PositiveQty /\ worker[w].version \in Version
        /\ worker[w].stop \in Version \cup {NoLatch}
    BY <1>0, <1>9 DEF WorkerSubmit, WorkerState, Idle
  <2>2. c \in Request /\ c.kind = "New"
    BY <2>1 DEF New, Request
  <2>3. UNCHANGED <<workerFrame>> /\ MutexFree
    BY <1>9 DEF WorkerSubmit
  <2>4. CASE /\ journal.requests[k] = NoRequest /\ Submittable(k, c)
             /\ AppendRequest(k, c) /\ Step(w, next)
    <3>1. CheckCommand(journal, c) /\ Wellformed(c)
      BY <2>2, <2>4 DEF Submittable, Wellformed
    <3>2. \A v \in Worker : \/ worker'[v] = worker[v]
                            \/ worker'[v].step = "send" /\ worker'[v].key = k /\ c.kind = "New"
      BY <1>0, <2>1, <2>2, <2>4 DEF Step
    <3>3. QED BY <2>1, <2>2, <2>3, <2>4, <3>1, <3>2, SubmitEvidence
  <2>5. CASE journal.requests[k] = c /\ Step(w, next) /\ UNCHANGED journal
    <3>1. Untold
      BY <2>3, <2>5 DEF Untold
    <3>2. k \in NewOrders(journal)
      <4>1. c # NoRequest
        BY DEF New, NoRequest
      <4>2. QED BY <2>1, <2>2, <2>5, <4>1 DEF NewOrders, Submitted
    <3>3. CallsOK'
      BY <2>3, <2>5 DEF EvidenceInv, CallsOK
    <3>4. worker'[w] = next /\ \A v \in Worker \ {w} : worker'[v] = worker[v]
      BY <1>0, <2>5 DEF Step
    <3>5. \A v \in Worker : worker'[v].step = "ack" => worker'[v] = worker[v]
      BY <2>1, <3>4
    <3>6. \A v \in Worker : worker'[v].step \in {"send", "ack"} =>
            worker'[v].key \in NewOrders(journal')
      BY <2>1, <2>5, <3>2, <3>4 DEF EvidenceInv, WorkersOK
    <3>7. WorkersOK'
      BY <2>3, <2>5, <3>5, <3>6 DEF EvidenceInv, WorkersOK
    <3>8. QED BY <3>1, <3>3, <3>7, UntoldFrame DEF EvidenceInv
  <2>6. CASE Step(w, Idle) /\ UNCHANGED journal
    BY <1>1, <1>2, <2>3, <2>6
  <2>7. QED BY <1>9, <2>4, <2>5, <2>6 DEF WorkerSubmit
<1>10. CASE WorkerSend(w)
  <2> DEFINE k == worker[w].key
             next == [worker[w] EXCEPT !.step = "ack"]
  <2>1. k \in Key /\ next.step = "ack" /\ next.key = k /\ worker[w].step = "send" /\ MutexFree
    BY <1>0, <1>10 DEF WorkerSend, WorkerState, Idle
  <2>2. CASE Claimable(k) /\ Claim(k) /\ Step(w, next)
    <3>1. worker'[w] = next /\ \A v \in Worker \ {w} : worker'[v] = worker[v]
      BY <1>0, <2>2 DEF Step
    <3> HIDE DEF next
    <3>2. \A v \in Worker :
            \/ worker'[v] = worker[v]
            \/ /\ worker[v].step = "send" /\ worker[v].key = k
               /\ worker'[v].step = "ack" /\ worker'[v].key = k
               /\ \A u \in Worker \ {v} : worker'[u] = worker[u]
      BY <2>1, <3>1
    <3>3. QED BY <2>1, <2>2, <3>2, ClaimEvidence
  <2>3. CASE Step(w, Idle) /\ UNCHANGED <<journal, workerFrame>>
    BY <1>1, <1>2, <2>1, <2>3
  <2>4. QED BY <1>10, <2>2, <2>3 DEF WorkerSend
<1>11. CASE WorkerAck(w)
  <2> DEFINE k == worker[w].key
  <2>1. /\ book' = [book EXCEPT ![k] = Opened(k)]
        /\ emitted' = emitted \cup {Told1("Ack", k)}
        /\ Ingest(Told1("Ack", k)) /\ Step(w, Idle) /\ worker[w].step = "ack"
        /\ UNCHANGED <<calls, sending>> /\ MutexFree
    BY <1>11 DEF WorkerAck
  <2>2. /\ k \in NewOrders(journal) /\ k \in Key /\ book[k].state = "NONE"
        /\ sending = k \/ calls[k] > 0
    BY <2>1 DEF EvidenceInv, WorkersOK, NewOrders, Submitted
  <2>3. calls[k] > 0
    BY <2>1, <2>2, NoKeyAssumption DEF MutexFree
  <2>4. Gains({Told1("Ack", k)})
    BY <1>0, <2>1, AppendGains
  <2>5. ASSUME NEW v \in Worker, worker'[v].step \in {"send", "ack"}
        PROVE  worker'[v] = worker[v] /\ (worker[v].step = "ack" => worker[v].key # k)
    <3>1. v # w
      BY <1>0, <1>2, <2>1, <2>5 DEF Step
    <3>2. worker'[v] = worker[v]
      BY <1>0, <2>1, <3>1 DEF Step
    <3>3. worker[v].step = "ack" => worker[v].key # k
      BY <2>1, <3>1 DEF EvidenceInv, WorkersOK
    <3>4. QED BY <3>2, <3>3
  <2> HIDE DEF k
  <2>6. QED BY <2>1, <2>2, <2>3, <2>4, <2>5, OpenEvidence DEF Gains
<1>12. QED
  BY <1>3, <1>4, <1>6, <1>7, <1>8, <1>9, <1>10, <1>11

LEMMA EvidenceNext == EvidenceInv /\ [Next]_vars => EvidenceInv'
<1> SUFFICES ASSUME EvidenceInv, [Next]_vars PROVE EvidenceInv'
  OBVIOUS
<1>0. DispatchInv'
  BY DispatchNextInv DEF EvidenceInv
<1>1. CASE UNCHANGED vars
  <2>1. UNCHANGED <<journal, sending, calls, worker, book, emitted>>
    BY <1>1 DEF vars, ledgerVars, workVars, brokerVars
  <2>2. CallsOK' /\ WorkersOK' /\ Untold
    BY <2>1 DEF EvidenceInv, CallsOK, WorkersOK, Untold
  <2>3. QED BY <1>0, <2>2, UntoldFrame DEF EvidenceInv
<1>2. QED
  BY <1>0, <1>1, LedgerKeeps, SessionEvidence, DispatchEvidence, WorkerEvidence, BrokerKeeps
     DEF Next

-----------------------------------------------------------------------------
(* What follows *)

\* The quantity the broker may still execute is part of what may yet be sold.
LEMMA OutstandingIsPotential ==
  ASSUME EvidenceInv, NEW k \in Sells
  PROVE  Outstanding(k) \in Int /\ Outstanding(k) <= Potential(k)
<1>0. TypeOK /\ k \in Key /\ k \in NewOrders(journal) /\ k \in Submitted(journal)
  BY DEF EvidenceInv, DispatchInv, Sells, NewOrders, Submitted
<1>1. journal.requests[k].qty \in Nat /\ book[k].remaining \in Int
  BY <1>0, RequestFields, BookType
<1>2. CASE Waiting(k)
  <2>1. ~Failed(journal, k) /\ book[k].state = "NONE"
    BY <1>0, <1>2, VoidOrders DEF Waiting, NotHandled
  <2>2. QED BY <1>1, <1>2, <2>1 DEF Outstanding, Potential
<1>3. CASE ~Waiting(k) /\ book[k].state = "NONE"
  <2>1. book[k].remaining = 0
    BY <1>0, <1>3 DEF EvidenceInv, BookOK, NotHandled
  <2>2. QED BY <1>1, <1>3, <2>1 DEF Outstanding, Potential
<1>4. CASE ~Waiting(k) /\ book[k].state # "NONE"
  <2>1. ~Failed(journal, k)
    BY <1>0, <1>4, VoidOrders
  <2>2. QED BY <1>1, <1>4, <2>1 DEF Outstanding, Potential
<1>5. QED BY <1>2, <1>3, <1>4

LEMMA InvNeverOversell == EvidenceInv => NeverOversell
<1> SUFFICES ASSUME EvidenceInv PROVE NeverOversell
  OBVIOUS
<1> DEFINE p == [k \in Sells |-> Potential(k)]
           o == [k \in Sells |-> Outstanding(k)]
<1>1. p \in [Sells -> Int] /\ o \in [Sells -> Int] /\ \A k \in Sells : o[k] <= p[k]
  BY PotentialType, OutstandingIsPotential
<1>2. IsFiniteSet(Sells) /\ Held \in Int /\ SumFunction(p) <= Held
  BY SellsFinite, HeldType DEF EvidenceInv, DispatchInv, ToldOK, NoneOversold
<1> HIDE DEF p, o
<1>3. SumFunction(o) <= SumFunction(p) /\ SumFunction(o) \in Int /\ SumFunction(p) \in Int
  BY <1>1, <1>2, SumMonotone, SumType
<1>4. SumFunction(o) <= Held
  BY <1>2, <1>3
<1>5. QED BY <1>4 DEF NeverOversell, o

LEMMA InvReservationCovers == EvidenceInv => ReservationCovers
<1> SUFFICES ASSUME EvidenceInv, NEW k \in Sells PROVE Outstanding(k) <= ReservedFor(journal, k)
  BY DEF ReservationCovers
<1>1. Outstanding(k) \in Int /\ Potential(k) \in Int /\ Outstanding(k) <= Potential(k)
  BY PotentialType, OutstandingIsPotential
<1>2. Potential(k) <= ReservedFor(journal, k) /\ ReservedFor(journal, k) \in Int
  BY ReservedCovers, ReservedFacts DEF Sells
<1>3. QED BY <1>1, <1>2

LEMMA InvEvidenceAdmissible == EvidenceInv => EvidenceAdmissible
<1> SUFFICES ASSUME EvidenceInv, NEW f \in emitted, f \notin journal.facts
             PROVE  CheckFact(journal, f)
  BY DEF EvidenceAdmissible
<1>0. TypeOK /\ f \in Fact /\ journal \in Journal
  BY DEF EvidenceInv, DispatchInv, TypeOK
<1>1. f.type \in OrderEvidence \cup RequestEvidence
  BY DEF EvidenceInv, ToldOK, RequestToldOK
<1>2. ASSUME f.type \in RequestEvidence \cup {"Cancelled", "Amended"}
      PROVE  /\ f.request \in Key /\ f.request \in Accepted(journal)
             /\ Transport(journal, f.request) # "INTENT_PERSISTED"
  <2>1. f.request \in Key
    BY <1>0, <1>2, FactType
  <2>2. book[f.request].state # "NONE"
    BY <1>2 DEF EvidenceInv, ToldOK, EffectToldOK, RequestToldOK, RequestEvidence
  <2>3. calls[f.request] > 0
    BY <2>1, <2>2 DEF EvidenceInv, CallsOK
  <2>4. f.request \in Accepted(journal) /\ journal.observed[f.request] # "NONE"
    BY <2>1, <2>3 DEF EvidenceInv, CallsOK, DispatchInv, ClaimedBeforeCall
  <2>5. QED BY <1>0, <2>1, <2>4, IntentHasNoTransport DEF Journal
<1>3. CASE f.type = "Fill"
  <2>1. f.order \in Key /\ book[f.order].state = "LIVE"
    BY <1>0, <1>3, FactType DEF EvidenceInv, ToldOK, OrderToldOK, OrderEvidence
  <2>2. f.order \in NewOrders(journal)
    BY <2>1 DEF EvidenceInv, BookOK
  <2>3. QED BY <1>3, <2>2 DEF CheckFact
<1>4. CASE f.type = "Ack"
  BY <1>2, <1>4 DEF CheckFact, RequestEvidence
<1>5. CASE f.type \in {"Cancelled", "Amended"}
  <2>1. f.request \in Accepted(journal)
    BY <1>2, <1>5
  <2>2. ~Confirmed(journal, f.request)
    <3>1. ASSUME NEW g \in journal.facts, g.type \in {"Amended", "Cancelled"},
                 g.request = f.request
          PROVE  FALSE
      <4>1. g \in emitted
        BY <3>1 DEF EvidenceInv, KnownIsTold, OrderEvidence
      <4>2. g = f
        BY <1>5, <3>1, <4>1 DEF EvidenceInv, ToldOK, EffectToldOK
      <4>3. QED BY <4>2
    <3>2. QED BY <3>1 DEF Confirmed, Told
  <2>3. Effect(journal, f.request) # "CONFIRMED"
    BY <2>2 DEF Effect
  <2>4. /\ journal.requests[f.request].target = f.order
        /\ f.type = "Cancelled" => journal.requests[f.request].kind = "Cancel"
                                   /\ f.qty <= journal.requests[f.request].qty
        /\ f.type = "Amended" => journal.requests[f.request].kind = "Amend"
                                 /\ f.qty = journal.requests[f.request].qty
    BY <1>5 DEF EvidenceInv, ToldOK, EffectToldOK
  <2>5. CheckEffect(journal, f)
    BY <1>5, <2>1, <2>3, <2>4 DEF CheckEffect
  <2>6. QED BY <1>5, <2>5 DEF CheckFact
<1>6. CASE f.type \in {"Rejected", "EffectRejected"}
  <2>1. f.type = "EffectRejected" => f.request \in Changes(journal)
    BY <1>2, <1>6 DEF EvidenceInv, ToldOK, RequestToldOK, BookOK, RequestEvidence
  <2>2. CheckRejection(journal, f)
    BY <1>2, <1>6, <2>1 DEF CheckRejection, RequestEvidence
  <2>3. QED BY <1>6, <2>2 DEF CheckFact
<1>7. QED BY <1>1, <1>3, <1>4, <1>5, <1>6 DEF OrderEvidence, RequestEvidence

\* No outcome of an order contradicts another.
LEMMA NoConflict ==
  ASSUME EvidenceInv, NEW k \in NewOrders(journal)
  PROVE  /\ ~Conflict(journal, k)
         /\ Positive(journal, k) => book[k].state = "LIVE"
<1>0. k \in Key /\ k \notin Changes(journal) /\ TypeOK
  BY DEF NewOrders, Changes, Submitted, EvidenceInv, DispatchInv
<1>1. book[k].state # "DONE"
  BY <1>0 DEF EvidenceInv, BookOK
<1>2. \A f \in journal.facts :
        f.type \in {"Ack", "Amended", "Cancelled", "EffectRejected"} /\ f.request = k =>
          book[k].state = "LIVE"
  <2>1. \A f \in journal.facts :
          f.type \in {"Ack", "Amended", "Cancelled", "EffectRejected"} => f \in emitted
    BY DEF EvidenceInv, KnownIsTold, OrderEvidence, RequestEvidence
  <2>2. QED BY <1>1, <2>1 DEF EvidenceInv, ToldOK, EffectToldOK, RequestToldOK
<1>3. Acknowledged(journal, k) => book[k].state = "LIVE"
  BY <1>2 DEF Acknowledged, Told
<1>4. Fills(journal, k) # {} => book[k].state = "LIVE"
  BY <1>0, NothingTold
<1>5. Positive(journal, k) => book[k].state = "LIVE"
  BY <1>3, <1>4 DEF Positive
<1>6. ~(Confirmed(journal, k) /\ EffectRefused(journal, k))
  <2>1. ASSUME EffectRefused(journal, k) PROVE FALSE
    <3>1. PICK f \in journal.facts : f.type = "EffectRejected" /\ f.request = k
      BY <2>1 DEF EffectRefused, Told
    <3>2. f \in emitted
      BY <3>1 DEF EvidenceInv, KnownIsTold, RequestEvidence
    <3>3. book[k].state = "DONE"
      BY <3>1, <3>2 DEF EvidenceInv, ToldOK, RequestToldOK
    <3>4. QED BY <1>1, <3>3
  <2>2. QED BY <2>1
<1>7. /\ Rejected(journal, k) => book[k].state = "REJECTED"
      /\ Failed(journal, k) => book[k].state = "NONE"
  BY <1>0, VoidOrders
<1>8. QED BY <1>5, <1>6, <1>7 DEF Conflict

\* Of an order all of whose evidence arrived the journal knows what is left.
LEMMA AllArrived ==
  ASSUME EvidenceInv, NEW k \in Key, emitted \subseteq journal.facts
  PROVE  /\ Fills(journal, k) = ToldOf("Fill", k)
         /\ Cancels(journal, k) = ToldOf("Cancelled", k)
         /\ Amendments(journal, k) = ToldOf("Amended", k)
         /\ Exposure(journal, k) = Left(k)
<1>1. /\ Fills(journal, k) = ToldOf("Fill", k)
      /\ Cancels(journal, k) = ToldOf("Cancelled", k)
      /\ Amendments(journal, k) = ToldOf("Amended", k)
  BY DEF EvidenceInv, KnownIsTold, OrderEvidence, Fills, Cancels, Amendments, ToldOf
<1>2. QED BY <1>1 DEF Exposure, Left

LEMMA LiveAgrees ==
  ASSUME EvidenceInv, NEW k \in NewOrders(journal), emitted \subseteq journal.facts,
         book[k].state = "LIVE"
  PROVE  /\ Active(journal, k) = book[k].remaining
         /\ Exposure(journal, k) = book[k].remaining /\ book[k].remaining >= 0
         /\ ~Contradiction(journal, k)
<1> DEFINE seen == Observations(journal, k)
<1>0. k \in Key /\ TypeOK /\ emitted \subseteq Fact
  BY DEF NewOrders, Submitted, EvidenceInv, DispatchInv, TypeOK
<1>1. book[k].remaining = Left(k) /\ book[k].remaining >= 0 /\ Told1("Ack", k) \in emitted
      /\ book[k].remaining \in Int /\ book[k].ver \in Nat
  BY <1>0, BookType DEF EvidenceInv, BookOK
<1>2. Exposure(journal, k) = Left(k)
  BY <1>0, AllArrived
<1>3. seen = {f \in emitted : f.type \in OrderEvidence /\ f.order = k}
  BY <1>0, AllArrived DEF Observations, ToldOf, OrderEvidence
<1>4. ASSUME NEW f \in seen
      PROVE  /\ f.ver \in Nat /\ f.ver <= book[k].ver /\ f.remaining \in Int
             /\ f.ver = book[k].ver => f.remaining = book[k].remaining
             /\ f.ver # book[k].ver => f.remaining > 0
             /\ \A g \in seen : g.ver = f.ver => g = f
  <2>1. f \in emitted /\ f.type \in OrderEvidence /\ f.order = k
    BY <1>3
  <2>2. f.ver \in Nat /\ f.remaining \in Int
    BY <1>0, <2>1, FactType
  <2>3. QED BY <1>3, <2>1, <2>2 DEF EvidenceInv, ToldOK, OrderToldOK
<1>5. Cancels(journal, k) \subseteq seen
  BY DEF Observations
<1> HIDE DEF seen
<1>6. ~Contradiction(journal, k)
  <2>1. ~ \E f, g \in seen : f.ver = g.ver /\ f.remaining # g.remaining
    BY <1>4
  <2>2. ASSUME NEW c \in seen, c.remaining = 0, NEW f \in seen PROVE ~(f.ver > c.ver)
    <3>1. c.ver = book[k].ver
      BY <1>4, <2>2
    <3>2. QED BY <1>1, <1>4, <3>1
  <2>3. QED BY <1>5, <2>1, <2>2 DEF Contradiction, seen
<1>7. ~Void(journal, k)
  BY <1>0, VoidOrders DEF Void
<1>8. Active(journal, k) = book[k].remaining
  <2>1. CASE TerminalCancel(journal, k)
    <3>1. PICK c \in Cancels(journal, k) : c.remaining = 0
      BY <2>1 DEF TerminalCancel
    <3>2. c.ver = book[k].ver
      BY <1>4, <1>5, <3>1
    <3>3. book[k].remaining = 0
      BY <1>4, <1>5, <3>1, <3>2
    <3>4. QED BY <2>1, <3>3 DEF Active
  <2>2. CASE ~TerminalCancel(journal, k) /\ seen # {}
    <3>1. PICK f \in seen : f.ver = book[k].ver
      BY <1>3, <2>2 DEF EvidenceInv, ToldOK, LastToldOK
    <3>2. f \in Latest(seen)
      BY <1>1, <1>4, <3>1 DEF Latest
    <3>3. ASSUME NEW g \in Latest(seen) PROVE g.remaining = book[k].remaining
      <4>1. g \in seen /\ g.ver >= f.ver
        BY <3>1, <3>3 DEF Latest
      <4>2. g.ver = book[k].ver
        BY <1>1, <1>4, <3>1, <4>1
      <4>3. QED BY <1>4, <4>1, <4>2
    <3>4. (CHOOSE g \in Latest(seen) : TRUE) \in Latest(seen)
      BY <3>2
    <3>5. QED BY <1>7, <2>2, <3>3, <3>4 DEF Active, seen
  <2>3. CASE ~TerminalCancel(journal, k) /\ seen = {}
    <3>1. Acknowledged(journal, k)
      BY <1>1 DEF Acknowledged, Told, Told1
    <3>2. Transport(journal, k) = "ACKED"
      BY <3>1 DEF Transport
    <3>3. Active(journal, k) = journal.requests[k].qty
      BY <1>7, <2>3, <3>2 DEF Active, seen
    <3>4. Left(k) = journal.requests[k].qty
      <4>1. /\ ToldOf("Fill", k) = {} /\ ToldOf("Cancelled", k) = {}
            /\ ToldOf("Amended", k) = {}
        BY <1>3, <2>3 DEF ToldOf, OrderEvidence
      <4>2. /\ SumQty(ToldOf("Fill", k)) = 0 /\ SumQty(ToldOf("Cancelled", k)) = 0
            /\ SumQty(ToldOf("Amended", k)) = 0
        BY <4>1, QtyEmpty
      <4>3. journal.requests[k].qty \in Int
        BY <1>0, RequestFields DEF NewOrders
      <4>4. QED BY ONLY <4>2, <4>3 DEF Left
    <3>5. QED BY <1>1, <3>3, <3>4
  <2>4. QED BY <2>1, <2>2, <2>3
<1>9. QED BY <1>1, <1>2, <1>6, <1>8

LEMMA DeadAgrees ==
  ASSUME EvidenceInv, NEW k \in NewOrders(journal), emitted \subseteq journal.facts,
         book[k].state # "LIVE"
  PROVE  /\ \/ Active(journal, k) = 0 /\ Void(journal, k)
            \/ Active(journal, k) = Unconfirmed /\ book[k].state = "NONE"
         /\ Exposure(journal, k) >= 0
         /\ ~Contradiction(journal, k)
<1>0. k \in Key /\ TypeOK /\ k \notin Changes(journal)
  BY DEF NewOrders, Changes, Submitted, EvidenceInv, DispatchInv
<1>1. journal.requests[k].qty \in Nat
  BY <1>0, RequestFields DEF NewOrders
<1>2. Fills(journal, k) = {} /\ Cancels(journal, k) = {} /\ Amendments(journal, k) = {}
  BY <1>0, NothingTold
<1>3. /\ SumQty(Fills(journal, k)) = 0 /\ SumQty(Cancels(journal, k)) = 0
      /\ SumQty(Amendments(journal, k)) = 0
  BY <1>2, QtyEmpty
<1>4. Exposure(journal, k) >= 0
  BY <1>1, <1>3 DEF Exposure
<1>5. Observations(journal, k) = {} /\ ~TerminalCancel(journal, k)
  BY <1>2 DEF Observations, TerminalCancel
<1>6. ~Contradiction(journal, k)
  BY <1>2, <1>5 DEF Contradiction
<1>7. ~Positive(journal, k)
  BY NoConflict
<1>8. Transport(journal, k) # "ACKED"
  <2>1. ~Acknowledged(journal, k)
    BY <1>7 DEF Positive
  <2>2. journal.observed[k] \in InDoubt \cup {"NONE"}
    BY <1>0 DEF TypeOK, Journal
  <2>3. QED BY <2>1, <2>2 DEF Transport, InDoubt
<1>9. book[k].state \in {"NONE", "REJECTED"}
  BY <1>0, BookType DEF EvidenceInv, BookOK
<1>10. book[k].state = "REJECTED" => Void(journal, k)
  <2>1. ASSUME book[k].state = "REJECTED" PROVE Rejected(journal, k)
    <3>1. Told1("Rejected", k) \in journal.facts
      BY <1>0, <2>1 DEF EvidenceInv, BookOK
    <3>2. Told1("Rejected", k).type = "Rejected" /\ Told1("Rejected", k).request = k
      BY DEF Told1
    <3>3. QED BY <3>1, <3>2 DEF Rejected, Told
  <2>2. QED BY <1>7, <2>1 DEF Void
<1>11. QED BY <1>4, <1>5, <1>6, <1>8, <1>9, <1>10 DEF Active

LEMMA InvSettledAgreement == EvidenceInv => SettledAgreement
<1> SUFFICES ASSUME EvidenceInv, Settled
             PROVE  /\ Managed(journal) = Held
                    /\ \A k \in NewOrders(journal) :
                         /\ ~OrderReconcile(journal, k)
                         /\ book[k] # NotHandled => Active(journal, k) = book[k].remaining
  BY DEF SettledAgreement
<1>0. emitted \subseteq journal.facts
  BY DEF Settled
<1>1. Managed(journal) = Held
  <2>1. ASSUME NEW O \in SUBSET NewOrders(journal), NEW s,
               O = {k \in NewOrders(journal) : journal.requests[k].side = s}
        PROVE  FilledOn(journal, s) = Executed(O)
    <3>1. {f \in journal.facts : /\ f.type = "Fill" /\ f.order \in NewOrders(journal)
                                 /\ journal.requests[f.order].side = s} =
            {f \in emitted : f.type = "Fill" /\ f.order \in O}
      BY <1>0, <2>1 DEF EvidenceInv, KnownIsTold, OrderEvidence
    <3>2. QED BY <3>1 DEF FilledOn, Executed
  <2>2. FilledOn(journal, "SELL") = Executed(Sells)
    BY <2>1 DEF Sells
  <2>3. FilledOn(journal, "BUY") = Executed(Buys)
    BY <2>1 DEF Buys
  <2>4. QED BY <2>2, <2>3 DEF Managed, Held
<1>2. ASSUME NEW k \in NewOrders(journal)
      PROVE  /\ ~OrderReconcile(journal, k)
             /\ book[k] # NotHandled => Active(journal, k) = book[k].remaining
  <2>0. k \in Key /\ TypeOK
    BY DEF NewOrders, Submitted, EvidenceInv, DispatchInv
  <2>1. ~Conflict(journal, k)
    BY NoConflict
  <2>2. CASE book[k].state = "LIVE"
    <3>1. /\ Active(journal, k) = book[k].remaining /\ book[k].remaining \in Int
          /\ Exposure(journal, k) = book[k].remaining /\ book[k].remaining >= 0
          /\ ~Contradiction(journal, k)
      BY <1>0, <2>0, <2>2, LiveAgrees, BookType
    <3>2. QED BY <2>1, <3>1 DEF OrderReconcile, Gap
  <2>3. CASE book[k].state # "LIVE"
    <3>1. /\ \/ Active(journal, k) = 0 /\ Void(journal, k)
             \/ Active(journal, k) = Unconfirmed /\ book[k].state = "NONE"
          /\ Exposure(journal, k) >= 0 /\ Exposure(journal, k) \in Int
          /\ ~Contradiction(journal, k)
      BY <1>0, <2>3, DeadAgrees, ReservedFacts
    <3>2. ~OrderReconcile(journal, k)
      BY <2>1, <3>1 DEF OrderReconcile, Gap
    <3>3. book[k].state = "NONE" => book[k] = NotHandled
      BY <2>0 DEF EvidenceInv, BookOK
    <3>4. book[k].remaining = 0
      BY <2>0, <2>3, <3>3, BookType DEF EvidenceInv, BookOK, NotHandled
    <3>5. QED BY <3>1, <3>2, <3>3, <3>4
  <2>4. QED BY <2>2, <2>3
<1>3. QED BY <1>1, <1>2

-----------------------------------------------------------------------------
(* Theorems *)

\* The invariant the four theorems below are drawn from: what the journal knows
\* is part of what the broker told, and the broker's book is what it told.
THEOREM EvidenceInvariant == Spec => []EvidenceInv
BY EvidenceInit, EvidenceNext, PTL DEF Spec

\* For any number of orders, quantities, threads and restarts, and whatever part
\* of the evidence has arrived, what a sell order reserves is at least what the
\* broker may still execute for it.
THEOREM ReservationsCover == Spec => []ReservationCovers
BY EvidenceInvariant, InvReservationCovers, PTL

\* The sells at the broker together never exceed what the account holds: the
\* checks made at submit keep it so although they see only part of the evidence.
THEOREM NeverOversold == Spec => []NeverOversell
BY EvidenceInvariant, InvNeverOversell, PTL

\* check_fact accepts whatever a truthful broker reports, in any order.
THEOREM EvidenceAccepted == Spec => []EvidenceAdmissible
BY EvidenceInvariant, InvEvidenceAdmissible, PTL

\* When everything the broker told has arrived and it has answered every call,
\* ledger and broker agree on the position and on every order.
THEOREM SettledAgree == Spec => []SettledAgreement
BY EvidenceInvariant, InvSettledAgreement, PTL
-----------------------------------------------------------------------------
(* Requests live the life RequestLife states *)

\* The facts that decide what becomes of a request.
Deciding == {"SendFailed", "Rejected", "Ack", "Amended", "Cancelled", "EffectRejected"}

Decided(j, k) ==
  \/ Failed(j, k) \/ Rejected(j, k) \/ Confirmed(j, k) \/ EffectRefused(j, k)
  \/ k \in NewOrders(j) /\ Acknowledged(j, k)

\* The broker answers a change with its effect or refuses it, never both.
AnsweredOnce ==
  \A f, g \in emitted :
    f.type = "EffectRejected" /\ g.type \in {"Cancelled", "Amended"} => f.request # g.request

\* Only requests have Transport facts, or proofs that they were not sent.
RecordedOK ==
  \A k \in Key : journal.observed[k] # "NONE" \/ Failed(journal, k) => k \in Submitted(journal)

RequestInv == EvidenceInv /\ AnsweredOnce /\ RecordedOK

LEMMA RequestInit == Init => RequestInv
<1> SUFFICES ASSUME Init PROVE RequestInv
  OBVIOUS
<1>1. AnsweredOnce /\ RecordedOK
  BY DEF Init, AnsweredOnce, RecordedOK, Failed, Told
<1>2. QED BY <1>1, EvidenceInit DEF RequestInv

\* What the journal knows of a request the broker did, and outcomes exclude each other.
LEMMA KnownOutcome ==
  ASSUME RequestInv, NEW k \in Key
  PROVE  /\ Failed(journal, k) => calls[k] = 0 /\ book[k].state = "NONE"
         /\ Rejected(journal, k) => book[k].state = "REJECTED"
         /\ Acknowledged(journal, k) => book[k].state \in {"LIVE", "DONE"}
         /\ Fills(journal, k) # {} => book[k].state = "LIVE"
         /\ ~(Confirmed(journal, k) /\ EffectRefused(journal, k))
         /\ Confirmed(journal, k) \/ EffectRefused(journal, k) => Acknowledged(journal, k)
         /\ book[k].state # "NONE" => calls[k] > 0
         /\ calls[k] > 0 => journal.observed[k] # "NONE" /\ k \in Submitted(journal)
<1>0. EvidenceInv
  BY DEF RequestInv
<1>1. \A f \in journal.facts :
        f.type \in {"Ack", "Amended", "Cancelled", "EffectRejected"} => f \in emitted
  BY <1>0 DEF EvidenceInv, KnownIsTold, OrderEvidence, RequestEvidence
<1>2. Acknowledged(journal, k) => book[k].state \in {"LIVE", "DONE"}
  BY <1>0, <1>1 DEF EvidenceInv, ToldOK, EffectToldOK, RequestToldOK, Acknowledged, Told
<1>3. ~(Confirmed(journal, k) /\ EffectRefused(journal, k))
  BY <1>1 DEF RequestInv, AnsweredOnce, Confirmed, EffectRefused, Told
<1>4. Confirmed(journal, k) \/ EffectRefused(journal, k) => Acknowledged(journal, k)
  BY DEF Confirmed, EffectRefused, Acknowledged, Told
<1>5. book[k].state # "NONE" => calls[k] > 0
  BY <1>0 DEF EvidenceInv, CallsOK
<1>6. calls[k] > 0 => journal.observed[k] # "NONE"
  BY <1>0 DEF EvidenceInv, DispatchInv, ClaimedBeforeCall
<1>7. calls[k] > 0 => k \in Submitted(journal)
  BY <1>0 DEF EvidenceInv, CallsOK, Accepted
<1>8. Fills(journal, k) # {} => book[k].state = "LIVE"
  BY <1>0, NothingTold
<1>9. QED BY <1>0, <1>2, <1>3, <1>4, <1>5, <1>6, <1>7, <1>8, VoidOrders

\* A request is settled by a deciding fact, and in doubt from its claim until then.
PhaseIn(j, k) ==
  IF k \notin Submitted(j) THEN "none"
  ELSE IF Decided(j, k) THEN "settled"
  ELSE IF j.observed[k] = "NONE" THEN "intent" ELSE "doubt"

LEMMA PhaseIs ==
  ASSUME RequestInv, NEW k \in Key
  PROVE  PhaseOf(k) = PhaseIn(journal, k)
<1>0. TypeOK /\ journal.observed[k] \in InDoubt \cup {"NONE"}
  BY DEF RequestInv, EvidenceInv, DispatchInv, TypeOK, Journal
<1> USE KnownOutcome
<1>1. CASE k \notin Submitted(journal)
  BY <1>1 DEF PhaseOf, PhaseIn
<1>2. CASE k \in Submitted(journal) /\ Decided(journal, k)
  <2>1. ~Conflict(journal, k)
    BY <1>2 DEF Conflict, Positive, Decided
  <2>2. Transport(journal, k) \in {"ACKED", "REJECTED_BY_BROKER", "SEND_FAILED"}
    BY <1>2 DEF Transport, Decided
  <2>3. Transport(journal, k) = "ACKED" /\ k \in Changes(journal) =>
          Effect(journal, k) \in {"CONFIRMED", "REJECTED"}
    <3>1. k \in Changes(journal) => k \notin NewOrders(journal)
      BY DEF Changes, NewOrders
    <3>2. QED BY <1>2, <3>1 DEF Decided, Effect
  <2>4. ~Unresolved(journal, k)
    BY <2>1, <2>2, <2>3 DEF Unresolved, InDoubt
  <2>5. QED BY <1>2, <2>2, <2>4 DEF PhaseOf, PhaseIn
<1>3. CASE k \in Submitted(journal) /\ ~Decided(journal, k) /\ journal.observed[k] = "NONE"
  <2>1. ~Acknowledged(journal, k) /\ Fills(journal, k) = {}
    BY <1>3
  <2>2. Transport(journal, k) = "INTENT_PERSISTED" /\ ~Positive(journal, k)
    BY <1>3, <2>1 DEF Transport, Positive, Decided
  <2>3. ~Conflict(journal, k)
    BY <1>3 DEF Conflict, Decided
  <2>4. ~Unresolved(journal, k)
    BY <2>2, <2>3 DEF Unresolved, InDoubt
  <2>5. QED BY <1>3, <2>2, <2>4 DEF PhaseOf, PhaseIn
<1>4. CASE k \in Submitted(journal) /\ ~Decided(journal, k) /\ journal.observed[k] # "NONE"
  <2>1. CASE Acknowledged(journal, k)
    <3>1. k \notin NewOrders(journal) /\ k \in Changes(journal)
      BY <1>0, <1>4, <2>1, RequestFields DEF Decided
    <3>2. Transport(journal, k) = "ACKED" /\ Effect(journal, k) = "PENDING"
      BY <1>4, <2>1 DEF Transport, Effect, Decided
    <3>3. QED BY <1>4, <3>1, <3>2 DEF Unresolved, PhaseOf, PhaseIn
  <2>2. CASE ~Acknowledged(journal, k)
    <3>1. Transport(journal, k) = journal.observed[k]
      BY <1>4, <2>2 DEF Transport, Decided
    <3>2. QED BY <1>0, <1>4, <3>1 DEF Unresolved, PhaseOf, PhaseIn
  <2>3. QED BY <2>1, <2>2
<1>5. QED BY <1>1, <1>2, <1>3, <1>4

\* The steps requests tell apart.  The journal keeps its requests, the facts that
\* decide about them and which of them have Transport facts.
SameRecords ==
  /\ journal'.requests = journal.requests
  /\ \A k \in Key : journal'.observed[k] = "NONE" <=> journal.observed[k] = "NONE"

SameFacts ==
  \A k \in Key : /\ Failed(journal', k) <=> Failed(journal, k)
                 /\ Decided(journal', k) <=> Decided(journal, k)

SameStates == \A k \in Key : book'[k].state = book[k].state

\* Nothing is told about the effect of a change.
NoEffects ==
  \A f \in emitted' : f \in emitted \/ f.type \in {"Ack", "Rejected", "Fill"}

StaysSame ==
  /\ SameRecords /\ SameFacts /\ SameStates /\ NoEffects
  /\ UNCHANGED <<sending, ready, calls>>

\* A fact about k arrives.
Decides(k) ==
  /\ MutexFree /\ SameRecords /\ k \in Submitted(journal)
  /\ \A i \in Key \ {k} : /\ Failed(journal', i) <=> Failed(journal, i)
                          /\ Decided(journal', i) <=> Decided(journal, i)
  /\ Decided(journal, k) => Decided(journal', k)
  /\ NoEffects /\ UNCHANGED <<sending, ready, calls>>
  /\ \/ SameStates
     \/ /\ calls[k] = 1 /\ book[k].state = "NONE" /\ book'[k].state # "NONE"
        /\ \A i \in Key \ {k} : book'[i].state = book[i].state
        /\ Decided(journal', k)

Enters(k) ==
  /\ MutexFree /\ ready /\ journal.requests[k] = NoRequest
  /\ Submitted(journal') = Submitted(journal) \cup {k}
  /\ \A i \in Key : i # k => journal'.requests[i] = journal.requests[i]
  /\ journal'.facts = journal.facts /\ journal'.observed = journal.observed
  /\ UNCHANGED <<sending, ready, calls, book, emitted>>

Claims(k) ==
  /\ MutexFree /\ ready /\ k \in Submitted(journal)
  /\ journal.observed[k] = "NONE" /\ ~Decided(journal, k)
  /\ journal'.requests = journal.requests /\ journal'.facts = journal.facts
  /\ journal'.observed[k] # "NONE"
  /\ \A i \in Key : i # k => journal'.observed[i] = journal.observed[i]
  /\ sending' = k
  /\ UNCHANGED <<ready, calls, book, emitted>>

Calls ==
  /\ ready /\ sending # NoKey /\ calls[sending] = 0
  /\ calls' = [calls EXCEPT ![sending] = 1]
  /\ UNCHANGED <<journal, sending, ready, book, emitted>>

Returns ==
  /\ sending # NoKey /\ calls[sending] = 1 /\ sending' = NoKey
  /\ SameRecords /\ journal'.facts = journal.facts
  /\ UNCHANGED <<ready, calls, book, emitted>>

Stops == ready' = FALSE /\ sending' = NoKey /\ UNCHANGED <<journal, calls, book, emitted>>

Opens ==
  /\ MutexFree /\ ~ready /\ ready'
  /\ \A k \in Submitted(journal) : ~Unresolved(journal, k)
  /\ UNCHANGED <<journal, sending, calls, book, emitted>>

\* The broker answers k; of a change it tells the effect or a refusal.
Answers(k) ==
  /\ calls[k] = 1 /\ book[k].state = "NONE" /\ book'[k].state # "NONE"
  /\ \A i \in Key \ {k} : book'[i].state = book[i].state
  /\ \A f \in emitted' : f \in emitted \/ f.request = k
  /\ \A f, g \in emitted' :
       f \in emitted \/ g \in emitted
         \/ ~(f.type = "EffectRejected" /\ g.type \in {"Cancelled", "Amended"})
  /\ UNCHANGED <<journal, sending, ready, calls>>

RequestStep ==
  \/ StaysSame \/ Calls \/ Returns \/ Stops \/ Opens
  \/ \E k \in Key : Decides(k) \/ Enters(k) \/ Claims(k) \/ Answers(k)

LEMMA GainsDecide ==
  ASSUME NEW F, Gains(F), NEW k \in Key
  PROVE  /\ (\A f \in F : f.type \in Deciding => f.request # k) =>
              /\ Failed(journal', k) <=> Failed(journal, k)
              /\ Decided(journal', k) <=> Decided(journal, k)
         /\ Decided(journal, k) => Decided(journal', k)
<1>1. NewOrders(journal') = NewOrders(journal)
  BY SameRequests DEF Gains
<1>2. ASSUME NEW T, Told(journal, k, T) PROVE Told(journal', k, T)
  BY <1>2 DEF Told, Gains
<1>3. Decided(journal, k) => Decided(journal', k)
  BY <1>1, <1>2 DEF Decided, Failed, Rejected, Confirmed, EffectRefused, Acknowledged
<1>4. ASSUME \A f \in F : f.type \in Deciding => f.request # k, NEW T, T \subseteq Deciding
      PROVE  Told(journal', k, T) <=> Told(journal, k, T)
  BY <1>4 DEF Told, Gains
<1>5. ASSUME \A f \in F : f.type \in Deciding => f.request # k
      PROVE  /\ Failed(journal', k) <=> Failed(journal, k)
             /\ Decided(journal', k) <=> Decided(journal, k)
  <2> DEFINE Kept(T) == Told(journal', k, T) <=> Told(journal, k, T)
  <2>1. /\ {"SendFailed"} \subseteq Deciding /\ {"Rejected"} \subseteq Deciding
        /\ {"Amended", "Cancelled"} \subseteq Deciding /\ {"EffectRejected"} \subseteq Deciding
        /\ {"Ack", "Amended", "Cancelled", "EffectRejected"} \subseteq Deciding
    BY DEF Deciding
  <2>2. /\ Kept({"SendFailed"}) /\ Kept({"Rejected"}) /\ Kept({"Amended", "Cancelled"})
        /\ Kept({"EffectRejected"}) /\ Kept({"Ack", "Amended", "Cancelled", "EffectRejected"})
    BY <1>4, <1>5, <2>1
  <2>3. QED
    BY <1>1, <2>2 DEF Decided, Failed, Rejected, Confirmed, EffectRefused, Acknowledged
<1>6. QED BY <1>3, <1>5

\* Facts about k, or deciding nothing, arrive outside send.
LEMMA GainsStep ==
  ASSUME NEW F, Gains(F), MutexFree, UNCHANGED <<sending, ready, calls, book, emitted>>,
         \/ \A f \in F : f.type \notin Deciding
         \/ \E k \in Submitted(journal) : \A f \in F : f.type \in Deciding => f.request = k
  PROVE  RequestStep
<1>1. SameRecords /\ SameStates /\ NoEffects
  BY DEF Gains, SameRecords, SameStates, NoEffects
<1>2. CASE \A f \in F : f.type \notin Deciding
  <2>1. SameFacts
    BY <1>2, GainsDecide DEF SameFacts
  <2>2. QED BY <1>1, <2>1 DEF RequestStep, StaysSame
<1>3. ASSUME NEW k \in Submitted(journal), \A f \in F : f.type \in Deciding => f.request = k
      PROVE  RequestStep
  <2>1. k \in Key
    BY DEF Submitted
  <2>2. Decides(k)
    BY <1>1, <1>3, <2>1, GainsDecide DEF Decides
  <2>3. QED BY <2>1, <2>2 DEF RequestStep
<1>4. QED BY <1>2, <1>3

\* The journal changes in what requests do not depend on.
LEMMA SameStep ==
  ASSUME SameRecords, journal'.facts = journal.facts,
         UNCHANGED <<sending, ready, calls, book, emitted>>
  PROVE  RequestStep
<1>1. NewOrders(journal') = NewOrders(journal)
  BY SameRequests DEF SameRecords
<1>2. SameFacts
  BY <1>1 DEF SameFacts, Decided, Failed, Rejected, Confirmed, EffectRefused, Acknowledged, Told
<1>3. SameStates /\ NoEffects
  BY DEF SameStates, NoEffects
<1>4. QED BY <1>2, <1>3 DEF RequestStep, StaysSame

\* Evidence is about requests the journal has.
LEMMA ToldSubmitted ==
  ASSUME EvidenceInv, NEW f \in emitted, f.type \in Deciding
  PROVE  f.request \in Submitted(journal)
<1>1. f.type \in RequestEvidence \cup {"Cancelled", "Amended"}
  BY DEF Deciding, EvidenceInv, ToldOK, RequestToldOK, OrderEvidence, RequestEvidence
<1>2. f.request \in Key
  BY <1>1, FactType DEF EvidenceInv, DispatchInv, TypeOK
<1>3. book[f.request].state # "NONE"
  BY <1>1 DEF EvidenceInv, ToldOK, RequestToldOK, EffectToldOK, RequestEvidence
<1>4. QED BY <1>2, <1>3 DEF EvidenceInv, CallsOK, Accepted

LEMMA EnterStep ==
  ASSUME EvidenceInv, MutexFree, ready, NEW k \in Key, NEW c \in Request,
         journal.requests[k] = NoRequest, AppendRequest(k, c),
         UNCHANGED <<sending, ready, calls, book, emitted>>
  PROVE  RequestStep
<1>1. Enters(k)
  BY RequestAppended DEF Enters, EvidenceInv, DispatchInv
<1>2. QED BY <1>1 DEF RequestStep

LEMMA LedgerStep == EvidenceInv /\ LedgerNext => RequestStep
<1> SUFFICES ASSUME EvidenceInv, LedgerNext PROVE RequestStep
  OBVIOUS
<1> USE DEF boundVars, brokerVars
<1>0. TypeOK /\ journal \in Journal /\ MutexFree /\ UNCHANGED <<calls, sending>>
      /\ journal'.observed = journal.observed
  BY LedgerFrame DEF EvidenceInv, DispatchInv, TypeOK
<1>1. ASSUME journal'.requests = journal.requests, journal'.facts = journal.facts,
             UNCHANGED <<ready, book, emitted>>
      PROVE  RequestStep
  BY <1>0, <1>1, SameStep DEF SameRecords
<1>2. ASSUME NEW q \in Allocations, Allocate(q) PROVE RequestStep
  BY <1>0, <1>1, <1>2 DEF Allocate, AppendEntry, Journal
<1>3. ASSUME NEW s \in BOOLEAN, NEW l \in BOOLEAN, Control(s, l) PROVE RequestStep
  BY <1>0, <1>1, <1>3 DEF Control, AppendEntry, Journal
<1>4. ASSUME NEW v \in Version, NEW r \in Rules \cup {"NONE"}, ApplyConfig(v, r)
      PROVE  RequestStep
  BY <1>0, <1>1, <1>4 DEF ApplyConfig, AppendEntry, Journal
<1>5. ASSUME NEW k \in Key, NEW c \in NewCommand(k) \cup ChangeCommand, Submit(k, c)
      PROVE  RequestStep
  <2>1. c \in Request
    BY <1>0, CommandType
  <2>2. QED BY <1>5, <2>1, EnterStep DEF Submit, Submittable
<1>6. ASSUME NEW f \in emitted, Deliver(f) PROVE RequestStep
  <2>1. Gains({f}) /\ UNCHANGED <<ready, book, emitted>>
    BY <1>0, <1>6, AppendGains DEF Deliver
  <2>2. f.type \in Deciding => f.request \in Submitted(journal)
    BY ToldSubmitted
  <2>3. QED BY <1>0, <2>1, <2>2, GainsStep
<1>7. ASSUME NEW k \in Key, NEW p \in {"NOT_INVOKED", "VERIFIED_UNSENT"}, ReportUnsent(k, p)
      PROVE  RequestStep
  <2>1. Gains({Unsent(k, p)}) /\ UNCHANGED <<ready, book, emitted>> /\ k \in Submitted(journal)
    BY <1>0, <1>7, AppendGains DEF ReportUnsent
  <2>2. Unsent(k, p).request = k
    BY DEF Unsent
  <2>3. QED BY <1>0, <2>1, <2>2, GainsStep
<1>8. ASSUME NEW k \in Key, Discard(k) PROVE RequestStep
  <2>1. /\ Gains({Unsent(k, "NOT_INVOKED")}) /\ UNCHANGED <<ready, book, emitted>>
        /\ k \in Submitted(journal)
    BY <1>0, <1>8, AppendGains DEF Discard
  <2>2. Unsent(k, "NOT_INVOKED").request = k
    BY DEF Unsent
  <2>3. QED BY <1>0, <2>1, <2>2, GainsStep
<1>9. ASSUME NEW f, AppendFact(f), f.type \notin Deciding, UNCHANGED <<ready, book, emitted>>
      PROVE  RequestStep
  <2>1. Gains({f})
    BY <1>0, <1>9, AppendGains
  <2>2. QED BY <1>0, <1>9, <2>1, GainsStep
<1>10. ASSUME NEW f \in emitted, Quarantine(f) PROVE RequestStep
  BY <1>9, <1>10 DEF Quarantine, Quarantined, Deciding
<1>11. ASSUME NEW f \in emitted, Reprocess(f) PROVE RequestStep
  <2>1. Gains({f, Released(f)}) /\ UNCHANGED <<ready, book, emitted>>
    BY <1>0, <1>11 DEF Reprocess, AppendFacts, Gains, Journal
  <2>2. Released(f).type \notin Deciding
    BY DEF Released, Deciding
  <2>3. f.type \in Deciding => f.request \in Submitted(journal)
    BY ToldSubmitted
  <2>4. QED BY <1>0, <2>1, <2>2, <2>3, GainsStep
<1>12. CASE ReportDiscrepancy
  BY <1>9, <1>12 DEF ReportDiscrepancy, Discrepancy, Deciding
<1>13. ASSUME NEW n \in 0..MaxIncidents, Reconcile(n) PROVE RequestStep
  BY <1>9, <1>13 DEF Reconcile, Reconciled, Deciding
<1>14. ASSUME NEW r \in 1..MaxTime, NEW n \in 1..MaxTime, NEW x \in BOOLEAN,
              ProcessQuote(r, n, x)
       PROVE  RequestStep
  <2> DEFINE j == [journal EXCEPT !.cursor = [received |-> r, evaluated |-> n]]
  <2>1. journal' = j \/ \E v \in Version : journal' = [j EXCEPT !.latch = v]
    BY <1>14 DEF ProcessQuote, AppendEntry
  <2>2. j.requests = journal.requests /\ j.facts = journal.facts
    BY <1>0 DEF Journal
  <2>3. ASSUME NEW v \in Version
        PROVE  /\ [j EXCEPT !.latch = v].requests = journal.requests
               /\ [j EXCEPT !.latch = v].facts = journal.facts
    BY <1>0 DEF Journal
  <2>4. UNCHANGED <<ready, book, emitted>>
    BY <1>14 DEF ProcessQuote
  <2>5. QED BY <1>1, <2>1, <2>2, <2>3, <2>4
<1>15. CASE Latch
  BY <1>0, <1>1, <1>15 DEF Latch, AppendEntry, Journal
<1>16. QED
  BY <1>2, <1>3, <1>4, <1>5, <1>6, <1>7, <1>8, <1>10, <1>11, <1>12, <1>13, <1>14, <1>15
     DEF LedgerNext

LEMMA SessionStep == RequestInv /\ SessionNext => RequestStep
<1> SUFFICES ASSUME RequestInv, SessionNext PROVE RequestStep
  OBVIOUS
<1> USE DEF ledgerVars, workVars, boundVars, brokerVars
<1>0. journal \in Journal
  BY DEF RequestInv, EvidenceInv, DispatchInv, TypeOK
<1>1. CASE Review
  BY <1>1, SameStep DEF Review, SameRecords
<1>2. CASE Approve
  BY <1>2 DEF Approve, Opens, RequestStep
<1>3. CASE Recover
  <2> DEFINE open == {k \in Accepted(journal) : Unresolved(journal, k)}
  <2>1. \A k \in open : k \in Key /\ k \in Submitted(journal) /\ PhaseOf(k) = "doubt"
    BY DEF Accepted, Submitted, PhaseOf
  <2>2. \A k \in open : journal.observed[k] # "NONE"
    BY <2>1, PhaseIs DEF PhaseIn
  <2>3. /\ journal'.requests = journal.requests /\ journal'.facts = journal.facts
        /\ \A k \in Key : IF k \in open THEN journal'.observed[k] # "NONE"
                          ELSE journal'.observed[k] = journal.observed[k]
    BY <1>0, <1>3 DEF Recover, AppendFacts, Journal
  <2>4. SameRecords
    BY <2>2, <2>3 DEF SameRecords
  <2>5. QED BY <1>3, <2>3, <2>4, SameStep DEF Recover
<1>4. CASE Restart
  BY <1>4 DEF Restart, Stops, RequestStep
<1>5. ASSUME NEW k \in Key, Expire(k) PROVE RequestStep
  BY <1>5, SameStep DEF Expire, SameRecords
<1>6. QED BY <1>1, <1>2, <1>3, <1>4, <1>5 DEF SessionNext

\* A claim is of a request about which nothing was observed and nothing is known.
LEMMA ClaimStep ==
  ASSUME RequestInv, MutexFree, NEW k \in Key, Claimable(k), Claim(k)
  PROVE  RequestStep
<1>0. journal \in Journal
  BY DEF RequestInv, EvidenceInv, DispatchInv, TypeOK
<1>1. k \in Submitted(journal) /\ ready /\ Transport(journal, k) = "INTENT_PERSISTED"
  BY DEF Claimable, Accepted
<1>2. journal.observed[k] = "NONE"
  BY <1>0, <1>1, IntentHasNoTransport DEF Journal
<1>3. ~Decided(journal, k)
  <2>1. ~Failed(journal, k) /\ ~Rejected(journal, k) /\ ~Acknowledged(journal, k)
    BY <1>1 DEF Transport
  <2>2. QED BY <2>1, KnownOutcome DEF Decided
<1>4. /\ journal'.requests = journal.requests /\ journal'.facts = journal.facts
      /\ journal'.observed = [journal.observed EXCEPT ![k] = "SENDING"]
      /\ sending' = k /\ UNCHANGED <<ready, calls, book, emitted>>
  BY <1>0 DEF Claim, AppendTransport, AppendFacts, Journal, brokerVars
<1>5. journal.observed \in [Key -> InDoubt \cup {"NONE"}]
  BY <1>0 DEF Journal
<1>6. Claims(k)
  BY <1>1, <1>2, <1>3, <1>4, <1>5 DEF Claims
<1>7. QED BY <1>6 DEF RequestStep

LEMMA DispatchStep == RequestInv /\ DispatchNext => RequestStep
<1> SUFFICES ASSUME RequestInv, DispatchNext PROVE RequestStep
  OBVIOUS
<1> USE DEF ledgerVars, workVars, boundVars, brokerVars
<1>0. /\ journal \in Journal /\ calls \in [Key -> Nat] /\ sending \in Key \cup {NoKey}
      /\ sending # NoKey => /\ journal.observed[sending] # "NONE"
                            /\ calls[sending] = IF called THEN 1 ELSE 0
                            /\ ready
  BY DEF RequestInv, EvidenceInv, DispatchInv, TypeOK, ClaimedBeforeCall
<1>1. ASSUME NEW k \in Key, Send(k) PROVE RequestStep
  BY <1>1, ClaimStep DEF Send
<1>2. CASE Call
  <2>1. calls[sending] = 0 /\ calls' = [calls EXCEPT ![sending] = calls[sending] + 1]
    BY <1>0, <1>2 DEF Call
  <2>2. calls' = [calls EXCEPT ![sending] = 1]
    BY <2>1
  <2>3. QED BY <1>0, <1>2, <2>1, <2>2 DEF Call, Calls, RequestStep
<1>3. CASE RecordSent
  <2>1. /\ journal'.requests = journal.requests /\ journal'.facts = journal.facts
        /\ journal'.observed = [journal.observed EXCEPT ![sending] = "SENT"]
    BY <1>0, <1>3 DEF RecordSent, AppendTransport, AppendFacts, Journal
  <2>2. SameRecords
    <3>1. journal.observed \in [Key -> InDoubt \cup {"NONE"}]
      BY <1>0 DEF Journal
    <3>2. QED BY <1>0, <1>3, <2>1, <3>1 DEF RecordSent, SameRecords
  <2>3. QED BY <1>0, <1>3, <2>1, <2>2 DEF RecordSent, Returns, RequestStep
<1>4. CASE SentNotRecorded
  BY <1>0, <1>4 DEF SentNotRecorded, Returns, SameRecords, RequestStep
<1>5. QED BY <1>1, <1>2, <1>3, <1>4 DEF DispatchNext

LEMMA WorkerStep == RequestInv /\ WorkerNext => RequestStep
<1> SUFFICES ASSUME RequestInv, NEW w \in Worker,
                    \/ DrainLook(w) \/ DrainObligations(w) \/ DrainCandidate(w)
                    \/ ProcessLook(w) \/ ProcessPosition(w)
                    \/ WorkerSubmit(w) \/ WorkerSend(w) \/ WorkerAck(w)
             PROVE  RequestStep
  BY DEF WorkerNext
<1> USE DEF workerFrame, boundVars, brokerVars
<1>0. EvidenceInv /\ TypeOK /\ worker \in [Worker -> WorkerState]
  BY DEF RequestInv, EvidenceInv, DispatchInv, TypeOK
<1>1. ASSUME UNCHANGED <<journal, workerFrame>> PROVE RequestStep
  BY <1>1, SameStep DEF SameRecords
<1>2. CASE DrainLook(w)
  BY <1>1, <1>2 DEF DrainLook
<1>3. CASE DrainObligations(w)
  BY <1>1, <1>3 DEF DrainObligations
<1>4. CASE DrainCandidate(w)
  BY <1>1, <1>4 DEF DrainCandidate
<1>5. CASE ProcessLook(w)
  BY <1>1, <1>5 DEF ProcessLook
<1>6. CASE ProcessPosition(w)
  BY <1>1, <1>6 DEF ProcessPosition
<1>7. CASE WorkerSubmit(w)
  <2> DEFINE k == worker[w].key
             c == New("SELL", worker[w].qty, k, worker[w].version, worker[w].stop)
  <2>1. /\ k \in Key /\ worker[w].qty \in PositiveQty /\ worker[w].version \in Version
        /\ worker[w].stop \in Version \cup {NoLatch}
    BY <1>0, <1>7 DEF WorkerSubmit, WorkerState, Idle
  <2>2. c \in Request
    BY <2>1 DEF New, Request
  <2>3. CASE journal.requests[k] = NoRequest /\ Submittable(k, c) /\ AppendRequest(k, c)
    BY <1>0, <1>7, <2>1, <2>2, <2>3, EnterStep DEF WorkerSubmit, Submittable
  <2>4. CASE UNCHANGED journal
    BY <1>1, <1>7, <2>4 DEF WorkerSubmit
  <2>5. QED BY <1>7, <2>3, <2>4 DEF WorkerSubmit
<1>8. CASE WorkerSend(w)
  <2>1. worker[w].key \in Key
    BY <1>0, <1>8 DEF WorkerSend, WorkerState, Idle
  <2>2. QED BY <1>1, <1>8, <2>1, ClaimStep DEF WorkerSend
<1>9. CASE WorkerAck(w)
  <2> DEFINE k == worker[w].key
             f == Told1("Ack", k)
  <2>1. /\ book' = [book EXCEPT ![k] = Opened(k)] /\ emitted' = emitted \cup {f}
        /\ Ingest(f) /\ worker[w].step = "ack" /\ MutexFree
        /\ UNCHANGED <<ready, calls, sending>>
    BY <1>9 DEF WorkerAck
  <2>2. /\ k \in NewOrders(journal) /\ k \in Submitted(journal) /\ k \in Key
        /\ book[k].state = "NONE" /\ calls[k] > 0
    <3>1. k \in NewOrders(journal) /\ book[k].state = "NONE" /\ (sending = k \/ calls[k] > 0)
      BY <1>0, <2>1 DEF EvidenceInv, WorkersOK
    <3>2. k \in Submitted(journal) /\ k \in Key
      BY <3>1 DEF NewOrders, Submitted
    <3>3. QED BY <2>1, <3>1, <3>2, NoKeyAssumption DEF MutexFree
  <2>3. calls[k] = 1
    BY <1>0, <2>2, BookType DEF EvidenceInv, DispatchInv, CallOnce
  <2>4. Gains({f}) /\ f.type = "Ack" /\ f.request = k
    BY <1>0, <2>1, AppendGains DEF Told1
  <2>5. \A i \in Key \ {k} : book'[i].state = book[i].state
    BY <1>0, <2>1 DEF TypeOK
  <2>6. book'[k].state # "NONE"
    BY <1>0, <2>1, <2>2 DEF TypeOK, Opened
  <2>7. Decided(journal', k)
    <3>1. NewOrders(journal') = NewOrders(journal)
      BY <2>4, SameRequests DEF Gains
    <3>2. Acknowledged(journal', k)
      BY <2>4 DEF Acknowledged, Told, Gains
    <3>3. QED BY <2>2, <3>1, <3>2 DEF Decided
  <2>8. SameRecords /\ NoEffects
    BY <2>1, <2>4 DEF Gains, SameRecords, NoEffects
  <2> HIDE DEF f
  <2>9. \A i \in Key \ {k} : /\ Failed(journal', i) <=> Failed(journal, i)
                             /\ Decided(journal', i) <=> Decided(journal, i)
    BY <2>4, GainsDecide
  <2> HIDE DEF k
  <2>10. Decides(k)
    BY <2>1, <2>2, <2>3, <2>5, <2>6, <2>7, <2>8, <2>9 DEF Decides
  <2>11. QED BY <2>2, <2>10 DEF RequestStep
<1>10. QED BY <1>2, <1>3, <1>4, <1>5, <1>6, <1>7, <1>8, <1>9

LEMMA BrokerStep == RequestInv /\ BrokerNext => RequestStep
<1> SUFFICES ASSUME RequestInv, NEW k \in Key,
                    \/ BrokerAccept(k) \/ BrokerReject(k)
                    \/ \E n \in Qty : BrokerFill(k, n)
                    \/ BrokerChange(k)
             PROVE  RequestStep
  BY DEF BrokerNext
<1> USE DEF ledgerVars, workVars, boundVars
<1>0. /\ EvidenceInv /\ TypeOK /\ DOMAIN book = Key /\ calls[k] \in Nat
      /\ \A i \in Key : DOMAIN book[i] = {"state", "remaining", "ver"}
      /\ calls[k] <= 1
  BY DEF RequestInv, EvidenceInv, DispatchInv, TypeOK, CallOnce
<1>1. Waiting(k) => calls[k] = 1 /\ book[k].state = "NONE"
  BY <1>0 DEF Waiting, NotHandled
<1>2. CASE BrokerAccept(k)
  <2>1. /\ Waiting(k) /\ book' = [book EXCEPT ![k] = Opened(k)]
        /\ emitted' = emitted \cup {Told1("Ack", k)}
        /\ UNCHANGED <<journal, sending, ready, calls>>
    BY <1>2 DEF BrokerAccept
  <2>2. book'[k].state = "LIVE" /\ \A i \in Key \ {k} : book'[i].state = book[i].state
    BY <1>0, <2>1 DEF Opened
  <2>3. Answers(k)
    BY <1>1, <2>1, <2>2 DEF Answers, Told1
  <2>4. QED BY <2>3 DEF RequestStep
<1>3. CASE BrokerReject(k)
  <2>1. /\ Waiting(k) /\ book' = [book EXCEPT ![k].state = "REJECTED"]
        /\ emitted' = emitted \cup {Told1("Rejected", k)}
        /\ UNCHANGED <<journal, sending, ready, calls>>
    BY <1>3 DEF BrokerReject
  <2>2. book'[k].state = "REJECTED" /\ \A i \in Key \ {k} : book'[i].state = book[i].state
    BY <1>0, <2>1
  <2>3. Answers(k)
    BY <1>1, <2>1, <2>2 DEF Answers, Told1
  <2>4. QED BY <2>3 DEF RequestStep
<1>4. ASSUME NEW n \in Qty, BrokerFill(k, n) PROVE RequestStep
  <2> DEFINE left == book[k].remaining - n
             ver == book[k].ver + 1
             f == [type |-> "Fill", order |-> k, qty |-> n, remaining |-> left, ver |-> ver]
  <2>1. /\ book' = [book EXCEPT ![k].remaining = left, ![k].ver = ver]
        /\ emitted' = emitted \cup {f}
        /\ UNCHANGED <<journal, sending, ready, calls>>
    BY <1>4 DEF BrokerFill
  <2>2. SameStates
    BY <1>0, <2>1 DEF SameStates
  <2>3. f.type = "Fill"
    OBVIOUS
  <2> HIDE DEF f
  <2>4. NoEffects
    BY <2>1, <2>3 DEF NoEffects
  <2>5. SameRecords /\ SameFacts
    BY <2>1 DEF SameRecords, SameFacts
  <2>6. QED BY <2>1, <2>2, <2>4, <2>5 DEF RequestStep, StaysSame
<1>5. CASE BrokerChange(k)
  <2> DEFINE t == journal.requests[k].target
  <2>1. Waiting(k) /\ UNCHANGED <<journal, sending, ready, calls>>
    BY <1>5 DEF BrokerChange
  <2>2. \/ \E left, ver : book' = [book EXCEPT ![k].state = "DONE", ![t].remaining = left,
                                                ![t].ver = ver]
        \/ book' = [book EXCEPT ![k].state = "DONE"]
    BY <1>5 DEF BrokerChange
  <2>3. book'[k].state = "DONE" /\ \A i \in Key \ {k} : book'[i].state = book[i].state
    <3>1. CASE book' = [book EXCEPT ![k].state = "DONE"]
      BY <1>0, <3>1
    <3>2. ASSUME NEW left, NEW ver,
                 book' = [book EXCEPT ![k].state = "DONE", ![t].remaining = left,
                                      ![t].ver = ver]
          PROVE  book'[k].state = "DONE" /\ \A i \in Key \ {k} : book'[i].state = book[i].state
      BY <1>0, <3>2
    <3>3. QED BY <2>2, <3>1, <3>2
  <2>4. \E e : /\ emitted' = emitted \cup {Told1("Ack", k), e} /\ e.request = k
               /\ e.type \in {"Cancelled", "Amended", "EffectRejected"}
    <3> DEFINE c == journal.requests[k]
               live == book[c.target].remaining
               cut == IF c.kind = "Amend" THEN -c.qty ELSE IF c.qty < live THEN c.qty ELSE live
               done == [type |-> IF c.kind = "Cancel" THEN "Cancelled" ELSE "Amended",
                        request |-> k, order |-> c.target, ver |-> book[c.target].ver + 1,
                        qty |-> IF c.kind = "Cancel" THEN cut ELSE c.qty,
                        remaining |-> live - cut]
               none == Told1("EffectRejected", k)
    <3>1. \/ emitted' = emitted \cup {Told1("Ack", k), done}
          \/ emitted' = emitted \cup {Told1("Ack", k), none}
      BY <1>5 DEF BrokerChange
    <3>2. /\ done.request = k /\ done.type \in {"Cancelled", "Amended"}
          /\ none.request = k /\ none.type = "EffectRejected"
      BY DEF Told1
    <3> HIDE DEF done, none
    <3>3. CASE emitted' = emitted \cup {Told1("Ack", k), done}
      BY ONLY <3>2, <3>3
    <3>4. CASE emitted' = emitted \cup {Told1("Ack", k), none}
      BY ONLY <3>2, <3>4
    <3>5. QED BY ONLY <3>1, <3>3, <3>4
  <2>5. Answers(k)
    <3>1. PICK e : /\ emitted' = emitted \cup {Told1("Ack", k), e} /\ e.request = k
                   /\ e.type \in {"Cancelled", "Amended", "EffectRejected"}
      BY <2>4
    <3>2. Told1("Ack", k).type = "Ack" /\ Told1("Ack", k).request = k
      BY DEF Told1
    <3>3. ASSUME NEW f \in emitted'
          PROVE  f \in emitted \/ (f.request = k /\ (f = e \/ f.type = "Ack"))
      <4>1. f \in emitted \/ f = Told1("Ack", k) \/ f = e
        BY ONLY <3>1, <3>3
      <4>2. CASE f = Told1("Ack", k)
        BY ONLY <3>2, <4>2
      <4>3. CASE f = e
        BY ONLY <3>1, <4>3
      <4>4. QED BY ONLY <4>1, <4>2, <4>3
    <3>4. \A f, g \in emitted' :
            f \in emitted \/ g \in emitted
              \/ ~(f.type = "EffectRejected" /\ g.type \in {"Cancelled", "Amended"})
      BY <3>3
    <3>5. QED BY <1>1, <2>1, <2>3, <3>3, <3>4 DEF Answers
  <2>6. QED BY <2>5 DEF RequestStep
<1>6. QED BY <1>2, <1>3, <1>4, <1>5

LEMMA RequestSteps == RequestInv /\ [Next]_vars => RequestStep
<1> SUFFICES ASSUME RequestInv, [Next]_vars PROVE RequestStep
  OBVIOUS
<1>1. CASE UNCHANGED vars
  BY <1>1, SameStep DEF vars, ledgerVars, brokerVars, SameRecords
<1>2. QED
  BY <1>1, LedgerStep, SessionStep, DispatchStep, WorkerStep, BrokerStep
     DEF RequestInv, Next

LEMMA RequestNext == RequestInv /\ [Next]_vars => RequestInv'
<1> SUFFICES ASSUME RequestInv, EvidenceInv', RequestStep
             PROVE  AnsweredOnce' /\ RecordedOK'
  BY EvidenceNext, RequestSteps DEF RequestInv
<1>1. EvidenceInv
  BY DEF RequestInv
<1>2. ASSUME NoEffects PROVE AnsweredOnce'
  BY <1>2 DEF NoEffects, RequestInv, AnsweredOnce
<1>3. ASSUME SameRecords PROVE Submitted(journal') = Submitted(journal)
  BY <1>3, SameRequests DEF SameRecords
<1>4. ASSUME emitted' = emitted PROVE AnsweredOnce'
  BY <1>4 DEF RequestInv, AnsweredOnce
<1>5. ASSUME journal'.facts = journal.facts
      PROVE  \A k \in Key : Failed(journal', k) <=> Failed(journal, k)
  BY <1>5 DEF Failed, Told
<1>6. ASSUME UNCHANGED journal PROVE RecordedOK'
  BY <1>6 DEF RequestInv, RecordedOK
<1>7. CASE StaysSame
  BY <1>2, <1>3, <1>7 DEF StaysSame, SameRecords, SameFacts, RequestInv, RecordedOK,
     AnsweredOnce
<1>8. CASE Calls \/ Stops \/ Opens
  BY <1>4, <1>6, <1>8 DEF Calls, Stops, Opens, RequestInv, AnsweredOnce, RecordedOK
<1>9. CASE Returns
  BY <1>3, <1>4, <1>5, <1>9 DEF Returns, SameRecords, RequestInv, RecordedOK, AnsweredOnce
<1>10. ASSUME NEW k \in Key, Decides(k) PROVE AnsweredOnce' /\ RecordedOK'
  BY <1>2, <1>3, <1>10 DEF Decides, SameRecords, RequestInv, RecordedOK, AnsweredOnce
<1>11. ASSUME NEW k \in Key, Enters(k) PROVE AnsweredOnce' /\ RecordedOK'
  BY <1>4, <1>5, <1>11 DEF Enters, RequestInv, RecordedOK, AnsweredOnce
<1>12. ASSUME NEW k \in Key, Claims(k) PROVE AnsweredOnce' /\ RecordedOK'
  <2>1. Submitted(journal') = Submitted(journal)
    BY <1>12, SameRequests DEF Claims
  <2>2. QED BY <1>4, <1>5, <1>12, <2>1 DEF Claims, RequestInv, RecordedOK, AnsweredOnce
<1>13. ASSUME NEW k \in Key, Answers(k) PROVE AnsweredOnce' /\ RecordedOK'
  <2>1. \A f \in emitted : f.type \in {"EffectRejected", "Cancelled", "Amended"} => f.request # k
    BY <1>1, <1>13 DEF Answers, EvidenceInv, ToldOK, RequestToldOK, EffectToldOK
  <2>2. AnsweredOnce'
    <3>1. ASSUME NEW f \in emitted', NEW g \in emitted', f.type = "EffectRejected",
                 g.type \in {"Cancelled", "Amended"}, f.request = g.request
          PROVE  FALSE
      <4>1. f \in emitted \/ g \in emitted
        BY <1>13, <3>1 DEF Answers
      <4>2. f \in emitted /\ g \in emitted
        BY <1>13, <2>1, <3>1, <4>1 DEF Answers
      <4>3. QED BY <3>1, <4>2 DEF RequestInv, AnsweredOnce
    <3>2. QED BY <3>1 DEF AnsweredOnce
  <2>3. QED BY <1>6, <1>13, <2>2 DEF Answers
<1>14. QED BY <1>7, <1>8, <1>9, <1>10, <1>11, <1>12, <1>13 DEF RequestStep

\* The journal decides the phases, before a step and after it.
PhasesOK == \A k \in Key : PhaseOf(k) = PhaseIn(journal, k)

LEMMA Phases == RequestInv => PhasesOK
BY PhaseIs DEF PhasesOK

\* A request that is decided was answered, or never called.
DecidedOK == \A k \in Key : Decided(journal, k) => calls[k] = 0 \/ book[k].state # "NONE"

LEMMA DecidedTruly == RequestInv => DecidedOK
BY KnownOutcome DEF DecidedOK, Decided

LEMMA LifeInit == Init => Life!Init
<1> SUFFICES ASSUME Init PROVE Life!Init
  OBVIOUS
<1>1. Submitted(journal) = {}
  BY DEF Init, Submitted
<1>2. \A k \in Key : PhaseOf(k) = "none" /\ book[k].state = "NONE"
  BY <1>1 DEF Init, PhaseOf, NotHandled
<1>3. QED BY <1>2 DEF Init, Life!Init

\* Phases and answers as RequestLife sees them.
PhaseMap == [k \in Key |-> PhaseOf(k)]
AnsweredSet == {k \in Key : book[k].state # "NONE"}

LEMMA PhaseMoves ==
  ASSUME NEW k \in Key, NEW phase, PhaseOf(k)' = phase,
         \A i \in Key : i # k => PhaseOf(i)' = PhaseOf(i)
  PROVE  PhaseMap' = [PhaseMap EXCEPT ![k] = phase]
BY DEF PhaseMap

LEMMA SameAnswers ==
  ASSUME SameStates \/ UNCHANGED book
  PROVE  AnsweredSet' = AnsweredSet
BY DEF AnsweredSet, SameStates

LEMMA NewAnswer ==
  ASSUME NEW k \in Key, book[k].state = "NONE", book'[k].state # "NONE",
         \A i \in Key \ {k} : book'[i].state = book[i].state
  PROVE  k \notin AnsweredSet /\ AnsweredSet' = AnsweredSet \cup {k}
BY DEF AnsweredSet

\* Every kind of step is a step of RequestLife or none.
LEMMA LifeStepped ==
  ASSUME RequestInv, RequestInv', RequestStep
  PROVE  [Life!Next]_(Life!requestVars)
<1> USE DEF MutexFree
<1>0. PhasesOK /\ PhasesOK' /\ DecidedOK'
  BY Phases, DecidedTruly, PTL
<1>1. \A k \in Key : /\ PhaseOf(k) = PhaseIn(journal, k)
                     /\ PhaseOf(k)' = PhaseIn(journal', k)
  BY <1>0 DEF PhasesOK
<1>2. ASSUME PhaseMap' = PhaseMap, AnsweredSet' = AnsweredSet, UNCHANGED <<sending, ready, calls>>
      PROVE  UNCHANGED Life!requestVars
  BY <1>2 DEF Life!requestVars, PhaseMap, AnsweredSet
<1>3. ASSUME SameRecords PROVE Submitted(journal') = Submitted(journal)
  BY <1>3, SameRequests DEF SameRecords
<1>4. ASSUME SameRecords, SameFacts PROVE PhaseMap' = PhaseMap
  BY <1>1, <1>3, <1>4 DEF SameRecords, SameFacts, PhaseIn, PhaseMap
<1>5. ASSUME UNCHANGED journal PROVE PhaseMap' = PhaseMap
  BY <1>1, <1>5 DEF PhaseMap
<1>6. ASSUME journal'.requests = journal.requests, journal'.facts = journal.facts
      PROVE  \A k \in Key : Decided(journal', k) <=> Decided(journal, k)
  <2>1. NewOrders(journal') = NewOrders(journal)
    BY <1>6, SameRequests
  <2>2. QED
    BY <1>6, <2>1 DEF Decided, Failed, Rejected, Confirmed, EffectRefused, Acknowledged, Told
<1>7. CASE StaysSame
  BY <1>2, <1>4, <1>7, SameAnswers DEF StaysSame
<1>8. CASE Calls
  <2>1. PhaseMap' = PhaseMap /\ AnsweredSet' = AnsweredSet
    BY <1>5, <1>8, SameAnswers DEF Calls
  <2>2. Life!Call
    BY <1>8, <2>1 DEF Calls, Life!Call, PhaseMap, AnsweredSet
  <2>3. QED BY <2>2 DEF Life!Next
<1>9. CASE Returns
  <2>1. PhaseMap' = PhaseMap /\ AnsweredSet' = AnsweredSet
    <3>1. \A k \in Key : Decided(journal', k) <=> Decided(journal, k)
      BY <1>6, <1>9 DEF Returns, SameRecords
    <3>2. PhaseMap' = PhaseMap
      BY <1>1, <1>3, <1>9, <3>1 DEF Returns, SameRecords, PhaseIn, PhaseMap
    <3>3. QED BY <1>9, <3>2, SameAnswers DEF Returns
  <2>2. Life!Return
    BY <1>9, <2>1 DEF Returns, Life!Return, PhaseMap, AnsweredSet
  <2>3. QED BY <2>2 DEF Life!Next
<1>10. CASE Stops
  <2>1. PhaseMap' = PhaseMap /\ AnsweredSet' = AnsweredSet
    BY <1>5, <1>10, SameAnswers DEF Stops
  <2>2. Life!Crash
    BY <1>10, <2>1 DEF Stops, Life!Crash, PhaseMap, AnsweredSet
  <2>3. QED BY <2>2 DEF Life!Next
<1>11. CASE Opens
  <2>1. PhaseMap' = PhaseMap /\ AnsweredSet' = AnsweredSet
    BY <1>5, <1>11, SameAnswers DEF Opens
  <2>2. \A k \in Key : PhaseMap[k] # "doubt"
    BY <1>11 DEF Opens, PhaseMap, PhaseOf
  <2>3. Life!Approve
    BY <1>11, <2>1, <2>2 DEF Opens, Life!Approve, PhaseMap, AnsweredSet
  <2>4. QED BY <2>3 DEF Life!Next
<1>12. ASSUME NEW k \in Key, Enters(k) PROVE Life!Enter(k)
  <2>1. k \notin Submitted(journal) /\ Submitted(journal') = Submitted(journal) \cup {k}
    BY <1>12 DEF Enters, Submitted
  <2>2. journal.observed[k] = "NONE" /\ ~Failed(journal, k)
    BY <2>1 DEF RequestInv, RecordedOK
  <2>3. ~Failed(journal', k) /\ ~Rejected(journal', k) /\ ~Acknowledged(journal', k)
        /\ ~Confirmed(journal', k) /\ ~EffectRefused(journal', k)
    <3>1. ~Rejected(journal, k) /\ ~Acknowledged(journal, k)
          /\ ~Confirmed(journal, k) /\ ~EffectRefused(journal, k)
      BY <2>1, KnownOutcome
    <3>2. journal'.facts = journal.facts
      BY <1>12 DEF Enters
    <3>3. QED
      BY <2>2, <3>1, <3>2 DEF Failed, Rejected, Confirmed, EffectRefused, Acknowledged, Told
  <2>4. PhaseOf(k) = "none" /\ PhaseOf(k)' = "intent"
    BY <1>1, <1>12, <2>1, <2>2, <2>3 DEF Enters, PhaseIn, Decided
  <2>5. ASSUME NEW i \in Key, i # k PROVE PhaseOf(i)' = PhaseOf(i)
    <3>1. /\ journal'.requests[i] = journal.requests[i] /\ journal'.facts = journal.facts
          /\ journal'.observed = journal.observed
      BY <1>12, <2>5 DEF Enters
    <3>2. /\ i \in Submitted(journal') <=> i \in Submitted(journal)
          /\ i \in NewOrders(journal') <=> i \in NewOrders(journal)
      BY <3>1 DEF Submitted, NewOrders
    <3>3. Decided(journal', i) <=> Decided(journal, i)
      BY <3>1, <3>2 DEF Decided, Failed, Rejected, Confirmed, EffectRefused, Acknowledged, Told
    <3>4. QED BY <1>1, <3>1, <3>2, <3>3 DEF PhaseIn
  <2>6. PhaseMap' = [PhaseMap EXCEPT ![k] = "intent"] /\ PhaseMap[k] = "none"
    BY <2>4, <2>5, PhaseMoves DEF PhaseMap
  <2>7. AnsweredSet' = AnsweredSet
    BY <1>12, SameAnswers DEF Enters
  <2>8. QED BY <1>12, <2>6, <2>7 DEF Enters, Life!Enter, PhaseMap, AnsweredSet
<1>13. ASSUME NEW k \in Key, Claims(k) PROVE Life!Claim(k)
  <2>1. \A i \in Key : Decided(journal', i) <=> Decided(journal, i)
    BY <1>6, <1>13 DEF Claims
  <2>2. Submitted(journal') = Submitted(journal)
    BY <1>13, SameRequests DEF Claims
  <2>3. PhaseOf(k) = "intent" /\ PhaseOf(k)' = "doubt"
    BY <1>1, <1>13, <2>1, <2>2 DEF Claims, PhaseIn
  <2>4. \A i \in Key : i # k => PhaseOf(i)' = PhaseOf(i)
    BY <1>1, <1>13, <2>1, <2>2 DEF Claims, PhaseIn
  <2>5. PhaseMap' = [PhaseMap EXCEPT ![k] = "doubt"] /\ PhaseMap[k] = "intent"
    BY <2>3, <2>4, PhaseMoves DEF PhaseMap
  <2>6. AnsweredSet' = AnsweredSet
    BY <1>13, SameAnswers DEF Claims
  <2>7. QED BY <1>13, <2>5, <2>6 DEF Claims, Life!Claim, PhaseMap, AnsweredSet
<1>14. ASSUME NEW k \in Key, Answers(k) PROVE Life!Answer(k)
  <2>1. PhaseMap' = PhaseMap
    BY <1>5, <1>14 DEF Answers
  <2>2. k \notin AnsweredSet /\ AnsweredSet' = AnsweredSet \cup {k}
    BY <1>14, NewAnswer DEF Answers
  <2>3. QED
    BY <1>14, <2>1, <2>2 DEF Answers, Life!Answer, Life!Answered, PhaseMap, AnsweredSet
<1>15. ASSUME NEW k \in Key, Decides(k)
       PROVE  Life!Settle(k) \/ UNCHANGED Life!requestVars
  <2>1. Submitted(journal') = Submitted(journal)
    BY <1>3, <1>15 DEF Decides
  <2>2. \A i \in Key : i # k => PhaseOf(i)' = PhaseOf(i)
    BY <1>1, <1>15, <2>1 DEF Decides, SameRecords, PhaseIn
  <2>3. CASE SameStates /\ (Decided(journal', k) <=> Decided(journal, k))
    <3>1. PhaseOf(k)' = PhaseOf(k)
      BY <1>1, <1>15, <2>1, <2>3 DEF Decides, SameRecords, PhaseIn
    <3>2. PhaseMap' = PhaseMap
      BY <2>2, <3>1 DEF PhaseMap
    <3>3. QED BY <1>2, <1>15, <2>3, <3>2, SameAnswers DEF Decides
  <2>4. ASSUME Decided(journal', k), ~Decided(journal, k)
        PROVE  /\ PhaseMap[k] \in {"intent", "doubt"}
               /\ PhaseMap' = [PhaseMap EXCEPT ![k] = "settled"]
    <3>1. PhaseOf(k) \in {"intent", "doubt"} /\ PhaseOf(k)' = "settled"
      BY <1>1, <1>15, <2>1, <2>4 DEF Decides, PhaseIn
    <3>2. QED BY <2>2, <3>1, PhaseMoves DEF PhaseMap
  <2>5. CASE SameStates /\ Decided(journal', k) /\ ~Decided(journal, k)
    <3>1. AnsweredSet' = AnsweredSet
      BY <2>5, SameAnswers
    <3>2. calls[k] = 0 \/ k \in AnsweredSet
      BY <1>0, <1>15, <2>5 DEF DecidedOK, AnsweredSet, SameStates, Decides
    <3>3. QED
      BY <1>15, <2>4, <2>5, <3>1, <3>2 DEF Decides, Life!Settle, PhaseMap, AnsweredSet
  <2>6. CASE /\ calls[k] = 1 /\ book[k].state = "NONE" /\ book'[k].state # "NONE"
             /\ \A i \in Key \ {k} : book'[i].state = book[i].state
             /\ Decided(journal', k)
    <3>1. ~Decided(journal, k)
      BY <2>6, KnownOutcome DEF Decided
    <3>2. k \notin AnsweredSet /\ AnsweredSet' = AnsweredSet \cup {k}
      BY <2>6, NewAnswer
    <3>3. QED
      BY <1>15, <2>4, <2>6, <3>1, <3>2
         DEF Decides, Life!Settle, Life!Answered, PhaseMap, AnsweredSet
  <2>7. QED BY <1>15, <2>3, <2>5, <2>6 DEF Decides
<1>16. QED
  BY <1>7, <1>8, <1>9, <1>10, <1>11, <1>12, <1>13, <1>14, <1>15 DEF RequestStep, Life!Next

\* For any requests, threads, restarts and delivery of evidence, journal and broker
\* together implement RequestLife: one claim and one call at most per request, no
\* request settled but by the broker's answer or without any call, and no session
\* opened while a claimed request is in doubt.
THEOREM RequestsLive == Spec => RequestsImplemented
<1>1. RequestInv /\ [Next]_vars => RequestInv'
  BY RequestNext
<1>2. RequestInv /\ RequestInv' /\ [Next]_vars => [Life!Next]_(Life!requestVars)
  BY RequestSteps, LifeStepped
<1>3. QED BY <1>1, <1>2, RequestInit, LifeInit, PTL DEF Spec, RequestsImplemented, Life!Spec
=============================================================================
