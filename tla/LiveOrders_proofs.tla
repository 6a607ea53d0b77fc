------------------------- MODULE LiveOrders_proofs -------------------------
(***************************************************************************)
(* Theorems about LiveOrders for any stocks, strategies, limits, numbers   *)
(* of orders, of starts, of days and of faults.                            *)
(*                                                                         *)
(* A handler takes the world, the memory of the engine and the account at  *)
(* the exchange, through several operators.  Each of them is shown to keep *)
(* WorldOK; Sound(w) says that of a world.  What a report does to a symbol *)
(* holds only as long as it is bound to an order of its side, hence        *)
(* run.blind: SymbolOK is promised for a run that is not blind, the rest   *)
(* for every run.                                                          *)
(*                                                                         *)
(* Portfolio and account are matched, for symbols that are clean, by       *)
(* Match; an operator keeps them matched as Faithful(e, x) says, and       *)
(* AccountInv is what all steps keep.                                      *)
(***************************************************************************)
EXTENDS LiveOrders, Sums, SequenceTheorems

\* The two sides, and the records of the exchange.
Sides == {"BUY", "SELL"}

ExchangeOrder == [sym : Symbol, side : Sides, qty : Nat \ {0}, filled : Nat,
                  st : {"live", "canceling", "done"}]
Report == [no : Nat, sym : Symbol, side : Sides, cum : Nat \ {0}, unfilled : Nat]

\* Types of the memory of the engine and of the account.
Memory ==
  [orders : Seq(Order), bound : UNION {[D -> Nat] : D \in SUBSET Int},
   pos : [Symbol -> Nat], gate : [Symbol -> Gate], exit : [Symbol -> Exit],
   cycle : [Symbol -> Route], signal : [Symbol -> Strategy \cup {NoStrategy}],
   stopped : [Symbol -> Nat], count : [Strategy -> 0..OrderLimit],
   losses : [Strategy -> 0..LossLimit], halted : SUBSET Strategy, forced : SUBSET Symbol,
   errors : 0..ErrorLimit, protected : BOOLEAN, lossOut : BOOLEAN, realized : Int,
   today : Nat]
Account == [orders : Seq(ExchangeOrder), held : [Symbol -> Nat], reports : Seq(Report)]

\* An order of the engine or of the exchange that may still be filled, and the
\* shares of s it claims if it sells.
Pending(o) == o.st \in {"SUBMITTED", "PARTIAL", "live", "canceling"}
Claim(o, s) == IF o.sym = s /\ o.side = "SELL" /\ Pending(o) THEN Remaining(o) ELSE 0
Claims(q, s) == SumFunction([i \in DOMAIN q |-> Claim(q[i], s)])

\* An order that is pending lacks shares, one that is FILLED lacks none.
OrdersOK(q) ==
  \A i \in DOMAIN q : /\ Pending(q[i]) => q[i].filled < q[i].qty
                      /\ q[i].st = "FILLED" => q[i].filled = q[i].qty

\* A number is bound to an order of its symbol that was not given up. A number below
\* 0 is that of a paper order.
BoundOK(e, x) ==
  \A k \in DOMAIN e.bound :
    /\ e.bound[k] \in DOMAIN e.orders
    /\ e.orders[e.bound[k]].st \in {"SUBMITTED", "PARTIAL", "FILLED"}
    /\ k < 0 => -k <= Len(e.orders)
    /\ k >= 0 => k \in DOMAIN x.orders /\ x.orders[k].sym = e.orders[e.bound[k]].sym

\* The mark of a cancel stands as long as a resell waits.
GateOK(e) == \A s \in Symbol : e.gate[s].canceling <=> e.gate[s].resell > 0

\* A report is about an order of the exchange.
ReportsOK(x) ==
  \A i \in DOMAIN x.reports :
    LET r == x.reports[i]
    IN  r.no \in DOMAIN x.orders /\ r.sym = x.orders[r.no].sym /\ r.side = x.orders[r.no].side

\* The exchange takes no sell without shares.
HeldOK(x) == \A s \in Symbol : Claims(x.orders, s) <= x.held[s]

\* An open sell of s, and an open buy of s that was not restored.
PendingSell(q, s) ==
  \E i \in DOMAIN q : q[i].sym = s /\ q[i].side = "SELL" /\ Pending(q[i])
PendingBuy(q, s) ==
  \E i \in DOMAIN q : /\ q[i].sym = s /\ q[i].side = "BUY" /\ Pending(q[i])
                      /\ q[i].restored = 0

\* What the orders of a symbol, its position and its marks say of each other.
SymbolOK(e, s) ==
  /\ Claims(e.orders, s) <= e.pos[s]
  /\ e.gate[s].canceling => e.pos[s] > 0 /\ ~e.gate[s].selling
  /\ e.gate[s].selling => PendingSell(e.orders, s)
  /\ PendingBuy(e.orders, s) => ~e.gate[s].canceling /\ Claims(e.orders, s) = 0
  /\ e.pos[s] = 0 => e.exit[s] = NoExit /\ e.gate[s] = NoGate /\ e.cycle[s] = NoRoute

\* A stop of today blocks its symbol; no entry follows it.
StopsOK(e) ==
  /\ \A i \in DOMAIN e.orders : e.orders[i].day = clock.day
  /\ \A i \in DOMAIN e.orders : e.orders[i].why = "stop" /\ e.orders[i].st # "REJECTED" =>
       /\ e.stopped[e.orders[i].sym] = clock.day
       /\ \A j \in DOMAIN e.orders :
            i < j /\ e.orders[j].sym = e.orders[i].sym => e.orders[j].why # "entry"

\* What holds of the memory and the account whatever the run has seen.
MemoryOK(e, x) ==
  /\ e \in Memory /\ x \in Account
  /\ OrdersOK(e.orders) /\ OrdersOK(x.orders)
  /\ BoundOK(e, x) /\ GateOK(e) /\ ReportsOK(x) /\ HeldOK(x)

\* What a handler of the process relies on and leaves.
WorldOK(e, x) ==
  /\ MemoryOK(e, x)
  /\ run.blind \/ \A s \in Symbol : SymbolOK(e, s)
  /\ mode = "live" /\ ~Overnight => e.today = clock.day /\ StopsOK(e)

\* The order of the engine that the reports of order n of s are taken for, and
\* whether one is under way.
Owner(e, n, s) == BindBrokerOrderId(e, [no |-> n, sym |-> s])
Reported(x, n) == \E i \in DOMAIN x.reports : x.reports[i].no = n

\* The orders of s that may still change the portfolio.
Movers(x, s) ==
  {n \in DOMAIN x.orders : x.orders[n].sym = s /\ (x.orders[n].st # "done" \/ Reported(x, n))}

\* Order c of the engine follows order o of the exchange: it lacks no more than the
\* reports under way will add, and so does the position.
Follows(c, o, pos, held, reported) ==
  /\ c.sym = o.sym /\ c.side = o.side /\ c.qty = o.qty /\ c.filled <= o.filled
  /\ ~reported => c.filled = o.filled
  /\ IF o.side = "BUY" THEN pos + (o.filled - c.filled) = held
     ELSE pos = held + (o.filled - c.filled)
Tracks(e, x, n, s) ==
  /\ Owner(e, n, s) \in DOMAIN e.orders
  /\ Follows(e.orders[Owner(e, n, s)], x.orders[n], e.pos[s], x.held[s], Reported(x, n))

\* One order at a time may move a symbol; between two of them portfolio and account
\* agree.
Match(e, x, s) ==
  /\ \A m, n \in Movers(x, s) : m = n
  /\ Movers(x, s) = {} => e.pos[s] = x.held[s]
  /\ \A n \in Movers(x, s) : Tracks(e, x, n, s)

\* The last report of an order says what is filled of it, the others say less.
ReportsInOrder(x) ==
  \A i \in DOMAIN x.reports :
    LET r == x.reports[i]
        o == x.orders[r.no]
    IN  /\ r.cum <= o.filled /\ r.cum + r.unfilled = o.qty
        /\ (\A j \in DOMAIN x.reports : j > i => x.reports[j].no # r.no) => r.cum = o.filled

\* The variables from which a handler starts.
Started ==
  /\ Len(engine.orders) \in Nat /\ DOMAIN engine.orders = 1..Len(engine.orders)
  /\ Len(exchange.orders) \in Nat /\ DOMAIN exchange.orders = 1..Len(exchange.orders)
  /\ clean \subseteq Symbol
\* What a handler has made of the world it started from: orders were added, some of
\* the old ones were cancelled, and the symbols that are still clean match.
Matched == \A s \in clean : Match(engine, exchange, s)
Faithful(e, x) ==
  mode = "live" =>
    /\ Started /\ x.reports = exchange.reports
    /\ Len(engine.orders) <= Len(e.orders) /\ Len(exchange.orders) <= Len(x.orders)
    /\ \A i \in DOMAIN engine.orders :
         /\ e.orders[i].sym = engine.orders[i].sym
         /\ e.orders[i].st \in {engine.orders[i].st, "CANCELED"}
    /\ \A n \in DOMAIN exchange.orders :
         x.orders[n].qty = exchange.orders[n].qty /\ x.orders[n].filled = exchange.orders[n].filled
    /\ Matched => \A s \in clean \ (Blurred(exchange, x) \cup Withdrawn(engine, e)) :
                    Match(e, x, s)

\* Types of what surrounds them.
Context ==
  /\ mode \in Modes
  /\ clock \in [day : 1..MaxDays, phase : DOMAIN Phases]
  /\ run \in [up : BOOLEAN, linked : BOOLEAN, boots : Nat, faults : Nat, blind : BOOLEAN]

\* The inductive invariant.
OrdersInv ==
  /\ Context /\ store \in [Symbol -> Route] /\ clean \subseteq Symbol
  /\ MemoryOK(engine, exchange)
  /\ run.blind \/ \A s \in Symbol : SymbolOK(engine, s)
  /\ run.up => WorldOK(engine, exchange)
  /\ ~run.up => engine.orders = <<>>
  /\ Len(engine.orders) <= MaxOrders /\ Len(exchange.orders) <= MaxSent

\* What OrdersInv leaves open: the account and the portfolio of the clean symbols.
AccountInv ==
  /\ run.linked => run.up
  /\ mode = "live" =>
       /\ run.linked \/ exchange.reports = <<>>
       /\ ReportsInOrder(exchange)
       /\ run.up => Matched
-----------------------------------------------------------------------------
(* Extremes *)

\* The larger of two numbers.
LEMMA MaxOfTwo ==
  ASSUME NEW a \in Int, NEW b \in Int PROVE Max({a, b}) = IF a >= b THEN a ELSE b
BY DEF Max

\* The smaller of two numbers.
LEMMA MinOfTwo ==
  ASSUME NEW a \in Int, NEW b \in Int PROVE Min({a, b}) = IF a <= b THEN a ELSE b
BY DEF Min

\* The last of some places of a sequence is one of them, above all others.
LEMMA MaxOfIndices ==
  ASSUME NEW n \in Nat, NEW S \in SUBSET (1..n), S # {}
  PROVE  Max(S) \in S /\ \A y \in S : Max(S) >= y
<1> DEFINE N == {n - i : i \in S}
<1>1. N \in SUBSET Nat /\ N # {}
  <2>1. \A i \in S : n - i \in Nat
    OBVIOUS
  <2>2. QED BY <2>1
<1>2. PICK m \in N : \A k \in N : m <= k
  BY <1>1, LeastNatural
<1>3. PICK i \in S : m = n - i
  BY <1>2
<1>4. \A y \in S : i >= y
  <2>1. ASSUME NEW y \in S PROVE i >= y
    <3>1. n - y \in N
      OBVIOUS
    <3>2. m <= n - y
      BY <1>2, <3>1
    <3>3. i \in Int /\ y \in Int
      OBVIOUS
    <3>4. QED BY <1>3, <3>2, <3>3
  <2>2. QED BY <2>1
<1>5. QED BY <1>4 DEF Max
-----------------------------------------------------------------------------
(* Claims *)

\* What Claims needs of a sequence of orders.
Countable(q) ==
  /\ DOMAIN q = 1..Len(q) /\ Len(q) \in Nat
  /\ \A i \in DOMAIN q : /\ q[i].qty \in Nat /\ q[i].filled \in Nat
                         /\ Pending(q[i]) => q[i].filled < q[i].qty

\* The places of a sequence are finitely many.
LEMMA PlacesFinite ==
  ASSUME NEW m \in Nat PROVE IsFiniteSet(1..m)
BY FS_Interval

\* The orders whose claims are counted are finitely many.
LEMMA CountableFinite ==
  ASSUME NEW q, Countable(q)
  PROVE  IsFiniteSet(DOMAIN q)
<1>1. IsFiniteSet(1..Len(q))
  BY PlacesFinite DEF Countable
<1>2. QED BY <1>1 DEF Countable

\* A claim is a number of shares.
LEMMA ClaimRange ==
  ASSUME NEW q, Countable(q), NEW s, NEW i \in DOMAIN q
  PROVE  /\ Claim(q[i], s) \in Nat
         /\ q[i].sym = s /\ q[i].side = "SELL" /\ Pending(q[i]) => Claim(q[i], s) > 0
BY DEF Countable, Claim, Remaining

\* All claims together are a number of shares that no single claim exceeds.
LEMMA ClaimsType ==
  ASSUME NEW q, Countable(q), NEW s
  PROVE  /\ Claims(q, s) \in Nat
         /\ \A i \in DOMAIN q : Claim(q[i], s) <= Claims(q, s)
<1> DEFINE f == [i \in DOMAIN q |-> Claim(q[i], s)]
<1>1. IsFiniteSet(DOMAIN q)
  BY CountableFinite
<1>2. f \in [DOMAIN q -> Int] /\ \A i \in DOMAIN q : f[i] >= 0 /\ f[i] = Claim(q[i], s)
  BY ClaimRange
<1>3. SumFunction(f) \in Int
  BY <1>1, <1>2, SumType
<1> HIDE DEF f
<1>4. SumFunction(f) >= 0
  BY <1>1, <1>2, SumNonNegative
<1>5. ASSUME NEW i \in DOMAIN q PROVE f[i] <= SumFunction(f)
  <2> DEFINE r == Restrict(f, DOMAIN q \ {i})
  <2>1. SumFunction(f) = f[i] + SumFunction(r)
    BY ONLY <1>1, <1>2, i \in DOMAIN q, SumRemove
  <2>2. IsFiniteSet(DOMAIN q \ {i}) /\ r \in [DOMAIN q \ {i} -> Int]
        /\ \A y \in DOMAIN q \ {i} : r[y] >= 0
    BY <1>1, <1>2, FS_RemoveElement DEF Restrict
  <2> HIDE DEF r
  <2>3. SumFunction(r) \in Int /\ SumFunction(r) >= 0
    BY <2>2, SumType, SumNonNegative
  <2>4. QED BY <1>2, <2>1, <2>3
<1>6. QED BY <1>2, <1>3, <1>4, <1>5 DEF Claims, f

\* Orders without a claim claim nothing together.
LEMMA ClaimsZero ==
  ASSUME NEW q, Countable(q), NEW s, \A i \in DOMAIN q : Claim(q[i], s) = 0
  PROVE  Claims(q, s) = 0
<1> DEFINE f == [i \in DOMAIN q |-> Claim(q[i], s)]
<1>1. f \in [DOMAIN q -> Int] /\ \A i \in DOMAIN q : f[i] = 0
  OBVIOUS
<1> HIDE DEF f
<1>2. SumFunction(f) = 0
  BY <1>1, CountableFinite, SumZero
<1>3. QED BY <1>2 DEF Claims, f

\* One more order adds its claim.
LEMMA ClaimsAppend ==
  ASSUME NEW q, Countable(q), NEW p, Countable(p), Len(p) = Len(q) + 1,
         \A i \in DOMAIN q : p[i] = q[i], NEW s
  PROVE  Claims(p, s) = Claims(q, s) + Claim(p[Len(p)], s)
<1> DEFINE f == [i \in DOMAIN p |-> Claim(p[i], s)]
           g == [i \in DOMAIN q |-> Claim(q[i], s)]
           x == Len(p)
<1>1. IsFiniteSet(DOMAIN q)
  BY CountableFinite
<1>2. DOMAIN p = DOMAIN q \cup {x} /\ x \notin DOMAIN q
  BY DEF Countable
<1>3. f \in [DOMAIN p -> Int] /\ g \in [DOMAIN q -> Int]
  BY ClaimRange
<1>4. \A i \in DOMAIN q : g[i] = f[i]
  BY <1>2
<1>5. f[x] = Claim(p[x], s) /\ f[x] \in Int
  BY <1>2, <1>3
<1> HIDE DEF f, g
<1>6. SumFunction(f) = f[x] + SumFunction(g)
  BY <1>1, <1>2, <1>3, <1>4, SumExtend
<1>7. SumFunction(g) \in Int
  BY <1>1, <1>3, SumType
<1>8. SumFunction(f) = SumFunction(g) + Claim(p[x], s)
  BY <1>5, <1>6, <1>7
<1>9. QED BY <1>8 DEF Claims, f, g

\* A changed order changes the claims by the difference of its own.
LEMMA ClaimsChange ==
  ASSUME NEW q, Countable(q), NEW p, Countable(p), DOMAIN p = DOMAIN q,
         NEW i \in DOMAIN q, \A j \in DOMAIN q \ {i} : p[j] = q[j], NEW s
  PROVE  Claims(p, s) = Claims(q, s) - Claim(q[i], s) + Claim(p[i], s)
<1> DEFINE f == [j \in DOMAIN q |-> Claim(q[j], s)]
           g == [j \in DOMAIN q |-> Claim(p[j], s)]
<1>1. IsFiniteSet(DOMAIN q)
  BY CountableFinite
<1>2. f \in [DOMAIN q -> Int] /\ g \in [DOMAIN q -> Int]
  BY ClaimRange
<1>3. \A j \in DOMAIN q \ {i} : g[j] = f[j]
  OBVIOUS
<1>4. f[i] = Claim(q[i], s) /\ g[i] = Claim(p[i], s)
  OBVIOUS
<1> HIDE DEF f, g
<1>5. SumFunction(g) = SumFunction(f) - f[i] + g[i]
  BY <1>1, <1>2, <1>3, SumUpdate
<1>6. Claims(q, s) = SumFunction(f) /\ Claims(p, s) = SumFunction(g)
  BY DEF f, g, Claims
<1>7. QED BY <1>4, <1>5, <1>6

\* Claims depend on the pending sells only.
LEMMA ClaimsSame ==
  ASSUME NEW q, NEW p, DOMAIN p = DOMAIN q, NEW s,
         \A i \in DOMAIN q : Claim(p[i], s) = Claim(q[i], s)
  PROVE  Claims(p, s) = Claims(q, s)
<1>1. [i \in DOMAIN p |-> Claim(p[i], s)] = [i \in DOMAIN q |-> Claim(q[i], s)]
  OBVIOUS
<1>2. QED BY <1>1 DEF Claims

\* The sum of the properties.
LEMMA ClaimsOfSells ==
  ASSUME NEW q, Countable(q), NEW s, NEW S, S \subseteq DOMAIN q,
         \A i \in S : Claim(q[i], s) = Remaining(q[i]),
         \A i \in DOMAIN q \ S : Claim(q[i], s) = 0
  PROVE  SumFunction([i \in S |-> Remaining(q[i])]) = Claims(q, s)
<1> DEFINE f == [i \in DOMAIN q |-> Claim(q[i], s)]
           g == [i \in S |-> Remaining(q[i])]
<1>1. IsFiniteSet(DOMAIN q)
  BY CountableFinite
<1>2. f \in [DOMAIN q -> Int]
  BY ClaimRange
<1>3. g \in [S -> Int]
  BY <1>2
<1>4. (\A i \in S : g[i] = f[i]) /\ \A i \in DOMAIN q \ S : f[i] = 0
  OBVIOUS
<1> HIDE DEF f, g
<1>5. SumFunction(g) = SumFunction(f)
  BY <1>1, <1>2, <1>3, <1>4, SumPart
<1>6. QED BY <1>5 DEF Claims, f, g
-----------------------------------------------------------------------------
(* Orders sent *)

\* The orders of the engine and of the exchange can be counted.
LEMMA CountableOrders ==
  ASSUME NEW q, q \in Seq(Order) \/ q \in Seq(ExchangeOrder), OrdersOK(q)
  PROVE  Countable(q)
<1>1. DOMAIN q = 1..Len(q) /\ Len(q) \in Nat
  OBVIOUS
<1>2. ASSUME NEW i \in DOMAIN q
      PROVE  q[i].qty \in Nat /\ q[i].filled \in Nat
  <2>1. q[i] \in Order \/ q[i] \in ExchangeOrder
    OBVIOUS
  <2>2. QED BY <2>1 DEF Order, ExchangeOrder
<1>3. \A i \in DOMAIN q : Pending(q[i]) => q[i].filled < q[i].qty
  BY DEF OrdersOK
<1>4. QED BY <1>1, <1>2, <1>3 DEF Countable

\* Types of the orders and of the bound numbers.
LEMMA MemoryFacts ==
  ASSUME NEW e \in Memory
  PROVE  /\ e.orders \in Seq(Order) /\ Len(e.orders) \in Nat
         /\ DOMAIN e.orders = 1..Len(e.orders)
         /\ \A i \in DOMAIN e.orders : e.orders[i] \in Order
         /\ DOMAIN e.bound \subseteq Int /\ e.bound \in [DOMAIN e.bound -> Nat]
<1>1. e.orders \in Seq(Order) /\ e.bound \in UNION {[D -> Nat] : D \in SUBSET Int}
  BY DEF Memory
<1>2. PICK D \in SUBSET Int : e.bound \in [D -> Nat]
  BY <1>1
<1>3. DOMAIN e.bound \subseteq Int /\ e.bound \in [DOMAIN e.bound -> Nat]
  BY <1>2
<1> HIDE DEF Memory, Order
<1>4. QED BY <1>1, <1>3

\* A sequence of orders with one more.
LEMMA OneMore ==
  ASSUME NEW S, NEW q \in Seq(S), NEW o \in S
  PROVE  LET p == Append(q, o)
         IN  /\ p \in Seq(S) /\ Len(p) = Len(q) + 1 /\ p[Len(p)] = o
             /\ \A i \in DOMAIN q : i \in DOMAIN p /\ p[i] = q[i]
             /\ DOMAIN p = DOMAIN q \cup {Len(p)} /\ DOMAIN q = 1..Len(q)
             /\ Len(q) \in Nat
OBVIOUS

\* The orders of a memory can be counted.
LEMMA CountableMemory ==
  ASSUME NEW e \in Memory, OrdersOK(e.orders) PROVE Countable(e.orders)
BY MemoryFacts, CountableOrders

\* What the exchange keeps back for sells is what they claim.
LEMMA ReservedClaims ==
  ASSUME NEW x \in Account, OrdersOK(x.orders), NEW s
  PROVE  Reserved(x, s) = Claims(x.orders, s)
<1> DEFINE q == x.orders
           S == {m \in Unsettled(x, s) : x.orders[m].side = "SELL"}
<1>1. q \in Seq(ExchangeOrder)
  BY DEF Account
<1>2. Countable(q)
  BY <1>1, CountableOrders
<1>3. S \subseteq DOMAIN q
  BY DEF Unsettled
<1>4. \A i \in DOMAIN q : q[i].st \in {"live", "canceling", "done"}
  <2>1. \A i \in DOMAIN q : q[i] \in ExchangeOrder
    BY <1>1
  <2>2. QED BY <2>1 DEF ExchangeOrder
<1>5. \A i \in DOMAIN q : i \in S <=> q[i].sym = s /\ q[i].side = "SELL" /\ Pending(q[i])
  BY <1>4 DEF Unsettled, Pending
<1>6. /\ \A i \in S : Claim(q[i], s) = Remaining(q[i])
      /\ \A i \in DOMAIN q \ S : Claim(q[i], s) = 0
  BY <1>3, <1>5 DEF Claim
<1> HIDE DEF q, S
<1>7. SumFunction([i \in S |-> Remaining(q[i])]) = Claims(q, s)
  BY <1>2, <1>3, <1>6, ClaimsOfSells
<1>8. QED BY <1>7 DEF Reserved, q, S

\* An order the exchange received: it takes no sell it has no shares for.
LEMMA Received ==
  ASSUME NEW x \in Account, OrdersOK(x.orders), HeldOK(x), ReportsOK(x),
         NEW s \in Symbol, NEW side \in Sides, NEW qty \in Nat \ {0}
  PROVE  LET y == Receive(x, s, side, qty)
         IN  /\ y \in Account /\ OrdersOK(y.orders) /\ HeldOK(y) /\ ReportsOK(y)
             /\ Len(y.orders) = Len(x.orders) + 1
             /\ \A n \in DOMAIN x.orders : n \in DOMAIN y.orders /\ y.orders[n] = x.orders[n]
<1> DEFINE o == [sym |-> s, side |-> side, qty |-> qty, filled |-> 0,
                 st |-> IF side = "SELL" /\ qty > x.held[s] - Reserved(x, s)
                          THEN "done" ELSE "live"]
           y == Receive(x, s, side, qty)
<1>1. o \in ExchangeOrder
  BY DEF ExchangeOrder
<1>2. x.orders \in Seq(ExchangeOrder) /\ x.held \in [Symbol -> Nat]
      /\ x.reports \in Seq(Report)
  BY DEF Account
<1>3. y.orders = Append(x.orders, o) /\ y.held = x.held /\ y.reports = x.reports
  BY DEF Receive, Account
<1>4. y \in Account
  <2>1. Append(x.orders, o) \in Seq(ExchangeOrder)
    BY <1>1, <1>2
  <2>2. y = [x EXCEPT !.orders = Append(x.orders, o)]
    BY DEF Receive
  <2> HIDE DEF o, y
  <2>3. QED BY <1>2, <2>1, <2>2 DEF Account
<1> HIDE DEF y
<1>5. /\ Len(y.orders) = Len(x.orders) + 1
      /\ \A n \in DOMAIN x.orders : n \in DOMAIN y.orders /\ y.orders[n] = x.orders[n]
      /\ y.orders[Len(y.orders)] = o
  BY <1>1, <1>2, <1>3
<1>6. DOMAIN y.orders = DOMAIN x.orders \cup {Len(y.orders)}
  BY <1>1, <1>2, <1>3
<1>7. o.filled = 0 /\ o.qty = qty /\ o.st # "FILLED" /\ o.side = side /\ o.sym = s
  OBVIOUS
<1>8. OrdersOK(y.orders)
  BY <1>5, <1>6, <1>7 DEF OrdersOK
<1>9. HeldOK(y)
  <2>1. ASSUME NEW z \in Symbol PROVE Claims(y.orders, z) <= y.held[z]
    <3>1. Countable(x.orders) /\ Countable(y.orders)
      BY <1>2, <1>4, <1>8, CountableOrders DEF Account
    <3>2. Claims(y.orders, z) = Claims(x.orders, z) + Claim(o, z)
      BY <1>5, <3>1, ClaimsAppend
    <3>3. Claims(x.orders, z) \in Nat /\ Claims(x.orders, z) <= x.held[z] /\ x.held[z] \in Nat
      BY <1>2, <3>1, ClaimsType DEF HeldOK
    <3>4. Reserved(x, s) = Claims(x.orders, s)
      BY ReservedClaims
    <3>5. CASE z = s /\ side = "SELL" /\ qty <= x.held[s] - Claims(x.orders, s)
      <4>1. Claim(o, z) = qty
        BY <3>4, <3>5, <3>3 DEF Claim, Remaining, Pending
      <4>2. QED BY <1>3, <3>2, <3>3, <3>5, <4>1
    <3>6. CASE ~(z = s /\ side = "SELL" /\ qty <= x.held[s] - Claims(x.orders, s))
      <4>1. Claim(o, z) = 0
        BY <3>4, <3>6, <3>3 DEF Claim, Pending
      <4>2. QED BY <1>3, <3>2, <3>3, <4>1
    <3>7. QED BY <3>5, <3>6
  <2>2. QED BY <2>1 DEF HeldOK
<1>10. ReportsOK(y)
  BY <1>3, <1>5 DEF ReportsOK
<1>11. QED BY <1>4, <1>5, <1>8, <1>9, <1>10 DEF y

\* Reasons and states of the orders of the engine.
Whys == {"entry", "stop", "exit", "resell", "pending"}
Statuses == {"SUBMITTED", "PARTIAL", "FILLED", "REJECTED", "CANCELED"}
WorldType == [e : Memory, x : Account]

\* Bound numbers stay right while orders are added and none changes.
LEMMA BoundKept ==
  ASSUME NEW e \in Memory, NEW f \in Memory, NEW x \in Account, NEW y \in Account,
         BoundOK(e, x), f.bound = e.bound, Len(e.orders) <= Len(f.orders),
         \A i \in DOMAIN e.orders : f.orders[i] = e.orders[i],
         \A n \in DOMAIN x.orders : n \in DOMAIN y.orders /\ y.orders[n] = x.orders[n]
  PROVE  BoundOK(f, y)
<1>1. DOMAIN e.orders = 1..Len(e.orders) /\ DOMAIN f.orders = 1..Len(f.orders)
      /\ Len(e.orders) \in Nat /\ Len(f.orders) \in Nat
  BY MemoryFacts
<1>2. DOMAIN e.bound \subseteq Int /\ e.bound \in [DOMAIN e.bound -> Nat]
  BY MemoryFacts
<1>3. ASSUME NEW k \in DOMAIN e.bound
      PROVE  /\ f.bound[k] \in DOMAIN f.orders
             /\ f.orders[f.bound[k]].st \in {"SUBMITTED", "PARTIAL", "FILLED"}
             /\ k < 0 => -k <= Len(f.orders)
             /\ k >= 0 => k \in DOMAIN y.orders /\ y.orders[k].sym = f.orders[f.bound[k]].sym
  <2>1. /\ e.bound[k] \in DOMAIN e.orders
        /\ e.orders[e.bound[k]].st \in {"SUBMITTED", "PARTIAL", "FILLED"}
        /\ k < 0 => -k <= Len(e.orders)
        /\ k >= 0 => k \in DOMAIN x.orders /\ x.orders[k].sym = e.orders[e.bound[k]].sym
    BY DEF BoundOK
  <2>2. f.orders[e.bound[k]] = e.orders[e.bound[k]] /\ e.bound[k] \in DOMAIN f.orders
    BY <1>1, <2>1
  <2>3. k \in Int
    BY <1>2
  <2>4. QED BY <1>1, <2>1, <2>2, <2>3
<1>4. QED BY <1>3 DEF BoundOK

\* place_order adds an order that is open, or rejected, and touches nothing else of
\* the memory.
Sent(w, p, s, side, qty, why) ==
  LET o == Newest(p)
  IN  /\ p \in WorldType
      /\ o \in Order /\ p.e = [w.e EXCEPT !.orders = Append(w.e.orders, o)]
      /\ o.sym = s /\ o.side = side /\ o.qty = qty /\ o.filled = 0 /\ o.why = why
      /\ o.day = clock.day /\ o.restored = 0 /\ o.st \in {"SUBMITTED", "REJECTED"}
      /\ mode = "paper" => o.st = "SUBMITTED"
      /\ OrdersOK(p.e.orders) /\ OrdersOK(p.x.orders) /\ HeldOK(p.x) /\ ReportsOK(p.x)
      /\ BoundOK(p.e, p.x)

\* place_order: one more order, received by the exchange if it was sent.
LEMMA Placed ==
  ASSUME Context, OrdersAssumption, NEW w \in WorldType,
         OrdersOK(w.e.orders), OrdersOK(w.x.orders), HeldOK(w.x), ReportsOK(w.x),
         BoundOK(w.e, w.x),
         NEW s \in Symbol, NEW side \in Sides, NEW qty \in Nat \ {0}, NEW why \in Whys,
         NEW ok \in BOOLEAN, NEW route \in Strategy \cup {NoStrategy}
  PROVE  Sent(w, PlaceOrder(w, s, side, qty, why, ok, route), s, side, qty, why)
<1> DEFINE st == IF mode = "paper" \/ Sends(ok) THEN "SUBMITTED" ELSE "REJECTED"
           o == [sym |-> s, side |-> side, qty |-> qty, filled |-> 0, st |-> st,
                 why |-> why, day |-> clock.day, route |-> route, restored |-> 0]
           p == PlaceOrder(w, s, side, qty, why, ok, route)
<1>1. o \in Order
  <2>1. clock.day \in 1..MaxDays /\ 0 \in 0..MaxSent
    BY DEF Context, OrdersAssumption
  <2>2. st \in {"SUBMITTED", "REJECTED"}
    OBVIOUS
  <2> HIDE DEF st
  <2>3. QED BY <2>1, <2>2 DEF Order, Whys, Sides
<1>2. w.e \in Memory /\ w.x \in Account /\ w.e.orders \in Seq(Order)
  BY DEF WorldType, Memory
<1>3. p = [e |-> [w.e EXCEPT !.orders = Append(w.e.orders, o)],
           x |-> IF mode = "live" /\ st = "SUBMITTED" THEN Receive(w.x, s, side, qty) ELSE w.x]
  BY DEF PlaceOrder
<1>4. Append(w.e.orders, o) \in Seq(Order)
  BY <1>1, <1>2, OneMore
<1>5. /\ o.sym = s /\ o.side = side /\ o.qty = qty /\ o.filled = 0 /\ o.why = why
      /\ o.day = clock.day /\ o.restored = 0 /\ o.st = st
      /\ st \in {"SUBMITTED", "REJECTED"}
      /\ mode = "paper" => st = "SUBMITTED"
  OBVIOUS
<1>6. p.e = [w.e EXCEPT !.orders = Append(w.e.orders, o)] /\ p = [e |-> p.e, x |-> p.x]
      /\ p.x = IF mode = "live" /\ st = "SUBMITTED" THEN Receive(w.x, s, side, qty) ELSE w.x
  BY ONLY <1>3
<1> HIDE DEF o, p, st
<1>7. /\ p.x \in Account /\ OrdersOK(p.x.orders) /\ HeldOK(p.x) /\ ReportsOK(p.x)
      /\ \A n \in DOMAIN w.x.orders : n \in DOMAIN p.x.orders /\ p.x.orders[n] = w.x.orders[n]
  <2>1. CASE p.x = w.x
    BY <1>2, <2>1
  <2>2. CASE p.x = Receive(w.x, s, side, qty)
    BY <1>2, <2>2, Received
  <2>3. QED BY <1>6, <2>1, <2>2
<1>8. p.e \in Memory /\ p.e.orders = Append(w.e.orders, o) /\ p.e.bound = w.e.bound
  BY <1>2, <1>4, <1>6 DEF Memory
<1>9. /\ Len(p.e.orders) = Len(w.e.orders) + 1 /\ p.e.orders[Len(p.e.orders)] = o
      /\ \A i \in DOMAIN w.e.orders : p.e.orders[i] = w.e.orders[i]
      /\ DOMAIN p.e.orders = DOMAIN w.e.orders \cup {Len(p.e.orders)}
      /\ Len(w.e.orders) \in Nat
  BY ONLY <1>1, <1>2, <1>8, OneMore
<1>10. Newest(p) = o
  BY <1>9 DEF Newest, Last
<1>11. OrdersOK(p.e.orders)
  <2>1. ASSUME NEW i \in DOMAIN p.e.orders
        PROVE  /\ Pending(p.e.orders[i]) => p.e.orders[i].filled < p.e.orders[i].qty
               /\ p.e.orders[i].st = "FILLED" => p.e.orders[i].filled = p.e.orders[i].qty
    <3>1. CASE i \in DOMAIN w.e.orders
      BY <1>9, <3>1 DEF OrdersOK
    <3>2. CASE i = Len(p.e.orders)
      <4>1. p.e.orders[i] = o /\ o.filled < o.qty /\ o.st # "FILLED"
        BY <1>5, <1>9, <3>2
      <4>2. QED BY <4>1
    <3>3. QED BY <1>9, <3>1, <3>2
  <2>2. QED BY <2>1 DEF OrdersOK
<1>12. BoundOK(p.e, p.x)
  <2>1. Len(w.e.orders) <= Len(p.e.orders)
    BY <1>9
  <2> DEFINE e == w.e
             f == p.e
             x == w.x
             y == p.x
  <2>2. /\ e \in Memory /\ f \in Memory /\ x \in Account /\ y \in Account
        /\ BoundOK(e, x) /\ f.bound = e.bound /\ Len(e.orders) <= Len(f.orders)
        /\ \A i \in DOMAIN e.orders : f.orders[i] = e.orders[i]
        /\ \A n \in DOMAIN x.orders : n \in DOMAIN y.orders /\ y.orders[n] = x.orders[n]
    BY <1>2, <1>7, <1>8, <1>9, <2>1
  <2> HIDE DEF e, f, x, y
  <2>3. BoundOK(f, y)
    BY <2>2, BoundKept
  <2>4. QED BY <2>3 DEF f, y
<1>13. p \in WorldType
  BY <1>7, <1>6, <1>8 DEF WorldType
<1>14. QED BY <1>1, <1>5, <1>7, <1>6, <1>10, <1>11, <1>12, <1>13 DEF p, st, Sent

\* What a new order means to the symbols, by whether it is one of theirs.
LEMMA AppendedOther ==
  ASSUME NEW e \in Memory, NEW f \in Memory, OrdersOK(e.orders), OrdersOK(f.orders),
         NEW o \in Order, f.orders = Append(e.orders, o),
         NEW z \in Symbol, z # o.sym \/ ~Pending(o), SymbolOK(e, z),
         f.pos[z] = e.pos[z], f.gate[z] = e.gate[z], f.exit[z] = e.exit[z],
         f.cycle[z] = e.cycle[z]
  PROVE  SymbolOK(f, z)
<1> DEFINE q == e.orders
           p == f.orders
<1>1. q \in Seq(Order) /\ p = Append(q, o)
  BY MemoryFacts
<1>2. /\ Len(p) = Len(q) + 1 /\ p[Len(p)] = o /\ \A i \in DOMAIN q : p[i] = q[i]
      /\ DOMAIN p = DOMAIN q \cup {Len(p)}
  BY <1>1, OneMore
<1>3. Countable(q) /\ Countable(p)
  BY CountableMemory
<1>4. Claims(p, z) = Claims(q, z) + Claim(o, z)
  <2> HIDE DEF p, q
  <2>1. Claims(p, z) = Claims(q, z) + Claim(p[Len(p)], z)
    BY <1>2, <1>3, ClaimsAppend
  <2>2. QED BY <1>2, <2>1
<1>5. Claim(o, z) = 0 /\ Claims(q, z) \in Nat
  BY <1>3, ClaimsType DEF Claim
<1>6. Claims(p, z) = Claims(q, z)
  BY <1>4, <1>5
<1> HIDE DEF p, q
<1>7. ASSUME NEW i \in DOMAIN p, p[i].sym = z, Pending(p[i])
      PROVE  i \in DOMAIN q /\ q[i] = p[i]
  BY <1>2, <1>7
<1>8. PendingBuy(p, z) => PendingBuy(q, z)
  BY <1>7 DEF PendingBuy
<1>9. PendingSell(q, z) => PendingSell(p, z)
  BY <1>2 DEF PendingSell
<1>10. QED BY <1>6, <1>8, <1>9 DEF SymbolOK, p, q

\* A sell of shares that no open order claims keeps its symbol right.
LEMMA AppendedSell ==
  ASSUME NEW e \in Memory, NEW f \in Memory, OrdersOK(e.orders), OrdersOK(f.orders),
         NEW o \in Order, f.orders = Append(e.orders, o),
         NEW z \in Symbol, z = o.sym, o.side = "SELL", o.st = "SUBMITTED", o.filled = 0,
         o.qty <= e.pos[z], ~ExistsOpenOrder(e, z),
         f.pos[z] = e.pos[z], ~f.gate[z].canceling
  PROVE  SymbolOK(f, z)
<1> DEFINE q == e.orders
           p == f.orders
<1>1. q \in Seq(Order) /\ p = Append(q, o)
  BY MemoryFacts
<1>2. /\ Len(p) = Len(q) + 1 /\ p[Len(p)] = o /\ \A i \in DOMAIN q : p[i] = q[i]
      /\ DOMAIN p = DOMAIN q \cup {Len(p)}
  BY <1>1, OneMore
<1>3. Countable(q) /\ Countable(p)
  BY CountableMemory
<1>4. Claims(p, z) = Claims(q, z) + Claim(o, z)
  <2> HIDE DEF p, q
  <2>1. Claims(p, z) = Claims(q, z) + Claim(p[Len(p)], z)
    BY <1>2, <1>3, ClaimsAppend
  <2>2. QED BY <1>2, <2>1
<1>5. \A i \in DOMAIN q : q[i] \in Order
  BY MemoryFacts
<1>6. \A i \in DOMAIN q : q[i].sym = z => ~Pending(q[i])
  BY <1>5 DEF ExistsOpenOrder, OpenIds, Open, Pending, Order
<1>7. Claims(q, z) = 0
  BY <1>3, <1>6, ClaimsZero DEF Claim
<1>8. o.qty \in Nat \ {0} /\ e.pos[z] \in Nat
  BY DEF Order, Memory
<1>9. Claim(o, z) = o.qty /\ Pending(o)
  BY <1>8 DEF Claim, Remaining, Pending
<1>10. Claims(p, z) <= f.pos[z] /\ f.pos[z] > 0
  BY <1>4, <1>7, <1>8, <1>9
<1>11. ASSUME NEW i \in DOMAIN p, p[i].sym = z, Pending(p[i]) PROVE p[i] = o
  BY <1>2, <1>6, <1>11
<1> HIDE DEF p, q
<1>12. Len(p) \in DOMAIN p /\ p[Len(p)] = o
  BY <1>2
<1>13. PendingSell(p, z) /\ ~PendingBuy(p, z)
  BY <1>9, <1>11, <1>12 DEF PendingSell, PendingBuy
<1>14. QED BY <1>10, <1>13 DEF SymbolOK, p

\* A buy of a flat symbol keeps it right.
LEMMA AppendedBuy ==
  ASSUME NEW e \in Memory, NEW f \in Memory, OrdersOK(e.orders), OrdersOK(f.orders),
         NEW o \in Order, f.orders = Append(e.orders, o),
         NEW z \in Symbol, z = o.sym, o.side = "BUY",
         SymbolOK(e, z), e.pos[z] = 0,
         f.pos[z] = e.pos[z], f.gate[z] = e.gate[z], f.exit[z] = e.exit[z],
         f.cycle[z] = e.cycle[z]
  PROVE  SymbolOK(f, z)
<1> DEFINE q == e.orders
           p == f.orders
<1>1. q \in Seq(Order) /\ p = Append(q, o)
  BY MemoryFacts
<1>2. /\ Len(p) = Len(q) + 1 /\ p[Len(p)] = o /\ \A i \in DOMAIN q : p[i] = q[i]
      /\ DOMAIN p = DOMAIN q \cup {Len(p)}
  BY <1>1, OneMore
<1>3. Countable(q) /\ Countable(p)
  BY CountableMemory
<1>4. Claims(p, z) = Claims(q, z) + Claim(o, z)
  <2> HIDE DEF p, q
  <2>1. Claims(p, z) = Claims(q, z) + Claim(p[Len(p)], z)
    BY <1>2, <1>3, ClaimsAppend
  <2>2. QED BY <1>2, <2>1
<1>5. Claim(o, z) = 0 /\ Claims(q, z) \in Nat /\ Claims(q, z) <= 0
  BY <1>3, ClaimsType DEF Claim, SymbolOK
<1>6. Claims(p, z) = 0
  BY <1>4, <1>5
<1>7. e.gate[z] = NoGate
  BY DEF SymbolOK
<1>8. QED BY <1>6, <1>7 DEF SymbolOK, NoGate

\* One more order keeps the stops right, unless it buys what was stopped.
LEMMA AppendedStops ==
  ASSUME NEW e \in Memory, NEW f \in Memory, StopsOK(e),
         NEW o \in Order, f.orders = Append(e.orders, o), o.day = clock.day,
         o.why = "stop" /\ o.st # "REJECTED" => f.stopped[o.sym] = clock.day,
         o.why = "entry" => e.stopped[o.sym] # clock.day,
         \A z \in Symbol : e.stopped[z] = clock.day => f.stopped[z] = clock.day
  PROVE  StopsOK(f)
<1> DEFINE q == e.orders
           p == f.orders
<1>1. q \in Seq(Order) /\ p = Append(q, o)
  BY MemoryFacts
<1>2. /\ Len(p) = Len(q) + 1 /\ p[Len(p)] = o /\ \A i \in DOMAIN q : p[i] = q[i]
      /\ DOMAIN p = DOMAIN q \cup {Len(p)} /\ DOMAIN q = 1..Len(q) /\ Len(q) \in Nat
  BY <1>1, OneMore
<1>3. \A i \in DOMAIN q : q[i] \in Order /\ q[i].sym \in Symbol
  <2>1. \A i \in DOMAIN q : q[i] \in Order
    BY MemoryFacts
  <2>2. QED BY <2>1 DEF Order
<1> HIDE DEF p, q
<1>4. \A i \in DOMAIN p : p[i].day = clock.day
  BY <1>2 DEF StopsOK, q
<1>5. ASSUME NEW i \in DOMAIN p, p[i].why = "stop", p[i].st # "REJECTED"
      PROVE  /\ f.stopped[p[i].sym] = clock.day
             /\ \A j \in DOMAIN p : i < j /\ p[j].sym = p[i].sym => p[j].why # "entry"
  <2>1. CASE i \in DOMAIN q
    <3>1. /\ e.stopped[q[i].sym] = clock.day
          /\ \A j \in DOMAIN q : i < j /\ q[j].sym = q[i].sym => q[j].why # "entry"
      BY <1>2, <1>5, <2>1 DEF StopsOK, q
    <3>2. QED BY <1>2, <1>3, <2>1, <3>1
  <2>2. CASE i = Len(p)
    BY <1>2, <1>5, <2>2
  <2>3. QED BY <1>2, <2>1, <2>2
<1>6. QED BY <1>4, <1>5 DEF StopsOK, p
-----------------------------------------------------------------------------
(* Fills *)

\* What a fill report is about: an order of the exchange, or the newest order of
\* paper mode.
Reports(e, x, f) ==
  /\ f.no \in Int /\ f.sym \in Symbol /\ f.side \in Sides
  /\ f.cum \in Nat \ {0} /\ f.unfilled \in Nat
  /\ f.no >= 0 => f.no \in DOMAIN x.orders /\ x.orders[f.no].sym = f.sym
  /\ f.no < 0 => -f.no <= Len(e.orders) /\ f.no \notin DOMAIN e.bound

\* bind_broker_order_id: a report is bound to an order of its symbol.
LEMMA FillTarget ==
  ASSUME NEW e \in Memory, NEW x \in Account, BoundOK(e, x), NEW f, Reports(e, x, f)
  PROVE  LET id == BindBrokerOrderId(e, f)
         IN  /\ id \in Nat
             /\ id = 0 => \A i \in DOMAIN e.orders :
                             e.orders[i].sym = f.sym => ~Pending(e.orders[i])
             /\ id # 0 => /\ id \in DOMAIN e.orders /\ e.orders[id].sym = f.sym
                          /\ e.orders[id].st \in {"SUBMITTED", "PARTIAL", "FILLED"}
<1> DEFINE id == BindBrokerOrderId(e, f)
           S == OpenIds(e, f.sym)
<1>1. /\ DOMAIN e.orders = 1..Len(e.orders) /\ Len(e.orders) \in Nat
      /\ \A i \in DOMAIN e.orders : e.orders[i] \in Order
  BY MemoryFacts
<1>2. \A i \in DOMAIN e.orders : e.orders[i].st \in Statuses
  BY <1>1 DEF Order, Statuses
<1>3. CASE f.no \in DOMAIN e.bound
  <2>1. id = e.bound[f.no]
    BY <1>3 DEF BindBrokerOrderId
  <2>2. /\ id \in DOMAIN e.orders
        /\ e.orders[id].st \in {"SUBMITTED", "PARTIAL", "FILLED"}
        /\ f.no >= 0 => x.orders[f.no].sym = e.orders[id].sym
    BY <1>3, <2>1 DEF BoundOK
  <2>3. QED BY <1>1, <1>3, <2>2 DEF Reports
<1>4. CASE f.no \notin DOMAIN e.bound /\ S # {}
  <2>1. S \in SUBSET (1..Len(e.orders))
    BY <1>1 DEF OpenIds
  <2>2. Max(S) \in S
    BY <1>1, <1>4, <2>1, MaxOfIndices
  <2>3. id = Max(S)
    BY <1>4 DEF BindBrokerOrderId, ExistsOpenOrder
  <2>4. Max(S) \in DOMAIN e.orders /\ e.orders[Max(S)].sym = f.sym /\ Open(e.orders[Max(S)])
    BY ONLY <2>2 DEF OpenIds
  <2>5. id \in DOMAIN e.orders /\ e.orders[id].sym = f.sym /\ Open(e.orders[id])
    BY ONLY <1>1, <2>3, <2>4
  <2> HIDE DEF id, S
  <2>6. id \in Nat /\ id # 0
    BY <1>1, <2>5
  <2>7. QED BY <2>5, <2>6 DEF Open, id
<1>5. CASE f.no \notin DOMAIN e.bound /\ S = {}
  <2>1. id = 0
    BY <1>5 DEF BindBrokerOrderId, ExistsOpenOrder
  <2>2. ASSUME NEW i \in DOMAIN e.orders, e.orders[i].sym = f.sym
        PROVE  ~Pending(e.orders[i])
    BY <1>2, <1>5, <2>2 DEF OpenIds, Open, Pending, Statuses
  <2>3. QED BY <2>1, <2>2
<1>6. QED BY <1>3, <1>4, <1>5

\* _normalize_fill_qty: a report adds no more than its order lacks.
LEMMA FillQty ==
  ASSUME NEW e \in Memory, OrdersOK(e.orders), NEW x, NEW f, Reports(e, x, f),
         NEW id \in Nat, id # 0 => id \in DOMAIN e.orders
                                   /\ e.orders[id].st \in {"SUBMITTED", "PARTIAL", "FILLED"}
  PROVE  LET n == NormalizeFillQty(e, f, id)
             o == e.orders[id]
         IN  /\ n \in Nat
             /\ id = 0 => n = f.cum
             /\ id # 0 /\ n # 0 => Pending(o) /\ o.filled + n = o.qty - f.unfilled
<1>1. CASE id = 0
  BY <1>1 DEF NormalizeFillQty, Reports
<1>2. CASE id # 0
  <2> DEFINE o == e.orders[id]
             m == Max({o.qty - f.unfilled, 0})
  <2>1. o \in Order
    BY <1>2, MemoryFacts
  <2>2. o.qty \in Nat \ {0} /\ o.filled \in Nat /\ f.unfilled \in Nat
    BY <2>1 DEF Order, Reports
  <2>3. o.st = "FILLED" => o.filled = o.qty
    BY <1>2 DEF OrdersOK
  <2>4. o.st \in {"SUBMITTED", "PARTIAL", "FILLED"}
    BY <1>2
  <2>5. NormalizeFillQty(e, f, id) = Max({0, m - o.filled})
    BY <1>2 DEF NormalizeFillQty
  <2> HIDE DEF o
  <2>6. m = IF o.qty - f.unfilled >= 0 THEN o.qty - f.unfilled ELSE 0
    BY <2>2, MaxOfTwo
  <2> HIDE DEF m
  <2>7. m \in Nat /\ m - o.filled \in Int
    BY <2>2, <2>6
  <2>8. Max({0, m - o.filled}) = IF 0 >= m - o.filled THEN 0 ELSE m - o.filled
    BY <2>7, MaxOfTwo
  <2>9. QED BY <1>2, <2>2, <2>3, <2>4, <2>5, <2>6, <2>7, <2>8 DEF o, Pending
<1>3. QED BY <1>1, <1>2

\* A pending order some of whose missing shares were filled.
LEMMA AppliedFill ==
  ASSUME NEW o \in Order, NEW n \in Nat \ {0}, NEW unfilled \in Nat,
         o.filled + n = o.qty - unfilled
  PROVE  LET p == ApplyFill(o, n, unfilled)
         IN  /\ p \in Order /\ p.sym = o.sym /\ p.side = o.side /\ p.qty = o.qty
             /\ p.restored = o.restored /\ p.why = o.why /\ p.day = o.day
             /\ p.filled = o.filled + n
             /\ p.st = IF unfilled = 0 THEN "FILLED" ELSE "PARTIAL"
             /\ Pending(p) => p.filled < p.qty
             /\ p.st = "FILLED" => p.filled = p.qty
<1>1. o.qty \in Nat \ {0} /\ o.filled \in Nat
  BY DEF Order
<1>2. o.filled + n \in Nat
  BY <1>1
<1>3. ApplyFill(o, n, unfilled) \in Order
  BY <1>2 DEF ApplyFill, Order
<1>4. LET p == ApplyFill(o, n, unfilled)
      IN  /\ p.sym = o.sym /\ p.side = o.side /\ p.qty = o.qty
          /\ p.restored = o.restored /\ p.why = o.why /\ p.day = o.day
          /\ p.filled = o.filled + n
          /\ p.st = IF unfilled = 0 THEN "FILLED" ELSE "PARTIAL"
  BY DEF ApplyFill, Order
<1>5. QED BY <1>1, <1>3, <1>4 DEF Pending

\* The stages of on_fill: the position, the trade cycle and the marks.
PositionFilled(e, s, side, n, u) ==
  LET k == IF side = "SELL" /\ n > e.pos[s] THEN e.pos[s] ELSE n
      after == IF side = "BUY" THEN e.pos[s] + k ELSE e.pos[s] - k
  IN  after \in Nat /\ \E r \in Int : u = [e EXCEPT !.pos = [e.pos EXCEPT ![s] = after],
                                                    !.realized = r]

\* The memories after a cycle is opened, after one is closed and after the marks are
\* settled.
CycleStarted(e, s, side, c) ==
  \E x \in [Symbol -> Exit], y \in [Symbol -> Route] :
    /\ c = [e EXCEPT !.cycle = y, !.exit = x]
    /\ \A z \in Symbol \ {s} : x[z] = e.exit[z] /\ y[z] = e.cycle[z]
    /\ side = "SELL" => x = e.exit /\ y = e.cycle

CycleClosed(e, s, side, before, d) ==
  \E x \in [Symbol -> Exit], y \in [Symbol -> Route] :
    /\ d = [e EXCEPT !.cycle = y, !.exit = x]
    /\ \A z \in Symbol \ {s} : x[z] = e.exit[z] /\ y[z] = e.cycle[z]
    /\ side = "BUY" \/ e.pos[s] > 0 => x = e.exit /\ y = e.cycle
    /\ side = "SELL" /\ e.pos[s] = 0 =>
         IF before > 0
           THEN y[s] = NoRoute /\ x[s] = [e.exit[s] EXCEPT !.trend = FALSE]
           ELSE x = e.exit /\ y = e.cycle

MarksFilled(e, s, side, g) ==
  \E x \in [Symbol -> Exit], y \in [Symbol -> Gate] :
    /\ g = [e EXCEPT !.gate = y, !.exit = x]
    /\ \A z \in Symbol \ {s} : x[z] = e.exit[z] /\ y[z] = e.gate[z]
    /\ e.pos[s] > 0 => x = e.exit
    /\ e.pos[s] > 0 /\ side = "BUY" => y = e.gate
    /\ e.pos[s] > 0 /\ side = "SELL" => y[s] = [e.gate[s] EXCEPT !.selling = FALSE]
    /\ e.pos[s] = 0 => y[s] = NoGate /\ x[s] = [NoExit EXCEPT !.trend = e.exit[s].trend]

\* Portfolio.update_fill: what a fill does to a position.
LEMMA FillUpdates ==
  ASSUME NEW e \in Memory, NEW f, f.sym \in Symbol, f.side \in Sides,
         NEW n \in Nat \ {0}, NEW level \in Int
  PROVE  /\ UpdateFill(e, f, n, level) \in Memory
         /\ PositionFilled(e, f.sym, f.side, n, UpdateFill(e, f, n, level))
<1> DEFINE s == f.sym
           k == IF f.side = "SELL" /\ n > e.pos[s] THEN e.pos[s] ELSE n
           after == IF f.side = "BUY" THEN e.pos[s] + k ELSE e.pos[s] - k
           u == UpdateFill(e, f, n, level)
<1>1. e.pos \in [Symbol -> Nat] /\ e.pos[s] \in Nat /\ e.realized \in Int
  BY DEF Memory
<1>2. k \in Nat /\ after \in Nat
  BY <1>1 DEF Sides
<1>3. FillShares(e, f, n) = k
  BY <1>1, MinOfTwo DEF FillShares, Sides
<1>4. e.realized + level * k \in Int
  BY <1>1, <1>2
<1> DEFINE p == [e.pos EXCEPT ![s] = after]
<1>5. p \in [Symbol -> Nat]
  BY <1>1, <1>2
<1>6. \E r \in Int : u = [e EXCEPT !.pos = p, !.realized = r]
  <2>1. CASE f.side = "BUY"
    <3>1. u = [e EXCEPT !.pos = p, !.realized = e.realized]
      BY <1>3, <2>1 DEF UpdateFill, Memory
    <3>2. QED BY <1>1, <3>1
  <2>2. CASE f.side = "SELL"
    <3>1. u = [e EXCEPT !.pos = p, !.realized = e.realized + level * k]
      BY <1>3, <2>2 DEF UpdateFill, Memory
    <3>2. QED BY <1>4, <3>1
  <2>3. QED BY <2>1, <2>2 DEF Sides
<1> HIDE DEF p, u
<1>7. u \in Memory
  BY <1>5, <1>6, ZenonT(60) DEF Memory
<1>8. QED BY <1>2, <1>6, <1>7 DEF p, u, PositionFilled

\* What a fill does to the cycle of a position: the strategy and the day.
LEMMA CycleUpdates ==
  ASSUME OrdersAssumption, Context, NEW e \in Memory, NEW s \in Symbol,
         NEW side \in Sides, NEW before \in Nat
  PROVE  LET c == StartTradeCycle(e, s, side, before)
             d == CloseTradeCycle(e, s, side, before)
         IN  /\ c \in Memory /\ CycleStarted(e, s, side, c)
             /\ d \in Memory /\ CycleClosed(e, s, side, before, d)
<1>1. /\ e.exit \in [Symbol -> Exit] /\ e.cycle \in [Symbol -> Route]
      /\ e.signal \in [Symbol -> Strategy \cup {NoStrategy}] /\ e.pos[s] \in Nat
  BY DEF Memory
<1>2. clock.day \in 1..MaxDays /\ 0 \in 0..MaxDays /\ MaxDays \in Nat
  BY DEF Context, OrdersAssumption
<1> DEFINE x == [e.exit EXCEPT ![s].trend = FALSE]
           y1 == [e.cycle EXCEPT ![s] = [strategy |-> e.signal[s], day |-> clock.day]]
           y2 == [e.cycle EXCEPT ![s] = NoRoute]
<1>3. x \in [Symbol -> Exit] /\ x[s] = [e.exit[s] EXCEPT !.trend = FALSE]
      /\ \A z \in Symbol \ {s} : x[z] = e.exit[z]
  BY <1>1, ZenonT(60) DEF Exit
<1>4. y1 \in [Symbol -> Route] /\ \A z \in Symbol \ {s} : y1[z] = e.cycle[z]
  BY <1>1, <1>2 DEF Route
<1>5. y2 \in [Symbol -> Route] /\ y2[s] = NoRoute /\ \A z \in Symbol \ {s} : y2[z] = e.cycle[z]
  BY <1>1, <1>2 DEF Route, NoRoute
<1>6. e = [e EXCEPT !.cycle = e.cycle, !.exit = e.exit]
  BY DEF Memory
<1>7. StartTradeCycle(e, s, side, before) =
        IF side = "BUY" /\ before = 0 THEN [e EXCEPT !.cycle = y1, !.exit = x] ELSE e
  BY DEF StartTradeCycle, Memory
<1>8. CloseTradeCycle(e, s, side, before) =
        IF side = "SELL" /\ before > 0 /\ e.pos[s] = 0
          THEN [e EXCEPT !.cycle = y2, !.exit = x] ELSE e
  BY DEF CloseTradeCycle, Memory
<1> HIDE DEF x, y1, y2
<1>9. [e EXCEPT !.cycle = y1, !.exit = x] \in Memory
  BY <1>3, <1>4 DEF Memory
<1>10. [e EXCEPT !.cycle = y2, !.exit = x] \in Memory
  BY <1>3, <1>5 DEF Memory
<1>11. /\ StartTradeCycle(e, s, side, before) \in Memory
       /\ CloseTradeCycle(e, s, side, before) \in Memory
  BY <1>7, <1>8, <1>9, <1>10
<1>12. CycleStarted(e, s, side, StartTradeCycle(e, s, side, before))
  <2> USE DEF CycleStarted
  <2>1. CASE side = "BUY" /\ before = 0
    <3>1. StartTradeCycle(e, s, side, before) = [e EXCEPT !.cycle = y1, !.exit = x]
      BY <1>7, <2>1
    <3> x \in [Symbol -> Exit] /\ y1 \in [Symbol -> Route]
      BY <1>3, <1>4
    <3> WITNESS x \in [Symbol -> Exit], y1 \in [Symbol -> Route]
    <3>2. QED BY ONLY <1>3, <1>4, <2>1, <3>1
  <2>2. CASE ~(side = "BUY" /\ before = 0)
    BY <1>1, <1>6, <1>7, <2>2
  <2>3. QED BY <2>1, <2>2
<1>13. CycleClosed(e, s, side, before, CloseTradeCycle(e, s, side, before))
  <2> USE DEF CycleClosed
  <2>1. CASE side = "SELL" /\ before > 0 /\ e.pos[s] = 0
    <3>1. CloseTradeCycle(e, s, side, before) = [e EXCEPT !.cycle = y2, !.exit = x]
      BY <1>8, <2>1
    <3> x \in [Symbol -> Exit] /\ y2 \in [Symbol -> Route]
      BY <1>3, <1>5
    <3> WITNESS x \in [Symbol -> Exit], y2 \in [Symbol -> Route]
    <3>2. QED BY <1>1, <1>3, <1>5, <2>1, <3>1 DEF Sides
  <2>2. CASE ~(side = "SELL" /\ before > 0 /\ e.pos[s] = 0)
    BY <1>1, <1>6, <1>8, <2>2
  <2>3. QED BY <2>1, <2>2
<1>14. QED BY <1>11, <1>12, <1>13

\* The end of on_fill: what is left of the exits and marks of a symbol.
LEMMA AfterFillUpdates ==
  ASSUME OrdersAssumption, NEW e \in Memory, NEW s \in Symbol, NEW side \in Sides
  PROVE  LET g == AfterFill(e, s, side)
         IN  g \in Memory /\ MarksFilled(e, s, side, g)
<1>1. /\ e.exit \in [Symbol -> Exit] /\ e.gate \in [Symbol -> Gate] /\ e.pos[s] \in Nat
  BY DEF Memory
<1> DEFINE x == [e.exit EXCEPT ![s] = [NoExit EXCEPT !.trend = e.exit[s].trend]]
           y0 == [e.gate EXCEPT ![s] = NoGate]
           y1 == [e.gate EXCEPT ![s].selling = FALSE]
<1>2. x \in [Symbol -> Exit] /\ x[s] = [NoExit EXCEPT !.trend = e.exit[s].trend]
      /\ \A z \in Symbol \ {s} : x[z] = e.exit[z]
  BY <1>1 DEF Exit, NoExit
<1>3. RetryLimit \in Nat
  BY DEF OrdersAssumption, Limit
<1>4. y0 \in [Symbol -> Gate] /\ y0[s] = NoGate /\ \A z \in Symbol \ {s} : y0[z] = e.gate[z]
  BY <1>1, <1>3 DEF Gate, NoGate
<1>5. y1 \in [Symbol -> Gate] /\ y1[s] = [e.gate[s] EXCEPT !.selling = FALSE]
      /\ \A z \in Symbol \ {s} : y1[z] = e.gate[z]
  BY <1>1 DEF Gate
<1>6. e = [e EXCEPT !.gate = e.gate, !.exit = e.exit]
  BY DEF Memory
<1>7. AfterFill(e, s, side) =
        IF e.pos[s] = 0 THEN [e EXCEPT !.gate = y0, !.exit = x]
        ELSE IF side = "SELL" THEN [e EXCEPT !.gate = y1, !.exit = e.exit] ELSE e
  BY DEF AfterFill, Memory
<1> HIDE DEF x, y0, y1
<1>8. [e EXCEPT !.gate = y0, !.exit = x] \in Memory
  BY <1>2, <1>4 DEF Memory
<1>9. [e EXCEPT !.gate = y1, !.exit = e.exit] \in Memory
  BY <1>1, <1>5 DEF Memory
<1>10. AfterFill(e, s, side) \in Memory
  BY <1>7, <1>8, <1>9
<1> DEFINE Effect2(v, w) ==
             /\ AfterFill(e, s, side) = [e EXCEPT !.gate = w, !.exit = v]
             /\ \A z \in Symbol \ {s} : v[z] = e.exit[z] /\ w[z] = e.gate[z]
             /\ e.pos[s] > 0 => v = e.exit
             /\ e.pos[s] > 0 /\ side = "BUY" => w = e.gate
             /\ e.pos[s] > 0 /\ side = "SELL" => w[s] = [e.gate[s] EXCEPT !.selling = FALSE]
             /\ e.pos[s] = 0 => w[s] = NoGate /\ v[s] = [NoExit EXCEPT !.trend = e.exit[s].trend]
<1>11. ASSUME e.pos[s] = 0
       PROVE  \E v \in [Symbol -> Exit], w \in [Symbol -> Gate] : Effect2(v, w)
  <2>1. Effect2(x, y0)
    BY <1>1, <1>2, <1>4, <1>7, <1>11
  <2> x \in [Symbol -> Exit] /\ y0 \in [Symbol -> Gate]
    BY <1>2, <1>4
  <2> WITNESS x \in [Symbol -> Exit], y0 \in [Symbol -> Gate]
  <2>2. QED BY <2>1
<1>12. ASSUME e.pos[s] > 0, side = "SELL"
       PROVE  \E v \in [Symbol -> Exit], w \in [Symbol -> Gate] : Effect2(v, w)
  <2>1. Effect2(e.exit, y1)
    BY <1>1, <1>5, <1>7, <1>12
  <2> e.exit \in [Symbol -> Exit] /\ y1 \in [Symbol -> Gate]
    BY <1>1, <1>5
  <2> WITNESS e.exit \in [Symbol -> Exit], y1 \in [Symbol -> Gate]
  <2>2. QED BY <2>1
<1>13. ASSUME e.pos[s] > 0, side = "BUY"
       PROVE  \E v \in [Symbol -> Exit], w \in [Symbol -> Gate] : Effect2(v, w)
  <2>1. Effect2(e.exit, e.gate)
    BY <1>1, <1>6, <1>7, <1>13
  <2> e.exit \in [Symbol -> Exit] /\ e.gate \in [Symbol -> Gate]
    BY <1>1
  <2> WITNESS e.exit \in [Symbol -> Exit], e.gate \in [Symbol -> Gate]
  <2>2. QED BY <2>1
<1>14. e.pos[s] = 0 \/ (e.pos[s] > 0 /\ side \in {"BUY", "SELL"})
  BY <1>1 DEF Sides
<1>15. \E v \in [Symbol -> Exit], w \in [Symbol -> Gate] : Effect2(v, w)
  <2> HIDE DEF Effect2
  <2>1. QED BY <1>11, <1>12, <1>13, <1>14
<1>16. QED BY <1>10, <1>15 DEF MarksFilled

\* The numbers bound once the report f was taken for order id.
Rebound(e, f, id) ==
  IF id = 0 THEN e.bound
  ELSE [k \in DOMAIN e.bound \cup {f.no} |-> IF k = f.no THEN id ELSE e.bound[k]]

\* The shares of s after n shares of it were filled.
Shares(e, f, n) ==
  IF f.side = "BUY" THEN e.pos[f.sym] + n
  ELSE IF n > e.pos[f.sym] THEN 0 ELSE e.pos[f.sym] - n

\* What a fill of n shares for order id makes of the marks of its symbol.
MarksAfter(e, g, s, side) ==
  /\ g.pos[s] > 0 /\ side = "BUY" => g.gate[s] = e.gate[s]
  /\ g.pos[s] > 0 /\ side = "SELL" => g.gate[s] = [e.gate[s] EXCEPT !.selling = FALSE]
  /\ g.pos[s] = 0 => /\ g.gate[s] = NoGate
                     /\ e.pos[s] > 0 /\ side = "SELL" => g.cycle[s] = NoRoute /\ g.exit[s] = NoExit
                     /\ e.pos[s] = 0 /\ e.exit[s] = NoExit /\ e.cycle[s] = NoRoute /\ side = "SELL"
                          => g.cycle[s] = NoRoute /\ g.exit[s] = NoExit

\* The memory g after report f, bound to order id, has added n shares.
FillOf(e, f, id, n, g) ==
  LET s == f.sym
  IN  /\ g.stopped = e.stopped /\ g.today = e.today
      /\ g.bound = Rebound(e, f, id)
      /\ g.orders = IF n = 0 \/ id = 0 THEN e.orders
                    ELSE [e.orders EXCEPT ![id] = ApplyFill(e.orders[id], n, f.unfilled)]
      /\ \A z \in Symbol \ {s} : g.pos[z] = e.pos[z] /\ g.gate[z] = e.gate[z]
                                 /\ g.exit[z] = e.exit[z] /\ g.cycle[z] = e.cycle[z]
      /\ g.pos[s] = Shares(e, f, n)
      /\ IF n = 0 THEN g.gate = e.gate /\ g.exit = e.exit /\ g.cycle = e.cycle
         ELSE MarksAfter(e, g, s, f.side)

\* on_fill: the whole effect of a report on the memory.
LEMMA FillEffect ==
  ASSUME OrdersAssumption, Context, NEW e \in Memory, NEW x \in Account,
         OrdersOK(e.orders), BoundOK(e, x), NEW f, Reports(e, x, f), NEW level \in Int
  PROVE  LET id == BindBrokerOrderId(e, f)
             g  == OnFill(e, f, level)
         IN  g \in Memory /\ FillOf(e, f, id, NormalizeFillQty(e, f, id), g)
<1> DEFINE id == BindBrokerOrderId(e, f)
           n  == NormalizeFillQty(e, f, id)
           s  == f.sym
           b  == IF id = 0 THEN e ELSE [e EXCEPT !.bound = Rebound(e, f, id)]
           u  == UpdateFill(b, f, n, level)
           a  == IF id = 0 THEN u
                 ELSE [u EXCEPT !.orders[id] = ApplyFill(@, n, f.unfilled)]
           c  == StartTradeCycle(a, s, f.side, e.pos[s])
           d  == CloseTradeCycle(c, s, f.side, e.pos[s])
           g  == AfterFill(d, s, f.side)
<1>1. OnFill(e, f, level) = IF n = 0 THEN b ELSE g
  BY DEF OnFill, Rebound
<1>2. /\ id \in Nat
      /\ id # 0 => /\ id \in DOMAIN e.orders
                   /\ e.orders[id].st \in {"SUBMITTED", "PARTIAL", "FILLED"}
  BY FillTarget
<1>3. /\ n \in Nat
      /\ id # 0 /\ n # 0 => e.orders[id].filled + n = e.orders[id].qty - f.unfilled
  BY <1>2, FillQty
<1>4. s \in Symbol /\ f.side \in Sides /\ f.no \in Int /\ f.unfilled \in Nat
  BY DEF Reports
<1>5. e.pos \in [Symbol -> Nat] /\ e.pos[s] \in Nat /\ e.orders \in Seq(Order)
      /\ e.bound = Rebound(e, f, 0)
  BY <1>4 DEF Memory, Rebound
<1> HIDE DEF id, n
<1>6. b \in Memory /\ b = [e EXCEPT !.bound = Rebound(e, f, id)]
  <2>1. CASE id = 0
    BY <1>5, <2>1 DEF Memory
  <2>2. CASE id # 0
    <3> DEFINE D == DOMAIN e.bound \cup {f.no}
    <3>1. D \in SUBSET Int /\ e.bound \in [DOMAIN e.bound -> Nat]
      BY <1>4, MemoryFacts
    <3>2. Rebound(e, f, id) \in [D -> Nat]
      BY <1>2, <2>2, <3>1 DEF Rebound
    <3>3. Rebound(e, f, id) \in UNION {[E -> Nat] : E \in SUBSET Int}
      BY <3>1, <3>2
    <3>4. QED BY <2>2, <3>3 DEF Memory
  <2>3. QED BY <2>1, <2>2
<1>7. ASSUME n = 0
      PROVE  OnFill(e, f, level) \in Memory /\ FillOf(e, f, id, n, OnFill(e, f, level))
  <2>1. Shares(e, f, n) = e.pos[s]
    BY <1>4, <1>5, <1>7 DEF Shares, Sides
  <2>2. OnFill(e, f, level) = [e EXCEPT !.bound = Rebound(e, f, id)]
    BY <1>1, <1>6, <1>7
  <2>3. QED BY <1>6, <1>7, <2>1, <2>2 DEF FillOf, Memory
<1>8. ASSUME n # 0
      PROVE  OnFill(e, f, level) \in Memory /\ FillOf(e, f, id, n, OnFill(e, f, level))
  <2> DEFINE after == Shares(e, f, n)
             q == IF id = 0 THEN e.orders
                  ELSE [e.orders EXCEPT ![id] = ApplyFill(e.orders[id], n, f.unfilled)]
             p == [e.pos EXCEPT ![s] = after]
             B == Rebound(e, f, id)
  <2>1. b.pos = e.pos /\ b.orders = e.orders
    BY <1>6 DEF Memory
  <2>2. u \in Memory /\ \E r \in Int : u = [b EXCEPT !.pos = p, !.realized = r]
    <3> DEFINE k == IF f.side = "SELL" /\ n > b.pos[s] THEN b.pos[s] ELSE n
               aft == IF f.side = "BUY" THEN b.pos[s] + k ELSE b.pos[s] - k
    <3>1. u \in Memory /\ \E r \in Int : u = [b EXCEPT !.pos = [b.pos EXCEPT ![s] = aft],
                                                     !.realized = r]
      <4>1. n \in Nat \ {0}
        BY <1>3, <1>8
      <4>2. u \in Memory /\ PositionFilled(b, s, f.side, n, u)
        BY ONLY <1>4, <1>6, <4>1, level \in Int, FillUpdates
      <4>3. QED BY <4>2 DEF PositionFilled
    <3>2. aft = after
      BY <1>3, <1>4, <1>5, <2>1 DEF Shares, Sides
    <3>3. QED BY <2>1, <3>1, <3>2
  <2> HIDE DEF b, u, B, after
  <2>3. PICK r \in Int : u = [e EXCEPT !.bound = B, !.pos = p, !.realized = r]
    BY <1>6, <2>2 DEF B
  <2>4. q \in Seq(Order)
    <3>1. CASE id = 0
      BY <1>5, <3>1
    <3>2. CASE id # 0
      <4>1. e.orders[id] \in Order
        BY <1>2, <3>2, MemoryFacts
      <4>2. n \in Nat \ {0}
        BY <1>3, <1>8
      <4>3. ApplyFill(e.orders[id], n, f.unfilled) \in Order
        BY <1>3, <1>4, <1>8, <3>2, <4>1, <4>2, AppliedFill
      <4>4. QED BY <1>2, <1>5, <3>2, <4>3
    <3>3. QED BY <3>1, <3>2
  <2>5. a = [e EXCEPT !.bound = B, !.pos = p, !.realized = r, !.orders = q]
    <3>1. u.orders = e.orders
      BY <2>3 DEF Memory
    <3>2. a = [u EXCEPT !.orders = q]
      BY <2>2, <3>1 DEF Memory
    <3> HIDE DEF q, p, a
    <3>3. QED BY <2>3, <3>2 DEF Memory
  <2>6. a \in Memory
    <3>1. B \in UNION {[E -> Nat] : E \in SUBSET Int}
      BY <1>6 DEF B, Memory
    <3>2. p \in [Symbol -> Nat]
      BY <2>2, <2>3 DEF Memory
    <3> HIDE DEF q, p, a
    <3>3. QED BY <2>4, <2>5, <3>1, <3>2 DEF Memory
  <2> HIDE DEF q, a
  <2>7. c \in Memory /\ CycleStarted(a, s, f.side, c)
    <3> HIDE DEF s
    <3>1. s \in Symbol /\ f.side \in Sides /\ e.pos[s] \in Nat /\ a \in Memory
      BY <1>4, <1>5, <2>6 DEF s
    <3>2. QED BY ONLY OrdersAssumption, Context, <3>1, CycleUpdates
  <2>8. PICK x1 \in [Symbol -> Exit], y1 \in [Symbol -> Route] :
          /\ c = [a EXCEPT !.cycle = y1, !.exit = x1]
          /\ \A z \in Symbol \ {s} : x1[z] = a.exit[z] /\ y1[z] = a.cycle[z]
          /\ f.side = "SELL" => x1 = a.exit /\ y1 = a.cycle
    BY <2>7 DEF CycleStarted
  <2> HIDE DEF c
  <2>9. d \in Memory /\ CycleClosed(c, s, f.side, e.pos[s], d)
    <3> HIDE DEF s
    <3>1. s \in Symbol /\ f.side \in Sides /\ e.pos[s] \in Nat /\ c \in Memory
      BY <1>4, <1>5, <2>7 DEF s
    <3>2. QED BY ONLY OrdersAssumption, Context, <3>1, CycleUpdates
  <2>10. PICK x2 \in [Symbol -> Exit], y2 \in [Symbol -> Route] :
          /\ d = [c EXCEPT !.cycle = y2, !.exit = x2]
          /\ \A z \in Symbol \ {s} : x2[z] = c.exit[z] /\ y2[z] = c.cycle[z]
          /\ f.side = "BUY" \/ c.pos[s] > 0 => x2 = c.exit /\ y2 = c.cycle
          /\ f.side = "SELL" /\ c.pos[s] = 0 =>
               IF e.pos[s] > 0
                 THEN y2[s] = NoRoute /\ x2[s] = [c.exit[s] EXCEPT !.trend = FALSE]
                 ELSE x2 = c.exit /\ y2 = c.cycle
    BY <2>9 DEF CycleClosed
  <2> HIDE DEF d
  <2>11. g \in Memory /\ MarksFilled(d, s, f.side, g)
    <3> HIDE DEF s
    <3>1. s \in Symbol /\ f.side \in Sides /\ d \in Memory
      BY <1>4, <2>9 DEF s
    <3>2. QED BY ONLY OrdersAssumption, <3>1, AfterFillUpdates
  <2>12. PICK x3 \in [Symbol -> Exit], y3 \in [Symbol -> Gate] :
          /\ g = [d EXCEPT !.gate = y3, !.exit = x3]
          /\ \A z \in Symbol \ {s} : x3[z] = d.exit[z] /\ y3[z] = d.gate[z]
          /\ d.pos[s] > 0 => x3 = d.exit
          /\ d.pos[s] > 0 /\ f.side = "BUY" => y3 = d.gate
          /\ d.pos[s] > 0 /\ f.side = "SELL" => y3[s] = [d.gate[s] EXCEPT !.selling = FALSE]
          /\ d.pos[s] = 0 => y3[s] = NoGate
                             /\ x3[s] = [NoExit EXCEPT !.trend = d.exit[s].trend]
    BY <2>11 DEF MarksFilled
  <2> HIDE DEF g
  <2>13. /\ g.orders = q /\ g.bound = B /\ g.pos = p
         /\ g.stopped = e.stopped /\ g.today = e.today
         /\ d.pos = p /\ c.pos = p /\ d.gate = e.gate
         /\ c.exit = x1 /\ c.cycle = y1 /\ a.exit = e.exit /\ a.cycle = e.cycle
         /\ d.exit = x2 /\ d.cycle = y2 /\ g.exit = x3 /\ g.gate = y3 /\ g.cycle = y2
    <3>1. /\ a.orders = q /\ a.bound = B /\ a.pos = p /\ a.gate = e.gate
          /\ a.exit = e.exit /\ a.cycle = e.cycle /\ a.stopped = e.stopped /\ a.today = e.today
      BY <2>5 DEF Memory
    <3>2. /\ c.orders = q /\ c.bound = B /\ c.pos = p /\ c.gate = e.gate
          /\ c.exit = x1 /\ c.cycle = y1 /\ c.stopped = e.stopped /\ c.today = e.today
      BY ONLY <2>6, <2>8, <2>7, <3>1 DEF Memory
    <3>3. /\ d.orders = q /\ d.bound = B /\ d.pos = p /\ d.gate = e.gate
          /\ d.exit = x2 /\ d.cycle = y2 /\ d.stopped = e.stopped /\ d.today = e.today
      BY ONLY <2>7, <2>10, <2>9, <3>2 DEF Memory
    <3>4. /\ g.orders = q /\ g.bound = B /\ g.pos = p /\ g.gate = y3
          /\ g.exit = x3 /\ g.cycle = y2 /\ g.stopped = e.stopped /\ g.today = e.today
      BY ONLY <2>9, <2>12, <2>11, <3>3 DEF Memory
    <3>5. QED BY <3>1, <3>2, <3>3, <3>4
  <2>14. p[s] = after /\ after \in Nat /\ \A z \in Symbol \ {s} : p[z] = e.pos[z]
    <3>1. p \in [Symbol -> Nat]
      BY <2>11, <2>13 DEF Memory
    <3>2. p[s] = after /\ \A z \in Symbol \ {s} : p[z] = e.pos[z]
      BY <1>4, <1>5
    <3>3. QED BY <1>4, <3>1, <3>2
  <2> HIDE DEF p
  <2>15. \A z \in Symbol \ {s} : g.pos[z] = e.pos[z] /\ g.gate[z] = e.gate[z]
                                 /\ g.exit[z] = e.exit[z] /\ g.cycle[z] = e.cycle[z]
    BY <2>8, <2>10, <2>12, <2>13, <2>14
  <2>16. MarksAfter(e, g, s, f.side)
    <3>1. f.side = "BUY" => after > 0
      BY <1>3, <1>5, <1>8 DEF after, Shares
    <3>2. f.side \in {"BUY", "SELL"}
      BY <1>4 DEF Sides
    <3>3. CASE after > 0
      BY <2>12, <2>13, <2>14, <3>2, <3>3 DEF MarksAfter
    <3>4. CASE after = 0
      <4>1. f.side = "SELL" /\ x1 = e.exit /\ y1 = e.cycle
        BY <2>8, <2>13, <3>1, <3>2, <3>4
      <4>2. g.gate[s] = NoGate /\ g.exit[s] = [NoExit EXCEPT !.trend = x2[s].trend]
        BY <2>12, <2>13, <2>14, <3>4
      <4>3. ASSUME e.pos[s] > 0 PROVE g.cycle[s] = NoRoute /\ g.exit[s] = NoExit
        <5>1. y2[s] = NoRoute /\ x2[s] = [e.exit[s] EXCEPT !.trend = FALSE]
          BY <2>10, <2>13, <2>14, <3>4, <4>1, <4>3
        <5>2. x2[s].trend = FALSE
          <6>1. e.exit[s] \in Exit
            BY <1>4 DEF Memory
          <6>2. QED BY <5>1, <6>1 DEF Exit
        <5>3. QED BY <2>13, <4>2, <5>1, <5>2 DEF NoExit
      <4>4. ASSUME e.pos[s] = 0, e.exit[s] = NoExit, e.cycle[s] = NoRoute
            PROVE  g.cycle[s] = NoRoute /\ g.exit[s] = NoExit
        <5>1. y2[s] = NoRoute /\ x2[s] = NoExit
          BY <2>10, <2>13, <2>14, <3>4, <4>1, <4>4
        <5>2. QED BY <2>13, <4>2, <5>1 DEF NoExit
      <4>5. QED BY <2>13, <2>14, <3>4, <4>1, <4>2, <4>3, <4>4 DEF MarksAfter
    <3>5. QED BY <2>14, <3>3, <3>4
  <2>17. OnFill(e, f, level) = g
    BY <1>1, <1>8 DEF g, d, c, a, u, b
  <2>18. FillOf(e, f, id, n, g)
    BY <1>8, <2>13, <2>14, <2>15, <2>16 DEF FillOf, q, B, after
  <2>19. QED BY <2>11, <2>17, <2>18
<1>9. QED BY <1>7, <1>8 DEF id, n

\* The order table after a fill.
TableAfter(q, r, f, id, n) ==
  /\ DOMAIN r = DOMAIN q /\ Len(r) = Len(q)
  /\ \A i \in DOMAIN q : i # id \/ n = 0 => r[i] = q[i]
  /\ id # 0 /\ n # 0 =>
       /\ id \in DOMAIN q /\ q[id].sym = f.sym /\ Pending(q[id])
       /\ r[id].sym = f.sym /\ r[id].side = q[id].side /\ r[id].restored = q[id].restored
       /\ r[id].why = q[id].why /\ r[id].day = q[id].day
       /\ r[id].qty = q[id].qty /\ r[id].filled = q[id].filled + n
       /\ r[id].st = IF f.unfilled = 0 THEN "FILLED" ELSE "PARTIAL"
       /\ q[id].st \in {"SUBMITTED", "PARTIAL"}
       /\ q[id].filled + n = q[id].qty - f.unfilled

\* The orders after a report: at most the one it is bound to has changed.
LEMMA FillTable ==
  ASSUME NEW e \in Memory, NEW x \in Account, OrdersOK(e.orders), BoundOK(e, x),
         NEW f, Reports(e, x, f), NEW g \in Memory,
         FillOf(e, f, BindBrokerOrderId(e, f), NormalizeFillQty(e, f, BindBrokerOrderId(e, f)), g)
  PROVE  /\ TableAfter(e.orders, g.orders, f, BindBrokerOrderId(e, f),
                       NormalizeFillQty(e, f, BindBrokerOrderId(e, f)))
         /\ OrdersOK(g.orders)
<1> DEFINE id == BindBrokerOrderId(e, f)
           n  == NormalizeFillQty(e, f, id)
           q  == e.orders
           r  == g.orders
<1>1. /\ id \in Nat
      /\ id # 0 => /\ id \in DOMAIN q /\ q[id].sym = f.sym
                   /\ q[id].st \in {"SUBMITTED", "PARTIAL", "FILLED"}
  BY FillTarget
<1>2. /\ n \in Nat
      /\ id # 0 /\ n # 0 => Pending(q[id]) /\ q[id].filled + n = q[id].qty - f.unfilled
  BY <1>1, FillQty
<1>3. q \in Seq(Order) /\ DOMAIN q = 1..Len(q) /\ Len(q) \in Nat
      /\ \A i \in DOMAIN q : q[i] \in Order
  BY MemoryFacts
<1>4. r = IF n = 0 \/ id = 0 THEN q ELSE [q EXCEPT ![id] = ApplyFill(q[id], n, f.unfilled)]
  BY DEF FillOf
<1> HIDE DEF id, n, q, r
<1>5. CASE n = 0 \/ id = 0
  BY <1>3, <1>4, <1>5 DEF TableAfter, q, r, id, n
<1>6. CASE n # 0 /\ id # 0
  <2> DEFINE p == ApplyFill(q[id], n, f.unfilled)
  <2>1. q[id] \in Order /\ n \in Nat \ {0} /\ f.unfilled \in Nat
    BY <1>1, <1>2, <1>3, <1>6 DEF Reports
  <2>2. /\ p \in Order /\ p.sym = q[id].sym /\ p.side = q[id].side /\ p.qty = q[id].qty
        /\ p.restored = q[id].restored /\ p.why = q[id].why /\ p.day = q[id].day
        /\ p.filled = q[id].filled + n
        /\ p.st = IF f.unfilled = 0 THEN "FILLED" ELSE "PARTIAL"
        /\ Pending(p) => p.filled < p.qty
        /\ p.st = "FILLED" => p.filled = p.qty
    BY <1>2, <1>6, <2>1, AppliedFill
  <2>3. r = [q EXCEPT ![id] = p]
    BY <1>4, <1>6
  <2> HIDE DEF p
  <2>4. DOMAIN r = DOMAIN q /\ Len(r) = Len(q) /\ r[id] = p
        /\ \A i \in DOMAIN q : i # id => r[i] = q[i]
    BY <1>1, <1>3, <1>6, <2>2, <2>3
  <2>5. q[id].st \in {"SUBMITTED", "PARTIAL"}
    BY <1>1, <1>2, <1>6 DEF Pending
  <2>6. TableAfter(q, r, f, id, n)
    BY <1>1, <1>2, <1>6, <2>2, <2>4, <2>5 DEF TableAfter
  <2>7. OrdersOK(r)
    BY <2>2, <2>4 DEF OrdersOK, q
  <2>8. QED BY <2>6, <2>7 DEF q, r, id, n
<1>7. QED BY <1>5, <1>6

\* A report keeps the memory right.
LEMMA FillKeepsMemory ==
  ASSUME OrdersAssumption, Context, NEW e, NEW x, MemoryOK(e, x),
         NEW f, Reports(e, x, f), NEW level \in Int
  PROVE  MemoryOK(OnFill(e, f, level), x)
<1> DEFINE id == BindBrokerOrderId(e, f)
           n  == NormalizeFillQty(e, f, id)
           g  == OnFill(e, f, level)
           q  == e.orders
           r  == g.orders
<1>1. /\ e \in Memory /\ x \in Account /\ OrdersOK(e.orders) /\ BoundOK(e, x) /\ GateOK(e)
  BY DEF MemoryOK
<1>2. g \in Memory /\ FillOf(e, f, id, n, g)
  BY <1>1, FillEffect
<1> HIDE DEF g
<1>3. TableAfter(q, r, f, id, n) /\ OrdersOK(g.orders)
  BY <1>1, <1>2, FillTable
<1>4. /\ id \in Nat
      /\ id # 0 => /\ id \in DOMAIN q /\ q[id].sym = f.sym
                   /\ q[id].st \in {"SUBMITTED", "PARTIAL", "FILLED"}
  BY <1>1, FillTarget
<1>5. DOMAIN e.bound \subseteq Int /\ e.bound \in [DOMAIN e.bound -> Nat]
  BY <1>1, MemoryFacts
<1>6. g.bound = Rebound(e, f, id)
  BY <1>2 DEF FillOf
<1> HIDE DEF id, n, q, r
<1>7. \A i \in DOMAIN q : /\ i \in DOMAIN r /\ r[i].sym = q[i].sym
                          /\ q[i].st \in {"SUBMITTED", "PARTIAL", "FILLED"} =>
                               r[i].st \in {"SUBMITTED", "PARTIAL", "FILLED"}
  BY <1>3 DEF TableAfter
<1>8. BoundOK(g, x)
  <2>1. ASSUME NEW k \in DOMAIN g.bound
        PROVE  /\ g.bound[k] \in DOMAIN r
               /\ r[g.bound[k]].st \in {"SUBMITTED", "PARTIAL", "FILLED"}
               /\ k < 0 => -k <= Len(r)
               /\ k >= 0 => k \in DOMAIN x.orders /\ x.orders[k].sym = r[g.bound[k]].sym
    <3>1. Len(r) = Len(q)
      BY <1>3 DEF TableAfter
    <3>2. CASE k \in DOMAIN e.bound /\ g.bound[k] = e.bound[k]
      <4>1. /\ e.bound[k] \in DOMAIN q
            /\ q[e.bound[k]].st \in {"SUBMITTED", "PARTIAL", "FILLED"}
            /\ k < 0 => -k <= Len(q)
            /\ k >= 0 => k \in DOMAIN x.orders /\ x.orders[k].sym = q[e.bound[k]].sym
        BY <1>1, <3>2 DEF BoundOK, q
      <4>2. QED BY <1>7, <3>1, <3>2, <4>1
    <3>3. CASE id # 0 /\ k = f.no /\ g.bound[k] = id
      <4>1. /\ k \in Int
            /\ k < 0 => -k <= Len(q)
            /\ k >= 0 => k \in DOMAIN x.orders /\ x.orders[k].sym = f.sym
        BY <3>3 DEF Reports, q
      <4>2. QED BY <1>4, <1>7, <3>1, <3>3, <4>1
    <3>4. QED BY <1>5, <1>6, <2>1, <3>2, <3>3 DEF Rebound
  <2>2. QED BY <2>1 DEF BoundOK, r
<1>9. GateOK(g)
  <2>1. ASSUME NEW z \in Symbol PROVE g.gate[z].canceling <=> g.gate[z].resell > 0
    <3>1. e.gate[z].canceling <=> e.gate[z].resell > 0
      BY <1>1 DEF GateOK
    <3>2. e.gate[z] \in Gate
      BY <1>1 DEF Memory
    <3>3. \/ g.gate[z] = e.gate[z] \/ g.gate[z] = NoGate
          \/ g.gate[z] = [e.gate[z] EXCEPT !.selling = FALSE]
      <4>1. g.pos[f.sym] \in Nat /\ f.side \in {"BUY", "SELL"}
        BY <1>2 DEF Memory, Reports, Sides
      <4>2. CASE z # f.sym \/ n = 0
        BY <1>2, <4>2 DEF FillOf
      <4>3. CASE z = f.sym /\ n # 0
        <5>1. MarksAfter(e, g, z, f.side)
          BY <1>2, <4>3 DEF FillOf
        <5>2. g.pos[z] = 0 \/ g.pos[z] > 0
          BY <4>1, <4>3
        <5>3. QED BY <4>1, <5>1, <5>2 DEF MarksAfter
      <4>4. QED BY <4>2, <4>3
    <3>4. QED BY <3>1, <3>2, <3>3 DEF NoGate, Gate
  <2>2. QED BY <2>1 DEF GateOK
<1>10. QED BY <1>1, <1>2, <1>3, <1>8, <1>9 DEF MemoryOK, g

\* A report keeps the stops right.
LEMMA FillKeepsStops ==
  ASSUME OrdersAssumption, Context, NEW e, NEW x, MemoryOK(e, x),
         NEW f, Reports(e, x, f), NEW level \in Int, StopsOK(e)
  PROVE  StopsOK(OnFill(e, f, level)) /\ OnFill(e, f, level).today = e.today
<1> DEFINE id == BindBrokerOrderId(e, f)
           n  == NormalizeFillQty(e, f, id)
           g  == OnFill(e, f, level)
           q  == e.orders
           r  == g.orders
<1>1. /\ e \in Memory /\ x \in Account /\ OrdersOK(e.orders) /\ BoundOK(e, x)
  BY DEF MemoryOK
<1>2. g \in Memory /\ FillOf(e, f, id, n, g)
  BY <1>1, FillEffect
<1> HIDE DEF g
<1>3. TableAfter(q, r, f, id, n)
  BY <1>1, <1>2, FillTable
<1>4. g.stopped = e.stopped /\ g.today = e.today
  BY <1>2 DEF FillOf
<1> HIDE DEF id, n, q, r
<1>5. \A i \in DOMAIN r : /\ i \in DOMAIN q /\ r[i].sym = q[i].sym /\ r[i].why = q[i].why
                          /\ r[i].day = q[i].day
                          /\ r[i].st # "REJECTED" => q[i].st # "REJECTED"
  BY <1>3 DEF TableAfter
<1>6. StopsOK(g)
  BY <1>4, <1>5 DEF StopsOK, q, r
<1>7. QED BY <1>4, <1>6 DEF g

\* A report that is taken for an order of its own side leaves every symbol in order.
LEMMA FillKeepsSymbols ==
  ASSUME OrdersAssumption, Context, NEW e, NEW x, MemoryOK(e, x),
         NEW f, Reports(e, x, f), NEW level \in Int, ~Mistaken(e, f),
         NEW z \in Symbol, SymbolOK(e, z)
  PROVE  SymbolOK(OnFill(e, f, level), z)
<1> DEFINE id == BindBrokerOrderId(e, f)
           n  == NormalizeFillQty(e, f, id)
           g  == OnFill(e, f, level)
           q  == e.orders
           r  == g.orders
<1> SUFFICES SymbolOK(g, z)
  OBVIOUS
<1>1. /\ e \in Memory /\ x \in Account /\ OrdersOK(e.orders) /\ BoundOK(e, x)
  BY DEF MemoryOK
<1>2. g \in Memory /\ FillOf(e, f, id, n, g)
  BY <1>1, FillEffect
<1> HIDE DEF g
<1>3. TableAfter(q, r, f, id, n) /\ OrdersOK(g.orders)
  BY <1>1, <1>2, FillTable
<1>4. /\ id \in Nat
      /\ id # 0 => id \in DOMAIN q /\ q[id].sym = f.sym
      /\ id = 0 => \A i \in DOMAIN q : q[i].sym = f.sym => ~Pending(q[i])
  BY <1>1, FillTarget
<1>5. n \in Nat /\ (id = 0 => n > 0)
  <2>1. /\ id \in Nat
        /\ id # 0 => id \in DOMAIN e.orders
                     /\ e.orders[id].st \in {"SUBMITTED", "PARTIAL", "FILLED"}
    BY <1>1, FillTarget
  <2> HIDE DEF id
  <2>2. n \in Nat /\ (id = 0 => n = f.cum)
    BY <1>1, <2>1, FillQty
  <2>3. QED BY <2>2 DEF Reports
<1>6. id # 0 => q[id].side = f.side
  BY <1>4 DEF Mistaken
<1>7. f.side \in {"BUY", "SELL"} /\ f.sym \in Symbol /\ f.unfilled \in Nat
  BY DEF Reports, Sides
<1>8. Countable(q) /\ Countable(r)
  BY <1>1, <1>2, <1>3, CountableMemory
<1>9. e.pos[z] \in Nat /\ g.pos[z] \in Nat /\ e.gate[z] \in Gate /\ e.exit[z] \in Exit
  BY <1>1, <1>2 DEF Memory
<1>10. Claims(q, z) \in Nat /\ \A i \in DOMAIN q : Claim(q[i], z) <= Claims(q, z)
  BY <1>8, ClaimsType
<1>11. \A i \in DOMAIN q : q[i].qty \in Nat /\ q[i].filled \in Nat
  BY <1>8 DEF Countable
<1> HIDE DEF id, n, q, r
<1>12. CASE z # f.sym \/ n = 0
  <2>1. /\ DOMAIN r = DOMAIN q
        /\ \A i \in DOMAIN q : q[i].sym = z \/ r[i].sym = z => r[i] = q[i]
    BY <1>3, <1>4, <1>12 DEF TableAfter
  <2>2. \A i \in DOMAIN q : Claim(r[i], z) = Claim(q[i], z)
    BY <2>1 DEF Claim
  <2>3. Claims(r, z) = Claims(q, z)
    BY <2>1, <2>2, ClaimsSame
  <2>4. /\ g.pos[z] = e.pos[z] /\ g.gate[z] = e.gate[z]
        /\ g.exit[z] = e.exit[z] /\ g.cycle[z] = e.cycle[z]
    BY <1>2, <1>7, <1>9, <1>12 DEF FillOf, Shares
  <2>5. (PendingBuy(r, z) <=> PendingBuy(q, z)) /\ (PendingSell(r, z) <=> PendingSell(q, z))
    BY <2>1 DEF PendingBuy, PendingSell
  <2>6. QED BY <2>3, <2>4, <2>5 DEF SymbolOK, q, r
<1>13. CASE z = f.sym /\ n # 0 /\ id = 0
  <2>1. r = q
    BY <1>2, <1>13 DEF FillOf, q, r
  <2>2. \A i \in DOMAIN q : Claim(q[i], z) = 0
    BY <1>4, <1>13 DEF Claim
  <2>3. Claims(q, z) = 0
    BY <1>8, <2>2, ClaimsZero
  <2>4. ~PendingSell(q, z)
    BY <1>4, <1>13 DEF PendingSell
  <2>5. /\ e.gate[z].canceling => e.pos[z] > 0
        /\ ~e.gate[z].selling
        /\ e.pos[z] = 0 => e.exit[z] = NoExit /\ e.cycle[z] = NoRoute /\ e.gate[z] = NoGate
    BY <2>4 DEF SymbolOK, q
  <2>6. g.pos[z] = Shares(e, f, n) /\ MarksAfter(e, g, z, f.side)
    BY <1>2, <1>13 DEF FillOf
  <2>7. /\ f.side = "BUY" => g.pos[z] > 0
        /\ f.side = "SELL" /\ g.pos[z] > 0 => e.pos[z] > 0
    BY <1>5, <1>7, <1>9, <1>13, <2>6 DEF Shares
  <2>8. g.pos[z] = 0 => g.exit[z] = NoExit /\ g.gate[z] = NoGate /\ g.cycle[z] = NoRoute
    BY <1>7, <1>9, <2>5, <2>6, <2>7 DEF MarksAfter
  <2>9. g.pos[z] > 0 => /\ g.gate[z].canceling = e.gate[z].canceling
                        /\ ~g.gate[z].selling
    BY <1>7, <1>9, <2>5, <2>6 DEF MarksAfter, Gate
  <2>10. ~g.gate[z].selling /\ (g.gate[z].canceling => g.pos[z] > 0)
    BY <1>9, <2>8, <2>9 DEF NoGate
  <2>11. Claims(r, z) <= g.pos[z]
    BY <1>9, <2>1, <2>3
  <2>12. ~PendingBuy(r, z)
    BY <1>4, <1>13, <2>1 DEF PendingBuy
  <2>13. QED BY <2>8, <2>10, <2>11, <2>12 DEF SymbolOK, r
<1>14. CASE z = f.sym /\ n # 0 /\ id # 0 /\ f.side = "BUY"
  <2>1. \A i \in DOMAIN q : Claim(r[i], z) = Claim(q[i], z)
    BY <1>3, <1>6, <1>14 DEF TableAfter, Claim
  <2>2. DOMAIN r = DOMAIN q
    BY <1>3 DEF TableAfter
  <2>3. Claims(r, z) = Claims(q, z)
    BY <2>1, <2>2, ClaimsSame
  <2>4. g.pos[z] = e.pos[z] + n /\ MarksAfter(e, g, z, "BUY")
    BY <1>2, <1>14 DEF FillOf, Shares
  <2>5. g.pos[z] > 0 /\ g.gate[z] = e.gate[z] /\ Claims(r, z) <= g.pos[z]
    <3>1. Claims(q, z) <= e.pos[z]
      BY DEF SymbolOK, q
    <3>2. QED BY <1>5, <1>9, <1>10, <1>14, <2>3, <2>4, <3>1 DEF MarksAfter
  <2>6. \A i \in DOMAIN q : r[i] = q[i] \/ (/\ i = id /\ q[i].side = "BUY" /\ r[i].side = "BUY"
                                            /\ Pending(q[i]) /\ q[i].sym = z
                                            /\ r[i].restored = q[i].restored)
    BY <1>3, <1>4, <1>6, <1>14 DEF TableAfter
  <2>7. PendingBuy(r, z) => PendingBuy(q, z)
    BY <2>2, <2>6 DEF PendingBuy
  <2>8. PendingSell(q, z) => PendingSell(r, z)
    BY <2>2, <2>6 DEF PendingSell
  <2>9. QED BY <1>9, <2>3, <2>5, <2>7, <2>8 DEF SymbolOK, q, r
<1>15. CASE z = f.sym /\ n # 0 /\ id # 0 /\ f.side = "SELL"
  <2> DEFINE rem == Remaining(q[id])
  <2>1. /\ DOMAIN r = DOMAIN q /\ id \in DOMAIN q
        /\ \A i \in DOMAIN q \ {id} : r[i] = q[i]
        /\ q[id].sym = z /\ q[id].side = "SELL" /\ Pending(q[id])
        /\ r[id].sym = z /\ r[id].side = "SELL"
        /\ r[id].qty = q[id].qty /\ r[id].filled = q[id].filled + n
        /\ r[id].st = IF f.unfilled = 0 THEN "FILLED" ELSE "PARTIAL"
        /\ q[id].filled + n = q[id].qty - f.unfilled
    BY <1>3, <1>4, <1>6, <1>15 DEF TableAfter
  <2>2. rem \in Int /\ Claim(q[id], z) = rem /\ Claim(r[id], z) = rem - n /\ n <= rem
    <3>1. rem \in Int /\ rem = n + f.unfilled
      BY <1>5, <1>7, <1>11, <2>1 DEF Remaining
    <3>2. Claim(q[id], z) = rem
      BY <2>1 DEF Claim
    <3>3. Claim(r[id], z) = rem - n
      <4>1. Remaining(r[id]) = rem - n
        BY <1>5, <1>7, <1>11, <2>1, <3>1 DEF Remaining
      <4>2. CASE f.unfilled = 0
        BY <1>5, <2>1, <3>1, <4>2 DEF Claim, Pending
      <4>3. CASE f.unfilled # 0
        BY <2>1, <4>1, <4>3 DEF Claim, Pending
      <4>4. QED BY <4>2, <4>3
    <3>4. QED BY <1>5, <1>7, <3>1, <3>2, <3>3
  <2>3. Claims(r, z) = Claims(q, z) - Claim(q[id], z) + Claim(r[id], z)
    BY <1>8, <2>1, ClaimsChange
  <2>4. Claims(r, z) = Claims(q, z) - n /\ n <= Claims(q, z)
    BY <1>5, <1>10, <2>1, <2>2, <2>3
  <2>5. Claims(q, z) <= e.pos[z]
    BY DEF SymbolOK, q
  <2>6. g.pos[z] = e.pos[z] - n /\ Claims(r, z) <= g.pos[z] /\ e.pos[z] > 0
    <3>1. g.pos[z] = Shares(e, f, n)
      BY <1>2, <1>15 DEF FillOf
    <3>2. QED BY <1>5, <1>9, <1>10, <1>15, <2>4, <2>5, <3>1 DEF Shares
  <2>7. MarksAfter(e, g, z, "SELL")
    BY <1>2, <1>15 DEF FillOf
  <2>8. g.pos[z] = 0 => g.exit[z] = NoExit /\ g.gate[z] = NoGate /\ g.cycle[z] = NoRoute
    BY <2>6, <2>7 DEF MarksAfter
  <2>9. g.pos[z] > 0 => ~g.gate[z].selling
    BY <1>9, <2>7 DEF MarksAfter, Gate
  <2>10. ~g.gate[z].selling /\ (g.gate[z].canceling => g.pos[z] > 0)
    BY <1>9, <2>8, <2>9 DEF NoGate
  <2>11. ~PendingBuy(r, z)
    <3>1. Claims(q, z) # 0
      BY <1>5, <1>10, <1>15, <2>4
    <3>2. ~PendingBuy(q, z)
      BY <3>1 DEF SymbolOK, q
    <3>3. QED BY <2>1, <3>2 DEF PendingBuy
  <2>12. QED BY <2>6, <2>8, <2>10, <2>11 DEF SymbolOK, r
<1>16. QED BY <1>7, <1>12, <1>13, <1>14, <1>15
-----------------------------------------------------------------------------
(* Portfolio and account *)

\* A sequence with one more order.
Extends(q, r, o) ==
  /\ Len(q) \in Nat /\ DOMAIN q = 1..Len(q) /\ Len(r) = Len(q) + 1
  /\ DOMAIN r = DOMAIN q \cup {Len(r)} /\ r[Len(r)] = o
  /\ \A i \in DOMAIN q : r[i] = q[i]

\* Two records of an order that differ in nothing that Follows looks at.
SameOrder(o, p) == p.sym = o.sym /\ p.side = o.side /\ p.qty = o.qty /\ p.filled = o.filled

\* What a cancel of order id makes of the memory and of the account.
CancelsOrder(e, f, id) ==
  /\ f.pos = e.pos /\ DOMAIN f.orders = DOMAIN e.orders
  /\ \A i \in DOMAIN e.orders \ {id} : f.orders[i] = e.orders[i]
  /\ f.orders[id] = [e.orders[id] EXCEPT !.st = "CANCELED"]
  /\ DOMAIN f.bound = {j \in DOMAIN e.bound : e.bound[j] # id}
  /\ \A k \in DOMAIN f.bound : f.bound[k] = e.bound[k]
AsksOnly(x, y) ==
  /\ y.held = x.held /\ y.reports = x.reports /\ DOMAIN y.orders = DOMAIN x.orders
  /\ \A n \in DOMAIN x.orders : /\ SameOrder(x.orders[n], y.orders[n])
                                /\ y.orders[n].st = "done" <=> x.orders[n].st = "done"

\* The owner of an order depends on its number and the open orders of its symbol.
LEMMA OwnerSame ==
  ASSUME NEW e, NEW f, NEW n, NEW s, OpenIds(f, s) = OpenIds(e, s),
         n \in DOMAIN f.bound <=> n \in DOMAIN e.bound,
         n \in DOMAIN e.bound => f.bound[n] = e.bound[n]
  PROVE  Owner(f, n, s) = Owner(e, n, s)
<1> DEFINE r == [no |-> n, sym |-> s]
<1>1. r.no = n /\ r.sym = s
  OBVIOUS
<1> HIDE DEF r
<1>2. BindBrokerOrderId(f, r) = BindBrokerOrderId(e, r)
  BY <1>1 DEF BindBrokerOrderId, ExistsOpenOrder
<1>3. QED BY <1>2 DEF Owner, r

\* A match stays as long as neither the orders that move the symbol nor their owners
\* change.
LEMMA MatchKept ==
  ASSUME NEW e, NEW f, NEW x, NEW y, NEW s, Match(e, x, s),
         Movers(y, s) = Movers(x, s), f.pos[s] = e.pos[s], y.held[s] = x.held[s],
         \A n \in Movers(x, s) : Reported(y, n) <=> Reported(x, n),
         \A n \in Movers(x, s) :
           /\ Owner(f, n, s) = Owner(e, n, s) /\ SameOrder(x.orders[n], y.orders[n])
           /\ Owner(e, n, s) \in DOMAIN e.orders =>
                /\ Owner(e, n, s) \in DOMAIN f.orders
                /\ SameOrder(e.orders[Owner(e, n, s)], f.orders[Owner(e, n, s)])
  PROVE  Match(f, y, s)
<1>1. ASSUME NEW n \in Movers(x, s) PROVE Tracks(f, y, n, s)
  <2> DEFINE id == Owner(e, n, s)
             c  == e.orders[id]
             d  == f.orders[id]
             o  == x.orders[n]
             p  == y.orders[n]
  <2>1. id \in DOMAIN e.orders /\ Follows(c, o, e.pos[s], x.held[s], Reported(x, n))
    BY DEF Match, Tracks
  <2>2. id \in DOMAIN f.orders /\ Owner(f, n, s) = id /\ SameOrder(c, d) /\ SameOrder(o, p)
    BY <2>1
  <2>3. Reported(y, n) <=> Reported(x, n)
    OBVIOUS
  <2> HIDE DEF id, c, d, o, p
  <2>4. Follows(d, p, f.pos[s], y.held[s], Reported(y, n))
    BY <2>1, <2>2, <2>3 DEF Follows, SameOrder
  <2>5. QED BY <2>2, <2>4 DEF Tracks, d, p
<1>2. QED BY <1>1 DEF Match

\* So it does as long as the reports under way are the same.
LEMMA MatchSame ==
  ASSUME NEW e, NEW f, NEW x, NEW y, NEW s, Match(e, x, s),
         Movers(y, s) = Movers(x, s), f.pos[s] = e.pos[s], y.held[s] = x.held[s],
         y.reports = x.reports,
         \A n \in Movers(x, s) :
           /\ Owner(f, n, s) = Owner(e, n, s) /\ SameOrder(x.orders[n], y.orders[n])
           /\ Owner(e, n, s) \in DOMAIN e.orders =>
                /\ Owner(e, n, s) \in DOMAIN f.orders
                /\ SameOrder(e.orders[Owner(e, n, s)], f.orders[Owner(e, n, s)])
  PROVE  Match(f, y, s)
<1>1. \A n : Reported(y, n) <=> Reported(x, n)
  BY DEF Reported
<1>2. QED BY <1>1, MatchKept

\* The open orders of a symbol with one more order.
LEMMA OpenIdsExtended ==
  ASSUME NEW e, NEW f, NEW o, Extends(e.orders, f.orders, o), NEW s
  PROVE  /\ o.sym # s \/ ~Open(o) => OpenIds(f, s) = OpenIds(e, s)
         /\ o.sym = s /\ Open(o) => OpenIds(f, s) = OpenIds(e, s) \cup {Len(f.orders)}
<1> DEFINE q == e.orders
           r == f.orders
<1>1. /\ DOMAIN r = DOMAIN q \cup {Len(r)} /\ r[Len(r)] = o
      /\ \A i \in DOMAIN q : r[i] = q[i]
  BY DEF Extends
<1> HIDE DEF q, r
<1>2. OpenIds(f, s) = {i \in DOMAIN r : r[i].sym = s /\ Open(r[i])}
      /\ OpenIds(e, s) = {i \in DOMAIN q : q[i].sym = s /\ Open(q[i])}
  BY DEF OpenIds, q, r
<1>3. QED BY <1>1, <1>2 DEF r

\* The orders that move a symbol do not change with an order of another one, or with
\* one that is done at once.
LEMMA MoversExtended ==
  ASSUME NEW x, NEW y, ReportsOK(x), y.reports = x.reports,
         NEW u, Extends(x.orders, y.orders, u), NEW s
  PROVE  /\ ~Reported(x, Len(y.orders))
         /\ u.sym # s \/ u.st = "done" => Movers(y, s) = Movers(x, s)
         /\ u.sym = s /\ u.st # "done" => Movers(y, s) = Movers(x, s) \cup {Len(y.orders)}
<1> DEFINE q == x.orders
           r == y.orders
<1>1. /\ Len(q) \in Nat /\ DOMAIN q = 1..Len(q) /\ Len(r) = Len(q) + 1
      /\ DOMAIN r = DOMAIN q \cup {Len(r)} /\ r[Len(r)] = u
      /\ \A i \in DOMAIN q : r[i] = q[i]
  BY DEF Extends
<1>2. ~Reported(x, Len(r))
  <2>1. Len(r) \notin DOMAIN q
    BY <1>1
  <2> HIDE DEF r
  <2>2. QED BY <2>1 DEF Reported, ReportsOK
<1>3. \A n : Reported(y, n) <=> Reported(x, n)
  BY DEF Reported
<1>4. Movers(y, s) = {n \in DOMAIN r : r[n].sym = s /\ (r[n].st # "done" \/ Reported(x, n))}
      /\ Movers(x, s) = {n \in DOMAIN q : q[n].sym = s /\ (q[n].st # "done" \/ Reported(x, n))}
  BY <1>3 DEF Movers
<1> HIDE DEF q, r
<1>5. QED BY <1>1, <1>2, <1>4 DEF r

\* A symbol is matched as before when an order of another one is placed, or one that
\* is refused.
LEMMA MatchPlacedOther ==
  ASSUME NEW e, NEW f, NEW x, NEW y, NEW s, Match(e, x, s),
         NEW o, Extends(e.orders, f.orders, o), f.bound = e.bound, f.pos = e.pos,
         o.sym # s \/ ~Open(o),
         y.held = x.held, y.reports = x.reports, Movers(y, s) = Movers(x, s),
         \A n \in DOMAIN x.orders : y.orders[n] = x.orders[n]
  PROVE  Match(f, y, s)
<1>1. OpenIds(f, s) = OpenIds(e, s)
  BY OpenIdsExtended
<1>2. ASSUME NEW n \in Movers(x, s)
      PROVE  /\ Owner(f, n, s) = Owner(e, n, s) /\ SameOrder(x.orders[n], y.orders[n])
             /\ Owner(e, n, s) \in DOMAIN e.orders =>
                  /\ Owner(e, n, s) \in DOMAIN f.orders
                  /\ SameOrder(e.orders[Owner(e, n, s)], f.orders[Owner(e, n, s)])
  <2>1. Owner(f, n, s) = Owner(e, n, s)
    BY <1>1, OwnerSame
  <2>2. y.orders[n] = x.orders[n]
    BY DEF Movers
  <2>3. \A i \in DOMAIN e.orders : i \in DOMAIN f.orders /\ f.orders[i] = e.orders[i]
    BY DEF Extends
  <2>4. QED BY <2>1, <2>2, <2>3 DEF SameOrder
<1>3. QED BY <1>2, MatchSame

\* A symbol nothing else moves follows the order that was sent for it.
LEMMA MatchSent ==
  ASSUME NEW e \in Memory, NEW f, NEW x, NEW y, NEW s, BoundOK(e, x), ReportsOK(x),
         Match(e, x, s), Movers(x, s) = {}, e.pos[s] \in Nat,
         NEW o, Extends(e.orders, f.orders, o), f.bound = e.bound, f.pos = e.pos, Open(o),
         y.held = x.held, y.reports = x.reports,
         NEW u, Extends(x.orders, y.orders, u),
         o.sym = s, SameOrder(o, u), o.filled = 0
  PROVE  Match(f, y, s)
<1> DEFINE N == Len(y.orders)
           L == Len(f.orders)
<1>1. f.pos[s] = y.held[s]
  BY DEF Match
<1>2. ~Reported(x, N) /\ Movers(y, s) = IF u.st = "done" THEN {} ELSE {N}
  BY MoversExtended DEF SameOrder
<1>3. CASE u.st = "done"
  BY <1>1, <1>2, <1>3 DEF Match
<1>4. CASE u.st # "done"
  <2>1. N \notin DOMAIN f.bound
    <3>1. N \in Nat /\ N \notin DOMAIN x.orders
      BY DEF Extends
    <3> HIDE DEF N
    <3>2. \A k \in DOMAIN e.bound : k >= 0 => k \in DOMAIN x.orders
      BY DEF BoundOK
    <3>3. QED BY <3>1, <3>2
  <2>2. L \in Nat /\ L \in DOMAIN f.orders /\ DOMAIN f.orders = 1..L /\ f.orders[L] = o
    BY DEF Extends
  <2>3. OpenIds(f, s) = OpenIds(e, s) \cup {L}
    BY OpenIdsExtended
  <2>4. OpenIds(f, s) \in SUBSET (1..L)
    BY <2>2 DEF OpenIds
  <2> HIDE DEF N, L
  <2> DEFINE S == OpenIds(f, s)
  <2>5. L \in S /\ S # {}
    BY <2>3
  <2> HIDE DEF S
  <2>6. Max(S) \in S /\ Max(S) >= L
    <3>1. S \in SUBSET (1..L)
      BY <2>4 DEF S
    <3>2. QED BY <2>2, <2>5, <3>1, MaxOfIndices
  <2>7. Max(S) = L
    <3>1. Max(S) \in 1..L
      BY <2>4, <2>6 DEF S
    <3>2. QED BY <2>2, <2>6, <3>1
  <2>8. Owner(f, N, s) = L
    <3> DEFINE r == [no |-> N, sym |-> s]
    <3>1. r.no = N /\ r.sym = s
      OBVIOUS
    <3> HIDE DEF r
    <3>2. BindBrokerOrderId(f, r) = L
      BY <2>1, <2>5, <2>7, <3>1 DEF BindBrokerOrderId, ExistsOpenOrder, S
    <3>3. QED BY <3>2 DEF Owner, r
  <2>9. y.orders[N] = u
    BY DEF Extends, N
  <2>10. Follows(o, u, f.pos[s], y.held[s], Reported(y, N))
    <3>1. f.pos[s] \in Nat /\ o.filled = 0 /\ u.filled = 0
      BY DEF SameOrder
    <3>2. QED BY <1>1, <3>1 DEF Follows, SameOrder
  <2>11. Tracks(f, y, N, s)
    BY <2>2, <2>8, <2>9, <2>10 DEF Tracks
  <2>12. Movers(y, s) = {N}
    BY <1>2, <1>4 DEF N
  <2>13. QED BY <2>11, <2>12 DEF Match
<1>5. QED BY <1>3, <1>4

\* What blurs a symbol stays.
LEMMA BlurredGrows ==
  ASSUME NEW b, NEW x, NEW y, y.reports = x.reports,
         DOMAIN x.orders \in SUBSET Nat,
         \A n \in DOMAIN x.orders : \A m \in 1..n : m \in DOMAIN x.orders,
         \A n \in DOMAIN x.orders : /\ n \in DOMAIN y.orders
                                    /\ y.orders[n].sym = x.orders[n].sym
                                    /\ x.orders[n].st # "done" => y.orders[n].st # "done"
  PROVE  Blurred(b, x) \subseteq Blurred(b, y)
<1>1. ASSUME NEW n \in DOMAIN x.orders, Ambiguous(x, n) PROVE Ambiguous(y, n)
  <2>1. y.orders[n].sym = x.orders[n].sym
    OBVIOUS
  <2>2. ASSUME NEW m \in 1..(n - 1)
        PROVE  m \in DOMAIN x.orders /\ y.orders[m].sym = x.orders[m].sym
               /\ (x.orders[m].st # "done" => y.orders[m].st # "done")
    <3>1. n \in Nat
      OBVIOUS
    <3>2. m \in 1..n
      BY <3>1
    <3>3. m \in DOMAIN x.orders
      BY <3>2
    <3>4. QED BY <3>3
  <2>3. QED BY <1>1, <2>1, <2>2 DEF Ambiguous
<1>2. ASSUME NEW n \in DOMAIN x.orders, n > Len(b.orders), Ambiguous(x, n)
      PROVE  x.orders[n].sym \in Blurred(b, y)
  <2>1. n \in DOMAIN y.orders /\ y.orders[n].sym = x.orders[n].sym /\ Ambiguous(y, n)
    BY <1>1, <1>2
  <2>2. QED BY <1>2, <2>1 DEF Blurred
<1>3. QED BY <1>2 DEF Blurred

\* What was withdrawn stays withdrawn.
LEMMA WithdrawnGrows ==
  ASSUME NEW b, NEW e, NEW f,
         \A i \in DOMAIN b.orders :
           /\ e.orders[i].st \in {b.orders[i].st, "CANCELED"}
           /\ f.orders[i].sym = e.orders[i].sym
           /\ f.orders[i].st \in {e.orders[i].st, "CANCELED"}
  PROVE  Withdrawn(b, e) \subseteq Withdrawn(b, f)
<1>1. ASSUME NEW i \in DOMAIN b.orders, b.orders[i].st # e.orders[i].st
      PROVE  e.orders[i].sym \in Withdrawn(b, f)
  <2>1. b.orders[i].st # f.orders[i].st /\ f.orders[i].sym = e.orders[i].sym
    BY <1>1
  <2>2. QED BY <2>1 DEF Withdrawn
<1>2. QED BY <1>1 DEF Withdrawn

\* A change of the memory that leaves orders and positions alone.
LEMMA MatchMemory ==
  ASSUME NEW e, NEW x, NEW f, f.orders = e.orders, f.bound = e.bound, f.pos = e.pos,
         NEW s, Match(e, x, s)
  PROVE  Match(f, x, s)
<1>1. OpenIds(f, s) = OpenIds(e, s)
  BY DEF OpenIds
<1>2. \A n \in Movers(x, s) : Owner(f, n, s) = Owner(e, n, s)
  BY <1>1, OwnerSame
<1>3. QED BY <1>2, MatchSame DEF SameOrder

\* So is what a handler has made of its world.
LEMMA FaithfulMemory ==
  ASSUME NEW e, NEW x, Faithful(e, x),
         NEW f, f.orders = e.orders, f.bound = e.bound, f.pos = e.pos
  PROVE  Faithful(f, x)
<1>1. ASSUME NEW s, Match(e, x, s) PROVE Match(f, x, s)
  BY <1>1, MatchMemory
<1>2. Withdrawn(engine, f) = Withdrawn(engine, e)
  BY DEF Withdrawn
<1>3. QED BY <1>1, <1>2 DEF Faithful

\* What Faithful says of a world that goes on from one that is faithful.
LEMMA FaithfulStep ==
  ASSUME NEW e \in Memory, NEW x \in Account, Faithful(e, x), NEW f, NEW y, mode = "live",
         y.reports = x.reports, Len(e.orders) <= Len(f.orders), Len(x.orders) <= Len(y.orders),
         Len(f.orders) \in Nat, Len(y.orders) \in Nat,
         \A i \in DOMAIN e.orders : f.orders[i].sym = e.orders[i].sym
                                    /\ f.orders[i].st \in {e.orders[i].st, "CANCELED"},
         \A n \in DOMAIN x.orders : /\ n \in DOMAIN y.orders
                                    /\ SameOrder(x.orders[n], y.orders[n])
                                    /\ x.orders[n].st # "done" => y.orders[n].st # "done",
         \A s \in Symbol : s \notin Blurred(exchange, y) /\ s \notin Withdrawn(engine, f)
                           /\ Match(e, x, s) => Match(f, y, s)
  PROVE  Faithful(f, y)
<1>1. /\ DOMAIN e.orders = 1..Len(e.orders) /\ Len(e.orders) \in Nat
      /\ DOMAIN x.orders = 1..Len(x.orders) /\ Len(x.orders) \in Nat
  BY MemoryFacts DEF Account
<1>2. /\ Started /\ x.reports = exchange.reports
      /\ Len(engine.orders) <= Len(e.orders) /\ Len(exchange.orders) <= Len(x.orders)
      /\ \A i \in DOMAIN engine.orders :
           /\ e.orders[i].sym = engine.orders[i].sym
           /\ e.orders[i].st \in {engine.orders[i].st, "CANCELED"}
      /\ \A n \in DOMAIN exchange.orders :
           /\ x.orders[n].qty = exchange.orders[n].qty
           /\ x.orders[n].filled = exchange.orders[n].filled
      /\ Matched => \A s \in clean \ (Blurred(exchange, x) \cup Withdrawn(engine, e)) :
                      Match(e, x, s)
  BY DEF Faithful
<1>3. /\ \A i \in DOMAIN engine.orders : i \in DOMAIN e.orders
      /\ \A n \in DOMAIN exchange.orders : n \in DOMAIN x.orders
  BY <1>1, <1>2 DEF Started
<1>4. Blurred(exchange, x) \subseteq Blurred(exchange, y)
  <2>1. DOMAIN x.orders \in SUBSET Nat
        /\ \A n \in DOMAIN x.orders : \A m \in 1..n : m \in DOMAIN x.orders
    BY <1>1
  <2>2. QED BY <2>1, BlurredGrows DEF SameOrder
<1>5. Withdrawn(engine, e) \subseteq Withdrawn(engine, f)
  BY <1>2, <1>3, WithdrawnGrows
<1>6. y.reports = exchange.reports /\ Len(engine.orders) <= Len(f.orders)
      /\ Len(exchange.orders) <= Len(y.orders)
  BY <1>1, <1>2 DEF Started
<1>7. \A i \in DOMAIN engine.orders : /\ f.orders[i].sym = engine.orders[i].sym
                                      /\ f.orders[i].st \in {engine.orders[i].st, "CANCELED"}
  BY <1>2, <1>3
<1>8. \A n \in DOMAIN exchange.orders :
        y.orders[n].qty = exchange.orders[n].qty /\ y.orders[n].filled = exchange.orders[n].filled
  BY <1>2, <1>3 DEF SameOrder
<1>9. Matched => \A s \in clean \ (Blurred(exchange, y) \cup Withdrawn(engine, f)) : Match(f, y, s)
  BY <1>2, <1>4, <1>5 DEF Started
<1>10. QED BY <1>2, <1>6, <1>7, <1>8, <1>9 DEF Faithful

\* A sequence with one more element extends it.
LEMMA AppendExtends ==
  ASSUME NEW S, NEW q \in Seq(S), NEW o \in S PROVE Extends(q, Append(q, o), o)
BY OneMore DEF Extends

\* What place_order makes of the orders of the engine and of the exchange.
LEMMA PlacedOrders ==
  ASSUME NEW v \in WorldType, NEW s \in Symbol, NEW side \in Sides, NEW qty \in Nat \ {0},
         NEW why \in Whys, NEW ok \in BOOLEAN, NEW route \in Strategy \cup {NoStrategy},
         OrdersAssumption, Context, mode = "live",
         NEW p, p = PlaceOrder(v, s, side, qty, why, ok, route)
  PROVE  \E o : /\ Extends(v.e.orders, p.e.orders, o)
                /\ o.sym = s /\ o.side = side /\ o.qty = qty /\ o.filled = 0
                /\ o.st \in {"SUBMITTED", "REJECTED"}
                /\ o.st = "REJECTED" => p.x = v.x
                /\ o.st = "SUBMITTED" => p.x = Receive(v.x, s, side, qty)
<1> DEFINE st == IF mode = "paper" \/ Sends(ok) THEN "SUBMITTED" ELSE "REJECTED"
           o == [sym |-> s, side |-> side, qty |-> qty, filled |-> 0, st |-> st,
                 why |-> why, day |-> clock.day, route |-> route, restored |-> 0]
<1>1. o \in Order
  <2>1. clock.day \in 1..MaxDays /\ 0 \in 0..MaxSent
    BY DEF Context, OrdersAssumption
  <2>2. st \in {"SUBMITTED", "REJECTED"}
    OBVIOUS
  <2> HIDE DEF st
  <2>3. QED BY <2>1, <2>2 DEF Order, Whys, Sides
<1>2. v.e \in Memory /\ v.e.orders \in Seq(Order)
  BY DEF WorldType, Memory
<1>3. p = [e |-> [v.e EXCEPT !.orders = Append(v.e.orders, o)],
           x |-> IF mode = "live" /\ st = "SUBMITTED" THEN Receive(v.x, s, side, qty) ELSE v.x]
  BY DEF PlaceOrder
<1>4. o.sym = s /\ o.side = side /\ o.qty = qty /\ o.filled = 0 /\ o.st = st
      /\ st \in {"SUBMITTED", "REJECTED"}
  OBVIOUS
<1> HIDE DEF o, st
<1>5. p.e = [v.e EXCEPT !.orders = Append(v.e.orders, o)]
      /\ p.x = IF mode = "live" /\ st = "SUBMITTED" THEN Receive(v.x, s, side, qty) ELSE v.x
  BY ONLY <1>3
<1>6. p.e.orders = Append(v.e.orders, o)
  BY <1>2, <1>5 DEF Memory
<1>7. Extends(v.e.orders, p.e.orders, o)
  BY <1>1, <1>2, <1>6, AppendExtends
<1>8. QED BY <1>4, <1>5, <1>7

\* What the exchange makes of an order it receives.
LEMMA ReceivedOrder ==
  ASSUME NEW x \in Account, NEW s \in Symbol, NEW side \in Sides, NEW qty \in Nat \ {0},
         NEW y, y = Receive(x, s, side, qty)
  PROVE  /\ y.held = x.held /\ y.reports = x.reports
         /\ \E u : /\ Extends(x.orders, y.orders, u)
                   /\ u.sym = s /\ u.side = side /\ u.qty = qty /\ u.filled = 0
<1> DEFINE u == [sym |-> s, side |-> side, qty |-> qty, filled |-> 0,
                 st |-> IF side = "SELL" /\ qty > x.held[s] - Reserved(x, s)
                          THEN "done" ELSE "live"]
<1>1. u \in ExchangeOrder
  BY DEF ExchangeOrder
<1>2. x.orders \in Seq(ExchangeOrder)
  BY DEF Account
<1>3. y.orders = Append(x.orders, u) /\ y.held = x.held /\ y.reports = x.reports
  BY DEF Receive, Account
<1>4. u.sym = s /\ u.side = side /\ u.qty = qty /\ u.filled = 0
  OBVIOUS
<1> HIDE DEF u
<1>5. Extends(x.orders, y.orders, u)
  BY <1>1, <1>2, <1>3, AppendExtends
<1>6. QED BY <1>3, <1>4, <1>5

\* An order that is placed keeps what is clean matched, or blurs its symbol.
LEMMA FaithfulPlaced ==
  ASSUME OrdersAssumption, Context, NEW e, NEW x, WorldOK(e, x), Faithful(e, x),
         NEW v \in WorldType, v.x = x, v.e.orders = e.orders,
         NEW s \in Symbol, NEW side \in Sides, NEW qty \in Nat \ {0},
         NEW why \in Whys, NEW ok \in BOOLEAN, NEW route \in Strategy \cup {NoStrategy},
         NEW p, p = PlaceOrder(v, s, side, qty, why, ok, route),
         NEW f, f.orders = p.e.orders, f.bound = e.bound, f.pos = e.pos
  PROVE  Faithful(f, p.x)
<1> SUFFICES ASSUME mode = "live" PROVE Faithful(f, p.x)
  BY DEF Faithful
<1> DEFINE y == p.x
<1>1. /\ e \in Memory /\ x \in Account /\ BoundOK(e, x) /\ ReportsOK(x)
      /\ \A z \in Symbol : e.pos[z] \in Nat
  BY DEF WorldOK, MemoryOK, Memory
<1>2. PICK o : /\ Extends(e.orders, f.orders, o)
               /\ o.sym = s /\ o.side = side /\ o.qty = qty /\ o.filled = 0
               /\ o.st \in {"SUBMITTED", "REJECTED"}
               /\ o.st = "REJECTED" => y = x
               /\ o.st = "SUBMITTED" => y = Receive(x, s, side, qty)
  BY PlacedOrders
<1> HIDE DEF y
<1>3. /\ Len(f.orders) \in Nat /\ Len(e.orders) <= Len(f.orders)
      /\ \A i \in DOMAIN e.orders : f.orders[i].sym = e.orders[i].sym
                                    /\ f.orders[i].st \in {e.orders[i].st, "CANCELED"}
  <2>1. /\ Len(e.orders) \in Nat /\ Len(f.orders) = Len(e.orders) + 1
        /\ \A i \in DOMAIN e.orders : f.orders[i] = e.orders[i]
    BY <1>2 DEF Extends
  <2>2. QED BY ONLY <2>1
<1>4. DOMAIN x.orders = 1..Len(x.orders) /\ Len(x.orders) \in Nat
  BY <1>1 DEF Account
<1>5. CASE o.st = "REJECTED"
  <2>1. y = x /\ ~Open(o)
    BY <1>2, <1>5 DEF Open
  <2>2. ASSUME NEW z \in Symbol, Match(e, x, z) PROVE Match(f, y, z)
    BY <1>2, <2>1, <2>2, MatchPlacedOther
  <2>3. Len(y.orders) \in Nat /\ Len(x.orders) <= Len(y.orders)
    BY <1>4, <2>1
  <2>4. Faithful(f, y)
    BY <1>1, <1>3, <2>1, <2>2, <2>3, FaithfulStep DEF SameOrder
  <2>5. QED BY <2>4 DEF y
<1>6. CASE o.st = "SUBMITTED"
  <2>1. y.held = x.held /\ y.reports = x.reports /\ Open(o)
    BY <1>1, <1>2, <1>6, ReceivedOrder DEF Open
  <2>2. PICK u : /\ Extends(x.orders, y.orders, u)
                 /\ u.sym = s /\ u.side = side /\ u.qty = qty /\ u.filled = 0
    BY <1>1, <1>2, <1>6, ReceivedOrder
  <2>3. /\ Len(y.orders) = Len(x.orders) + 1 /\ Len(y.orders) \in DOMAIN y.orders
        /\ y.orders[Len(y.orders)] = u
        /\ \A n \in DOMAIN x.orders : n \in DOMAIN y.orders /\ y.orders[n] = x.orders[n]
    BY <2>2 DEF Extends
  <2>4. Len(y.orders) \in Nat /\ Len(x.orders) <= Len(y.orders)
    BY <1>4, <2>3
  <2>5. ASSUME NEW z \in Symbol, z # s, Match(e, x, z) PROVE Match(f, y, z)
    <3>1. Movers(y, z) = Movers(x, z)
      BY <1>1, <2>1, <2>2, <2>5, MoversExtended
    <3>2. QED BY <1>2, <2>1, <2>3, <2>5, <3>1, MatchPlacedOther
  <2>6. ASSUME s \notin Blurred(exchange, y), Match(e, x, s) PROVE Match(f, y, s)
    <3> DEFINE N == Len(y.orders)
    <3>1. N > Len(exchange.orders)
      <4>1. Len(exchange.orders) <= Len(x.orders) /\ Len(exchange.orders) \in Nat
        BY DEF Faithful, Started
      <4>2. QED BY <1>4, <2>3, <4>1
    <3>2. ~Ambiguous(y, N)
      <4>1. N \in DOMAIN y.orders /\ y.orders[N].sym = s
        BY <2>2, <2>3
      <4> HIDE DEF N
      <4>2. QED BY <2>6, <3>1, <4>1 DEF Blurred
    <3>3. ASSUME NEW n \in DOMAIN x.orders, x.orders[n].sym = s PROVE x.orders[n].st = "done"
      <4>1. n \in 1..(N - 1) /\ y.orders[n] = x.orders[n] /\ y.orders[N].sym = s
        BY <1>4, <2>2, <2>3
      <4> HIDE DEF N
      <4>2. QED BY <3>2, <3>3, <4>1 DEF Ambiguous
    <3>4. ASSUME NEW n \in DOMAIN x.orders, x.orders[n].sym = s PROVE ~Reported(x, n)
      <4>1. ASSUME NEW i \in DOMAIN x.reports, x.reports[i].no = n PROVE FALSE
        <5>1. x.reports[i].sym = s
          BY <1>1, <3>4, <4>1 DEF ReportsOK
        <5>2. y.reports[i].sym = y.orders[N].sym /\ i \in DOMAIN y.reports
          BY <2>1, <2>2, <2>3, <5>1
        <5> HIDE DEF N
        <5>3. QED BY <3>2, <5>2 DEF Ambiguous
      <4>2. QED BY <4>1 DEF Reported
    <3>5. Movers(x, s) = {}
      BY <3>3, <3>4 DEF Movers
    <3>6. SameOrder(o, u) /\ e.pos[s] \in Nat
      BY <1>1, <1>2, <2>2 DEF SameOrder
    <3>7. QED BY <1>1, <1>2, <2>1, <2>2, <2>6, <3>5, <3>6, MatchSent
  <2>7. Faithful(f, y)
    <3>1. \A z \in Symbol : z \notin Blurred(exchange, y) /\ z \notin Withdrawn(engine, f)
                            /\ Match(e, x, z) => Match(f, y, z)
      BY <2>5, <2>6
    <3>2. \A n \in DOMAIN x.orders : /\ n \in DOMAIN y.orders
                                     /\ SameOrder(x.orders[n], y.orders[n])
                                     /\ x.orders[n].st # "done" => y.orders[n].st # "done"
      BY <2>3 DEF SameOrder
    <3>3. e \in Memory /\ x \in Account /\ y.reports = x.reports
      BY <1>1, <2>1
    <3>4. QED BY ONLY <1>3, <2>4, <3>1, <3>2, <3>3, Faithful(e, x), mode = "live", FaithfulStep
  <2>8. QED BY <2>7 DEF y
<1>7. QED BY <1>2, <1>5, <1>6

\* What the exchange makes of a cancel.
LEMMA CanceledOrders ==
  ASSUME NEW x \in Account, NEW e, NEW id, NEW y, y = CancelOrder(x, e, id)
  PROVE  AsksOnly(x, y)
<1> DEFINE q == x.orders
           Asked(n) == n \in DOMAIN e.bound /\ e.bound[n] = id /\ q[n].st = "live"
           r == [n \in DOMAIN q |-> IF Asked(n) THEN [q[n] EXCEPT !.st = "canceling"] ELSE q[n]]
<1>1. q \in Seq(ExchangeOrder)
  BY DEF Account
<1>2. y = [x EXCEPT !.orders = r]
  BY DEF CancelOrder, Account
<1>3. ASSUME NEW n \in DOMAIN q
      PROVE  SameOrder(q[n], r[n]) /\ (r[n].st = "done" <=> q[n].st = "done")
  <2>1. q[n] \in ExchangeOrder
    BY <1>1
  <2>2. CASE Asked(n)
    BY <2>1, <2>2 DEF ExchangeOrder, SameOrder
  <2>3. CASE ~Asked(n)
    BY <2>1, <2>3 DEF SameOrder
  <2>4. QED BY <2>2, <2>3
<1>4. DOMAIN r = DOMAIN q
  OBVIOUS
<1> HIDE DEF r
<1>5. y.orders = r /\ y.held = x.held /\ y.reports = x.reports
  BY <1>2 DEF Account
<1>6. QED BY <1>3, <1>4, <1>5 DEF AsksOnly

\* A symbol is matched as before when an order of another one is cancelled.
LEMMA MatchCancelledOther ==
  ASSUME NEW e \in Memory, NEW x \in Account, BoundOK(e, x), NEW s, NEW id,
         id \in DOMAIN e.orders, e.orders[id].sym # s, NEW f, NEW y, Match(e, x, s),
         CancelsOrder(e, f, id), AsksOnly(x, y)
  PROVE  Match(f, y, s)
<1>1. \A i \in DOMAIN e.orders : i \in DOMAIN f.orders /\ SameOrder(e.orders[i], f.orders[i])
  <2>1. e.orders[id] \in Order
    BY MemoryFacts
  <2>2. SameOrder(e.orders[id], f.orders[id])
    BY <2>1 DEF Order, SameOrder, CancelsOrder
  <2>3. QED BY <2>2 DEF SameOrder, CancelsOrder
<1>2. OpenIds(f, s) = OpenIds(e, s)
  <2>1. f.orders[id].sym # s
    BY <1>1 DEF SameOrder
  <2>2. QED BY <2>1 DEF OpenIds, CancelsOrder
<1>3. Movers(y, s) = Movers(x, s)
  <2>1. \A n : Reported(y, n) <=> Reported(x, n)
    BY DEF Reported, AsksOnly
  <2>2. QED BY <2>1 DEF Movers, SameOrder, AsksOnly
<1>4. ASSUME NEW n \in Movers(x, s)
      PROVE  /\ Owner(f, n, s) = Owner(e, n, s) /\ SameOrder(x.orders[n], y.orders[n])
             /\ Owner(e, n, s) \in DOMAIN e.orders =>
                  /\ Owner(e, n, s) \in DOMAIN f.orders
                  /\ SameOrder(e.orders[Owner(e, n, s)], f.orders[Owner(e, n, s)])
  <2>1. n \in DOMAIN x.orders /\ x.orders[n].sym = s /\ n >= 0
    <3>1. n \in DOMAIN x.orders /\ x.orders[n].sym = s
      BY DEF Movers
    <3>2. x.orders \in Seq(ExchangeOrder)
      BY DEF Account
    <3>3. QED BY <3>1, <3>2
  <2>2. n \in DOMAIN e.bound => e.bound[n] # id
    BY <2>1 DEF BoundOK
  <2>3. Owner(f, n, s) = Owner(e, n, s)
    BY <1>2, <2>2, OwnerSame DEF CancelsOrder
  <2>4. QED BY <1>1, <2>1, <2>3 DEF AsksOnly
<1>5. f.pos[s] = e.pos[s] /\ y.held[s] = x.held[s] /\ y.reports = x.reports
  BY DEF CancelsOrder, AsksOnly
<1>6. QED BY <1>3, <1>4, <1>5, MatchSame

\* A cancel keeps what is clean matched, for it withdraws its own symbol.
LEMMA FaithfulCancelled ==
  ASSUME NEW e, NEW x, WorldOK(e, x), Faithful(e, x), NEW s, NEW id,
         id \in DOMAIN e.orders, id <= Len(engine.orders), e.orders[id].sym = s,
         Open(e.orders[id]), NEW f, CancelsOrder(e, f, id), Len(f.orders) = Len(e.orders), NEW y, y = IF mode = "live" THEN CancelOrder(x, e, id) ELSE x,
         y \in Account
  PROVE  Faithful(f, y)
<1> SUFFICES ASSUME mode = "live" PROVE Faithful(f, y)
  BY DEF Faithful
<1>1. e \in Memory /\ x \in Account /\ BoundOK(e, x)
  BY DEF WorldOK, MemoryOK
<1>2. AsksOnly(x, y)
  BY <1>1, CanceledOrders
<1>3. /\ DOMAIN e.orders = 1..Len(e.orders) /\ Len(e.orders) \in Nat /\ e.orders[id] \in Order
  BY <1>1, MemoryFacts
<1>4. f.orders[id].sym = s /\ f.orders[id].st = "CANCELED" /\ e.orders[id].st # "CANCELED"
  BY <1>3 DEF Order, Open, CancelsOrder
<1>5. /\ Len(f.orders) \in Nat /\ Len(e.orders) <= Len(f.orders)
      /\ \A i \in DOMAIN e.orders : f.orders[i].sym = e.orders[i].sym
                                    /\ f.orders[i].st \in {e.orders[i].st, "CANCELED"}
  <2>1. \A i \in DOMAIN e.orders : i # id => f.orders[i] = e.orders[i]
    BY DEF CancelsOrder
  <2>2. QED BY ONLY <1>3, <1>4, <2>1, e.orders[id].sym = s, Len(f.orders) = Len(e.orders)
<1>6. Len(y.orders) \in Nat /\ Len(x.orders) <= Len(y.orders)
  <2>1. /\ DOMAIN x.orders = 1..Len(x.orders) /\ DOMAIN y.orders = 1..Len(y.orders)
        /\ Len(x.orders) \in Nat /\ Len(y.orders) \in Nat
    BY <1>1 DEF Account
  <2>2. QED BY <1>2, <2>1 DEF AsksOnly
<1>7. s \in Withdrawn(engine, f)
  <2>1. id \in DOMAIN engine.orders
    BY <1>3 DEF Faithful, Started
  <2>2. e.orders[id].st \in {engine.orders[id].st, "CANCELED"}
    BY <2>1 DEF Faithful
  <2>3. QED BY <1>4, <2>1, <2>2 DEF Withdrawn
<1>8. ASSUME NEW z \in Symbol, z \notin Withdrawn(engine, f), Match(e, x, z)
      PROVE  Match(f, y, z)
  <2>1. e.orders[id].sym # z
    BY <1>7, <1>8
  <2>2. QED BY <1>1, <1>2, <1>8, <2>1, MatchCancelledOther
<1>9. \A n \in DOMAIN x.orders : /\ n \in DOMAIN y.orders
                                 /\ SameOrder(x.orders[n], y.orders[n])
                                 /\ x.orders[n].st # "done" => y.orders[n].st # "done"
  BY <1>2 DEF AsksOnly
<1>10. y.reports = x.reports
  BY <1>2 DEF AsksOnly
<1>11. QED BY <1>1, <1>5, <1>6, <1>8, <1>9, <1>10, FaithfulStep
-----------------------------------------------------------------------------
(* Steps that touch no order *)

\* A world a handler may start from.
Sound(w) == w \in WorldType /\ WorldOK(w.e, w.x) /\ Faithful(w.e, w.x)

\* The parts of the memory the orders and positions are made of.
Kept(e, f) ==
  /\ f.orders = e.orders /\ f.bound = e.bound /\ f.pos = e.pos /\ f.gate = e.gate
  /\ f.exit = e.exit /\ f.cycle = e.cycle

\* Of a symbol nothing changed but that marks were taken away, and the exits of a
\* position.
Calmed(e, f, z) ==
  /\ f.pos[z] = e.pos[z] /\ f.cycle[z] = e.cycle[z]
  /\ f.gate[z].canceling => e.gate[z].canceling
  /\ f.gate[z].selling => e.gate[z].selling
  /\ e.pos[z] = 0 => f.gate[z] = e.gate[z] /\ f.exit[z] = e.exit[z]

\* A world in which the marks of a symbol were taken back stays right.
LEMMA CalmedWorld ==
  ASSUME NEW e, NEW x, WorldOK(e, x), NEW f \in Memory,
         f.orders = e.orders, f.bound = e.bound, GateOK(f),
         run.blind \/ \A z \in Symbol : Calmed(e, f, z),
         mode = "live" /\ ~Overnight =>
           /\ f.today = e.today
           /\ \A z \in Symbol : e.stopped[z] = clock.day => f.stopped[z] = clock.day
  PROVE  WorldOK(f, x)
<1>1. MemoryOK(e, x)
  BY DEF WorldOK
<1>2. MemoryOK(f, x)
  BY <1>1 DEF MemoryOK, BoundOK
<1>3. ASSUME NEW z \in Symbol, SymbolOK(e, z), Calmed(e, f, z) PROVE SymbolOK(f, z)
  <2>1. e.pos[z] \in Nat
    BY <1>1 DEF MemoryOK, Memory
  <2>2. QED BY <1>3, <2>1 DEF SymbolOK, Calmed
<1>4. ASSUME mode = "live", ~Overnight PROVE f.today = clock.day /\ StopsOK(f)
  <2>1. e.today = clock.day /\ StopsOK(e)
    BY <1>4 DEF WorldOK
  <2>2. \A i \in DOMAIN e.orders : e.orders[i].sym \in Symbol
    <3>1. \A i \in DOMAIN e.orders : e.orders[i] \in Order
      BY <1>1, MemoryFacts DEF MemoryOK
    <3>2. QED BY <3>1 DEF Order
  <2>3. QED BY <1>4, <2>1, <2>2 DEF StopsOK
<1>5. QED BY <1>2, <1>3, <1>4 DEF WorldOK

\* A world of which only counters change stays right.
LEMMA KeptWorld ==
  ASSUME NEW e, NEW x, WorldOK(e, x), NEW f \in Memory, Kept(e, f),
         mode = "live" /\ ~Overnight =>
           /\ f.today = e.today
           /\ \A z \in Symbol : e.stopped[z] = clock.day => f.stopped[z] = clock.day
  PROVE  WorldOK(f, x)
<1>1. GateOK(f)
  BY DEF WorldOK, MemoryOK, GateOK, Kept
<1>2. \A z \in Symbol : Calmed(e, f, z)
  BY DEF Kept, Calmed
<1>3. f.orders = e.orders /\ f.bound = e.bound
  BY DEF Kept
<1>4. QED BY <1>1, <1>2, <1>3, CalmedWorld

\* _check_engine_protection and the except branches.
LEMMA EngineProtected ==
  ASSUME OrdersAssumption, NEW e \in Memory, NEW t
  PROVE  LET f == CheckEngineProtection(e, t)
         IN  f \in Memory /\ Kept(e, f) /\ f.today = e.today /\ f.stopped = e.stopped
             /\ f.count = e.count /\ f.losses = e.losses
<1> DEFINE h == e.halted \cup {u \in Strategy : u = t /\ e.losses[u] >= LossLimit}
           p == e.protected \/ e.errors >= ErrorLimit \/ DailyLossReached(e)
           l == e.lossOut \/ DailyLossReached(e)
<1>1. h \in SUBSET Strategy /\ p \in BOOLEAN /\ l \in BOOLEAN
  BY DEF Memory
<1>2. CheckEngineProtection(e, t) = [e EXCEPT !.halted = h, !.protected = p, !.lossOut = l]
  BY DEF CheckEngineProtection
<1> HIDE DEF h, p, l
<1>3. QED BY <1>1, <1>2, ZenonT(60) DEF Memory, Kept

\* An error changes counters only.
LEMMA ErrorCounted ==
  ASSUME OrdersAssumption, NEW e \in Memory
  PROVE  LET f == CountError(e)
         IN  f \in Memory /\ Kept(e, f) /\ f.today = e.today /\ f.stopped = e.stopped
<1> DEFINE n == Min({e.errors + 1, ErrorLimit})
           g == [e EXCEPT !.errors = n]
<1>1. e.errors \in 0..ErrorLimit /\ ErrorLimit \in Nat
  BY DEF Memory, OrdersAssumption, Limit
<1>2. n \in 0..ErrorLimit
  BY <1>1, MinOfTwo
<1>3. CountError(e) = CheckEngineProtection(g, NoStrategy)
  BY DEF CountError, Memory
<1> HIDE DEF n
<1>4. g \in Memory /\ Kept(e, g) /\ g.today = e.today /\ g.stopped = e.stopped
  BY <1>2 DEF Memory, Kept
<1> HIDE DEF g
<1>5. QED BY <1>3, <1>4, EngineProtected DEF Kept

\* What follows an automatic sell that is under way. Nothing but a stop blocks its
\* symbol.
LEMMA SubmitCounted ==
  ASSUME OrdersAssumption, Context, NEW e \in Memory, NEW s \in Symbol, NEW why
  PROVE  LET f == AfterSubmit(e, s, why)
         IN  /\ f \in Memory /\ Kept(e, f) /\ f.today = e.today
             /\ \A z \in Symbol : e.stopped[z] = clock.day => f.stopped[z] = clock.day
             /\ IsStop(why) => f.stopped[s] = clock.day
<1> DEFINE t == StrategyOf(e, s)
           l == [u \in Strategy |->
                   IF u # t THEN e.losses[u]
                   ELSE IF IsStop(why) THEN Min({e.losses[u] + 1, LossLimit}) ELSE 0]
           g == UpdateLossCount(e, t, why)
           h == CheckEngineProtection(g, t)
           f == SetReentryBlock(h, s, why)
<1>1. AfterSubmit(e, s, why) = f
  BY DEF AfterSubmit
<1>2. l \in [Strategy -> 0..LossLimit]
  <2>1. ASSUME NEW u \in Strategy PROVE l[u] \in 0..LossLimit
    <3>1. e.losses[u] \in 0..LossLimit /\ LossLimit \in Nat
      BY DEF Memory, OrdersAssumption, Limit
    <3>2. Min({e.losses[u] + 1, LossLimit}) \in 0..LossLimit
      <4> DEFINE m == e.losses[u] + 1
      <4>1. m \in Nat
        BY <3>1
      <4> HIDE DEF m
      <4>2. Min({m, LossLimit}) = IF m <= LossLimit THEN m ELSE LossLimit
        BY <3>1, <4>1, MinOfTwo
      <4>3. QED BY <3>1, <4>1, <4>2 DEF m
    <3>3. QED BY <3>1, <3>2
  <2>2. QED BY <2>1
<1>3. g = [e EXCEPT !.losses = l]
  BY DEF UpdateLossCount, Memory
<1> HIDE DEF l, t, g
<1>4. g \in Memory /\ Kept(e, g) /\ g.today = e.today /\ g.stopped = e.stopped
  BY <1>2, <1>3 DEF Memory, Kept
<1>5. h \in Memory /\ Kept(g, h) /\ h.today = g.today /\ h.stopped = g.stopped
  BY <1>4, EngineProtected
<1> HIDE DEF h
<1>6. clock.day \in Nat
  BY DEF Context
<1>7. f = [h EXCEPT !.stopped = IF IsStop(why) THEN [h.stopped EXCEPT ![s] = clock.day]
                                ELSE h.stopped]
  BY <1>5 DEF SetReentryBlock, Memory
<1> HIDE DEF f
<1>8. h.stopped \in [Symbol -> Nat]
  BY <1>5 DEF Memory
<1>9. f \in Memory /\ Kept(h, f) /\ f.today = h.today
  BY <1>5, <1>6, <1>7, <1>8 DEF Memory, Kept
<1>10. /\ \A z \in Symbol : h.stopped[z] = clock.day => f.stopped[z] = clock.day
       /\ IsStop(why) => f.stopped[s] = clock.day
  <2>1. f.stopped = IF IsStop(why) THEN [h.stopped EXCEPT ![s] = clock.day] ELSE h.stopped
    BY <1>5, <1>7 DEF Memory
  <2>2. QED BY <1>8, <2>1
<1>11. QED BY <1>1, <1>4, <1>5, <1>9, <1>10 DEF Kept

\* The day reset: a process of one day has nothing to reset.
LEMMA DayReset ==
  ASSUME OrdersAssumption, Context, NEW e, NEW x, WorldOK(e, x)
  PROVE  LET f == ResetDaily(e)
         IN  f \in Memory /\ Kept(e, f) /\ WorldOK(f, x)
             /\ (mode = "live" /\ ~Overnight => f = e)
<1> DEFINE f == ResetDaily(e)
           a == [t \in Strategy |-> 0]
           b == [s \in Symbol |-> 0]
           p == e.protected /\ ~(e.lossOut /\ e.errors < ErrorLimit)
           g == [e EXCEPT !.today = clock.day, !.count = a, !.losses = a, !.halted = {},
                          !.stopped = b, !.realized = 0, !.lossOut = FALSE, !.protected = p]
<1>1. e \in Memory
  BY DEF WorldOK, MemoryOK
<1>2. clock.day \in Nat /\ LossLimit \in Nat /\ OrderLimit \in Nat
  BY DEF Context, OrdersAssumption, Limit
<1>3. /\ a \in [Strategy -> 0..OrderLimit] /\ a \in [Strategy -> 0..LossLimit]
      /\ b \in [Symbol -> Nat] /\ p \in BOOLEAN
  BY <1>2
<1>4. f = IF e.today = clock.day THEN e ELSE g
  BY DEF ResetDaily
<1> HIDE DEF f, a, b, p
<1>5. g \in Memory /\ Kept(e, g)
  <2>1. {} \in SUBSET Strategy /\ FALSE \in BOOLEAN /\ 0 \in Int
    OBVIOUS
  <2>2. g \in Memory
    BY <1>1, <1>2, <1>3, <2>1 DEF Memory
  <2>3. Kept(e, g)
    BY <1>1 DEF Memory, Kept
  <2>4. QED BY <2>2, <2>3
<1> HIDE DEF g
<1>6. mode = "live" /\ ~Overnight => f = e
  BY <1>4 DEF WorldOK
<1>7. f \in Memory /\ Kept(e, f)
  BY <1>1, <1>4, <1>5 DEF Kept
<1>8. WorldOK(f, x)
  BY <1>6, <1>7, KeptWorld
<1>9. QED BY <1>6, <1>7, <1>8 DEF f
-----------------------------------------------------------------------------
(* Sells *)

\* The world with a sell of s marked as in progress.
SellMarked(w, s) == [w EXCEPT !.e.gate[s].selling = TRUE]

\* The mark of a sell changes nothing but the mark.
LEMMA MarkedWorld ==
  ASSUME NEW w \in WorldType, NEW s \in Symbol
  PROVE  LET v == SellMarked(w, s)
         IN  /\ v \in WorldType /\ v.e \in Memory /\ v.x = w.x
             /\ v.e.orders = w.e.orders /\ v.e.bound = w.e.bound /\ v.e.pos = w.e.pos
             /\ v.e.exit = w.e.exit /\ v.e.cycle = w.e.cycle /\ v.e.today = w.e.today
             /\ v.e.stopped = w.e.stopped /\ v.e.gate \in [Symbol -> Gate]
             /\ \A z \in Symbol \ {s} : v.e.gate[z] = w.e.gate[z]
             /\ v.e.gate[s] = [w.e.gate[s] EXCEPT !.selling = TRUE]
<1> DEFINE e == w.e
           h == [e.gate[s] EXCEPT !.selling = TRUE]
           g == [e.gate EXCEPT ![s] = h]
           v == SellMarked(w, s)
<1>1. e \in Memory /\ w.x \in Account /\ w = [e |-> e, x |-> w.x]
  BY DEF WorldType
<1>2. e.gate \in [Symbol -> Gate] /\ e.gate[s] \in Gate
  BY <1>1 DEF Memory
<1>3. h \in Gate
  BY <1>2 DEF Gate
<1>4. v = [w EXCEPT !.e = [e EXCEPT !.gate = g]]
  BY <1>1, <1>2 DEF SellMarked, WorldType, Memory, Gate
<1> HIDE DEF h, v
<1>5. g \in [Symbol -> Gate] /\ g[s] = h /\ \A z \in Symbol \ {s} : g[z] = e.gate[z]
  BY <1>2, <1>3
<1> DEFINE m == [e EXCEPT !.gate = g]
<1> HIDE DEF g
<1>6. /\ m \in Memory /\ m.gate = g
      /\ m.orders = e.orders /\ m.bound = e.bound /\ m.pos = e.pos /\ m.exit = e.exit
      /\ m.cycle = e.cycle /\ m.today = e.today /\ m.stopped = e.stopped
  BY <1>1, <1>5 DEF Memory
<1>7. v = [w EXCEPT !.e = m]
  BY <1>4
<1> HIDE DEF m
<1>8. v.e = m /\ v.x = w.x /\ v \in WorldType
  BY <1>1, <1>6, <1>7 DEF WorldType
<1>9. QED BY <1>5, <1>6, <1>8 DEF v, h

\* A sell is placed from a world in which its symbol is marked.
LEMMA SentFrom ==
  ASSUME OrdersAssumption, Context, NEW v \in WorldType, NEW e, WorldOK(e, v.x),
         v.e.orders = e.orders, v.e.bound = e.bound,
         NEW s \in Symbol, NEW side \in Sides, NEW qty \in Nat \ {0}, NEW why \in Whys,
         NEW ok \in BOOLEAN, NEW route \in Strategy \cup {NoStrategy},
         NEW p, p = PlaceOrder(v, s, side, qty, why, ok, route)
  PROVE  Sent(v, p, s, side, qty, why)
<1>1. OrdersOK(v.e.orders) /\ OrdersOK(v.x.orders) /\ HeldOK(v.x) /\ ReportsOK(v.x)
      /\ BoundOK(v.e, v.x)
  BY DEF WorldOK, MemoryOK, BoundOK
<1>2. QED BY <1>1, Placed

\* A symbol without open orders whose sell was sent, or refused.
LEMMA SellSettled ==
  ASSUME OrdersAssumption, Context, NEW w \in WorldType, Sound(w),
         NEW s \in Symbol, NEW qty \in Nat \ {0}, NEW why \in Whys \ {"entry"},
         NEW ok \in BOOLEAN, NEW route \in Strategy \cup {NoStrategy},
         qty <= w.e.pos[s], ~ExistsOpenOrder(w.e, s),
         NEW p, p = PlaceOrder(SellMarked(w, s), s, "SELL", qty, why, ok, route),
         NEW f \in Memory, f.orders = p.e.orders, f.bound = w.e.bound, f.pos = w.e.pos,
         f.exit = w.e.exit, f.cycle = w.e.cycle, GateOK(f),
         \A z \in Symbol \ {s} : f.gate[z] = w.e.gate[z],
         Newest(p).st = "SUBMITTED" => ~f.gate[s].canceling,
         Newest(p).st = "REJECTED" => f.gate[s] = w.e.gate[s],
         mode = "live" /\ ~Overnight =>
           /\ f.today = w.e.today
           /\ \A z \in Symbol : w.e.stopped[z] = clock.day => f.stopped[z] = clock.day
           /\ why = "stop" /\ Newest(p).st = "SUBMITTED" => f.stopped[s] = clock.day
  PROVE  WorldOK(f, p.x) /\ Faithful(f, p.x)
<1> DEFINE v == SellMarked(w, s)
           e == w.e
           o == Newest(p)
<1>1. /\ v \in WorldType /\ v.x = w.x /\ v.e.orders = e.orders /\ v.e.bound = e.bound
  BY MarkedWorld
<1> HIDE DEF v
<1>2. MemoryOK(e, w.x) /\ e \in Memory /\ WorldOK(e, w.x) /\ Faithful(e, w.x)
  BY DEF Sound, WorldOK, MemoryOK
<1>3. p = PlaceOrder(v, s, "SELL", qty, why, ok, route)
  BY DEF v
<1>4. Sent(v, p, s, "SELL", qty, why)
  <2>1. "SELL" \in Sides /\ why \in Whys
    BY DEF Sides
  <2>2. QED BY <1>1, <1>2, <1>3, <2>1, SentFrom
<1>5. /\ p \in WorldType
      /\ o \in Order /\ p.e = [v.e EXCEPT !.orders = Append(v.e.orders, o)]
      /\ o.sym = s /\ o.side = "SELL" /\ o.qty = qty /\ o.filled = 0 /\ o.why = why
      /\ o.day = clock.day /\ o.restored = 0 /\ o.st \in {"SUBMITTED", "REJECTED"}
      /\ OrdersOK(p.e.orders) /\ OrdersOK(p.x.orders) /\ HeldOK(p.x) /\ ReportsOK(p.x)
      /\ BoundOK(p.e, p.x)
  BY <1>4 DEF Sent
<1> HIDE DEF o
<1>6. v.e \in Memory /\ p.x \in Account
  BY <1>1, <1>5 DEF WorldType
<1>7. p.e.orders = Append(e.orders, o) /\ p.e.bound = e.bound
  <2>1. p.e = [v.e EXCEPT !.orders = Append(e.orders, o)]
    BY <1>1, <1>5
  <2>2. QED BY <1>1, <1>6, <2>1 DEF Memory
<1>8. MemoryOK(f, p.x)
  <2>1. BoundOK(f, p.x)
    <3>1. f.bound = p.e.bound /\ f.orders = p.e.orders /\ BoundOK(p.e, p.x)
      BY <1>5, <1>7
    <3>2. QED BY ONLY <3>1 DEF BoundOK
  <2>2. QED BY <1>5, <1>6, <1>7, <2>1 DEF MemoryOK
<1>9. ASSUME NEW z \in Symbol, SymbolOK(e, z) PROVE SymbolOK(f, z)
  <2>1. OrdersOK(e.orders) /\ OrdersOK(f.orders) /\ f.orders = Append(e.orders, o)
    BY <1>2, <1>5, <1>7 DEF MemoryOK
  <2>2. CASE z # s \/ o.st = "REJECTED"
    <3>1. z # o.sym \/ ~Pending(o)
      BY <1>5, <2>2 DEF Pending
    <3>2. f.pos[z] = e.pos[z] /\ f.gate[z] = e.gate[z] /\ f.exit[z] = e.exit[z]
          /\ f.cycle[z] = e.cycle[z]
      BY <2>2 DEF o
    <3>3. QED BY <1>2, <1>5, <1>9, <2>1, <3>1, <3>2, AppendedOther
  <2>3. CASE z = s /\ o.st = "SUBMITTED"
    <3>1. ~f.gate[z].canceling
      BY <2>3 DEF o
    <3>2. QED BY <1>2, <1>5, <2>1, <2>3, <3>1, AppendedSell
  <2>4. QED BY <1>5, <2>2, <2>3
<1>10. ASSUME mode = "live", ~Overnight PROVE f.today = clock.day /\ StopsOK(f)
  <2>1. e.today = clock.day /\ StopsOK(e)
    BY <1>2, <1>10 DEF WorldOK
  <2>2. o.why = "stop" /\ o.st # "REJECTED" => f.stopped[o.sym] = clock.day
    BY <1>5, <1>10 DEF o
  <2>3. o.why # "entry" /\ f.orders = Append(e.orders, o)
    BY <1>5, <1>7
  <2>4. StopsOK(f)
    BY <1>2, <1>5, <1>10, <2>1, <2>2, <2>3, AppendedStops
  <2>5. QED BY <1>10, <2>1, <2>4
<1>11. WorldOK(f, p.x)
  BY <1>2, <1>8, <1>9, <1>10 DEF WorldOK
<1>12. Faithful(f, p.x)
  <2>1. "SELL" \in Sides /\ why \in Whys
    BY DEF Sides
  <2>2. QED BY <1>1, <1>2, <1>3, <2>1, FaithfulPlaced
<1>13. QED BY <1>11, <1>12

\* In paper mode the newest order is filled under a number of its own.
LEMMA PaperFilled ==
  ASSUME OrdersAssumption, Context, mode = "paper",
         NEW p \in WorldType, WorldOK(p.e, p.x), p.e.orders # <<>>,
         Newest(p).st = "SUBMITTED", -Len(p.e.orders) \notin DOMAIN p.e.bound,
         NEW level \in Int
  PROVE  Sound(PaperFill(p, level))
<1> DEFINE o == Newest(p)
           e == p.e
           x == p.x
           l == Len(e.orders)
           f == [no |-> -Len(e.orders), sym |-> o.sym, side |-> o.side,
                 cum |-> o.qty, unfilled |-> 0]
           g == OnFill(e, f, level)
<1>1. MemoryOK(e, x) /\ e \in Memory /\ x \in Account
  BY DEF WorldOK, MemoryOK
<1>2. DOMAIN e.orders = 1..l /\ l \in Nat /\ l > 0 /\ e.orders[l] = o /\ o \in Order
  <2>1. e.orders \in Seq(Order)
    BY <1>1, MemoryFacts
  <2>2. l \in Nat /\ l > 0 /\ DOMAIN e.orders = 1..l
    BY <2>1
  <2>3. QED BY <2>1, <2>2 DEF Newest, Last
<1>3. o.sym \in Symbol /\ o.side \in Sides /\ o.qty \in Nat \ {0}
  BY <1>2 DEF Order, Sides
<1>4. Reports(e, x, f)
  BY <1>2, <1>3 DEF Reports
<1>5. BindBrokerOrderId(e, f) = l
  <2> DEFINE S == OpenIds(e, o.sym)
  <2>1. S \in SUBSET (1..l) /\ l \in S
    BY <1>2 DEF OpenIds, Open
  <2> HIDE DEF S
  <2>2. Max(S) \in S /\ Max(S) >= l
    BY <1>2, <2>1, MaxOfIndices
  <2>3. Max(S) = l
    <3>1. Max(S) \in 1..l
      BY <2>1, <2>2
    <3>2. QED BY <1>2, <2>2, <3>1
  <2>4. BindBrokerOrderId(e, f) = Max(S)
    BY <2>1 DEF BindBrokerOrderId, ExistsOpenOrder, S
  <2>5. QED BY <2>3, <2>4
<1>6. ~Mistaken(e, f)
  BY <1>2, <1>5 DEF Mistaken
<1> HIDE DEF f, o, l
<1>7. MemoryOK(g, x)
  BY <1>1, <1>4, FillKeepsMemory
<1>8. ASSUME NEW z \in Symbol, SymbolOK(e, z) PROVE SymbolOK(g, z)
  BY <1>1, <1>4, <1>6, <1>8, FillKeepsSymbols
<1>9. WorldOK(g, x)
  BY <1>7, <1>8 DEF WorldOK
<1>10. PaperFill(p, level) = [p EXCEPT !.e = g]
  BY DEF PaperFill, f, o
<1> HIDE DEF g
<1>11. g \in Memory
  BY <1>7 DEF MemoryOK
<1>12. Faithful(g, x)
  BY DEF Faithful
<1>13. QED BY <1>1, <1>9, <1>10, <1>11, <1>12 DEF Sound, WorldType
-----------------------------------------------------------------------------
(* Automatic exits *)

\* What a tick or the order timer brings for a symbol.
Inputs ==
  [level : Levels \cup {0}, cue : Cues, strong : BOOLEAN, stale : BOOLEAN, waited : BOOLEAN,
   aged : BOOLEAN, ok : BOOLEAN, signal : Strategy \cup {NoStrategy}, lot : Nat \ {0},
   clear : BOOLEAN]

\* Types of the inputs of a handler.
LEMMA InputFacts ==
  ASSUME OrdersAssumption, NEW t \in Inputs
  PROVE  /\ t.level \in Levels \cup {0} /\ t.level \in Int /\ t.cue \in Cues
         /\ t.strong \in BOOLEAN /\ t.ok \in BOOLEAN
         /\ t.signal \in Strategy \cup {NoStrategy} /\ t.lot \in Nat \ {0}
BY DEF Inputs, OrdersAssumption

\* The exits of a position keep their type, and a partial exit sells some of it.
LEMMA ExitDecision ==
  ASSUME OrdersAssumption, NEW x \in Exit, NEW strategy, NEW aged \in BOOLEAN,
         NEW level \in Levels \cup {0}, NEW cue, NEW strong \in BOOLEAN
  PROVE  /\ TrendHold(x, level, strong) \in Exit
         /\ NextExit(x, strategy, aged, level, cue).exit \in Exit
<1>1. /\ x.partial \in BOOLEAN /\ x.breakeven \in BOOLEAN /\ x.armed \in BOOLEAN
      /\ x.high \in Levels \cup {0} /\ x.trend \in BOOLEAN
  BY DEF Exit
<1>2. TrendHold(x, level, strong) \in Exit
  BY <1>1 DEF TrendHold, Exit
<1> DEFINE th == Threshold(strategy, x.trend)
           tr == Trail(x, th, level)
           d  == NextExit(x, strategy, aged, level, cue)
           p  == [x EXCEPT !.partial = TRUE, !.breakeven = TRUE, !.high = level]
<1>3. p \in Exit
  BY <1>1 DEF Exit
<1>4. tr \in Exit
  <2> DEFINE a == x.armed \/ level >= th.start
             h == IF level > x.high THEN level ELSE x.high
  <2>1. a \in BOOLEAN /\ h \in Levels \cup {0}
    BY <1>1
  <2>2. tr = IF x.partial THEN [x EXCEPT !.high = h, !.armed = a] ELSE x
    BY DEF Trail, Exit
  <2> HIDE DEF a, h, tr
  <2>3. QED BY <1>1, <2>1, <2>2 DEF Exit
<1>5. d.exit \in {x, tr, p}
  BY DEF NextExit
<1>6. QED BY <1>2, <1>3, <1>4, <1>5

\* A partial exit sells at least one share and at most what is held.
LEMMA PartialShares ==
  ASSUME NEW q \in Nat \ {0}, NEW strategy, NEW trend
  PROVE  LET n == Min({PartialQty(q, Threshold(strategy, trend).ratio), q})
         IN  n \in Nat \ {0} /\ n <= q
<1> DEFINE r == Threshold(strategy, trend).ratio
           n == PartialQty(q, r)
<1>1. r \in {30, 35, 50}
  <2>1. CASE trend
    BY <2>1 DEF Threshold, TrendThreshold
  <2>2. CASE ~trend
    BY <2>2 DEF Threshold, StrategyThreshold
  <2>3. QED BY <2>1, <2>2
<1> HIDE DEF r
<1>2. n \in Nat \ {0}
  <2>1. q * r \in Nat
    BY <1>1
  <2> DEFINE m == q * r
  <2> HIDE DEF m
  <2>2. m \in Nat
    BY <2>1 DEF m
  <2>3. m \div 100 \in Nat
    BY <2>2
  <2>4. n = IF m \div 100 = 0 THEN 1 ELSE m \div 100
    BY DEF PartialQty, m
  <2>5. QED BY <2>3, <2>4
<1> HIDE DEF n
<1>3. Min({n, q}) = IF n <= q THEN n ELSE q
  BY <1>2, MinOfTwo
<1>4. QED BY <1>2, <1>3 DEF n, r

\* The world in which a sell of s may be sent.
MaySell(e, s) ==
  e.pos[s] > 0 /\ ~e.gate[s].canceling /\ ~e.gate[s].selling /\ ~ExistsOpenOrder(e, s)

\* A world the handler passed on from one it started from.
LEMMA SoundParts ==
  ASSUME NEW w, Sound(w)
  PROVE  /\ w \in WorldType /\ WorldOK(w.e, w.x) /\ MemoryOK(w.e, w.x) /\ w.e \in Memory
         /\ w.x \in Account /\ w = [e |-> w.e, x |-> w.x] /\ OrdersOK(w.e.orders)
         /\ BoundOK(w.e, w.x) /\ GateOK(w.e) /\ Faithful(w.e, w.x)
BY DEF Sound, WorldOK, MemoryOK, WorldType

\* A world with another memory that is right, and has the same orders and positions.
LEMMA SoundMemory ==
  ASSUME NEW w, Sound(w), NEW f \in Memory, WorldOK(f, w.x),
         f.orders = w.e.orders, f.bound = w.e.bound, f.pos = w.e.pos
  PROVE  Sound([w EXCEPT !.e = f])
<1>1. Faithful(f, w.x)
  BY SoundParts, FaithfulMemory
<1>2. QED BY <1>1 DEF Sound, WorldType

\* Without the mark of a sell in progress.
LEMMA Unmarked ==
  ASSUME NEW e \in Memory, NEW s \in Symbol
  PROVE  LET f == [e EXCEPT !.gate[s].selling = FALSE]
         IN  /\ f \in Memory /\ f.orders = e.orders /\ f.bound = e.bound /\ f.pos = e.pos
             /\ f.exit = e.exit /\ f.cycle = e.cycle /\ f.today = e.today
             /\ f.stopped = e.stopped /\ \A z \in Symbol \ {s} : f.gate[z] = e.gate[z]
             /\ f.gate[s] = [e.gate[s] EXCEPT !.selling = FALSE]
             /\ GateOK(e) => GateOK(f)
<1> DEFINE h == [e.gate[s] EXCEPT !.selling = FALSE]
           g == [e.gate EXCEPT ![s] = h]
           f == [e EXCEPT !.gate[s].selling = FALSE]
<1>1. e.gate \in [Symbol -> Gate] /\ e.gate[s] \in Gate
  BY DEF Memory
<1>2. h \in Gate /\ h.canceling = e.gate[s].canceling /\ h.resell = e.gate[s].resell
  BY <1>1 DEF Gate
<1>3. f = [e EXCEPT !.gate = g]
  BY <1>1 DEF Memory, Gate
<1> HIDE DEF h, f
<1>4. g \in [Symbol -> Gate] /\ g[s] = h /\ \A z \in Symbol \ {s} : g[z] = e.gate[z]
  BY <1>1, <1>2
<1> HIDE DEF g
<1>5. /\ f \in Memory /\ f.gate = g /\ f.orders = e.orders /\ f.bound = e.bound
      /\ f.pos = e.pos /\ f.exit = e.exit /\ f.cycle = e.cycle /\ f.today = e.today
      /\ f.stopped = e.stopped
  BY <1>3, <1>4 DEF Memory
<1>6. GateOK(e) => GateOK(f)
  BY <1>2, <1>4, <1>5 DEF GateOK
<1>7. QED BY <1>4, <1>5, <1>6 DEF f, h
\* A symbol without the mark is left as it is by a handler that fails.
LEMMA UnmarkedError ==
  ASSUME OrdersAssumption, NEW w, Sound(w), NEW s \in Symbol, ~w.e.gate[s].selling
  PROVE  Sound([w EXCEPT !.e = CountError([w.e EXCEPT !.gate[s].selling = FALSE])])
<1> DEFINE e == w.e
           f == [e EXCEPT !.gate[s].selling = FALSE]
<1>1. WorldOK(e, w.x) /\ e \in Memory /\ GateOK(e)
  BY SoundParts
<1>2. e.gate[s] \in Gate /\ ~e.gate[s].selling
  BY <1>1 DEF Memory
<1>3. /\ f \in Memory /\ f.orders = e.orders /\ f.bound = e.bound /\ f.pos = e.pos
      /\ f.exit = e.exit /\ f.cycle = e.cycle /\ f.today = e.today /\ f.stopped = e.stopped
      /\ \A z \in Symbol \ {s} : f.gate[z] = e.gate[z]
      /\ f.gate[s] = [e.gate[s] EXCEPT !.selling = FALSE] /\ GateOK(f)
  BY <1>1, Unmarked
<1> HIDE DEF f
<1>4. f.gate[s] = e.gate[s]
  BY <1>2, <1>3 DEF Gate
<1>5. \A z \in Symbol : Calmed(e, f, z)
  BY <1>3, <1>4 DEF Calmed
<1>6. WorldOK(f, w.x)
  BY <1>1, <1>3, <1>5, CalmedWorld
<1>7. CountError(f) \in Memory /\ Kept(f, CountError(f)) /\ CountError(f).today = f.today
      /\ CountError(f).stopped = f.stopped
  BY <1>3, ErrorCounted
<1>8. WorldOK(CountError(f), w.x)
  BY <1>6, <1>7, KeptWorld
<1>9. CountError(f).orders = w.e.orders /\ CountError(f).bound = w.e.bound
      /\ CountError(f).pos = w.e.pos
  BY <1>3, <1>7 DEF Kept
<1>10. QED BY <1>7, <1>8, <1>9, SoundMemory DEF f

\* The sell of a symbol that may be sold.
LEMMA SubmitSound ==
  ASSUME OrdersAssumption, Context, NEW w, Sound(w), NEW s \in Symbol,
         NEW qty \in Nat \ {0}, qty <= w.e.pos[s], MaySell(w.e, s), NEW why,
         NEW t \in Inputs
  PROVE  Sound(SubmitAutoSell(w, s, qty, why, t))
<1> DEFINE e == w.e
           y == IF IsStop(why) THEN "stop" ELSE "exit"
           v == SellMarked(w, s)
           p == PlaceOrder(v, s, "SELL", qty, y, t.ok, StrategyOf(w.e, s))
           d == IF mode = "paper" THEN PaperFill(p, t.level) ELSE p
           o == Newest(p)
           Unmark(f) == [f EXCEPT !.gate[s].selling = FALSE]
<1>1. /\ w \in WorldType /\ WorldOK(e, w.x) /\ MemoryOK(e, w.x) /\ e \in Memory
      /\ w.x \in Account /\ BoundOK(e, w.x) /\ GateOK(e)
  BY SoundParts
<1>2. /\ v \in WorldType /\ v.x = w.x /\ v.e \in Memory
      /\ v.e.orders = e.orders /\ v.e.bound = e.bound /\ v.e.pos = e.pos
      /\ v.e.exit = e.exit /\ v.e.cycle = e.cycle /\ v.e.today = e.today
      /\ v.e.stopped = e.stopped /\ v.e.gate \in [Symbol -> Gate]
      /\ \A z \in Symbol \ {s} : v.e.gate[z] = e.gate[z]
      /\ v.e.gate[s] = [e.gate[s] EXCEPT !.selling = TRUE]
  BY <1>1, MarkedWorld
<1>3. /\ y \in Whys \ {"entry"} /\ y \in Whys /\ "SELL" \in Sides /\ t.ok \in BOOLEAN
      /\ t.level \in Int /\ StrategyOf(e, s) \in Strategy \cup {NoStrategy}
      /\ y = "stop" <=> IsStop(why)
  <2>1. t.ok \in BOOLEAN /\ t.level \in Int
    BY InputFacts
  <2>2. e.cycle[s] \in Route
    BY <1>1 DEF Memory
  <2>3. StrategyOf(e, s) \in Strategy \cup {NoStrategy}
    BY <2>2 DEF StrategyOf, Route
  <2>4. y \in Whys \ {"entry"} /\ y \in Whys /\ "SELL" \in Sides /\ (y = "stop" <=> IsStop(why))
    BY DEF Whys, Sides
  <2>5. QED BY <2>1, <2>3, <2>4
<1>4. e.gate[s] \in Gate /\ ~e.gate[s].canceling /\ ~e.gate[s].selling
      /\ ~ExistsOpenOrder(e, s)
  BY <1>1 DEF MaySell, Memory
<1> HIDE DEF v, y
<1>5. Sent(v, p, s, "SELL", qty, y)
  BY <1>1, <1>2, <1>3, SentFrom, SMTT(30)
<1>6. SubmitAutoSell(w, s, qty, why, t) =
        IF ~AutoSellAllowed THEN [w EXCEPT !.e = CountError(Unmark(w.e))]
        ELSE IF Newest(d).st = "SUBMITTED" THEN [d EXCEPT !.e = AfterSubmit(d.e, s, why)]
        ELSE IF Newest(d).st = "REJECTED" THEN [d EXCEPT !.e = Unmark(d.e)]
        ELSE d
  <2>1. w \in [e : Memory, x : Account]
    BY <1>1 DEF WorldType
  <2>2. QED BY <2>1 DEF SubmitAutoSell, SellMarked, v, y
<1>7. p \in WorldType /\ p.e \in Memory /\ p.x \in Account
  BY <1>5 DEF Sent, WorldType
<1>8. /\ p.e = [v.e EXCEPT !.orders = Append(e.orders, o)] /\ o \in Order
      /\ o.st \in {"SUBMITTED", "REJECTED"} /\ (mode = "paper" => o.st = "SUBMITTED")
  BY <1>2, <1>5 DEF Sent
<1>9. /\ p.e.orders = Append(e.orders, o) /\ p.e.bound = e.bound /\ p.e.pos = e.pos
      /\ p.e.exit = e.exit /\ p.e.cycle = e.cycle /\ p.e.today = e.today
      /\ p.e.stopped = e.stopped /\ p.e.gate = v.e.gate
  BY <1>2, <1>8, ZenonT(60) DEF Memory
<1>10. GateOK(p.e)
  <2>1. v.e.gate[s].canceling = e.gate[s].canceling /\ v.e.gate[s].resell = e.gate[s].resell
    BY <1>2, <1>4 DEF Gate
  <2>2. \A z \in Symbol : /\ p.e.gate[z].canceling = e.gate[z].canceling
                          /\ p.e.gate[z].resell = e.gate[z].resell
    BY <1>2, <1>9, <2>1
  <2>3. QED BY <1>1, <2>2 DEF GateOK
<1>11. p = PlaceOrder(SellMarked(w, s), s, "SELL", qty, y, t.ok, StrategyOf(w.e, s))
  BY DEF v
<1>12. ~p.e.gate[s].canceling
  BY <1>2, <1>4, <1>9 DEF Gate
<1> HIDE DEF p, o
<1>13. Sound([w EXCEPT !.e = CountError(Unmark(w.e))])
  BY <1>1, <1>4, UnmarkedError
<1>14. CASE mode = "paper"
  <2>1. WorldOK(p.e, p.x)
    <3>1. o.st = "SUBMITTED"
      BY <1>8, <1>14
    <3>2. \A z \in Symbol \ {s} : p.e.gate[z] = e.gate[z]
      BY <1>2, <1>9
    <3> DEFINE f == p.e
    <3>3. /\ f \in Memory /\ f.orders = p.e.orders /\ f.bound = e.bound /\ f.pos = e.pos
          /\ f.exit = e.exit /\ f.cycle = e.cycle /\ GateOK(f)
          /\ \A z \in Symbol \ {s} : f.gate[z] = e.gate[z] /\ ~f.gate[s].canceling
          /\ Newest(p).st = "SUBMITTED" /\ ~f.gate[s].canceling
      BY <1>7, <1>9, <1>10, <1>12, <3>1, <3>2 DEF o
    <3> HIDE DEF f
    <3>4. WorldOK(f, p.x)
      BY <1>1, <1>3, <1>4, <1>11, <1>14, <3>3, SellSettled, ZenonT(40)
    <3>5. QED BY <3>4 DEF f
  <2>2. p.e.orders # <<>> /\ Newest(p).st = "SUBMITTED" /\ -Len(p.e.orders) \notin DOMAIN p.e.bound
    <3>1. e.orders \in Seq(Order)
      BY <1>1, MemoryFacts
    <3>2. Len(p.e.orders) = Len(e.orders) + 1 /\ Len(e.orders) \in Nat /\ p.e.orders # <<>>
      BY <1>8, <1>9, <3>1
    <3>3. \A k \in DOMAIN e.bound : k < 0 => -k <= Len(e.orders)
      BY <1>1 DEF BoundOK
    <3>4. -Len(p.e.orders) \notin DOMAIN e.bound
      <4> DEFINE k == -Len(p.e.orders)
      <4>1. k < 0 /\ ~(-k <= Len(e.orders))
        BY <3>2
      <4> HIDE DEF k
      <4>2. k \notin DOMAIN e.bound
        BY <3>3, <4>1
      <4>3. QED BY <4>2 DEF k
    <3>5. QED BY <1>8, <1>9, <1>14, <3>2, <3>4 DEF o
  <2>3. d = PaperFill(p, t.level)
    BY <1>14
  <2>4. Sound(d)
    BY <1>3, <1>7, <1>14, <2>1, <2>2, <2>3, PaperFilled
  <2> HIDE DEF d
  <2>5. Sound([d EXCEPT !.e = AfterSubmit(d.e, s, why)])
    <3>1. /\ AfterSubmit(d.e, s, why) \in Memory /\ Kept(d.e, AfterSubmit(d.e, s, why))
      BY <2>4, SoundParts, SubmitCounted
    <3>2. WorldOK(AfterSubmit(d.e, s, why), d.x)
      BY <1>14, <2>4, <3>1, SoundParts, KeptWorld
    <3>3. QED BY <2>4, <3>1, <3>2, SoundMemory DEF Kept
  <2>6. Sound([d EXCEPT !.e = Unmark(d.e)])
    <3> DEFINE f == Unmark(d.e)
               g == d.e
    <3>1. g \in Memory /\ WorldOK(g, d.x) /\ GateOK(g)
      BY <2>4, SoundParts
    <3>2. /\ f \in Memory /\ f.orders = g.orders /\ f.bound = g.bound /\ f.pos = g.pos
          /\ f.exit = g.exit /\ f.cycle = g.cycle
          /\ \A z \in Symbol \ {s} : f.gate[z] = g.gate[z]
          /\ f.gate[s] = [g.gate[s] EXCEPT !.selling = FALSE] /\ GateOK(f)
      BY <3>1, Unmarked
    <3> HIDE DEF f, g
    <3>3. g.gate[s] \in Gate /\ g.pos[s] \in Nat
      BY <3>1 DEF Memory
    <3>4. run.blind \/ \A z \in Symbol : Calmed(g, f, z)
      <4>1. ASSUME ~run.blind, NEW z \in Symbol PROVE Calmed(g, f, z)
        <5>1. g.pos[s] = 0 => f.gate[s] = g.gate[s]
          <6>1. SymbolOK(g, s)
            BY <3>1, <4>1 DEF WorldOK
          <6>2. g.pos[s] = 0 => g.gate[s] = NoGate
            BY <6>1 DEF SymbolOK
          <6>3. g.pos[s] = 0 => g.gate[s].selling = FALSE
            BY <6>2 DEF NoGate
          <6>4. ASSUME NEW h \in Gate, h.selling = FALSE
                PROVE  [h EXCEPT !.selling = FALSE] = h
            BY <6>4 DEF Gate
          <6>5. QED BY <3>2, <3>3, <6>3, <6>4
        <5>2. f.gate[s].canceling = g.gate[s].canceling /\ f.gate[s].selling = FALSE
          BY <3>2, <3>3 DEF Gate
        <5>3. QED BY <3>2, <5>1, <5>2 DEF Calmed
      <4>2. QED BY <4>1
    <3>5. WorldOK(f, d.x)
      BY <1>14, <3>1, <3>2, <3>4, CalmedWorld
    <3>6. QED BY <2>4, <3>2, <3>5, SoundMemory DEF f, g
  <2>7. QED BY <1>6, <1>13, <2>4, <2>5, <2>6
<1>15. CASE mode # "paper"
  <2>1. d = p
    BY <1>15
  <2>2. ASSUME o.st = "SUBMITTED" PROVE Sound([p EXCEPT !.e = AfterSubmit(p.e, s, why)])
    <3> DEFINE f == AfterSubmit(p.e, s, why)
    <3>1. /\ f \in Memory /\ Kept(p.e, f) /\ f.today = p.e.today
          /\ \A z \in Symbol : p.e.stopped[z] = clock.day => f.stopped[z] = clock.day
          /\ IsStop(why) => f.stopped[s] = clock.day
      BY <1>7, SubmitCounted
    <3> HIDE DEF f
    <3>2. /\ f.orders = p.e.orders /\ f.bound = e.bound /\ f.pos = e.pos
          /\ f.exit = e.exit /\ f.cycle = e.cycle /\ f.gate = p.e.gate
          /\ f.today = e.today
          /\ \A z \in Symbol : e.stopped[z] = clock.day => f.stopped[z] = clock.day
      BY <1>9, <3>1 DEF Kept
    <3>3. /\ GateOK(f) /\ ~f.gate[s].canceling
          /\ \A z \in Symbol \ {s} : f.gate[z] = e.gate[z]
          /\ y = "stop" => f.stopped[s] = clock.day
      BY <1>2, <1>3, <1>9, <1>10, <1>12, <3>1, <3>2 DEF GateOK
    <3>4. /\ Newest(p).st = "SUBMITTED" => ~f.gate[s].canceling
          /\ Newest(p).st # "REJECTED"
          /\ mode = "live" /\ ~Overnight =>
               /\ f.today = w.e.today
               /\ \A z \in Symbol : w.e.stopped[z] = clock.day => f.stopped[z] = clock.day
               /\ y = "stop" /\ Newest(p).st = "SUBMITTED" => f.stopped[s] = clock.day
      BY <2>2, <3>2, <3>3 DEF o
    <3> HIDE DEF o
    <3>5. WorldOK(f, p.x) /\ Faithful(f, p.x)
      BY <1>1, <1>3, <1>4, <1>11, <3>1, <3>2, <3>3, <3>4, SellSettled, ZenonT(60)
    <3>6. QED BY <1>7, <3>1, <3>5 DEF Sound, WorldType, f
  <2>3. ASSUME o.st = "REJECTED" PROVE Sound([p EXCEPT !.e = Unmark(p.e)])
    <3> DEFINE f == Unmark(p.e)
    <3>1. /\ f \in Memory /\ f.orders = p.e.orders /\ f.bound = p.e.bound /\ f.pos = p.e.pos
          /\ f.exit = p.e.exit /\ f.cycle = p.e.cycle /\ f.today = p.e.today
          /\ f.stopped = p.e.stopped
          /\ \A z \in Symbol \ {s} : f.gate[z] = p.e.gate[z]
          /\ f.gate[s] = [p.e.gate[s] EXCEPT !.selling = FALSE] /\ GateOK(f)
      BY <1>7, <1>10, Unmarked
    <3> HIDE DEF f
    <3>2. f.gate[s] = e.gate[s] /\ \A z \in Symbol \ {s} : f.gate[z] = e.gate[z]
      <4>1. f.gate[s] = [[e.gate[s] EXCEPT !.selling = TRUE] EXCEPT !.selling = FALSE]
        BY <1>2, <1>9, <3>1
      <4>2. f.gate[s] = e.gate[s]
        BY <1>4, <4>1 DEF Gate
      <4>3. p.e.gate = v.e.gate /\ \A z \in Symbol \ {s} : v.e.gate[z] = e.gate[z]
        BY <1>2, <1>9
      <4>4. \A z \in Symbol \ {s} : f.gate[z] = p.e.gate[z]
        BY <3>1
      <4>5. QED BY ONLY <4>2, <4>3, <4>4
    <3>3. /\ Newest(p).st = "REJECTED" => f.gate[s] = e.gate[s]
          /\ Newest(p).st # "SUBMITTED"
          /\ mode = "live" /\ ~Overnight =>
               /\ f.today = w.e.today
               /\ \A z \in Symbol : w.e.stopped[z] = clock.day => f.stopped[z] = clock.day
               /\ y = "stop" /\ Newest(p).st = "SUBMITTED" => f.stopped[s] = clock.day
      BY <1>9, <2>3, <3>1, <3>2 DEF o
    <3> HIDE DEF o
    <3>4. /\ f.orders = p.e.orders /\ f.bound = e.bound /\ f.pos = e.pos
          /\ f.exit = e.exit /\ f.cycle = e.cycle /\ f.today = e.today
          /\ f.stopped = e.stopped
      BY <1>9, <3>1
    <3>5. WorldOK(f, p.x) /\ Faithful(f, p.x)
      BY <1>1, <1>3, <1>4, <1>11, <3>1, <3>2, <3>3, <3>4, SellSettled
    <3>6. QED BY <1>7, <3>1, <3>5 DEF Sound, WorldType, f
  <2>4. QED BY <1>6, <1>8, <1>13, <2>1, <2>2, <2>3 DEF o
<1>16. QED BY <1>14, <1>15
\* The exits of a position are its own.
WithExit(w, s, x) == [w EXCEPT !.e.exit[s] = x]

\* New exits of a symbol that holds shares keep the world right.
LEMMA ExitKept ==
  ASSUME NEW w, Sound(w), NEW s \in Symbol, w.e.pos[s] > 0, NEW x \in Exit
  PROVE  LET v == WithExit(w, s, x)
         IN  Sound(v) /\ v.e.orders = w.e.orders /\ v.e.pos = w.e.pos /\ v.e.gate = w.e.gate
<1> DEFINE e == w.e
           g == [e.exit EXCEPT ![s] = x]
           f == [e EXCEPT !.exit = g]
           v == WithExit(w, s, x)
<1>1. w \in WorldType /\ WorldOK(e, w.x) /\ e \in Memory /\ GateOK(e)
  BY SoundParts
<1>2. e.exit \in [Symbol -> Exit] /\ e.pos \in [Symbol -> Nat]
  BY <1>1 DEF Memory
<1>3. v = [w EXCEPT !.e = f]
  BY <1>1, <1>2 DEF WithExit, WorldType, Memory
<1> HIDE DEF v
<1>4. g \in [Symbol -> Exit] /\ \A z \in Symbol \ {s} : g[z] = e.exit[z]
  BY <1>2
<1> HIDE DEF g
<1>5. f \in Memory /\ f.exit = g /\ f.orders = e.orders /\ f.bound = e.bound /\ f.pos = e.pos
      /\ f.gate = e.gate /\ f.cycle = e.cycle /\ f.today = e.today /\ f.stopped = e.stopped
  BY <1>1, <1>4 DEF Memory
<1> HIDE DEF f
<1>6. GateOK(f)
  BY <1>1, <1>5 DEF GateOK
<1>7. \A z \in Symbol : Calmed(e, f, z)
  BY <1>4, <1>5 DEF Calmed
<1>8. WorldOK(f, w.x)
  BY <1>1, <1>5, <1>6, <1>7, CalmedWorld
<1>9. Sound(v)
  BY <1>3, <1>5, <1>8, SoundMemory
<1>10. v.e = f
  BY <1>1, <1>3 DEF WorldType
<1>11. QED BY <1>5, <1>9, <1>10 DEF v

\* _check_auto_exit keeps the world right.
LEMMA AutoExitSound ==
  ASSUME OrdersAssumption, Context, NEW w, Sound(w), NEW s \in Symbol, NEW t \in Inputs
  PROVE  Sound(CheckAutoExit(w, s, t))
<1> DEFINE e == w.e
           c == e.cycle[s]
           h == TrendHold(e.exit[s], t.level, t.strong)
           d == NextExit(h, c.strategy, Aged(e, s), t.level, t.cue)
           v == WithExit(w, s, d.exit)
           q == e.pos[s]
           n == IF d.why = "partial_take"
                  THEN Min({PartialQty(q, Threshold(c.strategy, d.exit.trend).ratio), q}) ELSE q
<1>1. w \in WorldType /\ e \in Memory
  BY SoundParts
<1>2. CheckAutoExit(w, s, t) = IF ExitClosed(e, s) THEN w
                               ELSE IF d.why = "none" THEN v ELSE SubmitAutoSell(v, s, n, d.why, t)
  BY DEF CheckAutoExit, WithExit
<1>3. CASE ExitClosed(e, s)
  <2> HIDE DEF d, v, n
  <2>1. QED BY <1>2, <1>3
<1>4. CASE ~ExitClosed(e, s)
  <2>1. q \in Nat /\ e.exit[s] \in Exit /\ e.gate[s] \in Gate
    BY <1>1 DEF Memory
  <2>2. q \in Nat \ {0} /\ q > 0 /\ ~e.gate[s].canceling /\ ~e.gate[s].selling
        /\ ~ExistsOpenOrder(e, s)
    BY <1>4, <2>1 DEF ExitClosed
  <2>3. d.exit \in Exit
    <3>1. t.level \in Levels \cup {0} /\ t.strong \in BOOLEAN
      BY InputFacts
    <3>2. h \in Exit
      BY <2>1, <3>1, ExitDecision
    <3> HIDE DEF h
    <3>3. Aged(e, s) \in BOOLEAN
      BY DEF Aged
    <3>4. QED BY <3>1, <3>2, <3>3, ExitDecision
  <2>4. n \in Nat \ {0} /\ n <= q
    <3> DEFINE k == Min({PartialQty(q, Threshold(c.strategy, d.exit.trend).ratio), q})
    <3> HIDE DEF d
    <3>1. k \in Nat \ {0} /\ k <= q
      BY ONLY <2>2, PartialShares
    <3>2. n = IF d.why = "partial_take" THEN k ELSE q
      OBVIOUS
    <3> HIDE DEF k, n
    <3>3. QED BY <2>2, <3>1, <3>2
  <2> HIDE DEF d, n
  <2>5. Sound(v) /\ v.e.orders = e.orders /\ v.e.pos = e.pos /\ v.e.gate = e.gate
    BY <2>2, <2>3, ExitKept
  <2> HIDE DEF v
  <2>6. MaySell(v.e, s)
    BY <2>2, <2>5 DEF MaySell, ExistsOpenOrder, OpenIds
  <2>7. n <= v.e.pos[s]
    BY <2>4, <2>5
  <2>8. Sound(SubmitAutoSell(v, s, n, d.why, t))
    BY <2>4, <2>5, <2>6, <2>7, SubmitSound
  <2>9. QED BY <1>2, <1>4, <2>5, <2>8 DEF v, n, d
<1>5. QED BY <1>3, <1>4

\* _check_stale_position_force_exit keeps the world right.
LEMMA ForceExitSound ==
  ASSUME OrdersAssumption, Context, NEW w, Sound(w), NEW s \in Symbol, NEW t \in Inputs
  PROVE  Sound(ForceExit(w, s, t))
<1> DEFINE e == w.e
           f == [e EXCEPT !.forced = e.forced \cup {s}]
           v == [w EXCEPT !.e = f]
<1>1. w \in WorldType /\ e \in Memory /\ WorldOK(e, w.x)
  BY SoundParts
<1>2. \/ ForceExit(w, s, t) = w
      \/ /\ ~ExitClosed(e, s)
         /\ ForceExit(w, s, t) = SubmitAutoSell(v, s, e.pos[s], "stale_force_exit", t)
  <2>1. w \in [e : Memory, x : Account]
    BY <1>1 DEF WorldType
  <2>2. v = [w EXCEPT !.e.forced = @ \cup {s}]
    BY <2>1
  <2>3. QED BY <2>2 DEF ForceExit
<1>3. CASE ForceExit(w, s, t) = w
  BY <1>3
<1>4. CASE /\ ~ExitClosed(e, s)
           /\ ForceExit(w, s, t) = SubmitAutoSell(v, s, e.pos[s], "stale_force_exit", t)
  <2>1. e.pos[s] \in Nat /\ e.gate[s] \in Gate /\ e.forced \cup {s} \in SUBSET Symbol
    BY <1>1 DEF Memory
  <2>2. e.pos[s] \in Nat \ {0} /\ MaySell(e, s)
    BY <1>4, <2>1 DEF ExitClosed, MaySell
  <2>3. f \in Memory /\ Kept(e, f) /\ f.today = e.today /\ f.stopped = e.stopped
    BY <1>1, <2>1 DEF Memory, Kept
  <2> HIDE DEF f
  <2>4. WorldOK(f, w.x)
    BY <1>1, <2>3, KeptWorld
  <2>5. Sound(v) /\ v.e = f
    BY <1>1, <2>3, <2>4, SoundMemory DEF WorldType, Kept
  <2> HIDE DEF v
  <2>6. MaySell(v.e, s) /\ e.pos[s] <= v.e.pos[s]
    BY <2>1, <2>2, <2>3, <2>5 DEF Kept, MaySell, ExistsOpenOrder, OpenIds
  <2>7. QED BY <1>4, <2>2, <2>5, <2>6, SubmitSound
<1>5. QED BY <1>2, <1>3, <1>4
-----------------------------------------------------------------------------
(* Cancels and resells *)

\* A cancel asks the exchange for nothing but the end of an order.
LEMMA ExchangeCanceled ==
  ASSUME NEW x \in Account, OrdersOK(x.orders), HeldOK(x), ReportsOK(x), NEW e, NEW id
  PROVE  LET y == CancelOrder(x, e, id)
         IN  /\ y \in Account /\ OrdersOK(y.orders) /\ HeldOK(y) /\ ReportsOK(y)
             /\ DOMAIN y.orders = DOMAIN x.orders
             /\ \A n \in DOMAIN x.orders : y.orders[n].sym = x.orders[n].sym
<1> DEFINE q == x.orders
           Asked(n) == n \in DOMAIN e.bound /\ e.bound[n] = id /\ q[n].st = "live"
           r == [n \in DOMAIN q |-> IF Asked(n) THEN [q[n] EXCEPT !.st = "canceling"] ELSE q[n]]
           y == CancelOrder(x, e, id)
<1>1. q \in Seq(ExchangeOrder) /\ x.held \in [Symbol -> Nat]
  BY DEF Account
<1>2. y = [x EXCEPT !.orders = r]
  BY DEF CancelOrder, Account
<1> HIDE DEF y
<1>3. \A n \in DOMAIN q : q[n] \in ExchangeOrder
  BY <1>1
<1>4. ASSUME NEW n \in DOMAIN q
      PROVE  /\ r[n] \in ExchangeOrder /\ r[n].sym = q[n].sym /\ r[n].side = q[n].side
             /\ r[n].qty = q[n].qty /\ r[n].filled = q[n].filled
             /\ Pending(r[n]) <=> Pending(q[n])
             /\ r[n].st = "FILLED" => q[n].st = "FILLED"
  <2>1. q[n] \in ExchangeOrder
    BY <1>3
  <2>2. CASE Asked(n)
    BY <2>1, <2>2 DEF ExchangeOrder, Pending
  <2>3. CASE ~Asked(n)
    BY <2>1, <2>3
  <2>4. QED BY <2>2, <2>3
<1>5. DOMAIN r = DOMAIN q /\ r \in Seq(ExchangeOrder)
  <2>1. DOMAIN q = 1..Len(q) /\ Len(q) \in Nat
    BY <1>1
  <2>2. DOMAIN r = 1..Len(q)
    BY <2>1
  <2>3. r \in [1..Len(q) -> ExchangeOrder]
    BY <1>4, <2>1
  <2> HIDE DEF r, q
  <2>4. QED BY <2>1, <2>2, <2>3
<1> HIDE DEF r
<1>6. y.orders = r /\ y.held = x.held /\ y.reports = x.reports /\ y \in Account
  BY <1>2, <1>5 DEF Account
<1>7. OrdersOK(r)
  BY <1>4, <1>5 DEF OrdersOK
<1>8. \A z \in Symbol : Claims(r, z) = Claims(q, z)
  <2>1. ASSUME NEW z \in Symbol PROVE Claims(r, z) = Claims(q, z)
    <3>1. \A n \in DOMAIN q : Claim(r[n], z) = Claim(q[n], z)
      BY <1>4 DEF Claim, Remaining
    <3>2. QED BY <1>5, <3>1, ClaimsSame
  <2>2. QED BY <2>1
<1>9. HeldOK(y)
  BY <1>6, <1>8 DEF HeldOK
<1>10. ReportsOK(y)
  BY <1>4, <1>5, <1>6 DEF ReportsOK
<1>11. QED BY <1>4, <1>5, <1>6, <1>7, <1>9, <1>10 DEF y

\* The memory after a cancel.
Cancelled(e, s, id) ==
  [e EXCEPT !.orders[id].st = "CANCELED",
            !.bound = [k \in {j \in DOMAIN @ : @[j] # id} |-> @[k]],
            !.gate[s] = [@ EXCEPT !.canceling = TRUE, !.selling = FALSE,
                                  !.resell = Remaining(e.orders[id])]]

\* The memory after the cancel of an open sell.
LEMMA CancelledParts ==
  ASSUME NEW e \in Memory, NEW s \in Symbol, NEW id \in DOMAIN e.orders,
         Remaining(e.orders[id]) \in Nat
  PROVE  LET f == Cancelled(e, s, id)
             q == e.orders
         IN  /\ f \in Memory /\ f.pos = e.pos /\ f.exit = e.exit /\ f.cycle = e.cycle
             /\ f.today = e.today /\ f.stopped = e.stopped
             /\ DOMAIN f.orders = DOMAIN q /\ Len(f.orders) = Len(q)
             /\ \A i \in DOMAIN q \ {id} : f.orders[i] = q[i]
             /\ f.orders[id] = [q[id] EXCEPT !.st = "CANCELED"]
             /\ DOMAIN f.bound = {j \in DOMAIN e.bound : e.bound[j] # id}
             /\ \A k \in DOMAIN f.bound : f.bound[k] = e.bound[k]
             /\ \A z \in Symbol \ {s} : f.gate[z] = e.gate[z]
             /\ f.gate[s].canceling /\ ~f.gate[s].selling
             /\ f.gate[s].resell = Remaining(q[id])
<1> DEFINE q == e.orders
           o == [q[id] EXCEPT !.st = "CANCELED"]
           r == [q EXCEPT ![id] = o]
           D == {j \in DOMAIN e.bound : e.bound[j] # id}
           b == [k \in D |-> e.bound[k]]
           m == Remaining(q[id])
           h == [e.gate[s] EXCEPT !.canceling = TRUE, !.selling = FALSE, !.resell = m]
           g == [e.gate EXCEPT ![s] = h]
           f == Cancelled(e, s, id)
<1>1. /\ q \in Seq(Order) /\ DOMAIN q = 1..Len(q) /\ Len(q) \in Nat /\ q[id] \in Order
      /\ DOMAIN e.bound \subseteq Int /\ e.bound \in [DOMAIN e.bound -> Nat]
  BY MemoryFacts
<1>2. e.gate \in [Symbol -> Gate] /\ e.gate[s] \in Gate
  BY DEF Memory
<1>3. o \in Order
  BY <1>1 DEF Order
<1>4. r \in Seq(Order) /\ Len(r) = Len(q) /\ DOMAIN r = DOMAIN q /\ r[id] = o
      /\ \A i \in DOMAIN q \ {id} : r[i] = q[i]
  <2> HIDE DEF o
  <2>1. QED BY <1>1, <1>3
<1>5. D \subseteq Int /\ b \in [D -> Nat] /\ DOMAIN b = D /\ \A k \in D : b[k] = e.bound[k]
  BY <1>1
<1>6. h \in Gate /\ h.canceling /\ ~h.selling /\ h.resell = m
  <2> HIDE DEF m
  <2>1. m \in Nat
    BY DEF m
  <2>2. QED BY <1>2, <2>1 DEF Gate
<1>7. g \in [Symbol -> Gate] /\ g[s] = h /\ \A z \in Symbol \ {s} : g[z] = e.gate[z]
  <2> HIDE DEF h
  <2>1. QED BY <1>2, <1>6
<1>8. f = [e EXCEPT !.orders = r, !.bound = b, !.gate = g]
  <2>1. f = [e EXCEPT !.orders[id].st = "CANCELED", !.bound = b, !.gate[s] = h]
    BY DEF Cancelled, Memory
  <2> HIDE DEF f, b, h
  <2>2. QED BY <2>1 DEF Memory
<1> HIDE DEF r, D, g, f, h, o, m
<1>9. b \in UNION {[S -> Nat] : S \in SUBSET Int}
  BY <1>5
<1> HIDE DEF b
<1>10. /\ f \in Memory /\ f.pos = e.pos /\ f.exit = e.exit /\ f.cycle = e.cycle
       /\ f.today = e.today /\ f.stopped = e.stopped
       /\ f.orders = r /\ f.bound = b /\ f.gate = g
  BY <1>4, <1>7, <1>8, <1>9 DEF Memory
<1>11. QED BY <1>4, <1>5, <1>6, <1>7, <1>10 DEF f, D, o, m
\* _check_stale_sell_order keeps the world right.
LEMMA StaleSellSound ==
  ASSUME OrdersAssumption, Context, NEW w, Sound(w), NEW s \in Symbol, NEW t \in Inputs
  PROVE  Sound(CheckStaleSell(w, s, t, Len(engine.orders)))
<1> DEFINE e == w.e
           q == e.orders
           S == OpenSells(e, s)
           id == Max(S)
           y == IF mode = "live" THEN CancelOrder(w.x, e, id) ELSE w.x
           f == Cancelled(e, s, id)
           m == Remaining(q[id])
           n == Len(engine.orders)
<1>1. /\ w \in WorldType /\ WorldOK(e, w.x) /\ Faithful(e, w.x) /\ MemoryOK(e, w.x) /\ e \in Memory
      /\ w.x \in Account /\ OrdersOK(q) /\ BoundOK(e, w.x) /\ GateOK(e)
      /\ w = [e |-> e, x |-> w.x]
  BY SoundParts
<1>2. \/ CheckStaleSell(w, s, t, n) = w
      \/ S # {} /\ ~(id > n) /\ CheckStaleSell(w, s, t, n) = [x |-> y, e |-> f]
  BY DEF CheckStaleSell, Cancelled
<1>3. CASE CheckStaleSell(w, s, t, n) = w
  BY <1>3
<1>4. CASE S # {} /\ ~(id > n) /\ CheckStaleSell(w, s, t, n) = [x |-> y, e |-> f]
  <2>1. DOMAIN q = 1..Len(q) /\ Len(q) \in Nat /\ \A i \in DOMAIN q : q[i] \in Order
    BY <1>1, MemoryFacts
  <2>2. S \in SUBSET (1..Len(q))
    BY <2>1 DEF OpenSells, OpenIds
  <2>3. id \in S
    BY <1>4, <2>1, <2>2, MaxOfIndices
  <2>4. /\ id \in DOMAIN q /\ q[id] \in Order /\ q[id].sym = s /\ q[id].side = "SELL"
        /\ Pending(q[id]) /\ Open(q[id])
    BY <2>1, <2>3 DEF OpenSells, OpenIds, Open, Pending
  <2>20. ~(id > n)
    BY <1>4
  <2> HIDE DEF id, S
  <2>5. m \in Nat /\ m > 0 /\ q[id].qty \in Nat /\ q[id].filled \in Nat
    BY <1>1, <2>4 DEF OrdersOK, Order, Remaining
  <2>6. /\ f \in Memory /\ f.pos = e.pos /\ f.exit = e.exit /\ f.cycle = e.cycle
        /\ f.today = e.today /\ f.stopped = e.stopped
        /\ DOMAIN f.orders = DOMAIN q /\ Len(f.orders) = Len(q)
        /\ \A i \in DOMAIN q \ {id} : f.orders[i] = q[i]
        /\ f.orders[id] = [q[id] EXCEPT !.st = "CANCELED"]
        /\ DOMAIN f.bound = {j \in DOMAIN e.bound : e.bound[j] # id}
        /\ \A k \in DOMAIN f.bound : f.bound[k] = e.bound[k]
        /\ \A z \in Symbol \ {s} : f.gate[z] = e.gate[z]
        /\ f.gate[s].canceling /\ ~f.gate[s].selling
        /\ f.gate[s].resell = Remaining(q[id])
    BY <1>1, <2>4, <2>5, CancelledParts
  <2> DEFINE r == f.orders
  <2>7. /\ r[id].sym = s /\ r[id].side = "SELL" /\ ~Pending(r[id]) /\ r[id].st = "CANCELED"
        /\ r[id].day = q[id].day /\ r[id].why = q[id].why
    BY <2>4, <2>6 DEF Order, Pending
  <2>8. q[id].st \in {"SUBMITTED", "PARTIAL"}
    BY <2>4 DEF Order, Pending
  <2> HIDE DEF f, m
  <2>9. /\ y \in Account /\ OrdersOK(y.orders) /\ HeldOK(y) /\ ReportsOK(y)
        /\ DOMAIN y.orders = DOMAIN w.x.orders
        /\ \A k \in DOMAIN w.x.orders : y.orders[k].sym = w.x.orders[k].sym
    <3>1. CASE mode = "live"
      BY <1>1, <3>1, ExchangeCanceled DEF MemoryOK
    <3>2. CASE mode # "live"
      BY <1>1, <3>2 DEF MemoryOK
    <3>3. QED BY <3>1, <3>2
  <2> HIDE DEF y
  <2>10. OrdersOK(r)
    <3>1. \A i \in DOMAIN r : i = id \/ (i \in DOMAIN q /\ r[i] = q[i])
      BY <2>6
    <3>2. ~Pending(r[id]) /\ r[id].st # "FILLED"
      BY <2>7
    <3> HIDE DEF r
    <3>3. QED BY <1>1, <3>1, <3>2 DEF OrdersOK
  <2>11. BoundOK(f, y)
    <3>1. ASSUME NEW k \in DOMAIN f.bound
          PROVE  /\ f.bound[k] \in DOMAIN r
                 /\ r[f.bound[k]].st \in {"SUBMITTED", "PARTIAL", "FILLED"}
                 /\ k < 0 => -k <= Len(r)
                 /\ k >= 0 => k \in DOMAIN y.orders /\ y.orders[k].sym = r[f.bound[k]].sym
      <4>1. k \in DOMAIN e.bound /\ f.bound[k] = e.bound[k] /\ e.bound[k] # id
        BY <2>6
      <4>2. /\ e.bound[k] \in DOMAIN q
            /\ q[e.bound[k]].st \in {"SUBMITTED", "PARTIAL", "FILLED"}
            /\ k < 0 => -k <= Len(q)
            /\ k >= 0 => k \in DOMAIN w.x.orders /\ w.x.orders[k].sym = q[e.bound[k]].sym
        BY <1>1, <4>1 DEF BoundOK
      <4>3. r[e.bound[k]] = q[e.bound[k]] /\ DOMAIN r = DOMAIN q /\ Len(r) = Len(q)
        BY <2>6, <4>1, <4>2
      <4>4. QED BY <2>9, <4>1, <4>2, <4>3
    <3>2. QED BY <3>1 DEF BoundOK
  <2>12. GateOK(f)
    <3>1. ASSUME NEW z \in Symbol PROVE f.gate[z].canceling <=> f.gate[z].resell > 0
      <4>1. CASE z = s
        BY <2>5, <2>6, <4>1 DEF m
      <4>2. CASE z # s
        BY <1>1, <2>6, <4>2 DEF GateOK
      <4>3. QED BY <4>1, <4>2
    <3>2. QED BY <3>1 DEF GateOK
  <2>13. MemoryOK(f, y)
    BY <2>6, <2>9, <2>10, <2>11, <2>12 DEF MemoryOK
  <2>14. Countable(q) /\ Countable(r)
    BY <1>1, <2>6, <2>10, CountableMemory
  <2>15. ASSUME NEW z \in Symbol, SymbolOK(e, z) PROVE SymbolOK(f, z)
    <3>1. Claims(r, z) = Claims(q, z) - Claim(q[id], z) + Claim(r[id], z)
      <4> HIDE DEF r, q
      <4>1. QED BY <2>4, <2>6, <2>14, ClaimsChange DEF r
    <3>2. Claims(q, z) \in Nat /\ Claim(q[id], z) <= Claims(q, z) /\ e.pos[z] \in Nat
      BY <1>1, <2>4, <2>14, ClaimsType DEF Memory
    <3>3. Claim(r[id], z) = 0 /\ Claim(q[id], z) = IF z = s THEN m ELSE 0
      BY <2>4, <2>7 DEF Claim, m
    <3>4. Claims(q, z) <= e.pos[z]
      BY <2>15 DEF SymbolOK
    <3>5. Claims(r, z) <= f.pos[z]
      <4>1. f.pos[z] = e.pos[z]
        BY <2>6
      <4> HIDE DEF q, r
      <4>2. QED BY <2>5, <3>1, <3>2, <3>3, <3>4, <4>1
    <3>6. CASE z = s
      <4>1. e.pos[z] > 0 /\ Claims(q, z) # 0
        BY <2>5, <3>2, <3>3, <3>4, <3>6
      <4>2. ~PendingBuy(q, z)
        BY <2>15, <4>1 DEF SymbolOK
      <4>3. ~PendingBuy(r, z)
        <5>1. \A i \in DOMAIN r : i # id => r[i] = q[i]
          BY <2>6
        <5>2. DOMAIN r = DOMAIN q /\ r[id].side = "SELL"
          BY <2>6, <2>7
        <5> HIDE DEF q, r
        <5>3. QED BY ONLY <4>2, <5>1, <5>2 DEF PendingBuy, Open
      <4>4. QED BY <2>6, <3>5, <3>6, <4>1, <4>3 DEF SymbolOK
    <3>7. CASE z # s
      <4>1. Claims(r, z) = Claims(q, z)
        BY <3>1, <3>2, <3>3, <3>7
      <4>2. \A i \in DOMAIN q : q[i].sym = z \/ r[i].sym = z => r[i] = q[i]
        <5>1. \A i \in DOMAIN q : i # id => r[i] = q[i]
          BY <2>6
        <5>2. q[id].sym = s /\ r[id].sym = s
          BY <2>4, <2>7
        <5> HIDE DEF q, r
        <5>3. QED BY ONLY <3>7, <5>1, <5>2
      <4>3. /\ PendingBuy(r, z) <=> PendingBuy(q, z)
            /\ PendingSell(r, z) <=> PendingSell(q, z)
        <5>1. DOMAIN r = DOMAIN q
          BY <2>6
        <5> HIDE DEF q, r
        <5>2. PendingBuy(r, z) <=> PendingBuy(q, z)
          BY ONLY <4>2, <5>1 DEF PendingBuy
        <5>3. PendingSell(r, z) <=> PendingSell(q, z)
          BY ONLY <4>2, <5>1 DEF PendingSell
        <5>4. QED BY <5>2, <5>3
      <4>4. f.gate[z] = e.gate[z]
        BY <2>6, <3>7
      <4>5. QED BY <2>6, <2>15, <4>1, <4>3, <4>4 DEF SymbolOK
    <3>8. QED BY <3>6, <3>7
  <2>16. ASSUME mode = "live", ~Overnight PROVE f.today = clock.day /\ StopsOK(f)
    <3>1. e.today = clock.day /\ StopsOK(e)
      BY <1>1, <2>16 DEF WorldOK
    <3>2. \A i \in DOMAIN q : /\ r[i].day = q[i].day /\ r[i].why = q[i].why /\ r[i].sym = q[i].sym
                              /\ r[i].st # "REJECTED" => q[i].st # "REJECTED"
      <4>1. \A i \in DOMAIN q : i # id => r[i] = q[i]
        BY <2>6
      <4>2. r[id].day = q[id].day /\ r[id].why = q[id].why /\ r[id].sym = q[id].sym
        BY <2>4, <2>7
      <4>3. q[id].st # "REJECTED"
        BY <2>8
      <4>4. QED BY ONLY <4>1, <4>2, <4>3
    <3>3. StopsOK(f)
      <4>1. DOMAIN r = DOMAIN q /\ f.stopped = e.stopped
        BY <2>6
      <4>2. QED BY <3>1, <3>2, <4>1 DEF StopsOK
    <3>4. QED BY <2>6, <3>1, <3>3
  <2>17. WorldOK(f, y)
    BY <1>1, <2>13, <2>15, <2>16 DEF WorldOK
  <2>18. Faithful(f, y)
    <3>1. CASE mode = "live"
      <4>1. id <= n
        <5>1. id \in Nat /\ n \in Nat
          BY <1>1, <2>1, <2>4, <3>1 DEF Faithful, Started
        <5>2. QED BY <2>20, <5>1
      <4>2. CancelsOrder(e, f, id) /\ Len(f.orders) = Len(e.orders)
        BY <2>6 DEF CancelsOrder
      <4>3. y = IF mode = "live" THEN CancelOrder(w.x, e, id) ELSE w.x
        BY DEF y
      <4>4. QED BY <1>1, <2>4, <2>9, <4>1, <4>2, <4>3, FaithfulCancelled
    <3>2. QED BY <3>1 DEF Faithful
  <2>19. Sound([x |-> y, e |-> f])
    BY <2>6, <2>9, <2>17, <2>18 DEF Sound, WorldType
  <2>21. QED BY <1>4, <2>19 DEF f, y, id
<1>5. QED BY <1>2, <1>3, <1>4

\* The world with other marks of s.
WithGate(w, s, h) == [w EXCEPT !.e.gate[s] = h]

\* New marks of a symbol change nothing else.
LEMMA GateSet ==
  ASSUME NEW w \in WorldType, NEW s \in Symbol, NEW h \in Gate
  PROVE  LET v == WithGate(w, s, h)
         IN  /\ v \in WorldType /\ v.e \in Memory /\ v.x = w.x
             /\ v.e.orders = w.e.orders /\ v.e.bound = w.e.bound /\ v.e.pos = w.e.pos
             /\ v.e.exit = w.e.exit /\ v.e.cycle = w.e.cycle /\ v.e.today = w.e.today
             /\ v.e.stopped = w.e.stopped /\ v.e.gate[s] = h
             /\ \A z \in Symbol \ {s} : v.e.gate[z] = w.e.gate[z]
<1> DEFINE e == w.e
           g == [e.gate EXCEPT ![s] = h]
           m == [e EXCEPT !.gate = g]
           v == WithGate(w, s, h)
<1>1. e \in Memory /\ w.x \in Account
  BY DEF WorldType
<1>2. e.gate \in [Symbol -> Gate]
  BY <1>1 DEF Memory
<1>3. v = [w EXCEPT !.e = m]
  BY <1>1, <1>2 DEF WithGate, WorldType, Memory
<1> HIDE DEF v
<1>4. g \in [Symbol -> Gate] /\ g[s] = h /\ \A z \in Symbol \ {s} : g[z] = e.gate[z]
  BY <1>2
<1> HIDE DEF g
<1>5. /\ m \in Memory /\ m.gate = g
      /\ m.orders = e.orders /\ m.bound = e.bound /\ m.pos = e.pos /\ m.exit = e.exit
      /\ m.cycle = e.cycle /\ m.today = e.today /\ m.stopped = e.stopped
  BY <1>1, <1>4 DEF Memory
<1> HIDE DEF m
<1>6. v.e = m /\ v.x = w.x /\ v \in WorldType
  BY <1>1, <1>3, <1>5 DEF WorldType
<1>7. QED BY <1>4, <1>5, <1>6 DEF v

\* _retry_sell_after_cancel keeps the world right.
LEMMA RetrySound ==
  ASSUME OrdersAssumption, Context, NEW w, Sound(w), NEW s \in Symbol, NEW t \in Inputs,
         NEW pending \in BOOLEAN
  PROVE  Sound(RetrySell(w, s, t, pending))
<1> DEFINE e == w.e
           g == e.gate[s]
           qty == Min({g.resell, e.pos[s]})
           p == PlaceOrder(SellMarked(w, s), s, "SELL", qty, "resell", t.ok, StrategyOf(e, s))
           over == [g EXCEPT !.resell = 0, !.canceling = FALSE, !.selling = FALSE]
           sent == [g EXCEPT !.selling = TRUE, !.resell = 0, !.canceling = FALSE, !.retries = @ + 1]
           f == [p.e EXCEPT !.gate[s].selling = FALSE]
           Failed == [w EXCEPT !.e = CountError([e EXCEPT !.gate[s].selling = FALSE])]
           Tried == /\ g.resell > 0 /\ ~g.selling /\ e.pos[s] # 0 /\ ~(g.retries >= RetryLimit)
                    /\ ~ExistsOpenOrder(e, s)
<1>1. /\ w \in WorldType /\ WorldOK(e, w.x) /\ MemoryOK(e, w.x) /\ e \in Memory
      /\ w.x \in Account /\ BoundOK(e, w.x) /\ GateOK(e)
  BY SoundParts
<1>2. /\ g \in Gate /\ e.pos[s] \in Nat /\ g.resell \in Nat /\ g.retries \in 0..RetryLimit
      /\ RetryLimit \in Nat /\ g.selling \in BOOLEAN /\ g.canceling \in BOOLEAN
  <2>1. g \in Gate /\ e.pos[s] \in Nat
    BY <1>1 DEF Memory
  <2>2. RetryLimit \in Nat
    BY DEF OrdersAssumption, Limit
  <2> HIDE DEF g
  <2>3. QED BY <2>1, <2>2 DEF Gate
<1>3. \/ RetrySell(w, s, t, pending) = w
      \/ ~g.selling /\ RetrySell(w, s, t, pending) = Failed
      \/ RetrySell(w, s, t, pending) = WithGate(w, s, over)
      \/ Tried /\ Newest(p).st = "SUBMITTED" /\ RetrySell(w, s, t, pending) = WithGate(p, s, sent)
      \/ Tried /\ Newest(p).st # "SUBMITTED" /\ RetrySell(w, s, t, pending) = [p EXCEPT !.e = f]
  <2>1. w = [e |-> e, x |-> w.x]
    BY <1>1 DEF WorldType
  <2>2. GiveUpResell(w, s) = WithGate(w, s, over)
    BY <2>1 DEF GiveUpResell, WithGate
  <2>3. CASE g.resell = 0 \/ g.selling \/ ~pending \/ ~t.waited
    <3> HIDE DEF p, over, sent, f, Failed, Tried, qty
    <3>1. t.waited \in BOOLEAN
      BY DEF Inputs
    <3>2. ~(/\ g.resell > 0 /\ ~g.selling /\ pending /\ t.waited)
      BY <1>2, <2>3
    <3>3. RetrySell(w, s, t, pending) = w
      BY <1>2, <2>3, <3>1, <3>2 DEF RetrySell
    <3>4. QED BY <3>3
  <2>4. CASE ~(g.resell = 0 \/ g.selling \/ ~pending \/ ~t.waited) /\ ~AutoSellAllowed
    <3> HIDE DEF p, over, sent, f, Tried, qty
    <3>1. g.resell > 0 /\ ~g.selling
      BY <1>2, <2>4
    <3>2. RetrySell(w, s, t, pending) =
            [w EXCEPT !.e = CountError([@ EXCEPT !.gate[s].selling = FALSE])]
      BY <2>4, <3>1 DEF RetrySell
    <3>3. RetrySell(w, s, t, pending) = Failed
      BY <2>1, <3>2
    <3> HIDE DEF Failed
    <3>4. QED BY <3>1, <3>3
  <2>5. CASE ~(g.resell = 0 \/ g.selling \/ ~pending \/ ~t.waited) /\ AutoSellAllowed
    <3>1. g.resell > 0
      BY <1>2, <2>5
    <3> HIDE DEF f, over
    <3>2. RetrySell(w, s, t, pending) =
            IF e.pos[s] = 0 \/ g.retries >= RetryLimit THEN GiveUpResell(w, s)
            ELSE IF ExistsOpenOrder(e, s) THEN w
            ELSE IF Newest(p).st = "SUBMITTED" THEN WithGate(p, s, sent)
            ELSE [p EXCEPT !.e.gate[s].selling = FALSE]
      BY <2>5 DEF RetrySell, WithGate, SellMarked
    <3>3. [p EXCEPT !.e.gate[s].selling = FALSE] = [p EXCEPT !.e = f]
      BY DEF f
    <3>4. QED BY <2>2, <2>5, <3>1, <3>2, <3>3
  <2>6. QED BY <2>3, <2>4, <2>5
<1>4. CASE RetrySell(w, s, t, pending) = w
  BY <1>4
<1>5. CASE ~g.selling /\ RetrySell(w, s, t, pending) = Failed
  BY <1>5, UnmarkedError
<1>6. CASE RetrySell(w, s, t, pending) = WithGate(w, s, over)
  <2>1. over \in Gate /\ over.resell = 0 /\ ~over.canceling /\ ~over.selling
    BY <1>2 DEF Gate
  <2>2. g = NoGate => over = g
    <3>1. ASSUME g = NoGate PROVE g.resell = 0 /\ g.canceling = FALSE /\ g.selling = FALSE
      BY <3>1 DEF NoGate
    <3>2. ASSUME NEW h \in Gate, h.resell = 0, h.canceling = FALSE, h.selling = FALSE
          PROVE  [h EXCEPT !.resell = 0, !.canceling = FALSE, !.selling = FALSE] = h
      BY <3>2 DEF Gate
    <3>3. QED BY <1>2, <3>1, <3>2
  <2> DEFINE v == WithGate(w, s, over)
  <2> HIDE DEF over
  <2>3. /\ v \in WorldType /\ v.e \in Memory /\ v.x = w.x
        /\ v.e.orders = e.orders /\ v.e.bound = e.bound /\ v.e.pos = e.pos
        /\ v.e.exit = e.exit /\ v.e.cycle = e.cycle /\ v.e.today = e.today
        /\ v.e.stopped = e.stopped /\ v.e.gate[s] = over
        /\ \A z \in Symbol \ {s} : v.e.gate[z] = e.gate[z]
    BY <1>1, <2>1, GateSet
  <2> HIDE DEF v
  <2>4. GateOK(v.e)
    BY <1>1, <2>1, <2>3 DEF GateOK
  <2>5. run.blind \/ \A z \in Symbol : Calmed(e, v.e, z)
    <3>1. ASSUME ~run.blind, NEW z \in Symbol PROVE Calmed(e, v.e, z)
      <4>1. e.pos[s] = 0 => g = NoGate
        BY <1>1, <3>1 DEF WorldOK, SymbolOK
      <4>2. CASE z = s
        BY <2>1, <2>2, <2>3, <4>1, <4>2 DEF Calmed
      <4>3. CASE z # s
        BY <2>3, <4>3 DEF Calmed
      <4>4. QED BY <4>2, <4>3
    <3>2. QED BY <3>1
  <2>6. WorldOK(v.e, w.x)
    BY <1>1, <2>3, <2>4, <2>5, CalmedWorld
  <2>7. Faithful(v.e, v.x)
    BY <2>3, SoundParts, FaithfulMemory
  <2>8. QED BY <1>6, <2>3, <2>6, <2>7 DEF Sound, v
<1>7. ASSUME Tried
      PROVE  /\ qty \in Nat \ {0} /\ qty <= e.pos[s] /\ p \in WorldType /\ p.e \in Memory
             /\ p.e.bound = e.bound /\ p.e.pos = e.pos /\ p.e.exit = e.exit
             /\ p.e.cycle = e.cycle /\ p.e.today = e.today /\ p.e.stopped = e.stopped
             /\ p.e.gate[s] = [g EXCEPT !.selling = TRUE]
             /\ \A z \in Symbol \ {s} : p.e.gate[z] = e.gate[z]
             /\ Newest(p).st \in {"SUBMITTED", "REJECTED"}
             /\ t.ok \in BOOLEAN /\ StrategyOf(e, s) \in Strategy \cup {NoStrategy}
  <2> DEFINE v == SellMarked(w, s)
             o == Newest(p)
  <2>1. /\ v \in WorldType /\ v.e \in Memory /\ v.x = w.x
        /\ v.e.orders = e.orders /\ v.e.bound = e.bound /\ v.e.pos = e.pos
        /\ v.e.exit = e.exit /\ v.e.cycle = e.cycle /\ v.e.today = e.today
        /\ v.e.stopped = e.stopped /\ v.e.gate \in [Symbol -> Gate]
        /\ \A z \in Symbol \ {s} : v.e.gate[z] = e.gate[z]
        /\ v.e.gate[s] = [g EXCEPT !.selling = TRUE]
    BY <1>1, MarkedWorld
  <2>2. qty \in Nat \ {0} /\ qty <= e.pos[s]
    <3>1. qty = IF g.resell <= e.pos[s] THEN g.resell ELSE e.pos[s]
      BY <1>2, MinOfTwo
    <3>2. QED BY <1>2, <1>7, <3>1
  <2>3. t.ok \in BOOLEAN /\ StrategyOf(e, s) \in Strategy \cup {NoStrategy}
        /\ "SELL" \in Sides /\ "resell" \in Whys
    <3>1. e.cycle[s] \in Route
      BY <1>1 DEF Memory
    <3>2. QED BY <3>1, InputFacts DEF StrategyOf, Route, Sides, Whys
  <2> HIDE DEF v, qty
  <2>4. Sent(v, p, s, "SELL", qty, "resell")
    <3>1. p = PlaceOrder(v, s, "SELL", qty, "resell", t.ok, StrategyOf(e, s))
      BY DEF v
    <3>2. QED BY <1>1, <2>1, <2>2, <2>3, <3>1, SentFrom
  <2> HIDE DEF p
  <2>5. p \in WorldType /\ p.e = [v.e EXCEPT !.orders = Append(v.e.orders, o)]
        /\ o \in Order /\ o.st \in {"SUBMITTED", "REJECTED"}
    BY <2>4 DEF Sent
  <2>6. p.e \in Memory
    BY <2>5 DEF WorldType
  <2> HIDE DEF o
  <2>7. /\ p.e.orders = Append(v.e.orders, o) /\ p.e.bound = v.e.bound /\ p.e.pos = v.e.pos
        /\ p.e.exit = v.e.exit /\ p.e.cycle = v.e.cycle /\ p.e.today = v.e.today
        /\ p.e.stopped = v.e.stopped /\ p.e.gate = v.e.gate
    BY <2>1, <2>5 DEF Memory
  <2>8. QED BY <2>1, <2>2, <2>3, <2>5, <2>6, <2>7 DEF o, v
<1> HIDE DEF p, qty
<1>8. CASE /\ Tried /\ Newest(p).st = "SUBMITTED"
           /\ RetrySell(w, s, t, pending) = WithGate(p, s, sent)
  <2>1. Tried
    BY <1>8
  <2>2. sent \in Gate /\ ~sent.canceling /\ sent.resell = 0
    <3>1. g.retries + 1 \in 0..RetryLimit
      BY <1>2, <2>1
    <3>2. QED BY <1>2, <3>1 DEF Gate
  <2> DEFINE v == WithGate(p, s, sent)
  <2> HIDE DEF sent
  <2>3. /\ v \in WorldType /\ v.e \in Memory /\ v.x = p.x
        /\ v.e.orders = p.e.orders /\ v.e.bound = p.e.bound /\ v.e.pos = p.e.pos
        /\ v.e.exit = p.e.exit /\ v.e.cycle = p.e.cycle /\ v.e.today = p.e.today
        /\ v.e.stopped = p.e.stopped /\ v.e.gate[s] = sent
        /\ \A z \in Symbol \ {s} : v.e.gate[z] = p.e.gate[z]
    BY <1>7, <2>1, <2>2, GateSet
  <2> DEFINE a == v.e
  <2> HIDE DEF v
  <2>4. /\ a \in Memory /\ a.orders = p.e.orders /\ a.bound = e.bound /\ a.pos = e.pos
        /\ a.exit = e.exit /\ a.cycle = e.cycle /\ a.today = e.today /\ a.stopped = e.stopped
        /\ \A z \in Symbol \ {s} : a.gate[z] = e.gate[z]
        /\ ~a.gate[s].canceling /\ a.gate[s].resell = 0
    BY <1>7, <2>1, <2>2, <2>3
  <2> HIDE DEF a
  <2>5. GateOK(a)
    BY <1>1, <2>4 DEF GateOK
  <2>6. "resell" \in Whys \ {"entry"} /\ "resell" # "stop"
    BY DEF Whys
  <2>7. p = PlaceOrder(SellMarked(w, s), s, "SELL", qty, "resell", t.ok, StrategyOf(e, s))
    BY DEF p
  <2>8. WorldOK(a, p.x) /\ Faithful(a, p.x)
    BY <1>1, <1>7, <1>8, <2>1, <2>4, <2>5, <2>6, <2>7, SellSettled
  <2>9. Sound(v)
    BY <2>3, <2>8 DEF Sound, a
  <2>10. QED BY <1>8, <2>9 DEF v
<1>9. CASE /\ Tried /\ Newest(p).st # "SUBMITTED"
           /\ RetrySell(w, s, t, pending) = [p EXCEPT !.e = f]
  <2>1. Tried
    BY <1>9
  <2>2. /\ f \in Memory /\ f.orders = p.e.orders /\ f.bound = p.e.bound /\ f.pos = p.e.pos
        /\ f.exit = p.e.exit /\ f.cycle = p.e.cycle /\ f.today = p.e.today
        /\ f.stopped = p.e.stopped
        /\ \A z \in Symbol \ {s} : f.gate[z] = p.e.gate[z]
        /\ f.gate[s] = [p.e.gate[s] EXCEPT !.selling = FALSE]
    <3>1. p.e \in Memory
      BY <1>7, <2>1
    <3>2. QED BY <3>1, Unmarked
  <2> HIDE DEF f
  <2>3. f.gate[s] = e.gate[s]
    <3>1. f.gate[s] = [[g EXCEPT !.selling = TRUE] EXCEPT !.selling = FALSE]
      BY <1>7, <2>1, <2>2
    <3>2. ~g.selling
      BY <2>1
    <3>3. QED BY <1>2, <3>1, <3>2 DEF Gate
  <2>4. /\ f \in Memory /\ f.orders = p.e.orders /\ f.bound = e.bound /\ f.pos = e.pos
        /\ f.exit = e.exit /\ f.cycle = e.cycle /\ f.today = e.today /\ f.stopped = e.stopped
        /\ \A z \in Symbol \ {s} : f.gate[z] = e.gate[z]
    BY <1>7, <2>1, <2>2
  <2>5. GateOK(f)
    BY <1>1, <2>3, <2>4 DEF GateOK
  <2>6. "resell" \in Whys \ {"entry"} /\ "resell" # "stop"
    BY DEF Whys
  <2>7. p = PlaceOrder(SellMarked(w, s), s, "SELL", qty, "resell", t.ok, StrategyOf(e, s))
    BY DEF p
  <2>8. WorldOK(f, p.x) /\ Faithful(f, p.x)
    BY <1>1, <1>7, <1>9, <2>1, <2>3, <2>4, <2>5, <2>6, <2>7, SellSettled
  <2>9. QED BY <1>7, <1>9, <2>1, <2>4, <2>8 DEF Sound, WorldType
<1>10. QED BY <1>3, <1>4, <1>5, <1>6, <1>8, <1>9
-----------------------------------------------------------------------------
(* Buys *)

\* The world with the latest signal of s.
WithSignal(w, s, g) == [w EXCEPT !.e.signal[s] = g]

\* A new signal of a symbol changes nothing else.
LEMMA SignalSet ==
  ASSUME NEW w \in WorldType, NEW s \in Symbol, NEW g \in Strategy \cup {NoStrategy}
  PROVE  LET v == WithSignal(w, s, g)
         IN  /\ v \in WorldType /\ v.e \in Memory /\ v.x = w.x /\ Kept(w.e, v.e)
             /\ v.e.today = w.e.today /\ v.e.stopped = w.e.stopped /\ v.e.count = w.e.count
<1> DEFINE e == w.e
           h == [e.signal EXCEPT ![s] = g]
           m == [e EXCEPT !.signal = h]
           v == WithSignal(w, s, g)
<1>1. e \in Memory /\ w.x \in Account
  BY DEF WorldType
<1>2. e.signal \in [Symbol -> Strategy \cup {NoStrategy}]
  BY <1>1 DEF Memory
<1>3. v = [w EXCEPT !.e = m]
  BY <1>1, <1>2 DEF WithSignal, WorldType, Memory
<1> HIDE DEF v
<1>4. h \in [Symbol -> Strategy \cup {NoStrategy}]
  BY <1>2
<1> HIDE DEF h
<1>5. m \in Memory /\ Kept(e, m) /\ m.today = e.today /\ m.stopped = e.stopped
      /\ m.count = e.count
  BY <1>1, <1>4 DEF Memory, Kept
<1> HIDE DEF m
<1>6. v.e = m /\ v.x = w.x /\ v \in WorldType
  BY <1>1, <1>3, <1>5 DEF WorldType
<1>7. QED BY <1>5, <1>6 DEF v

\* A buy of a symbol that is flat and not blocked.
LEMMA BuySettled ==
  ASSUME OrdersAssumption, Context, NEW w \in WorldType, WorldOK(w.e, w.x),
         NEW s \in Symbol, w.e.pos[s] = 0, w.e.stopped[s] # clock.day,
         NEW v \in WorldType, v.x = w.x, Kept(w.e, v.e), NEW qty, NEW p,
         Sent(v, p, s, "BUY", qty, "entry"),
         NEW f \in Memory, f.orders = p.e.orders, f.bound = w.e.bound, f.pos = w.e.pos,
         f.gate = w.e.gate, f.exit = w.e.exit, f.cycle = w.e.cycle, f.today = w.e.today,
         f.stopped = w.e.stopped
  PROVE  WorldOK(f, p.x)
<1> DEFINE e == w.e
           o == Newest(p)
<1>1. MemoryOK(e, w.x) /\ e \in Memory /\ v.e \in Memory
  BY DEF WorldOK, MemoryOK, WorldType
<1>2. /\ p \in WorldType
      /\ o \in Order /\ p.e = [v.e EXCEPT !.orders = Append(v.e.orders, o)]
      /\ o.sym = s /\ o.side = "BUY" /\ o.why = "entry" /\ o.day = clock.day
      /\ OrdersOK(p.e.orders) /\ OrdersOK(p.x.orders) /\ HeldOK(p.x) /\ ReportsOK(p.x)
      /\ BoundOK(p.e, p.x)
  BY DEF Sent
<1> HIDE DEF o
<1>3. v.e.orders = e.orders /\ v.e.bound = e.bound
  BY DEF Kept
<1>4. p.e \in Memory /\ p.x \in Account
  BY <1>2 DEF WorldType
<1>5. p.e.orders = Append(e.orders, o) /\ p.e.bound = e.bound
  <2>1. p.e = [v.e EXCEPT !.orders = Append(e.orders, o)]
    BY <1>2, <1>3
  <2>2. QED BY <1>1, <1>3, <2>1 DEF Memory
<1>6. MemoryOK(f, p.x)
  <2>1. BoundOK(f, p.x)
    <3>1. f.bound = p.e.bound /\ f.orders = p.e.orders /\ BoundOK(p.e, p.x)
      BY <1>2, <1>5
    <3>2. QED BY ONLY <3>1 DEF BoundOK
  <2>2. GateOK(f)
    BY <1>1 DEF MemoryOK, GateOK
  <2>3. QED BY <1>2, <1>4, <2>1, <2>2 DEF MemoryOK
<1>7. OrdersOK(e.orders) /\ OrdersOK(f.orders) /\ f.orders = Append(e.orders, o)
  BY <1>1, <1>2, <1>5 DEF MemoryOK
<1>8. ASSUME NEW z \in Symbol, SymbolOK(e, z) PROVE SymbolOK(f, z)
  <2>1. f.pos[z] = e.pos[z] /\ f.gate[z] = e.gate[z] /\ f.exit[z] = e.exit[z]
        /\ f.cycle[z] = e.cycle[z]
    OBVIOUS
  <2>2. CASE z # s
    <3>1. (z # o.sym \/ ~Pending(o)) /\ o \in Order
      BY <1>2, <2>2
    <3> HIDE DEF e
    <3>2. QED BY <1>1, <1>7, <1>8, <2>1, <3>1, AppendedOther
  <2>3. CASE z = s
    <3>1. z = o.sym /\ o.side = "BUY" /\ e.pos[z] = 0 /\ o \in Order
      BY <1>2, <2>3
    <3> HIDE DEF e
    <3>2. e \in Memory /\ f \in Memory /\ z \in Symbol
      BY <1>1
    <3>3. QED BY ONLY <1>7, <1>8, <2>1, <3>1, <3>2, AppendedBuy
  <2>4. QED BY <2>2, <2>3
<1>9. ASSUME mode = "live", ~Overnight PROVE f.today = clock.day /\ StopsOK(f)
  <2>1. e.today = clock.day /\ StopsOK(e)
    BY <1>9 DEF WorldOK
  <2>2. o.why = "stop" /\ o.st # "REJECTED" => f.stopped[o.sym] = clock.day
    BY <1>2
  <2>3. o.why = "entry" => e.stopped[o.sym] # clock.day
    BY <1>2
  <2>4. \A z \in Symbol : e.stopped[z] = clock.day => f.stopped[z] = clock.day
    OBVIOUS
  <2>5. StopsOK(f)
    BY <1>1, <1>2, <1>7, <2>1, <2>2, <2>3, <2>4, AppendedStops
  <2>6. QED BY <2>1, <2>5
<1>10. QED BY <1>6, <1>8, <1>9 DEF WorldOK

\* The end of on_tick, with the buy of a signal, keeps the world right.
LEMMA TickSound ==
  ASSUME OrdersAssumption, Context, NEW w, Sound(w), NEW s \in Symbol, NEW t \in Inputs
  PROVE  Sound(OnTick(w, s, t))
<1> DEFINE r == [w EXCEPT !.e = ResetDaily(w.e)]
           v == WithSignal(r, s, t.signal)
           p == PlaceOrder(v, s, "BUY", t.lot, "entry", t.ok, t.signal)
           f == IF Newest(p).st = "SUBMITTED" THEN CountOrder(p.e, t.signal) ELSE p.e
           c == [p EXCEPT !.e = f]
           May == t.signal # NoStrategy /\ CanSendOrder(r.e, s, t.signal, t.clear)
<1>1. w \in WorldType /\ WorldOK(w.e, w.x) /\ w.e \in Memory /\ w.x \in Account
  BY SoundParts
<1>2. /\ ResetDaily(w.e) \in Memory /\ WorldOK(ResetDaily(w.e), w.x)
      /\ Kept(w.e, ResetDaily(w.e))
  BY <1>1, DayReset
<1>3. Sound(r) /\ r.e = ResetDaily(w.e) /\ r.x = w.x /\ r \in WorldType
  BY <1>1, <1>2, SoundMemory DEF WorldType, Kept
<1>4. \/ OnTick(w, s, t) \in {w, r}
      \/ May /\ OnTick(w, s, t) = IF mode = "paper" THEN PaperFill(c, 0) ELSE c
  <2>1. p = [e |-> p.e, x |-> p.x]
    BY DEF PlaceOrder
  <2>2. [p EXCEPT !.e = p.e] = p
    <3> HIDE DEF p
    <3>1. QED BY <2>1
  <2>3. c = IF Newest(p).st = "SUBMITTED" THEN [p EXCEPT !.e = CountOrder(@, t.signal)] ELSE p
    <3> HIDE DEF p
    <3>1. QED BY <2>2
  <2> HIDE DEF c
  <2>4. OnTick(w, s, t) = IF w.e.protected \/ t.signal = NoStrategy THEN w
                          ELSE IF ~CanSendOrder(r.e, s, t.signal, t.clear) THEN r
                          ELSE IF mode = "paper" THEN PaperFill(c, 0) ELSE c
    BY <2>3 DEF OnTick, WithSignal
  <2> HIDE DEF r
  <2>5. QED BY <2>4
<1>5. CASE OnTick(w, s, t) \in {w, r}
  BY <1>3, <1>5
<1>6. CASE May /\ OnTick(w, s, t) = IF mode = "paper" THEN PaperFill(c, 0) ELSE c
  <2> DEFINE e == r.e
  <2>1. /\ t.signal \in Strategy /\ t.signal \in Strategy \cup {NoStrategy}
        /\ t.lot \in Nat \ {0} /\ t.ok \in BOOLEAN
    <3>1. /\ t.signal \in Strategy \cup {NoStrategy} /\ t.lot \in Nat \ {0} /\ t.ok \in BOOLEAN
      BY InputFacts
    <3>2. t.signal # NoStrategy
      BY <1>6
    <3>3. QED BY <3>1, <3>2
  <2>2. e.pos[s] = 0 /\ e.stopped[s] # clock.day /\ e.count[t.signal] < OrderLimit
    BY <1>6 DEF CanSendOrder, OrdersLeft
  <2>3. e \in Memory /\ WorldOK(e, r.x) /\ Faithful(e, r.x)
    BY <1>3, SoundParts
  <2> HIDE DEF r
  <2>4. /\ v \in WorldType /\ v.e \in Memory /\ v.x = r.x /\ Kept(e, v.e)
        /\ v.e.today = e.today /\ v.e.stopped = e.stopped /\ v.e.count = e.count
    BY <1>3, <2>1, SignalSet
  <2>5. v.e.orders = e.orders /\ v.e.bound = e.bound /\ "BUY" \in Sides /\ "entry" \in Whys
    BY <2>4 DEF Kept, Sides, Whys
  <2> HIDE DEF v
  <2>6. Sent(v, p, s, "BUY", t.lot, "entry")
    BY <2>1, <2>3, <2>4, <2>5, SentFrom
  <2>16. p = PlaceOrder(v, s, "BUY", t.lot, "entry", t.ok, t.signal)
    OBVIOUS
  <2> HIDE DEF p
  <2>7. p \in WorldType /\ p.e = [v.e EXCEPT !.orders = Append(v.e.orders, Newest(p))]
        /\ Newest(p) \in Order /\ Newest(p).st \in {"SUBMITTED", "REJECTED"}
        /\ (mode = "paper" => Newest(p).st = "SUBMITTED")
    BY <2>6 DEF Sent
  <2>8. p.e \in Memory /\ p.x \in Account
    BY <2>7 DEF WorldType
  <2>9. /\ p.e.bound = e.bound /\ p.e.pos = e.pos /\ p.e.gate = e.gate
        /\ p.e.exit = e.exit /\ p.e.cycle = e.cycle /\ p.e.today = e.today
        /\ p.e.stopped = e.stopped /\ p.e.count = e.count
        /\ p.e.orders = Append(e.orders, Newest(p))
    <3>1. /\ p.e.bound = v.e.bound /\ p.e.pos = v.e.pos /\ p.e.gate = v.e.gate
          /\ p.e.exit = v.e.exit /\ p.e.cycle = v.e.cycle /\ p.e.today = v.e.today
          /\ p.e.stopped = v.e.stopped /\ p.e.count = v.e.count
          /\ p.e.orders = Append(v.e.orders, Newest(p))
      BY <2>4, <2>7 DEF Memory
    <3>2. QED BY <2>4, <2>5, <3>1 DEF Kept
  <2>10. /\ f \in Memory /\ f.orders = p.e.orders /\ f.bound = e.bound /\ f.pos = e.pos
         /\ f.gate = e.gate /\ f.exit = e.exit /\ f.cycle = e.cycle /\ f.today = e.today
         /\ f.stopped = e.stopped
    <3> DEFINE a == [p.e.count EXCEPT ![t.signal] = @ + 1]
    <3>1. e.count[t.signal] \in 0..OrderLimit /\ OrderLimit \in Nat
          /\ p.e.count \in [Strategy -> 0..OrderLimit]
      BY <2>1, <2>3, <2>8 DEF Memory, OrdersAssumption, Limit
    <3>2. p.e.count[t.signal] + 1 \in 0..OrderLimit
      <4>1. p.e.count[t.signal] = e.count[t.signal]
        BY <2>9
      <4>2. QED BY ONLY <2>2, <3>1, <4>1
    <3>3. a \in [Strategy -> 0..OrderLimit]
      BY <3>1, <3>2
    <3>4. CountOrder(p.e, t.signal) = [p.e EXCEPT !.count = a]
      BY DEF CountOrder
    <3> HIDE DEF a
    <3>5. CASE f = p.e
      BY <2>8, <2>9, <3>5
    <3>6. CASE f = [p.e EXCEPT !.count = a]
      <4> HIDE DEF f
      <4>1. QED BY <2>8, <2>9, <3>3, <3>6 DEF Memory
    <3>7. QED BY <3>4, <3>5, <3>6
  <2> HIDE DEF f
  <2>11. WorldOK(f, p.x)
    <3> HIDE DEF e
    <3>1. e = r.e
      BY DEF e
    <3>2. QED BY <1>3, <2>2, <2>3, <2>4, <2>6, <2>10, <3>1, BuySettled
  <2>12. c.e = f /\ c.x = p.x /\ c \in WorldType
    BY <2>7, <2>8, <2>10 DEF WorldType
  <2> HIDE DEF c
  <2>13. CASE mode = "paper"
    <3>1. c.e.orders = Append(e.orders, Newest(p)) /\ c.e.bound = e.bound
      BY <2>9, <2>10, <2>12
    <3>2. e.orders \in Seq(Order)
      BY <2>3, MemoryFacts
    <3>3. Newest(c) = Newest(p)
      BY <2>9, <3>1 DEF Newest
    <3>4. c.e.orders # <<>> /\ Len(c.e.orders) = Len(e.orders) + 1 /\ Len(e.orders) \in Nat
      <4>1. Newest(p) \in Order
        BY <2>7
      <4>2. QED BY ONLY <3>1, <3>2, <4>1, OneMore
    <3>5. -Len(c.e.orders) \notin DOMAIN c.e.bound
      <4> DEFINE k == -Len(c.e.orders)
      <4>1. k < 0 /\ ~(-k <= Len(e.orders))
        BY <3>4
      <4> HIDE DEF k
      <4>2. \A j \in DOMAIN e.bound : j < 0 => -j <= Len(e.orders)
        BY <2>3 DEF WorldOK, MemoryOK, BoundOK
      <4>3. k \notin DOMAIN e.bound
        BY <4>1, <4>2
      <4>4. QED BY <3>1, <4>3 DEF k
    <3>6. Newest(c).st = "SUBMITTED" /\ WorldOK(c.e, c.x) /\ 0 \in Int
      BY <2>7, <2>11, <2>12, <2>13, <3>3
    <3>7. Sound(PaperFill(c, 0))
      BY <2>12, <2>13, <3>4, <3>5, <3>6, PaperFilled
    <3>8. QED BY <1>6, <2>13, <3>7 DEF c, f, p, v, r
  <2>14. CASE mode # "paper"
    <3>1. Faithful(f, p.x)
      BY <2>1, <2>3, <2>4, <2>5, <2>10, <2>16, FaithfulPlaced
    <3>2. Sound(c)
      BY <2>11, <2>12, <3>1 DEF Sound
    <3>3. QED BY <1>6, <2>14, <3>2 DEF c, f, p, v, r
  <2>15. QED BY <2>13, <2>14
<1>7. QED BY <1>4, <1>5, <1>6
-----------------------------------------------------------------------------
(* Folds over a finite set, element by element as c picks them: the step F *)
(* takes an element and a value of W to a value of W.                      *)

\* A choice from every set of symbols, and the fold by that choice.
Picks(c, D) == \A s \in SUBSET D : s # {} => c[s] \in s
FoldsTo(g, F, base, c, S) ==
  \A s \in S : g[s] = IF s = {} THEN base ELSE F[<<c[s], g[s \ {c[s]}]>>]

\* The values of a fold exist: they are built up from the smaller sets.
LEMMA FoldExists ==
  ASSUME NEW D, IsFiniteSet(D), NEW W, NEW base \in W, NEW F \in [D \X W -> W],
         NEW c, Picks(c, D)
  PROVE  \E g \in [SUBSET D -> W] : FoldsTo(g, F, base, c, SUBSET D)
<1> DEFINE Has(n) == \E g \in [UpTo(D, n) -> W] : FoldsTo(g, F, base, c, UpTo(D, n))
           None == {n \in Nat : ~Has(n)}
<1>1. Has(0)
  <2> DEFINE g == [s \in UpTo(D, 0) |-> base]
  <2>1. \A s \in UpTo(D, 0) : s = {}
    <3>1. ASSUME NEW s \in UpTo(D, 0) PROVE s = {}
      <4>1. s \in SUBSET D /\ Cardinality(s) <= 0
        BY DEF UpTo
      <4>2. IsFiniteSet(s)
        BY <4>1, FS_Subset
      <4>3. Cardinality(s) = 0
        BY <4>1, <4>2, FS_CardinalityType
      <4>4. QED BY <4>2, <4>3, FS_EmptySet
    <3>2. QED BY <3>1
  <2>2. g \in [UpTo(D, 0) -> W] /\ FoldsTo(g, F, base, c, UpTo(D, 0))
    BY <2>1 DEF FoldsTo
  <2>3. QED BY <2>2
<1>2. ASSUME NEW n \in Nat, n # 0, Has(n - 1) PROVE Has(n)
  <2>1. PICK g \in [UpTo(D, n - 1) -> W] : FoldsTo(g, F, base, c, UpTo(D, n - 1))
    BY <1>2
  <2> DEFINE h == [s \in UpTo(D, n) |->
                     IF s = {} THEN base ELSE F[<<c[s], g[s \ {c[s]}]>>]]
  <2>2. ASSUME NEW s \in UpTo(D, n), s # {}
        PROVE  c[s] \in D /\ s \ {c[s]} \in UpTo(D, n - 1)
    <3>1. s \in SUBSET D /\ Cardinality(s) <= n
      BY DEF UpTo
    <3>2. c[s] \in s
      BY <2>2, <3>1 DEF Picks
    <3>3. QED BY <1>2, <3>1, <3>2, SmallerSets DEF UpTo
  <2>3. ASSUME NEW s \in UpTo(D, n - 1) PROVE s \in UpTo(D, n)
    <3>1. s \in SUBSET D /\ Cardinality(s) <= n - 1
      BY DEF UpTo
    <3>2. Cardinality(s) \in Nat
      BY <3>1, FS_Subset, FS_CardinalityType
    <3>3. QED BY <1>2, <3>1, <3>2 DEF UpTo
  <2>4. h \in [UpTo(D, n) -> W]
    <3>1. ASSUME NEW s \in UpTo(D, n), s # {} PROVE F[<<c[s], g[s \ {c[s]}]>>] \in W
      BY <2>2, <3>1
    <3>2. QED BY <3>1
  <2>5. \A s \in UpTo(D, n - 1) : h[s] = g[s]
    BY <2>1, <2>3 DEF FoldsTo
  <2>6. ASSUME NEW s \in UpTo(D, n)
        PROVE  h[s] = IF s = {} THEN base ELSE F[<<c[s], h[s \ {c[s]}]>>]
    <3>1. CASE s = {}
      BY <3>1
    <3>2. CASE s # {}
      <4>1. h[s \ {c[s]}] = g[s \ {c[s]}]
        BY <2>2, <2>5, <3>2
      <4>2. h[s] = F[<<c[s], g[s \ {c[s]}]>>]
        BY <3>2
      <4> HIDE DEF h
      <4>3. QED BY <3>2, <4>1, <4>2
    <3>3. QED BY <3>1, <3>2
  <2> HIDE DEF h
  <2>7. FoldsTo(h, F, base, c, UpTo(D, n))
    BY <2>6 DEF FoldsTo
  <2>8. QED BY <2>4, <2>7
<1> HIDE DEF Has
<1>3. None = {}
  <2> SUFFICES ASSUME None # {} PROVE FALSE
    OBVIOUS
  <2>1. PICK n \in None : \A m \in None : n <= m
    BY LeastNatural
  <2>2. n # 0 /\ n - 1 \in Nat /\ n - 1 \notin None
    BY <1>1, <2>1
  <2>3. Has(n - 1)
    BY <2>2
  <2>4. QED BY <1>2, <2>1, <2>2, <2>3
<1>4. Cardinality(D) \in Nat
  BY FS_CardinalityType
<1>5. UpTo(D, Cardinality(D)) = SUBSET D
  BY FS_Subset DEF UpTo
<1>6. Has(Cardinality(D))
  BY <1>3, <1>4
<1>7. QED BY <1>5, <1>6 DEF Has
-----------------------------------------------------------------------------
(* The order timer *)

\* The worlds that are right, and the choice FoldSet makes.
Worlds == {w \in WorldType : Sound(w)}
Choice == [s \in SUBSET Symbol |-> Pick(s)]

\* The order in which the timer goes through the symbols is some order.
LEMMA Chosen == Picks(Choice, Symbol)
BY PickIn DEF Picks, Choice

\* The first round of the timer: the stale positions.
LEMMA ForceExitsSound ==
  ASSUME OrdersAssumption, Context, NEW w, Sound(w), NEW t \in [Symbol -> Inputs]
  PROVE  Sound(ForceExits(w, t))
<1> DEFINE F == [p \in Symbol \X Worlds |-> ForceExit(p[2], p[1], t[p[1]])]
           Folds(g) == g = [s \in SUBSET Symbol |->
                              IF s = {} THEN w
                              ELSE ForceExit(g[s \ {Pick(s)}], Pick(s), t[Pick(s)])]
           h == CHOOSE g : Folds(g)
<1>1. IsFiniteSet(Symbol)
  BY DEF OrdersAssumption
<1>2. F \in [Symbol \X Worlds -> Worlds]
  <2>1. ASSUME NEW s \in Symbol, NEW v \in Worlds PROVE ForceExit(v, s, t[s]) \in Worlds
    <3>1. Sound(v) /\ t[s] \in Inputs
      BY DEF Worlds
    <3>2. Sound(ForceExit(v, s, t[s]))
      BY <3>1, ForceExitSound
    <3>3. QED BY <3>2 DEF Worlds, Sound
  <2>2. QED BY <2>1
<1>3. w \in Worlds
  BY DEF Worlds, Sound
<1>4. \A s \in Symbol, v \in Worlds : F[<<s, v>>] = ForceExit(v, s, t[s])
  OBVIOUS
<1> HIDE DEF F
<1>5. PICK g \in [SUBSET Symbol -> Worlds] : FoldsTo(g, F, w, Choice, SUBSET Symbol)
  BY <1>1, <1>2, <1>3, Chosen, FoldExists
<1>6. ASSUME NEW s \in SUBSET Symbol, s # {}
      PROVE  /\ Pick(s) \in s /\ s \ {Pick(s)} \in SUBSET Symbol
             /\ g[s] = ForceExit(g[s \ {Pick(s)}], Pick(s), t[Pick(s)])
  <2>1. Choice[s] = Pick(s) /\ Pick(s) \in s
    BY <1>6, PickIn DEF Choice
  <2>2. g[s] = F[<<Pick(s), g[s \ {Pick(s)}]>>]
    BY <1>5, <1>6, <2>1 DEF FoldsTo
  <2>3. g[s \ {Pick(s)}] \in Worlds /\ Pick(s) \in Symbol
    BY <2>1
  <2>4. QED BY <1>4, <2>1, <2>2, <2>3
<1>7. Folds(g)
  <2>1. \A s \in SUBSET Symbol :
          g[s] = IF s = {} THEN w ELSE ForceExit(g[s \ {Pick(s)}], Pick(s), t[Pick(s)])
    BY <1>5, <1>6 DEF FoldsTo
  <2>2. g = [s \in SUBSET Symbol |-> g[s]]
    OBVIOUS
  <2>3. QED BY <2>1, <2>2
<1>8. Folds(h)
  BY <1>7
<1>9. ForceExits(w, t) = h[Symbol]
  BY DEF ForceExits, FoldSet, MapThenFoldSet, Pick
<1> HIDE DEF h
<1> DEFINE B == {s \in SUBSET Symbol : h[s] # g[s]}
<1>10. B = {}
  <2> SUFFICES ASSUME B # {} PROVE FALSE
    OBVIOUS
  <2>1. PICK s \in B : \A x \in s : s \ {x} \notin B
    BY <1>1, LeastSet
  <2>2. s \in SUBSET Symbol /\ h[s] # g[s]
    BY <2>1
  <2>3. s # {}
    BY <1>7, <1>8, <2>2
  <2>4. h[s \ {Pick(s)}] = g[s \ {Pick(s)}]
    BY <1>6, <2>1, <2>2, <2>3
  <2>5. h[s] = ForceExit(h[s \ {Pick(s)}], Pick(s), t[Pick(s)])
    BY <1>8, <2>2, <2>3
  <2>6. QED BY <1>6, <2>2, <2>3, <2>4, <2>5
<1>11. h[Symbol] \in Worlds
  BY <1>10
<1>12. QED BY <1>9, <1>11 DEF Worlds

\* The second round: the timeouts and resells.
LEMMA ManageSellsSound ==
  ASSUME OrdersAssumption, Context, NEW w, Sound(w), NEW t \in [Symbol -> Inputs]
  PROVE  Sound(ManageSells(w, t))
<1> DEFINE F == [p \in Symbol \X Worlds |-> ManageSell(p[2], p[1], t[p[1]])]
           Folds(g) == g = [s \in SUBSET Symbol |->
                              IF s = {} THEN w
                              ELSE ManageSell(g[s \ {Pick(s)}], Pick(s), t[Pick(s)])]
           h == CHOOSE g : Folds(g)
<1>1. IsFiniteSet(Symbol)
  BY DEF OrdersAssumption
<1>2. F \in [Symbol \X Worlds -> Worlds]
  <2>1. ASSUME NEW s \in Symbol, NEW v \in Worlds PROVE ManageSell(v, s, t[s]) \in Worlds
    <3>1. Sound(v) /\ t[s] \in Inputs
      BY DEF Worlds
    <3>2. Sound(CheckStaleSell(v, s, t[s], Len(engine.orders)))
      BY <3>1, StaleSellSound
    <3>3. (engine.gate[s].resell > 0) \in BOOLEAN
      OBVIOUS
    <3>4. Sound(ManageSell(v, s, t[s]))
      BY <3>1, <3>2, <3>3, RetrySound DEF ManageSell
    <3>5. QED BY <3>4 DEF Worlds, Sound
  <2>2. QED BY <2>1
<1>3. w \in Worlds
  BY DEF Worlds, Sound
<1>4. \A s \in Symbol, v \in Worlds : F[<<s, v>>] = ManageSell(v, s, t[s])
  OBVIOUS
<1> HIDE DEF F
<1>5. PICK g \in [SUBSET Symbol -> Worlds] : FoldsTo(g, F, w, Choice, SUBSET Symbol)
  BY <1>1, <1>2, <1>3, Chosen, FoldExists
<1>6. ASSUME NEW s \in SUBSET Symbol, s # {}
      PROVE  /\ Pick(s) \in s /\ s \ {Pick(s)} \in SUBSET Symbol
             /\ g[s] = ManageSell(g[s \ {Pick(s)}], Pick(s), t[Pick(s)])
  <2>1. Choice[s] = Pick(s) /\ Pick(s) \in s
    BY <1>6, PickIn DEF Choice
  <2>2. g[s] = F[<<Pick(s), g[s \ {Pick(s)}]>>]
    BY <1>5, <1>6, <2>1 DEF FoldsTo
  <2>3. g[s \ {Pick(s)}] \in Worlds /\ Pick(s) \in Symbol
    BY <2>1
  <2>4. QED BY <1>4, <2>1, <2>2, <2>3
<1>7. Folds(g)
  <2>1. \A s \in SUBSET Symbol :
          g[s] = IF s = {} THEN w ELSE ManageSell(g[s \ {Pick(s)}], Pick(s), t[Pick(s)])
    BY <1>5, <1>6 DEF FoldsTo
  <2>2. g = [s \in SUBSET Symbol |-> g[s]]
    OBVIOUS
  <2>3. QED BY <2>1, <2>2
<1>8. Folds(h)
  BY <1>7
<1>9. ManageSells(w, t) = h[Symbol]
  BY DEF ManageSells, FoldSet, MapThenFoldSet, Pick
<1> HIDE DEF h
<1> DEFINE B == {s \in SUBSET Symbol : h[s] # g[s]}
<1>10. B = {}
  <2> SUFFICES ASSUME B # {} PROVE FALSE
    OBVIOUS
  <2>1. PICK s \in B : \A x \in s : s \ {x} \notin B
    BY <1>1, LeastSet
  <2>2. s \in SUBSET Symbol /\ h[s] # g[s]
    BY <2>1
  <2>3. s # {}
    BY <1>7, <1>8, <2>2
  <2>4. h[s \ {Pick(s)}] = g[s \ {Pick(s)}]
    BY <1>6, <2>1, <2>2, <2>3
  <2>5. h[s] = ManageSell(h[s \ {Pick(s)}], Pick(s), t[Pick(s)])
    BY <1>8, <2>2, <2>3
  <2>6. QED BY <1>6, <2>2, <2>3, <2>4, <2>5
<1>11. h[Symbol] \in Worlds
  BY <1>10
<1>12. QED BY <1>9, <1>11 DEF Worlds
-----------------------------------------------------------------------------
(* Start and recovery *)

\* What a restored order changes.
Restored(e, f) ==
  /\ f.pos = e.pos /\ f.gate = e.gate /\ f.exit = e.exit /\ f.cycle = e.cycle
  /\ f.today = e.today /\ f.stopped = e.stopped

\* Order n is left out, or added at the end.
Added(e, f, n) ==
  LET o == Last(f.orders)
  IN  \/ f = e
      \/ /\ f.orders = Append(e.orders, o) /\ o \in Order
         /\ o.day = clock.day /\ o.why = "pending" /\ o.restored = n
         /\ \A s \in Symbol : Claim(o, s) = Claim(exchange.orders[n], s)

\* One round of sync_pending_orders adds an order bound to its number, or nothing.
LEMMA OrderRestored ==
  ASSUME OrdersAssumption, Context, NEW e, MemoryOK(e, exchange),
         Len(exchange.orders) <= MaxSent, NEW n \in DOMAIN exchange.orders
  PROVE  LET f == RestoreOrder(e, n)
         IN  MemoryOK(f, exchange) /\ Restored(e, f) /\ Added(e, f, n)
<1> DEFINE x == exchange
           c == x.orders[n]
           o == [sym |-> c.sym, side |-> c.side, qty |-> c.qty, filled |-> c.filled,
                 why |-> "pending", day |-> clock.day, route |-> NoStrategy, restored |-> n,
                 st |-> IF c.filled > 0 THEN "PARTIAL" ELSE "SUBMITTED"]
           b == [k \in DOMAIN e.bound \cup {n} |-> IF k = n THEN Len(e.orders) + 1 ELSE e.bound[k]]
           f == [e EXCEPT !.orders = Append(e.orders, o), !.bound = b]
<1>1. e \in Memory /\ x \in Account /\ OrdersOK(e.orders) /\ OrdersOK(x.orders)
      /\ BoundOK(e, x) /\ GateOK(e) /\ ReportsOK(x) /\ HeldOK(x)
  BY DEF MemoryOK
<1>2. \/ RestoreOrder(e, n) = e
      \/ c.st # "done" /\ RestoreOrder(e, n) = f
  BY DEF RestoreOrder
<1>3. CASE RestoreOrder(e, n) = e
  BY <1>3 DEF Restored, Added
<1>4. CASE c.st # "done" /\ RestoreOrder(e, n) = f
  <2>1. x.orders \in Seq(ExchangeOrder)
    BY <1>1 DEF Account
  <2>2. c \in ExchangeOrder /\ n \in Nat \ {0} /\ n <= Len(x.orders)
    BY <2>1
  <2>3. /\ c.sym \in Symbol /\ c.side \in Sides /\ c.qty \in Nat \ {0} /\ c.filled \in Nat
        /\ c.st \in {"live", "canceling"}
    BY <1>4, <2>2 DEF ExchangeOrder
  <2>4. c.filled < c.qty
    BY <1>1, <2>3 DEF OrdersOK, Pending
  <2>5. n \in 0..MaxSent /\ clock.day \in 1..MaxDays
    <3>1. MaxSent \in Nat /\ Len(x.orders) \in Nat
      BY <2>1 DEF OrdersAssumption
    <3>2. QED BY <2>2, <3>1 DEF Context
  <2> HIDE DEF c, x
  <2>6. o \in Order
    BY <2>3, <2>5 DEF Order, Sides
  <2>7. /\ o.day = clock.day /\ o.why = "pending" /\ o.restored = n /\ o.filled < o.qty
        /\ o.st \in {"SUBMITTED", "PARTIAL"} /\ o.sym = c.sym
        /\ \A s : Claim(o, s) = Claim(c, s)
    BY <2>3, <2>4 DEF Claim, Pending, Remaining
  <2> HIDE DEF o
  <2>8. e.orders \in Seq(Order) /\ Len(e.orders) \in Nat
        /\ DOMAIN e.bound \subseteq Int /\ e.bound \in [DOMAIN e.bound -> Nat]
    BY <1>1, MemoryFacts
  <2>9. b \in UNION {[D -> Nat] : D \in SUBSET Int}
    <3>1. b \in [DOMAIN e.bound \cup {n} -> Nat]
      BY <2>8
    <3>2. DOMAIN e.bound \cup {n} \in SUBSET Int
      BY <2>2, <2>8
    <3> HIDE DEF b
    <3>3. QED BY <3>1, <3>2
  <2>10. /\ DOMAIN b = DOMAIN e.bound \cup {n} /\ b[n] = Len(e.orders) + 1
         /\ \A k \in DOMAIN e.bound \ {n} : b[k] = e.bound[k]
    OBVIOUS
  <2> HIDE DEF b
  <2> DEFINE p == Append(e.orders, o)
  <2>11. /\ p \in Seq(Order) /\ Len(p) = Len(e.orders) + 1 /\ p[Len(p)] = o
         /\ \A i \in DOMAIN e.orders : i \in DOMAIN p /\ p[i] = e.orders[i]
         /\ DOMAIN p = DOMAIN e.orders \cup {Len(p)}
    BY <2>6, <2>8, OneMore
  <2>12. Last(p) = o
    BY <2>11 DEF Last
  <2> HIDE DEF p
  <2>13. /\ f \in Memory /\ f.orders = p /\ f.bound = b /\ f.gate = e.gate
         /\ Restored(e, f)
    <3>1. f = [e EXCEPT !.orders = p, !.bound = b]
      BY DEF p
    <3> HIDE DEF f
    <3>2. QED BY <1>1, <2>9, <2>11, <3>1 DEF Memory, Restored
  <2> HIDE DEF f
  <2>14. OrdersOK(f.orders)
    BY <1>1, <2>7, <2>11, <2>13 DEF OrdersOK
  <2>15. BoundOK(f, x)
    <3>1. ASSUME NEW k \in DOMAIN b
          PROVE  /\ b[k] \in DOMAIN p
                 /\ p[b[k]].st \in {"SUBMITTED", "PARTIAL", "FILLED"}
                 /\ k < 0 => -k <= Len(p)
                 /\ k >= 0 => k \in DOMAIN x.orders /\ x.orders[k].sym = p[b[k]].sym
      <4>1. CASE k = n
        <5>1. p[b[k]] = o /\ b[k] \in DOMAIN p
          BY <2>10, <2>11, <4>1
        <5>2. n \in DOMAIN x.orders /\ x.orders[n].sym = o.sym
          BY <2>7 DEF x, c
        <5>3. QED BY <2>2, <2>7, <4>1, <5>1, <5>2
      <4>2. CASE k # n
        <5>1. k \in DOMAIN e.bound /\ b[k] = e.bound[k] /\ k \in Int
          BY <2>8, <2>10, <4>2
        <5>2. /\ e.bound[k] \in DOMAIN e.orders
              /\ e.orders[e.bound[k]].st \in {"SUBMITTED", "PARTIAL", "FILLED"}
              /\ k < 0 => -k <= Len(e.orders)
              /\ k >= 0 => k \in DOMAIN x.orders /\ x.orders[k].sym = e.orders[e.bound[k]].sym
          BY <1>1, <5>1 DEF BoundOK
        <5>3. /\ b[k] \in DOMAIN p /\ p[b[k]] = e.orders[e.bound[k]]
              /\ Len(p) = Len(e.orders) + 1 /\ Len(e.orders) \in Nat
          BY <2>8, <2>11, <5>1, <5>2
        <5>4. QED BY ONLY <5>1, <5>2, <5>3
      <4>3. QED BY <4>1, <4>2
    <3>2. QED BY <2>13, <3>1 DEF BoundOK
  <2>16. GateOK(f)
    BY <1>1, <2>13 DEF GateOK
  <2>17. MemoryOK(f, x)
    BY <1>1, <2>13, <2>14, <2>15, <2>16 DEF MemoryOK
  <2>18. Added(e, f, n)
    BY <2>6, <2>7, <2>12, <2>13 DEF Added, p, c, x
  <2>19. QED BY <1>4, <2>13, <2>17, <2>18 DEF f, x, c, o, b
<1>5. QED BY <1>2, <1>3, <1>4

\* The orders restored one after the other.
Restores(h, e) ==
  /\ h[{}] = e
  /\ \A s \in SUBSET DOMAIN exchange.orders : s # {} =>
       Max(s) \in s /\ h[s] = RestoreOrder(h[s \ {Max(s)}], Max(s))
  /\ \A s \in SUBSET DOMAIN exchange.orders : MemoryOK(h[s], exchange)

\* sync_pending_orders goes through the orders of the exchange by their numbers.
LEMMA PendingRestored ==
  ASSUME OrdersAssumption, Context, NEW e, MemoryOK(e, exchange),
         Len(exchange.orders) <= MaxSent
  PROVE  \E h : Restores(h, e) /\ SyncPendingOrders(e) = h[DOMAIN exchange.orders]
<1> DEFINE D == DOMAIN exchange.orders
           W == {f \in Memory : MemoryOK(f, exchange)}
           c == [s \in SUBSET D |-> Max(s)]
           q == [n \in D |-> n]
           F == [p \in D \X W |-> RestoreOrder(p[2], p[1])]
           Folds(g) == g = [s \in SUBSET D |->
                              IF s = {} THEN e ELSE RestoreOrder(g[s \ {Max(s)}], q[Max(s)])]
           h == CHOOSE g : Folds(g)
<1>1. exchange.orders \in Seq(ExchangeOrder)
  BY DEF MemoryOK, Account
<1>2. D = 1..Len(exchange.orders) /\ Len(exchange.orders) \in Nat
  BY <1>1
<1>3. IsFiniteSet(D)
  <2>1. \A m \in Nat : IsFiniteSet(1..m)
    BY PlacesFinite
  <2>2. QED BY <1>2, <2>1
<1>4. ASSUME NEW s \in SUBSET D, s # {} PROVE Max(s) \in s /\ c[s] = Max(s) /\ Max(s) \in D
  BY <1>2, <1>4, MaxOfIndices
<1>5. Picks(c, D)
  BY <1>4 DEF Picks
<1>6. F \in [D \X W -> W]
  <2>1. ASSUME NEW n \in D, NEW f \in W PROVE RestoreOrder(f, n) \in W
    <3>1. MemoryOK(f, exchange)
      OBVIOUS
    <3>2. MemoryOK(RestoreOrder(f, n), exchange)
      BY <3>1, OrderRestored
    <3>3. QED BY <3>2 DEF MemoryOK
  <2>2. QED BY <2>1
<1>7. e \in W
  BY DEF MemoryOK
<1>8. \A n \in D, f \in W : F[<<n, f>>] = RestoreOrder(f, n)
  OBVIOUS
<1> HIDE DEF F, W, c
<1>9. PICK g \in [SUBSET D -> W] : FoldsTo(g, F, e, c, SUBSET D)
  BY <1>3, <1>5, <1>6, <1>7, FoldExists
<1>10. ASSUME NEW s \in SUBSET D, s # {}
       PROVE  g[s] = RestoreOrder(g[s \ {Max(s)}], Max(s))
  <2>1. c[s] = Max(s) /\ Max(s) \in s /\ Max(s) \in D
    BY <1>4, <1>10
  <2>2. g[s] = F[<<Max(s), g[s \ {Max(s)}]>>]
    BY <1>9, <1>10, <2>1 DEF FoldsTo
  <2>3. g[s \ {Max(s)}] \in W
    BY <2>1
  <2>4. QED BY <1>8, <2>1, <2>2, <2>3
<1>11. Folds(g)
  <2>1. ASSUME NEW s \in SUBSET D
        PROVE  g[s] = IF s = {} THEN e ELSE RestoreOrder(g[s \ {Max(s)}], q[Max(s)])
    <3>1. CASE s = {}
      BY <1>9, <3>1 DEF FoldsTo
    <3>2. CASE s # {}
      <4>1. q[Max(s)] = Max(s)
        BY <1>4, <3>2
      <4>2. QED BY <1>10, <3>2, <4>1
    <3>3. QED BY <3>1, <3>2
  <2>2. g = [s \in SUBSET D |-> g[s]]
    OBVIOUS
  <2>3. QED BY <2>1, <2>2
<1>12. Folds(h)
  BY <1>11
<1>13. SyncPendingOrders(e) = h[D]
  <2>1. DOMAIN q = D
    OBVIOUS
  <2>2. SyncPendingOrders(e) = FoldLeft(RestoreOrder, e, q)
    BY DEF SyncPendingOrders
  <2> HIDE DEF q
  <2>3. QED BY <2>1, <2>2 DEF FoldLeft, MapThenFoldSet
<1> HIDE DEF h
<1>14. \A s \in SUBSET D : s # {} => q[Max(s)] = Max(s)
  BY <1>4
<1> DEFINE B == {s \in SUBSET D : h[s] # g[s]}
<1>15. B = {}
  <2> SUFFICES ASSUME B # {} PROVE FALSE
    OBVIOUS
  <2>1. PICK s \in B : \A x \in s : s \ {x} \notin B
    <3>1. B \in SUBSET SUBSET D
      OBVIOUS
    <3> HIDE DEF B, D
    <3>2. QED BY <1>3, <3>1, LeastSet
  <2>2. s \in SUBSET D /\ h[s] # g[s]
    BY <2>1
  <2>3. s # {}
    BY <1>11, <1>12, <2>2
  <2>4. h[s \ {Max(s)}] = g[s \ {Max(s)}]
    BY <1>4, <2>1, <2>2, <2>3
  <2>5. h[s] = RestoreOrder(h[s \ {Max(s)}], Max(s))
    BY <1>12, <1>14, <2>2, <2>3
  <2>6. QED BY <1>10, <2>2, <2>3, <2>4, <2>5
<1>16. \A s \in SUBSET D : h[s] \in W
  BY <1>15
<1>17. Restores(h, e)
  <2>1. h[{}] = e
    BY <1>12
  <2>2. \A s \in SUBSET D : s # {} => Max(s) \in s /\ h[s] = RestoreOrder(h[s \ {Max(s)}], Max(s))
    <3>1. ASSUME NEW s \in SUBSET D, s # {} PROVE h[s] = RestoreOrder(h[s \ {Max(s)}], Max(s))
      BY <1>12, <1>14, <3>1
    <3>2. QED BY <1>4, <3>1
  <2>3. \A s \in SUBSET D : MemoryOK(h[s], exchange)
    BY <1>16 DEF W
  <2>4. QED BY <2>1, <2>2, <2>3 DEF Restores
<1>18. QED BY <1>13, <1>17

\* sync_pending_orders keeps the memory right.
LEMMA PendingSynced ==
  ASSUME OrdersAssumption, Context, NEW e, MemoryOK(e, exchange),
         Len(exchange.orders) <= MaxSent
  PROVE  LET f == SyncPendingOrders(e)
         IN  MemoryOK(f, exchange) /\ Restored(e, f) /\ (StopsOK(e) => StopsOK(f))
<1> DEFINE D == DOMAIN exchange.orders
<1>1. PICK h : Restores(h, e) /\ SyncPendingOrders(e) = h[D]
  BY PendingRestored
<1> DEFINE Keeps(f) == Restored(e, f) /\ (StopsOK(e) => StopsOK(f))
           B == {s \in SUBSET D : ~Keeps(h[s])}
<1>2. IsFiniteSet(D)
  <2>1. exchange.orders \in Seq(ExchangeOrder)
    BY DEF MemoryOK, Account
  <2>2. D = 1..Len(exchange.orders) /\ Len(exchange.orders) \in Nat
    BY <2>1
  <2>3. \A m \in Nat : IsFiniteSet(1..m)
    BY PlacesFinite
  <2>4. QED BY <2>2, <2>3
<1>3. ASSUME NEW f, MemoryOK(f, exchange), Keeps(f), NEW n \in D
      PROVE  Keeps(RestoreOrder(f, n))
  <2> DEFINE g == RestoreOrder(f, n)
             o == Last(g.orders)
  <2>1. /\ MemoryOK(g, exchange) /\ Restored(f, g)
        /\ \/ g = f
           \/ /\ g.orders = Append(f.orders, o) /\ o \in Order
              /\ o.day = clock.day /\ o.why = "pending"
    BY <1>3, OrderRestored DEF Added
  <2> HIDE DEF g, o
  <2>2. Restored(e, g)
    BY <1>3, <2>1 DEF Restored
  <2>3. ASSUME StopsOK(e) PROVE StopsOK(g)
    <3>1. StopsOK(f) /\ f \in Memory /\ g \in Memory
      BY <1>3, <2>1, <2>3 DEF MemoryOK
    <3>2. CASE g = f
      BY <3>1, <3>2
    <3>3. CASE g.orders = Append(f.orders, o) /\ o \in Order /\ o.day = clock.day
               /\ o.why = "pending"
      <4>1. o.why # "stop" /\ o.why # "entry"
        BY <3>3
      <4>2. g.stopped = f.stopped
        BY <2>1 DEF Restored
      <4>3. \A z \in Symbol : f.stopped[z] = clock.day => g.stopped[z] = clock.day
        BY <4>2
      <4>4. QED BY ONLY <3>1, <3>3, <4>1, <4>3, AppendedStops
    <3>4. QED BY <2>1, <3>2, <3>3
  <2>4. QED BY <2>2, <2>3 DEF g
<1> HIDE DEF Keeps
<1>4. Keeps(e)
  BY DEF Keeps, Restored
<1>5. B = {}
  <2> SUFFICES ASSUME B # {} PROVE FALSE
    OBVIOUS
  <2>1. PICK s \in B : \A y \in s : s \ {y} \notin B
    <3>1. B \in SUBSET SUBSET D
      OBVIOUS
    <3> HIDE DEF B, D
    <3>2. QED BY <1>2, <3>1, LeastSet
  <2>2. s \in SUBSET D /\ ~Keeps(h[s])
    BY <2>1
  <2>3. s # {}
    BY <1>1, <1>4, <2>2 DEF Restores
  <2>4. Max(s) \in s /\ h[s] = RestoreOrder(h[s \ {Max(s)}], Max(s))
        /\ MemoryOK(h[s \ {Max(s)}], exchange)
    BY <1>1, <2>2, <2>3 DEF Restores
  <2>5. Keeps(h[s \ {Max(s)}])
    BY <2>1, <2>2, <2>4
  <2>6. QED BY <1>3, <2>2, <2>4, <2>5
<1>6. Keeps(h[D]) /\ MemoryOK(h[D], exchange)
  BY <1>1, <1>5 DEF Restores
<1>7. QED BY <1>1, <1>6 DEF Keeps

\* The quantities and routes of the account.
LEMMA AccountSynced ==
  ASSUME NEW e, MemoryOK(e, exchange), store \in [Symbol -> Route]
  PROVE  LET f == SyncAccount(e)
         IN  /\ MemoryOK(f, exchange) /\ f.orders = e.orders
             /\ f.gate = e.gate /\ f.exit = e.exit
             /\ f.today = e.today /\ f.stopped = e.stopped
             /\ \A s \in Symbol :
                  /\ f.pos[s] = IF exchange.held[s] > 0 THEN exchange.held[s] ELSE e.pos[s]
                  /\ f.cycle[s] = IF exchange.held[s] > 0 THEN store[s] ELSE e.cycle[s]
<1> DEFINE p == [s \in Symbol |-> IF exchange.held[s] > 0 THEN exchange.held[s] ELSE e.pos[s]]
           c == [s \in Symbol |-> RestoreRoute(e, s)]
           f == SyncAccount(e)
<1>1. e \in Memory /\ exchange \in Account
  BY DEF MemoryOK
<1>2. p \in [Symbol -> Nat]
  BY <1>1 DEF Memory, Account
<1>3. c \in [Symbol -> Route]
  BY <1>1 DEF Memory, RestoreRoute, LatestBuyRoute
<1>4. f = [e EXCEPT !.pos = p, !.cycle = c]
  BY <1>1 DEF SyncAccount, Memory
<1>5. \A s \in Symbol :
        /\ p[s] = IF exchange.held[s] > 0 THEN exchange.held[s] ELSE e.pos[s]
        /\ c[s] = IF exchange.held[s] > 0 THEN store[s] ELSE e.cycle[s]
  BY DEF RestoreRoute, LatestBuyRoute
<1> HIDE DEF p, c, f
<1>6. /\ f \in Memory /\ f.pos = p /\ f.cycle = c /\ f.orders = e.orders /\ f.bound = e.bound
      /\ f.gate = e.gate /\ f.exit = e.exit /\ f.today = e.today /\ f.stopped = e.stopped
  BY <1>1, <1>2, <1>3, <1>4 DEF Memory
<1>7. MemoryOK(f, exchange)
  BY <1>6 DEF MemoryOK, BoundOK, GateOK
<1>8. QED BY <1>5, <1>6, <1>7 DEF f

\* Both queries, whether they succeed or not.
LEMMA Synced ==
  ASSUME OrdersAssumption, Context, NEW e, MemoryOK(e, exchange),
         store \in [Symbol -> Route], Len(exchange.orders) <= MaxSent,
         NEW account \in BOOLEAN, NEW pending \in BOOLEAN
  PROVE  LET f == Sync(e, account, pending)
         IN  MemoryOK(f, exchange) /\ f.today = e.today /\ (StopsOK(e) => StopsOK(f))
<1> DEFINE a == IF account THEN SyncAccount(e) ELSE e
<1>1. MemoryOK(a, exchange) /\ a.today = e.today /\ a.orders = e.orders /\ a.stopped = e.stopped
  BY AccountSynced
<1>2. StopsOK(e) => StopsOK(a)
  BY <1>1 DEF StopsOK
<1>3. Sync(e, account, pending) = IF pending THEN SyncPendingOrders(a) ELSE a
  BY DEF Sync
<1> HIDE DEF a
<1>4. QED BY <1>1, <1>2, <1>3, PendingSynced DEF Restored
-----------------------------------------------------------------------------
(* A fresh process *)

\* An account that is right.
AccountOK(x) == x \in Account /\ OrdersOK(x.orders) /\ ReportsOK(x) /\ HeldOK(x)

\* The memory of a new process.
LEMMA FreshMemory ==
  ASSUME OrdersAssumption, NEW x, AccountOK(x), NEW d \in Nat
  PROVE  /\ MemoryOK(Fresh(d), x) /\ Fresh(d).orders = <<>> /\ Fresh(d).today = d
         /\ StopsOK(Fresh(d)) /\ \A s \in Symbol : SymbolOK(Fresh(d), s)
<1> DEFINE e == Fresh(d)
<1>1. /\ e.orders = <<>> /\ e.bound = <<>> /\ e.today = d
      /\ \A s \in Symbol : e.pos[s] = 0 /\ e.gate[s] = NoGate /\ e.exit[s] = NoExit
                           /\ e.cycle[s] = NoRoute
  BY DEF Fresh
<1>2. NoGate \in Gate /\ NoExit \in Exit /\ NoRoute \in Route
  <2>1. RetryLimit \in Nat /\ MaxDays \in Nat
    BY DEF OrdersAssumption, Limit
  <2>2. NoGate \in Gate
    BY <2>1 DEF NoGate, Gate
  <2>3. NoExit \in Exit
    BY DEF NoExit, Exit
  <2>4. NoRoute \in Route
    BY <2>1 DEF NoRoute, Route
  <2>5. QED BY <2>2, <2>3, <2>4
<1>3. <<>> \in UNION {[D -> Nat] : D \in SUBSET Int}
  <2>1. DOMAIN <<>> = {}
    OBVIOUS
  <2>2. <<>> = [k \in {} |-> 0]
    BY <2>1
  <2>3. [k \in {} |-> 0] \in [{} -> Nat]
    OBVIOUS
  <2>4. <<>> \in [{} -> Nat] /\ {} \in SUBSET Int
    BY <2>2, <2>3
  <2>5. QED BY <2>4
<1>4. e \in Memory
  <2>1. OrderLimit \in Nat /\ LossLimit \in Nat /\ ErrorLimit \in Nat
    BY DEF OrdersAssumption, Limit
  <2>2. <<>> \in Seq(Order)
    OBVIOUS
  <2> DEFINE gate == [s \in Symbol |-> NoGate]
             exit == [s \in Symbol |-> NoExit]
             cycle == [s \in Symbol |-> NoRoute]
             empty == <<>>
  <2>3. gate \in [Symbol -> Gate] /\ exit \in [Symbol -> Exit] /\ cycle \in [Symbol -> Route]
    BY <1>2
  <2>4. e = [orders |-> empty, bound |-> empty,
             pos |-> [s \in Symbol |-> 0], gate |-> gate,
             exit |-> exit, cycle |-> cycle,
             signal |-> [s \in Symbol |-> NoStrategy], stopped |-> [s \in Symbol |-> 0],
             count |-> [t \in Strategy |-> 0], losses |-> [t \in Strategy |-> 0],
             halted |-> {}, forced |-> {}, errors |-> 0, protected |-> FALSE,
             lossOut |-> FALSE, realized |-> 0, today |-> d]
    BY DEF Fresh
  <2> HIDE DEF e, gate, exit, cycle, empty
  <2>5. empty \in Seq(Order) /\ empty \in UNION {[D -> Nat] : D \in SUBSET Int}
    BY <1>3, <2>2 DEF empty
  <2>6. QED BY <2>1, <2>3, <2>4, <2>5 DEF Memory
<1> HIDE DEF e
<1>5. DOMAIN e.orders = {} /\ DOMAIN e.bound = {}
  BY <1>1
<1>6. OrdersOK(e.orders) /\ BoundOK(e, x)
  BY <1>5 DEF OrdersOK, BoundOK
<1>7. GateOK(e)
  BY <1>1 DEF GateOK, NoGate
<1>8. MemoryOK(e, x)
  BY <1>4, <1>6, <1>7 DEF MemoryOK, AccountOK
<1>9. StopsOK(e)
  BY <1>5 DEF StopsOK
<1>10. ASSUME NEW s \in Symbol PROVE SymbolOK(e, s)
  <2>1. Countable(e.orders)
    BY <1>4, <1>6, CountableMemory
  <2>2. Claims(e.orders, s) = 0
    BY <1>5, <2>1, ClaimsZero
  <2>3. QED BY <1>1, <1>5, <2>2 DEF SymbolOK, NoGate, PendingBuy
<1>11. QED BY <1>1, <1>8, <1>9, <1>10 DEF e

\* What was restored claims no more than the account lets it, and none of it counts as
\* sent by this process.
LEMMA StartSymbols ==
  ASSUME OrdersAssumption, Context, AccountOK(exchange), store \in [Symbol -> Route],
         Len(exchange.orders) <= MaxSent, NEW z \in Symbol
  PROVE  SymbolOK(Sync(Fresh(clock.day), TRUE, TRUE), z)
<1> DEFINE e == Fresh(clock.day)
           a == SyncAccount(e)
           f == SyncPendingOrders(a)
           q == exchange.orders
           D == DOMAIN q
           k == [n \in D |-> Claim(q[n], z)]
           Some(s) == [n \in s |-> k[n]]
<1>1. clock.day \in Nat
  BY DEF Context
<1>2. /\ MemoryOK(e, exchange) /\ e.orders = <<>> /\ SymbolOK(e, z)
      /\ e.pos[z] = 0 /\ e.gate[z] = NoGate /\ e.exit[z] = NoExit /\ e.cycle[z] = NoRoute
  BY <1>1, FreshMemory DEF Fresh
<1> HIDE DEF e
<1>3. /\ MemoryOK(a, exchange) /\ a.orders = <<>>
      /\ a.gate[z] = NoGate /\ a.exit[z] = NoExit
      /\ a.pos[z] = IF exchange.held[z] > 0 THEN exchange.held[z] ELSE 0
      /\ a.cycle[z] = IF exchange.held[z] > 0 THEN store[z] ELSE NoRoute
  BY <1>2, AccountSynced
<1> HIDE DEF a
<1>4. Restored(a, f) /\ MemoryOK(f, exchange)
  BY <1>3, PendingSynced
<1>5. PICK h : Restores(h, a) /\ f = h[D]
  BY <1>3, PendingRestored
<1> HIDE DEF f
<1>6. q \in Seq(ExchangeOrder) /\ D = 1..Len(q) /\ Len(q) \in Nat /\ Countable(q)
  <2>1. q \in Seq(ExchangeOrder) /\ OrdersOK(q)
    BY DEF AccountOK, Account
  <2>2. QED BY <2>1, CountableOrders
<1>7. IsFiniteSet(D)
  BY <1>6, CountableFinite
<1>8. k \in [D -> Nat] /\ \A n \in D : k[n] = Claim(q[n], z)
  BY <1>6, ClaimRange
<1> HIDE DEF k
<1> DEFINE Fits(s) == /\ Claims(h[s].orders, z) <= SumFunction(Some(s))
                      /\ \A i \in DOMAIN h[s].orders : h[s].orders[i].restored # 0
           B == {s \in SUBSET D : ~Fits(s)}
<1>9. \A s \in SUBSET D : Countable(h[s].orders) /\ MemoryOK(h[s], exchange)
  BY <1>5, CountableMemory DEF Restores, MemoryOK
<1>10. Fits({})
  <2>1. h[{}].orders = <<>>
    BY <1>3, <1>5 DEF Restores
  <2>2. DOMAIN h[{}].orders = {}
    BY <2>1
  <2>3. Claims(h[{}].orders, z) = 0
    BY <1>9, <2>2, ClaimsZero
  <2>4. DOMAIN Some({}) = {}
    OBVIOUS
  <2>5. SumFunction(Some({})) = 0
    BY <2>4, SumEmpty
  <2>6. QED BY <2>2, <2>3, <2>5
<1>11. ASSUME NEW s \in SUBSET D, s # {}, Fits(s \ {Max(s)}) PROVE Fits(s)
  <2> DEFINE n == Max(s)
             r == s \ {n}
             u == h[r]
             v == h[s]
             o == Last(v.orders)
  <2>1. n \in s /\ n \in D /\ v = RestoreOrder(u, n) /\ r \in SUBSET D
    BY <1>5, <1>11 DEF Restores
  <2>2. /\ MemoryOK(u, exchange) /\ Countable(u.orders)
        /\ MemoryOK(v, exchange) /\ Countable(v.orders)
    BY <1>9, <2>1
  <2>3. \/ v = u
        \/ /\ v.orders = Append(u.orders, o) /\ o \in Order /\ o.restored = n
           /\ Claim(o, z) = k[n]
    <3>1. k[n] = Claim(exchange.orders[n], z)
      BY <1>8, <2>1
    <3> HIDE DEF u, n, k
    <3>2. Added(u, v, n)
      BY <2>1, <2>2, OrderRestored
    <3>3. QED BY <3>1, <3>2 DEF Added
  <2> HIDE DEF u, v, o, n
  <2>4. SumFunction(Some(s)) = k[n] + SumFunction(Some(r)) /\ k[n] \in Nat
        /\ SumFunction(Some(r)) \in Int
    <3>1. IsFiniteSet(s) /\ IsFiniteSet(r)
      BY <1>7, <2>1, FS_Subset
    <3>2. Some(s) \in [s -> Int] /\ Some(r) \in [r -> Int]
      BY <1>8, <2>1
    <3>3. Some(r) = Restrict(Some(s), s \ {n}) /\ Some(s)[n] = k[n]
      BY <2>1 DEF Restrict
    <3>4. SumFunction(Some(r)) \in Int
      BY <3>1, <3>2, SumType
    <3>5. n \in s /\ k[n] \in Nat
      BY <1>8, <2>1
    <3> HIDE DEF Some
    <3>6. SumFunction(Some(s)) = Some(s)[n] + SumFunction(Restrict(Some(s), s \ {n}))
      BY ONLY <3>1, <3>2, <3>5, SumRemove
    <3>7. QED BY <3>3, <3>4, <3>5, <3>6
  <2>5. Claims(u.orders, z) <= SumFunction(Some(r)) /\ Claims(u.orders, z) \in Nat
        /\ \A i \in DOMAIN u.orders : u.orders[i].restored # 0
    BY <1>11, <2>2, ClaimsType DEF u, n
  <2> HIDE DEF Some, r
  <2>6. CASE v = u
    <3>1. Claims(v.orders, z) <= SumFunction(Some(s))
      BY <2>4, <2>5, <2>6
    <3>2. QED BY <2>5, <2>6, <3>1 DEF v
  <2>7. CASE v.orders = Append(u.orders, o) /\ o \in Order /\ o.restored = n /\ Claim(o, z) = k[n]
    <3>1. u.orders \in Seq(Order)
      BY <2>2, MemoryFacts DEF MemoryOK
    <3> DEFINE g == u.orders
               p == v.orders
    <3>2. /\ Len(p) = Len(g) + 1 /\ p[Len(p)] = o
          /\ \A i \in DOMAIN g : i \in DOMAIN p /\ p[i] = g[i]
          /\ DOMAIN p = DOMAIN g \cup {Len(p)}
      BY <2>7, <3>1, OneMore
    <3>3. Claims(p, z) = Claims(g, z) + Claim(o, z)
      BY <2>2, <3>2, ClaimsAppend
    <3>4. Claims(p, z) <= SumFunction(Some(s))
      BY <2>4, <2>5, <2>7, <3>3
    <3>5. n # 0
      BY <1>6, <2>1
    <3>6. \A i \in DOMAIN p : p[i].restored # 0
      BY <2>5, <2>7, <3>2, <3>5
    <3>7. QED BY <3>4, <3>6 DEF v
  <2>8. QED BY <2>3, <2>6, <2>7
<1>12. B = {}
  <2> SUFFICES ASSUME B # {} PROVE FALSE
    OBVIOUS
  <2>1. PICK s \in B : \A y \in s : s \ {y} \notin B
    <3>1. B \in SUBSET SUBSET D
      OBVIOUS
    <3> HIDE DEF B, D
    <3>2. QED BY <1>7, <3>1, LeastSet
  <2> HIDE DEF Fits
  <2>2. s \in SUBSET D /\ ~Fits(s)
    BY <2>1
  <2>3. s # {}
    BY <1>10, <2>2
  <2>4. Max(s) \in s
    BY <1>5, <2>2, <2>3 DEF Restores
  <2>5. Fits(s \ {Max(s)})
    BY <2>1, <2>2, <2>4
  <2>6. QED BY <1>11, <2>2, <2>3, <2>5
<1>13. Claims(f.orders, z) <= exchange.held[z] /\ exchange.held[z] \in Nat
  <2>1. Fits(D)
    BY <1>12
  <2>2. Some(D) = [n \in D |-> Claim(q[n], z)]
    BY <1>8
  <2>3. SumFunction(Some(D)) = Claims(q, z)
    BY <2>2 DEF Claims
  <2>4. Claims(q, z) <= exchange.held[z] /\ exchange.held[z] \in Nat /\ Claims(q, z) \in Nat
    BY <1>6, ClaimsType DEF AccountOK, HeldOK, Account
  <2>5. Claims(f.orders, z) \in Nat
    BY <1>5, <1>9, ClaimsType
  <2>6. Claims(f.orders, z) <= Claims(q, z)
    BY <1>5, <2>1, <2>3
  <2>7. QED BY <2>4, <2>5, <2>6
<1>14. \A i \in DOMAIN f.orders : f.orders[i].restored # 0
  BY <1>5, <1>12
<1>15. /\ f.pos[z] = IF exchange.held[z] > 0 THEN exchange.held[z] ELSE 0
       /\ f.gate[z] = NoGate /\ f.exit[z] = NoExit
       /\ f.pos[z] = 0 => f.cycle[z] = NoRoute
  BY <1>3, <1>4, <1>13 DEF Restored
<1>16. Claims(f.orders, z) <= f.pos[z]
  BY <1>13, <1>15
<1>17. SymbolOK(f, z)
  BY <1>14, <1>15, <1>16 DEF SymbolOK, PendingBuy, NoGate
<1>18. Sync(e, TRUE, TRUE) = f
  BY DEF Sync, f, a
<1>19. QED BY <1>17, <1>18 DEF e
-----------------------------------------------------------------------------
(* Steps of the process *)

\* What the invariant says of a process that is up.
LEMMA UpFacts ==
  ASSUME OrdersInv
  PROVE  /\ Context /\ store \in [Symbol -> Route] /\ clean \subseteq Symbol
         /\ MemoryOK(engine, exchange) /\ engine \in Memory /\ exchange \in Account
         /\ AccountOK(exchange)
         /\ Len(engine.orders) <= MaxOrders /\ Len(exchange.orders) <= MaxSent
         /\ run \in [up : BOOLEAN, linked : BOOLEAN, boots : Nat, faults : Nat, blind : BOOLEAN]
         /\ clock \in [day : 1..MaxDays, phase : DOMAIN Phases]
         /\ run.up => Sound(World)
<1>1. MemoryOK(engine, exchange) /\ engine \in Memory /\ exchange \in Account
  BY DEF OrdersInv, MemoryOK
<1>2. AccountOK(exchange)
  BY <1>1 DEF MemoryOK, AccountOK
<1>3. World \in WorldType /\ World.e = engine /\ World.x = exchange
  BY <1>1 DEF World, WorldType
<1>4. Faithful(engine, exchange)
  <2>1. Started
    BY <1>1, MemoryFacts DEF Started, Account, OrdersInv
  <2>2. QED BY <2>1 DEF Faithful, Matched
<1>5. run.up => Sound(World)
  BY <1>3, <1>4 DEF Sound, OrdersInv
<1>6. QED BY <1>1, <1>2, <1>5 DEF OrdersInv, Context

\* The same world, with other counts of the run.
LEMMA SameWorld ==
  ASSUME NEW e, NEW x, WorldOK(e, x), engine' = e, exchange' = x,
         mode' = mode, clock' = clock, run'.blind = run.blind
  PROVE  WorldOK(engine, exchange)'
<1>1. MemoryOK(engine, exchange)' <=> MemoryOK(e, x)
  BY DEF MemoryOK, OrdersOK, BoundOK, GateOK, ReportsOK, HeldOK, Claims, Claim, Pending,
         Remaining
<1>2. \A s \in Symbol : SymbolOK(engine, s)' <=> SymbolOK(e, s)
  BY DEF SymbolOK
<1>3. StopsOK(engine)' <=> StopsOK(e)
  BY DEF StopsOK
<1>4. QED BY <1>1, <1>2, <1>3 DEF WorldOK

\* Type of the store after a handler.
LEMMA StoredPaper ==
  ASSUME OrdersInv, NEW f \in Memory
  PROVE  StorePaper(engine, f) \in [Symbol -> Route]
<1>1. f.signal \in [Symbol -> Strategy \cup {NoStrategy}]
  BY DEF Memory
<1>2. clock.day \in 0..MaxDays /\ store \in [Symbol -> Route]
  <2>1. clock.day \in 1..MaxDays /\ store \in [Symbol -> Route]
    BY UpFacts
  <2>2. QED BY <2>1
<1>3. \A s \in Symbol : [strategy |-> f.signal[s], day |-> clock.day] \in Route
  BY <1>1, <1>2 DEF Route
<1>4. QED BY <1>2, <1>3 DEF StorePaper

\* A handler that leaves the world right keeps the invariant.
LEMMA EffectKeeps ==
  ASSUME OrdersAssumption, OrdersInv, run.up, NEW w, Sound(w), NEW ok, Effect(w, ok)
  PROVE  OrdersInv'
<1>1. /\ engine' = w.e /\ exchange' = w.x /\ mode' = mode /\ clock' = clock
      /\ store' = StorePaper(engine, w.e) /\ clean' \subseteq clean
      /\ Len(w.e.orders) <= MaxOrders /\ Len(w.x.orders) <= MaxSent
      /\ run' = [run EXCEPT !.faults = @ + (IF ok THEN 0 ELSE 1)]
  BY DEF Effect
<1>2. WorldOK(w.e, w.x) /\ w.e \in Memory
  BY SoundParts
<1>3. /\ run'.blind = run.blind /\ run'.up
      /\ run' \in [up : BOOLEAN, linked : BOOLEAN, boots : Nat, faults : Nat, blind : BOOLEAN]
  <2> DEFINE n == run.faults + (IF ok THEN 0 ELSE 1)
  <2>1. /\ run.up /\ n \in Nat
        /\ run \in [up : BOOLEAN, linked : BOOLEAN, boots : Nat, faults : Nat, blind : BOOLEAN]
    BY UpFacts
  <2>2. run' = [run EXCEPT !.faults = n]
    BY <1>1
  <2> HIDE DEF n
  <2>3. QED BY <2>1, <2>2
<1>4. WorldOK(engine, exchange)'
  BY <1>1, <1>2, <1>3, SameWorld
<1>5. store' \in [Symbol -> Route]
  BY <1>1, <1>2, StoredPaper
<1>6. Context' /\ clean' \subseteq Symbol
  BY <1>1, <1>3, UpFacts DEF Context
<1>7. QED BY <1>1, <1>3, <1>4, <1>5, <1>6 DEF OrdersInv, WorldOK
-----------------------------------------------------------------------------
(* Inputs *)

\* No input is an input.
LEMMA NoInputIn ==
  ASSUME OrdersAssumption PROVE NoInput \in Inputs /\ Lots \subseteq Nat \ {0}
<1>1. "none" \in Cues /\ Lots \subseteq Nat \ {0} /\ 1 \in Nat \ {0}
  BY DEF Cues, OrdersAssumption
<1> HIDE DEF Cues
<1>2. QED BY <1>1 DEF NoInput, Inputs

\* Types of the inputs of the timer.
LEMMA TimerInputsIn ==
  ASSUME OrdersAssumption, NEW e, NEW s, NEW i \in TimerInputs(e, s)
  PROVE  i \in Inputs
<1>1. ExistsOpenOrder(e, s) \in BOOLEAN /\ (e.gate[s].resell > 0) \in BOOLEAN
  BY DEF ExistsOpenOrder
<1> DEFINE A == {FALSE, ExistsOpenOrder(e, s)}
           B == {FALSE, e.gate[s].resell > 0}
<1>2. TimerInputs(e, s) = {TimerInput(a, b, c) : a \in A, b \in B, c \in BOOLEAN}
  BY DEF TimerInputs
<1>3. A \subseteq BOOLEAN /\ B \subseteq BOOLEAN
  BY <1>1
<1> HIDE DEF A, B
<1>4. PICK a \in BOOLEAN, b \in BOOLEAN, c \in BOOLEAN : i = TimerInput(a, b, c)
  BY <1>2, <1>3
<1>5. NoInput \in Inputs
  BY NoInputIn
<1>6. QED BY <1>4, <1>5 DEF Inputs, TimerInput

\* Types of the inputs of a tick that may sell.
LEMMA ExitInputsIn ==
  ASSUME OrdersAssumption, NEW e, NEW s, NEW i \in ExitInputs(e, s)
  PROVE  i \in Inputs
<1>1. PICK l \in Levels, b \in BOOLEAN, c \in BOOLEAN, q \in Cues :
        i = ExitInput(l, q, b, c)
  BY DEF ExitInputs
<1>2. NoInput \in Inputs
  BY NoInputIn
<1> HIDE DEF Cues
<1>3. QED BY <1>1, <1>2 DEF Inputs, ExitInput

\* Types of the inputs of a tick that may buy.
LEMMA SignalInputsIn ==
  ASSUME OrdersAssumption, NEW i \in SignalInputs
  PROVE  i \in Inputs
<1>1. PICK g \in Strategy \cup {NoStrategy}, q \in Lots, b \in BOOLEAN, c \in BOOLEAN :
        i = SignalInput(g, q, b, c)
  BY DEF SignalInputs
<1>2. NoInput \in Inputs /\ q \in Nat \ {0}
  BY NoInputIn
<1>3. QED BY <1>1, <1>2 DEF Inputs, SignalInput

\* Types of the inputs of a tick.
LEMMA TickInputsIn ==
  ASSUME OrdersAssumption, NEW e, NEW s, NEW t \in TickInputs(e, s)
  PROVE  t \in Inputs
<1>1. CASE t \in SignalInputs \/ t \in TimerInputs(e, s) \/ t \in ExitInputs(e, s)
  BY <1>1, SignalInputsIn, TimerInputsIn, ExitInputsIn
<1>2. CASE t \in {BuyingInput(i, g, q) :
                  i \in ExitInputs(e, s), g \in Strategy, q \in Lots}
  <2>1. PICK i \in ExitInputs(e, s), g \in Strategy, q \in Lots :
          t = BuyingInput(i, g, q)
    BY <1>2
  <2>2. i \in Inputs /\ q \in Nat \ {0}
    BY ExitInputsIn, NoInputIn
  <2>3. QED BY <2>1, <2>2 DEF Inputs, BuyingInput
<1>3. QED BY <1>1, <1>2 DEF TickInputs

\* Types of the inputs of the timer for a symbol.
LEMMA ManageInputsIn ==
  ASSUME OrdersAssumption, NEW s, NEW t \in ManageInputs(s)
  PROVE  t \in Inputs
<1>1. CASE t \in TimerInputs(engine, s)
  BY <1>1, TimerInputsIn
<1>2. CASE t \in {AgedInput(l, c) :
                  l \in Levels, c \in BOOLEAN}
  <2>1. PICK l \in Levels, c \in BOOLEAN :
          t = AgedInput(l, c)
    BY <1>2
  <2>2. NoInput \in Inputs
    BY NoInputIn
  <2>3. QED BY <2>1, <2>2 DEF Inputs, AgedInput
<1>3. QED BY <1>1, <1>2 DEF ManageInputs
-----------------------------------------------------------------------------
(* Handlers *)

\* on_real_tick leaves a world that is right.
LEMMA TickEnds ==
  ASSUME OrdersAssumption, OrdersInv, NEW s \in Symbol, NEW t \in TickInputs(engine, s),
         OnRealTick(s, t)
  PROVE  run.up /\ \E w : Sound(w) /\ Effect(w, t.ok)
<1> DEFINE a == CheckAutoExit(World, s, t)
           b == CheckStaleSell(a, s, t, Len(engine.orders))
           p == engine.gate[s].resell > 0
           c == RetrySell(b, s, t, p)
           w == OnTick(c, s, t)
<1>1. run.up /\ Effect(w, t.ok)
  BY DEF OnRealTick
<1>2. t \in Inputs /\ Context /\ p \in BOOLEAN
  BY TickInputsIn, UpFacts
<1> HIDE DEF p
<1>3. Sound(World)
  BY <1>1, UpFacts
<1>4. Sound(a)
  BY <1>2, <1>3, AutoExitSound
<1> HIDE DEF a
<1>5. Sound(b)
  BY <1>2, <1>4, StaleSellSound
<1> HIDE DEF b
<1>6. Sound(c)
  BY <1>2, <1>5, RetrySound
<1> HIDE DEF c
<1>7. Sound(w)
  BY <1>2, <1>6, TickSound
<1> HIDE DEF w
<1>8. QED BY <1>1, <1>7

\* manage_pending_orders leaves a world that is right.
LEMMA ManageEnds ==
  ASSUME OrdersAssumption, OrdersInv,
         NEW t \in [Symbol -> UNION {ManageInputs(s) : s \in Symbol}],
         \A s \in Symbol : t[s] \in ManageInputs(s), ManagePendingOrders(t)
  PROVE  run.up /\ \E w, ok : Sound(w) /\ Effect(w, ok)
<1> DEFINE a == ForceExits(World, t)
           w == ManageSells(a, t)
           ok == \A s \in Symbol : t[s].ok
<1>1. run.up /\ Effect(w, ok)
  BY DEF ManagePendingOrders
<1>2. t \in [Symbol -> Inputs]
  <2>1. \A s \in Symbol : t[s] \in Inputs
    BY ManageInputsIn
  <2>2. t = [s \in Symbol |-> t[s]]
    OBVIOUS
  <2>3. QED BY <2>1, <2>2
<1>3. Sound(World) /\ Context
  BY <1>1, UpFacts
<1>4. Sound(a)
  BY <1>2, <1>3, ForceExitsSound
<1> HIDE DEF a
<1>5. Sound(w)
  BY <1>2, <1>3, <1>4, ManageSellsSound
<1> HIDE DEF w, ok
<1>6. QED BY <1>1, <1>5

\* Both handlers keep the invariant.
LEMMA TickKeeps ==
  ASSUME OrdersAssumption, OrdersInv, NEW s \in Symbol, NEW t \in TickInputs(engine, s),
         OnRealTick(s, t)
  PROVE  OrdersInv'
<1>1. run.up /\ \E w : Sound(w) /\ Effect(w, t.ok)
  BY TickEnds
<1>2. QED BY <1>1, EffectKeeps

\* So does the order timer.
LEMMA ManageKeeps ==
  ASSUME OrdersAssumption, OrdersInv,
         NEW t \in [Symbol -> UNION {ManageInputs(s) : s \in Symbol}],
         \A s \in Symbol : t[s] \in ManageInputs(s), ManagePendingOrders(t)
  PROVE  OrdersInv'
<1>1. run.up /\ \E w, ok : Sound(w) /\ Effect(w, ok)
  BY ManageEnds
<1>2. QED BY <1>1, EffectKeeps

\* A fill report leaves the number of orders as it is.
LEMMA FillKeepsCount ==
  ASSUME OrdersAssumption, Context, NEW e, NEW x, MemoryOK(e, x),
         NEW f, Reports(e, x, f), NEW level \in Int
  PROVE  Len(OnFill(e, f, level).orders) = Len(e.orders)
<1> DEFINE id == BindBrokerOrderId(e, f)
           n  == NormalizeFillQty(e, f, id)
           g  == OnFill(e, f, level)
<1>1. e \in Memory /\ x \in Account /\ OrdersOK(e.orders) /\ BoundOK(e, x)
  BY DEF MemoryOK
<1>2. g \in Memory /\ FillOf(e, f, id, n, g)
  BY <1>1, FillEffect
<1> HIDE DEF g
<1>3. TableAfter(e.orders, g.orders, f, id, n)
  BY <1>1, <1>2, FillTable
<1>4. QED BY <1>3 DEF TableAfter, g

\* Type of the store after a report.
LEMMA RecordedFill ==
  ASSUME OrdersInv, NEW f, Reports(engine, exchange, f)
  PROVE  RecordFill(engine, f) \in [Symbol -> Route]
<1> DEFINE id == BindBrokerOrderId(engine, f)
<1>1. engine \in Memory /\ exchange \in Account /\ BoundOK(engine, exchange)
      /\ store \in [Symbol -> Route] /\ clock.day \in 1..MaxDays
  BY UpFacts DEF MemoryOK
<1>2. id # 0 => id \in DOMAIN engine.orders
  BY <1>1, FillTarget
<1>3. id # 0 => engine.orders[id].route \in Strategy \cup {NoStrategy}
  <2>1. id # 0 => engine.orders[id] \in Order
    BY <1>1, <1>2, MemoryFacts
  <2>2. QED BY <2>1 DEF Order
<1>4. FillRoute(engine, f) = [strategy |-> IF id = 0 THEN NoStrategy ELSE engine.orders[id].route,
                              day |-> clock.day]
  BY DEF FillRoute
<1> HIDE DEF id
<1>5. clock.day \in 0..MaxDays
  BY <1>1
<1>6. FillRoute(engine, f) \in Route
  BY <1>3, <1>4, <1>5 DEF Route
<1>7. QED BY <1>1, <1>6 DEF RecordFill

\* _on_receive_chejan_data keeps the invariant; a report that is taken for one of
\* an order of the other side makes the run blind.
LEMMA ChejanKeeps ==
  ASSUME OrdersAssumption, OrdersInv, NEW level \in FillLevels \cup {0},
         NEW again \in BOOLEAN, OnReceiveChejan(level, again)
  PROVE  OrdersInv'
<1> DEFINE f == Head(exchange.reports)
           g == OnFill(engine, f, level)
           y == [exchange EXCEPT !.reports = IF again THEN @ ELSE Tail(@)]
           b == run.blind \/ Mistaken(engine, f)
<1>1. /\ run.up /\ exchange.reports # <<>>
      /\ engine' = g /\ exchange' = y /\ store' = RecordFill(engine, f)
      /\ run' = [run EXCEPT !.faults = @ + (IF again THEN 1 ELSE 0),
                            !.blind = @ \/ Mistaken(engine, f)]
      /\ mode' = mode /\ clock' = clock /\ clean' = clean
  BY DEF OnReceiveChejan
<1>2. /\ Context /\ MemoryOK(engine, exchange) /\ AccountOK(exchange)
      /\ exchange \in Account /\ WorldOK(engine, exchange) /\ clean \subseteq Symbol
      /\ Len(engine.orders) <= MaxOrders /\ Len(exchange.orders) <= MaxSent
      /\ run \in [up : BOOLEAN, linked : BOOLEAN, boots : Nat, faults : Nat, blind : BOOLEAN]
  BY <1>1, UpFacts DEF OrdersInv
<1>3. exchange.reports \in Seq(Report) /\ ReportsOK(exchange)
  BY <1>2 DEF Account, AccountOK
<1>4. level \in Int
  BY DEF OrdersAssumption
<1>5. Reports(engine, exchange, f)
  <2>1. f \in Report /\ 1 \in DOMAIN exchange.reports /\ f = exchange.reports[1]
    BY <1>1, <1>3
  <2> HIDE DEF f
  <2>2. f.no \in DOMAIN exchange.orders /\ f.sym = exchange.orders[f.no].sym
    BY <1>3, <2>1 DEF ReportsOK
  <2>3. QED BY <2>1, <2>2 DEF Reports, Report
<1> HIDE DEF f
<1>6. MemoryOK(g, exchange) /\ Len(g.orders) = Len(engine.orders)
  BY <1>2, <1>4, <1>5, FillKeepsMemory, FillKeepsCount
<1>7. AccountOK(y) /\ y.orders = exchange.orders
  <2> DEFINE q == IF again THEN exchange.reports ELSE Tail(exchange.reports)
  <2>1. q \in Seq(Report)
    BY <1>1, <1>3
  <2>2. \A i \in DOMAIN q : \E j \in DOMAIN exchange.reports : q[i] = exchange.reports[j]
    <3>1. CASE again
      BY <3>1
    <3>2. CASE ~again
      <4>1. \A i \in DOMAIN Tail(exchange.reports) :
              i + 1 \in DOMAIN exchange.reports
                /\ Tail(exchange.reports)[i] = exchange.reports[i + 1]
        BY <1>1, <1>3
      <4>2. QED BY <3>2, <4>1
    <3>3. QED BY <3>1, <3>2
  <2> HIDE DEF q
  <2>3. y = [exchange EXCEPT !.reports = q]
    BY DEF q
  <2> HIDE DEF y
  <2>4. y \in Account /\ y.orders = exchange.orders /\ y.held = exchange.held /\ y.reports = q
    BY <1>2, <2>1, <2>3 DEF Account
  <2>5. ReportsOK(y)
    BY <1>3, <2>2, <2>4 DEF ReportsOK
  <2>6. QED BY <1>2, <2>4, <2>5 DEF AccountOK, HeldOK
<1> HIDE DEF g, y
<1>8. MemoryOK(g, y)
  BY <1>6, <1>7 DEF MemoryOK, AccountOK, BoundOK
<1>9. b \/ \A s \in Symbol : SymbolOK(g, s)
  <2>1. SUFFICES ASSUME ~b PROVE \A s \in Symbol : SymbolOK(g, s)
    OBVIOUS
  <2>2. ASSUME NEW s \in Symbol PROVE SymbolOK(g, s)
    <3>1. SymbolOK(engine, s) /\ ~Mistaken(engine, f)
      BY <1>2, <2>1 DEF WorldOK
    <3>2. QED BY <1>2, <1>4, <1>5, <3>1, FillKeepsSymbols DEF g
  <2>3. QED BY <2>2
<1>10. mode = "live" /\ ~Overnight => g.today = clock.day /\ StopsOK(g)
  BY <1>2, <1>4, <1>5, FillKeepsStops DEF WorldOK, g
<1>11. /\ run'.up /\ run'.blind = b
       /\ run' \in [up : BOOLEAN, linked : BOOLEAN, boots : Nat, faults : Nat, blind : BOOLEAN]
  <2> DEFINE n == run.faults + (IF again THEN 1 ELSE 0)
  <2>1. run.faults \in Nat /\ run.blind \in BOOLEAN
    BY <1>2
  <2>2. n \in Nat
    BY <2>1
  <2>3. b \in BOOLEAN
    OBVIOUS
  <2>4. run' = [run EXCEPT !.faults = n, !.blind = b]
    BY <1>1, <1>2
  <2> HIDE DEF b, n
  <2>5. QED BY <1>1, <1>2, <2>2, <2>3, <2>4
<1> HIDE DEF b
<1>12. MemoryOK(engine, exchange)'
  BY <1>1, <1>8 DEF MemoryOK, OrdersOK, BoundOK, GateOK, ReportsOK, HeldOK, Claims, Claim,
         Pending, Remaining
<1>13. (run.blind \/ \A s \in Symbol : SymbolOK(engine, s))'
  BY <1>1, <1>9, <1>11 DEF SymbolOK
<1>14. (mode = "live" /\ ~Overnight => engine.today = clock.day /\ StopsOK(engine))'
  BY <1>1, <1>10 DEF StopsOK
<1>15. WorldOK(engine, exchange)'
  BY <1>12, <1>13, <1>14 DEF WorldOK
<1>16. Context' /\ store' \in [Symbol -> Route] /\ clean' \subseteq Symbol
  BY <1>1, <1>2, <1>5, <1>11, RecordedFill DEF Context
<1>17. (Len(engine.orders) <= MaxOrders /\ Len(exchange.orders) <= MaxSent)'
  BY <1>1, <1>2, <1>6, <1>7
<1>18. QED BY <1>11, <1>12, <1>13, <1>15, <1>16, <1>17 DEF OrdersInv
-----------------------------------------------------------------------------
(* Starts, recoveries and ends *)

\* A start keeps the invariant.
LEMMA BootKeeps ==
  ASSUME OrdersAssumption, OrdersInv, NEW account \in BOOLEAN, NEW pending \in BOOLEAN,
         Boot(account, pending)
  PROVE  OrdersInv'
<1> DEFINE e == Fresh(clock.day)
           f == Sync(e, account, pending)
           both == account /\ pending
           n == run.faults + (IF both THEN 0 ELSE 1)
<1>1. /\ engine' = f /\ Len(f.orders) <= MaxOrders /\ exchange' = exchange
      /\ run' = [run EXCEPT !.up = TRUE, !.linked = TRUE, !.boots = run.boots + 1,
                            !.faults = n, !.blind = ~both]
      /\ clean' = IF both THEN {s \in Symbol : Cardinality(Unsettled(exchange, s)) <= 1} ELSE {}
      /\ mode' = mode /\ clock' = clock /\ store' = store
  BY DEF Boot
<1>2. /\ Context /\ AccountOK(exchange) /\ store \in [Symbol -> Route]
      /\ Len(exchange.orders) <= MaxSent /\ clock.day \in Nat
      /\ run \in [up : BOOLEAN, linked : BOOLEAN, boots : Nat, faults : Nat, blind : BOOLEAN]
  BY UpFacts
<1>3. MemoryOK(e, exchange) /\ e.today = clock.day /\ StopsOK(e)
  BY <1>2, FreshMemory
<1> HIDE DEF e
<1>4. MemoryOK(f, exchange) /\ f.today = clock.day /\ StopsOK(f)
  BY <1>2, <1>3, Synced
<1>5. ~both \/ \A s \in Symbol : SymbolOK(f, s)
  <2>1. SUFFICES ASSUME both, NEW s \in Symbol PROVE SymbolOK(f, s)
    OBVIOUS
  <2>2. f = Sync(Fresh(clock.day), TRUE, TRUE)
    BY <2>1 DEF e, Sync
  <2> HIDE DEF f
  <2>3. QED BY <1>2, <2>2, StartSymbols
<1> HIDE DEF f
<1>6. /\ run'.up /\ run'.blind = ~both
      /\ run' \in [up : BOOLEAN, linked : BOOLEAN, boots : Nat, faults : Nat, blind : BOOLEAN]
  <2>1. n \in Nat /\ run.boots + 1 \in Nat
    BY <1>2
  <2>2. (~both) \in BOOLEAN
    OBVIOUS
  <2> HIDE DEF n, both
  <2>3. QED BY <1>1, <1>2, <2>1, <2>2
<1>7. MemoryOK(engine, exchange)'
  BY <1>1, <1>4 DEF MemoryOK, OrdersOK, BoundOK, GateOK, ReportsOK, HeldOK, Claims, Claim,
         Pending, Remaining
<1>8. (run.blind \/ \A s \in Symbol : SymbolOK(engine, s))'
  BY <1>1, <1>5, <1>6 DEF SymbolOK
<1>9. (mode = "live" /\ ~Overnight => engine.today = clock.day /\ StopsOK(engine))'
  BY <1>1, <1>4 DEF StopsOK
<1>10. WorldOK(engine, exchange)'
  BY <1>7, <1>8, <1>9 DEF WorldOK
<1>11. Context' /\ store' \in [Symbol -> Route] /\ clean' \subseteq Symbol
  BY <1>1, <1>2, <1>6 DEF Context
<1>12. (Len(engine.orders) <= MaxOrders /\ Len(exchange.orders) <= MaxSent)'
  BY <1>1, <1>2
<1>13. QED BY <1>6, <1>7, <1>8, <1>10, <1>11, <1>12 DEF OrdersInv

\* A recovery keeps the invariant; it makes the run blind.
LEMMA RecoverKeeps ==
  ASSUME OrdersAssumption, OrdersInv, NEW account \in BOOLEAN, NEW pending \in BOOLEAN,
         Recover(account, pending)
  PROVE  OrdersInv'
<1> DEFINE f == Sync(engine, account, pending)
           n == run.faults + (IF account /\ pending THEN 0 ELSE 1)
<1>1. /\ run.up /\ engine' = f /\ Len(f.orders) <= MaxOrders /\ exchange' = exchange
      /\ run' = [run EXCEPT !.linked = TRUE, !.blind = TRUE, !.faults = n]
      /\ clean' = {} /\ mode' = mode /\ clock' = clock /\ store' = store
  BY DEF Recover
<1>2. /\ Context /\ MemoryOK(engine, exchange) /\ store \in [Symbol -> Route]
      /\ Len(exchange.orders) <= MaxSent /\ WorldOK(engine, exchange)
      /\ run \in [up : BOOLEAN, linked : BOOLEAN, boots : Nat, faults : Nat, blind : BOOLEAN]
  BY <1>1, UpFacts DEF OrdersInv
<1>3. /\ MemoryOK(f, exchange) /\ f.today = engine.today
      /\ StopsOK(engine) => StopsOK(f)
  BY <1>2, Synced
<1> HIDE DEF f
<1>4. /\ run'.up /\ run'.blind
      /\ run' \in [up : BOOLEAN, linked : BOOLEAN, boots : Nat, faults : Nat, blind : BOOLEAN]
  <2>1. n \in Nat
    BY <1>2
  <2> HIDE DEF n
  <2>2. QED BY <1>1, <1>2, <2>1
<1>5. MemoryOK(engine, exchange)'
  BY <1>1, <1>3 DEF MemoryOK, OrdersOK, BoundOK, GateOK, ReportsOK, HeldOK, Claims, Claim,
         Pending, Remaining
<1>6. (mode = "live" /\ ~Overnight => engine.today = clock.day /\ StopsOK(engine))'
  <2>1. ASSUME mode = "live", ~Overnight PROVE f.today = clock.day /\ StopsOK(f)
    BY <1>2, <1>3, <2>1 DEF WorldOK
  <2>2. QED BY <1>1, <2>1 DEF StopsOK
<1>7. WorldOK(engine, exchange)'
  BY <1>4, <1>5, <1>6 DEF WorldOK
<1>8. Context' /\ store' \in [Symbol -> Route] /\ clean' \subseteq Symbol
  BY <1>1, <1>2, <1>4 DEF Context
<1>9. (Len(engine.orders) <= MaxOrders /\ Len(exchange.orders) <= MaxSent)'
  BY <1>1, <1>2
<1>10. QED BY <1>4, <1>5, <1>7, <1>8, <1>9 DEF OrdersInv

\* The account without the reports under way.
LEMMA Forgotten ==
  ASSUME NEW x, AccountOK(x)
  PROVE  LET y == [x EXCEPT !.reports = <<>>]
         IN  AccountOK(y) /\ y.orders = x.orders
<1> DEFINE y == [x EXCEPT !.reports = <<>>]
<1>1. x \in Account /\ <<>> \in Seq(Report)
  BY DEF AccountOK
<1>2. /\ y \in Account /\ y.orders = x.orders /\ y.held = x.held
      /\ y.reports = <<>>
  BY <1>1 DEF Account
<1> HIDE DEF y
<1>3. DOMAIN y.reports = {}
  BY <1>2
<1>4. AccountOK(y)
  BY <1>2, <1>3 DEF AccountOK, ReportsOK, HeldOK
<1>5. QED BY <1>2, <1>4 DEF y

\* The end of the process keeps the invariant.
LEMMA StopKeeps ==
  ASSUME OrdersAssumption, OrdersInv, Stop
  PROVE  OrdersInv'
<1> DEFINE e == Fresh(clock.day)
           y == [exchange EXCEPT !.reports = <<>>]
           n == run.faults + (IF Phase = "closed" THEN 0 ELSE 1)
<1>1. /\ engine' = e /\ exchange' = y
      /\ run' = [run EXCEPT !.up = FALSE, !.linked = FALSE, !.faults = n]
      /\ mode' = mode /\ clock' = clock /\ store' = store /\ clean' = clean
  BY DEF Stop
<1>2. /\ Context /\ AccountOK(exchange) /\ store \in [Symbol -> Route] /\ clean \subseteq Symbol
      /\ Len(exchange.orders) <= MaxSent /\ clock.day \in Nat
      /\ run \in [up : BOOLEAN, linked : BOOLEAN, boots : Nat, faults : Nat, blind : BOOLEAN]
  BY UpFacts
<1>3. AccountOK(y) /\ y.orders = exchange.orders
  BY <1>2, Forgotten
<1> HIDE DEF y
<1>4. /\ MemoryOK(e, y) /\ e.orders = <<>> /\ \A s \in Symbol : SymbolOK(e, s)
  BY <1>2, <1>3, FreshMemory
<1> HIDE DEF e
<1>5. /\ ~run'.up
      /\ run' \in [up : BOOLEAN, linked : BOOLEAN, boots : Nat, faults : Nat, blind : BOOLEAN]
  <2>1. n \in Nat
    BY <1>2
  <2> HIDE DEF n
  <2>2. QED BY <1>1, <1>2, <2>1
<1>6. MemoryOK(engine, exchange)'
  BY <1>1, <1>4 DEF MemoryOK, OrdersOK, BoundOK, GateOK, ReportsOK, HeldOK, Claims, Claim,
         Pending, Remaining
<1>7. (run.blind \/ \A s \in Symbol : SymbolOK(engine, s))'
  BY <1>1, <1>4 DEF SymbolOK
<1>8. Context' /\ store' \in [Symbol -> Route] /\ clean' \subseteq Symbol
  BY <1>1, <1>2, <1>5 DEF Context
<1>9. (engine.orders = <<>> /\ Len(engine.orders) <= MaxOrders /\ Len(exchange.orders) <= MaxSent)'
  <2>1. MaxOrders \in Nat /\ Len(<<>>) = 0
    BY DEF OrdersAssumption
  <2>2. QED BY <1>1, <1>2, <1>3, <1>4, <2>1
<1>10. QED BY <1>5, <1>6, <1>7, <1>8, <1>9 DEF OrdersInv
-----------------------------------------------------------------------------
(* The environment *)

\* A step of the exchange only.
LEMMA ExchangeKeeps ==
  ASSUME OrdersAssumption, OrdersInv, AccountOK(exchange)',
         Len(exchange'.orders) = Len(exchange.orders),
         \A n \in DOMAIN exchange.orders :
           n \in DOMAIN exchange'.orders /\ exchange'.orders[n].sym = exchange.orders[n].sym,
         UNCHANGED <<mode, engine, store, clock>>, clean' \subseteq clean,
         run'.up = run.up, run'.blind = run.blind,
         run' \in [up : BOOLEAN, linked : BOOLEAN, boots : Nat, faults : Nat, blind : BOOLEAN]
  PROVE  OrdersInv'
<1>1. BoundOK(engine, exchange)'
  <2>1. BoundOK(engine, exchange)
    BY DEF OrdersInv, MemoryOK
  <2>2. QED BY <2>1 DEF BoundOK
<1>2. MemoryOK(engine, exchange)'
  BY <1>1 DEF OrdersInv, MemoryOK, AccountOK, OrdersOK, GateOK, ReportsOK, HeldOK, Claims,
              Claim, Pending, Remaining
<1>3. (run.blind \/ \A s \in Symbol : SymbolOK(engine, s))'
  BY DEF OrdersInv, SymbolOK
<1>4. (run.up => (mode = "live" /\ ~Overnight => engine.today = clock.day /\ StopsOK(engine)))'
  BY DEF OrdersInv, WorldOK, StopsOK
<1>5. Context' /\ store' \in [Symbol -> Route] /\ clean' \subseteq Symbol
  BY DEF OrdersInv, Context
<1>6. (Len(engine.orders) <= MaxOrders /\ Len(exchange.orders) <= MaxSent)'
  BY DEF OrdersInv
<1>7. (~run.up => engine.orders = <<>>)'
  BY DEF OrdersInv
<1>8. QED BY <1>2, <1>3, <1>4, <1>5, <1>6, <1>7 DEF OrdersInv, WorldOK

\* A lost connection keeps the invariant.
LEMMA DisconnectKeeps ==
  ASSUME OrdersAssumption, OrdersInv, Disconnect
  PROVE  OrdersInv'
<1> DEFINE y == [exchange EXCEPT !.reports = <<>>]
           n == run.faults + 1
<1>1. /\ exchange' = y /\ run' = [run EXCEPT !.linked = FALSE, !.faults = n]
      /\ clean' \subseteq clean /\ UNCHANGED <<mode, engine, store, clock>>
  BY DEF Disconnect
<1>2. AccountOK(exchange)
      /\ run \in [up : BOOLEAN, linked : BOOLEAN, boots : Nat, faults : Nat, blind : BOOLEAN]
  BY UpFacts
<1>3. AccountOK(y) /\ y.orders = exchange.orders
  BY <1>2, Forgotten
<1> HIDE DEF y
<1>4. AccountOK(exchange)'
  BY <1>1, <1>3 DEF AccountOK, OrdersOK, ReportsOK, HeldOK, Claims, Claim, Pending, Remaining
<1>5. /\ run'.up = run.up /\ run'.blind = run.blind
      /\ run' \in [up : BOOLEAN, linked : BOOLEAN, boots : Nat, faults : Nat, blind : BOOLEAN]
  <2>1. n \in Nat
    BY <1>2
  <2> HIDE DEF n
  <2>2. QED BY <1>1, <1>2, <2>1
<1>6. QED BY <1>1, <1>3, <1>4, <1>5, ExchangeKeeps

\* The end of an order at the exchange keeps the invariant.
LEMMA CloseKeeps ==
  ASSUME OrdersAssumption, OrdersInv, NEW n \in DOMAIN exchange.orders, ExchangeClose(n)
  PROVE  OrdersInv'
<1> DEFINE q == exchange.orders
           o == [q[n] EXCEPT !.st = "done"]
           p == [q EXCEPT ![n] = o]
           y == [exchange EXCEPT !.orders = p]
<1>1. /\ AccountOK(exchange) /\ exchange \in Account /\ q \in Seq(ExchangeOrder)
      /\ DOMAIN q = 1..Len(q) /\ Len(q) \in Nat /\ q[n] \in ExchangeOrder /\ OrdersOK(q)
      /\ HeldOK(exchange) /\ ReportsOK(exchange)
      /\ run \in [up : BOOLEAN, linked : BOOLEAN, boots : Nat, faults : Nat, blind : BOOLEAN]
  <2>1. AccountOK(exchange) /\ exchange \in Account
        /\ run \in [up : BOOLEAN, linked : BOOLEAN, boots : Nat, faults : Nat, blind : BOOLEAN]
    BY UpFacts
  <2>2. q \in Seq(ExchangeOrder)
    BY <2>1 DEF Account
  <2>3. QED BY <2>1, <2>2 DEF AccountOK
<1>2. exchange' = y
  BY <1>1 DEF ExchangeClose, Account, ExchangeOrder
<1>3. UNCHANGED <<mode, engine, store, clock, run, clean>>
  BY DEF ExchangeClose
<1>4. /\ o \in ExchangeOrder /\ o.st = "done" /\ o.sym = q[n].sym /\ o.side = q[n].side
      /\ ~Pending(o)
  BY <1>1 DEF ExchangeOrder, Pending
<1> HIDE DEF o, q
<1>5. /\ p \in Seq(ExchangeOrder) /\ DOMAIN p = DOMAIN q /\ Len(p) = Len(q) /\ p[n] = o
      /\ \A i \in DOMAIN q \ {n} : p[i] = q[i]
  BY <1>1, <1>4 DEF q
<1> HIDE DEF p
<1>6. y \in Account /\ y.orders = p /\ y.held = exchange.held /\ y.reports = exchange.reports
  BY <1>1, <1>5 DEF Account
<1> HIDE DEF y
<1>7. OrdersOK(p)
  BY <1>1, <1>4, <1>5 DEF OrdersOK
<1>8. HeldOK(y)
  <2>1. ASSUME NEW z \in Symbol PROVE Claims(p, z) <= exchange.held[z]
    <3>1. Countable(q) /\ Countable(p)
      BY <1>1, <1>5, <1>7, CountableOrders
    <3>2. Claims(p, z) = Claims(q, z) - Claim(q[n], z) + Claim(o, z)
      BY <1>5, <3>1, ClaimsChange DEF q
    <3>3. Claim(o, z) = 0 /\ Claim(q[n], z) \in Nat /\ Claims(q, z) \in Nat
      BY <1>4, <3>1, ClaimRange, ClaimsType DEF Claim, q
    <3>4. Claims(q, z) <= exchange.held[z] /\ exchange.held[z] \in Nat
      BY <1>1 DEF HeldOK, Account, q
    <3>5. QED BY <3>2, <3>3, <3>4
  <2>2. QED BY <1>6, <2>1 DEF HeldOK
<1>9. ReportsOK(y)
  <2>1. \A i \in DOMAIN q : i \in DOMAIN p /\ p[i].sym = q[i].sym /\ p[i].side = q[i].side
    BY <1>4, <1>5
  <2>2. \A i \in DOMAIN y.reports :
          LET r == y.reports[i]
          IN  r.no \in DOMAIN q /\ r.sym = q[r.no].sym /\ r.side = q[r.no].side
    BY <1>1, <1>6 DEF ReportsOK, q
  <2>3. QED BY <1>6, <2>1, <2>2 DEF ReportsOK
<1>10. AccountOK(y)
  BY <1>6, <1>7, <1>8, <1>9 DEF AccountOK
<1>11. AccountOK(exchange)'
  BY <1>2, <1>10 DEF AccountOK, OrdersOK, ReportsOK, HeldOK, Claims, Claim, Pending, Remaining
<1>12. \A i \in DOMAIN exchange.orders :
         i \in DOMAIN exchange'.orders /\ exchange'.orders[i].sym = exchange.orders[i].sym
  BY <1>2, <1>4, <1>5, <1>6 DEF q
<1>13. Len(exchange'.orders) = Len(exchange.orders)
  BY <1>2, <1>5, <1>6 DEF q
<1>14. QED BY <1>1, <1>3, <1>11, <1>12, <1>13, ExchangeKeeps

\* A fill at the exchange keeps the invariant.
LEMMA FillKeeps ==
  ASSUME OrdersAssumption, OrdersInv, NEW n \in DOMAIN exchange.orders,
         NEW k \in 1..Remaining(exchange.orders[n]), ExchangeFill(n, k)
  PROVE  OrdersInv'
<1> DEFINE x == exchange
           q == x.orders
           c == q[n]
           d == IF k = Remaining(c) THEN "done" ELSE c.st
           l == c.filled + k
           o == [c EXCEPT !.filled = l, !.st = d]
           p == [q EXCEPT ![n] = o]
           m == IF c.side = "BUY" THEN x.held[c.sym] + k ELSE x.held[c.sym] - k
           h == [x.held EXCEPT ![c.sym] = m]
           r == [no |-> n, sym |-> c.sym, side |-> c.side, cum |-> c.filled + k,
                 unfilled |-> Remaining(c) - k]
           u == IF run.linked THEN Append(x.reports, r) ELSE x.reports
           y == [x EXCEPT !.orders = p, !.held = h, !.reports = u]
<1>1. /\ AccountOK(x) /\ x \in Account /\ q \in Seq(ExchangeOrder)
      /\ DOMAIN q = 1..Len(q) /\ Len(q) \in Nat /\ c \in ExchangeOrder /\ OrdersOK(q)
      /\ HeldOK(x) /\ ReportsOK(x)
      /\ x.held \in [Symbol -> Nat] /\ x.reports \in Seq(Report) /\ Countable(q)
      /\ run \in [up : BOOLEAN, linked : BOOLEAN, boots : Nat, faults : Nat, blind : BOOLEAN]
  <2>1. AccountOK(x) /\ x \in Account
        /\ run \in [up : BOOLEAN, linked : BOOLEAN, boots : Nat, faults : Nat, blind : BOOLEAN]
    BY UpFacts
  <2>2. q \in Seq(ExchangeOrder) /\ x.held \in [Symbol -> Nat] /\ x.reports \in Seq(Report)
    BY <2>1 DEF Account
  <2>3. OrdersOK(q)
    BY <2>1 DEF AccountOK
  <2>4. QED BY <2>1, <2>2, <2>3, CountableOrders DEF AccountOK
<1>2. /\ c.sym \in Symbol /\ c.side \in Sides /\ c.qty \in Nat \ {0} /\ c.filled \in Nat
      /\ c.st \in {"live", "canceling", "done"}
  BY <1>1 DEF ExchangeOrder
<1>3. /\ c.st # "done" /\ exchange' = y /\ clean' \subseteq clean
      /\ UNCHANGED <<mode, engine, store, clock, run>>
  <2>1. exchange' = [exchange EXCEPT !.orders[n] = o,
           !.held[c.sym] = IF c.side = "BUY" THEN @ + k ELSE @ - k,
           !.reports = IF run.linked THEN Append(@, r) ELSE @]
    BY DEF ExchangeFill
  <2>2. [x EXCEPT !.orders[n] = o,
           !.held[c.sym] = IF c.side = "BUY" THEN @ + k ELSE @ - k,
           !.reports = IF run.linked THEN Append(@, r) ELSE @] = y
    <3>1. x \in Account
      BY <1>1
    <3> HIDE DEF c, r, o, x
    <3>2. QED BY ONLY <3>1 DEF Account, y, p, q, h, m, u
  <2>3. QED BY <2>1, <2>2 DEF ExchangeFill
<1>4. k \in Nat \ {0} /\ k <= Remaining(c) /\ Remaining(c) = c.qty - c.filled
      /\ c.filled < c.qty /\ Pending(c)
  <2>1. Pending(c)
    BY <1>2, <1>3 DEF Pending
  <2>2. c.filled < c.qty
    BY <1>1, <2>1 DEF OrdersOK
  <2>3. QED BY <1>2, <2>1, <2>2 DEF Remaining
<1>5. /\ o \in ExchangeOrder /\ o.sym = c.sym /\ o.side = c.side /\ o.qty = c.qty
      /\ o.filled = c.filled + k /\ o.st = IF k = Remaining(c) THEN "done" ELSE c.st
  <2>1. d \in {"live", "canceling", "done"} /\ l \in Nat
    BY <1>2, <1>4
  <2>2. o.filled = l /\ o.st = d /\ o.sym = c.sym /\ o.side = c.side /\ o.qty = c.qty
        /\ o \in ExchangeOrder
    <3> HIDE DEF c, d, l
    <3>1. QED BY <1>1, <2>1 DEF ExchangeOrder
  <2>3. QED BY <2>2
<1>6. /\ Pending(o) => o.filled < o.qty
      /\ o.st # "FILLED"
      /\ \A z \in Symbol : Claim(o, z) = IF z = c.sym /\ c.side = "SELL" THEN Remaining(c) - k
                                         ELSE 0
      /\ \A z \in Symbol : Claim(c, z) = IF z = c.sym /\ c.side = "SELL" THEN Remaining(c)
                                         ELSE 0
  <2>1. Pending(o) <=> k # Remaining(c)
    BY <1>2, <1>3, <1>5 DEF Pending
  <2>2. Remaining(o) = Remaining(c) - k
    BY <1>2, <1>4, <1>5 DEF Remaining
  <2>3. o.st # "FILLED"
    BY <1>2, <1>5
  <2>4. Pending(o) => o.filled < o.qty
    BY <1>2, <1>4, <1>5, <2>1
  <2> HIDE DEF o, c
  <2>5. \A z \in Symbol : Claim(o, z) = IF z = c.sym /\ c.side = "SELL" THEN Remaining(c) - k
                                        ELSE 0
    BY <1>2, <1>4, <1>5, <2>1, <2>2 DEF Claim
  <2>6. \A z \in Symbol : Claim(c, z) = IF z = c.sym /\ c.side = "SELL" THEN Remaining(c)
                                        ELSE 0
    BY <1>4 DEF Claim
  <2>7. QED BY <2>3, <2>4, <2>5, <2>6
<1>7. r \in Report /\ r.no = n /\ r.sym = c.sym /\ r.side = c.side
  <2> DEFINE v == Remaining(c) - k
  <2>1. l \in Nat \ {0} /\ v \in Nat /\ n \in Nat
    <3>1. Remaining(c) \in Nat
      BY <1>2, <1>4
    <3>2. v \in Nat
      BY <1>4, <3>1
    <3>3. n \in Nat
      BY <1>1
    <3>4. c.filled \in Nat /\ k \in Nat \ {0}
      BY <1>2, <1>4
    <3> HIDE DEF c, v
    <3>5. QED BY <3>2, <3>3, <3>4
  <2> HIDE DEF l, v, c
  <2>2. r = [no |-> n, sym |-> c.sym, side |-> c.side, cum |-> l, unfilled |-> v]
    BY DEF l, v
  <2>3. QED BY <1>2, <2>1, <2>2 DEF Report
<1>8. /\ p \in Seq(ExchangeOrder) /\ DOMAIN p = DOMAIN q /\ Len(p) = Len(q) /\ p[n] = o
      /\ \A i \in DOMAIN q \ {n} : p[i] = q[i]
  <2> HIDE DEF o, q
  <2>1. n \in DOMAIN q
    BY DEF q
  <2>2. QED BY <1>1, <1>5, <2>1
<1>9. \A i \in DOMAIN q : i \in DOMAIN p /\ p[i].sym = q[i].sym /\ p[i].side = q[i].side
  <2> HIDE DEF p, o
  <2>1. QED BY <1>5, <1>8
<1> HIDE DEF p, o, r
<1>10. OrdersOK(p)
  <2>1. \A i \in DOMAIN p : i = n \/ p[i] = q[i]
    BY <1>8
  <2>2. QED BY <1>1, <1>6, <1>8, <2>1 DEF OrdersOK
<1>11. Countable(p)
  BY <1>8, <1>10, CountableOrders
<1>12. \A z \in Symbol : Claims(p, z) = Claims(q, z) - Claim(c, z) + Claim(o, z)
                         /\ Claims(q, z) \in Nat /\ Claim(c, z) <= Claims(q, z)
  <2>1. ASSUME NEW z \in Symbol PROVE Claims(p, z) = Claims(q, z) - Claim(q[n], z) + Claim(p[n], z)
    <3>1. Countable(q) /\ Countable(p) /\ DOMAIN p = DOMAIN q /\ n \in DOMAIN q
          /\ \A j \in DOMAIN q \ {n} : p[j] = q[j]
      BY <1>1, <1>8, <1>11
    <3> HIDE DEF q
    <3>2. QED BY ONLY <3>1, ClaimsChange
  <2>2. ASSUME NEW z \in Symbol PROVE Claims(q, z) \in Nat /\ Claim(q[n], z) <= Claims(q, z)
    BY <1>1, ClaimsType
  <2>3. QED BY <1>8, <2>1, <2>2
<1>13. /\ h \in [Symbol -> Nat]
       /\ \A z \in Symbol : Claims(p, z) <= h[z]
  <2>1. ASSUME NEW z \in Symbol PROVE h[z] \in Nat /\ Claims(p, z) <= h[z]
    <3> DEFINE a == Claims(q, z)
               b == x.held[z]
    <3>1. a \in Nat /\ b \in Nat /\ a <= b /\ Claim(c, z) <= a
          /\ Claims(p, z) = a - Claim(c, z) + Claim(o, z)
      BY <1>1, <1>12 DEF HeldOK
    <3>2. h[z] = IF z # c.sym THEN b ELSE IF c.side = "BUY" THEN b + k ELSE b - k
      BY <1>1, <1>2
    <3>3. c.side = "SELL" <=> c.side # "BUY"
      BY <1>2 DEF Sides
    <3>4. Remaining(c) \in Nat
      BY <1>2, <1>4
    <3> DEFINE w == Remaining(c)
    <3>5. /\ Claim(o, z) = IF z = c.sym /\ c.side # "BUY" THEN w - k ELSE 0
          /\ Claim(c, z) = IF z = c.sym /\ c.side # "BUY" THEN w ELSE 0
          /\ k \in Nat /\ k <= w /\ w \in Nat
      BY <1>4, <1>6, <3>3, <3>4
    <3> HIDE DEF a, b, h, w, q, c
    <3>6. QED BY <3>1, <3>2, <3>5
  <2>2. QED BY <1>1, <2>1
<1>14. /\ u \in Seq(Report)
       /\ \A i \in DOMAIN u : u[i] = r \/ \E j \in DOMAIN x.reports : u[i] = x.reports[j]
  <2>1. x.reports \in Seq(Report) /\ r \in Report
    BY <1>1, <1>7
  <2>2. QED BY <2>1
<1> HIDE DEF h, u
<1>15. y \in Account /\ y.orders = p /\ y.held = h /\ y.reports = u
  BY <1>1, <1>8, <1>13, <1>14 DEF Account
<1> HIDE DEF y
<1>16. ReportsOK(y)
  <2>1. ASSUME NEW i \in DOMAIN u
        PROVE  u[i].no \in DOMAIN p /\ u[i].sym = p[u[i].no].sym /\ u[i].side = p[u[i].no].side
    <3>1. CASE u[i] = r
      BY <1>7, <1>9, <3>1
    <3>2. CASE \E j \in DOMAIN x.reports : u[i] = x.reports[j]
      <4>1. PICK j \in DOMAIN x.reports : u[i] = x.reports[j]
        BY <3>2
      <4>2. u[i].no \in DOMAIN q /\ u[i].sym = q[u[i].no].sym /\ u[i].side = q[u[i].no].side
        BY <1>1, <4>1 DEF ReportsOK
      <4>3. QED BY <1>9, <4>2
    <3>3. QED BY <1>14, <3>1, <3>2
  <2>2. QED BY <1>15, <2>1 DEF ReportsOK
<1>17. AccountOK(y)
  BY <1>10, <1>13, <1>15, <1>16 DEF AccountOK, HeldOK
<1>18. AccountOK(exchange)'
  BY <1>3, <1>17 DEF AccountOK, OrdersOK, ReportsOK, HeldOK, Claims, Claim, Pending, Remaining
<1>19. \A i \in DOMAIN exchange.orders :
         i \in DOMAIN exchange'.orders /\ exchange'.orders[i].sym = exchange.orders[i].sym
  BY <1>3, <1>9, <1>15
<1>20. Len(exchange'.orders) = Len(exchange.orders)
  BY <1>3, <1>8, <1>15
<1>21. run'.up = run.up /\ run'.blind = run.blind
       /\ run' \in [up : BOOLEAN, linked : BOOLEAN, boots : Nat, faults : Nat, blind : BOOLEAN]
  BY <1>1, <1>3
<1>22. QED BY <1>3, <1>18, <1>19, <1>20, <1>21, ExchangeKeeps
\* The next phase of the day keeps the invariant.
LEMMA AdvanceKeeps ==
  ASSUME OrdersAssumption, OrdersInv, Advance
  PROVE  OrdersInv'
<1> DEFINE p == clock.phase + 1
<1>1. clock' = [clock EXCEPT !.phase = p] /\ clock.phase < Len(Phases)
      /\ UNCHANGED <<mode, engine, exchange, store, run, clean>>
  BY DEF Advance
<1>2. /\ Context
      /\ run.up => WorldOK(engine, exchange)
      /\ clock \in [day : 1..MaxDays, phase : DOMAIN Phases]
  BY DEF OrdersInv, Context
<1>3. DOMAIN Phases = 1..4 /\ Len(Phases) = 4
  BY DEF Phases
<1>4. p \in 1..4
  BY <1>1, <1>2, <1>3
<1> HIDE DEF p
<1>5. clock' \in [day : 1..MaxDays, phase : DOMAIN Phases] /\ clock'.day = clock.day
  BY <1>1, <1>2, <1>3, <1>4
<1>6. MemoryOK(engine, exchange)'
  <2>1. MemoryOK(engine, exchange)
    BY DEF OrdersInv
  <2>2. QED
    BY <1>1, <2>1 DEF MemoryOK, OrdersOK, BoundOK, GateOK, ReportsOK, HeldOK, Claims, Claim,
                      Pending, Remaining
<1>7. /\ (run.blind \/ \A s \in Symbol : SymbolOK(engine, s))'
      /\ (run.up => (mode = "live" /\ ~Overnight => engine.today = clock.day /\ StopsOK(engine)))'
  <2>1. run.blind \/ \A s \in Symbol : SymbolOK(engine, s)
    BY DEF OrdersInv
  <2>2. (\A s \in Symbol : SymbolOK(engine, s))' <=> \A s \in Symbol : SymbolOK(engine, s)
    BY <1>1 DEF SymbolOK
  <2>3. StopsOK(engine)' <=> StopsOK(engine)
    BY <1>1, <1>5 DEF StopsOK
  <2>4. run.up => (mode = "live" /\ ~Overnight => engine.today = clock.day /\ StopsOK(engine))
    BY <1>2 DEF WorldOK
  <2>5. QED BY <1>1, <1>5, <2>1, <2>2, <2>3, <2>4
<1>8. Context' /\ (store \in [Symbol -> Route] /\ clean \subseteq Symbol)'
  BY <1>1, <1>2, <1>5 DEF OrdersInv, Context
<1>9. /\ (Len(engine.orders) <= MaxOrders /\ Len(exchange.orders) <= MaxSent)'
      /\ (~run.up => engine.orders = <<>>)'
  BY <1>1 DEF OrdersInv
<1>10. QED BY <1>6, <1>7, <1>8, <1>9 DEF OrdersInv, WorldOK

\* A process that is up on the next day has outlived a night.
LEMMA NextDayKeeps ==
  ASSUME OrdersAssumption, OrdersInv, NextDay
  PROVE  OrdersInv'
<1> DEFINE d == clock.day + 1
           e == [engine EXCEPT !.forced = {}]
<1>1. /\ clock' = [day |-> d, phase |-> 1] /\ clock.day < MaxDays
      /\ run.up => Overnight
      /\ engine' = e /\ UNCHANGED <<mode, exchange, store, run, clean>>
  BY DEF NextDay
<1>2. /\ Context /\ engine \in Memory /\ exchange \in Account /\ MemoryOK(engine, exchange)
      /\ run.blind \/ \A s \in Symbol : SymbolOK(engine, s)
  BY DEF OrdersInv, MemoryOK
<1>3. d \in 1..MaxDays /\ 1 \in DOMAIN Phases
  <2>1. clock.day \in 1..MaxDays /\ MaxDays \in Nat
    BY <1>2 DEF Context, OrdersAssumption
  <2>2. d \in 1..MaxDays
    BY <1>1, <2>1
  <2>3. DOMAIN Phases = 1..4
    BY DEF Phases
  <2>4. QED BY <2>2, <2>3
<1>4. /\ e \in Memory /\ e.orders = engine.orders /\ e.bound = engine.bound
      /\ e.pos = engine.pos /\ e.gate = engine.gate /\ e.exit = engine.exit
      /\ e.cycle = engine.cycle
  BY <1>2 DEF Memory
<1> HIDE DEF d, e
<1>5. Context'
  <2>1. clock' \in [day : 1..MaxDays, phase : DOMAIN Phases]
    BY <1>1, <1>3
  <2>2. QED BY <1>1, <1>2, <2>1 DEF Context
<1>6. MemoryOK(engine, exchange)'
  BY <1>1, <1>2, <1>4 DEF MemoryOK, OrdersOK, BoundOK, GateOK, ReportsOK, HeldOK, Claims, Claim,
                          Pending, Remaining
<1>7. (run.blind \/ \A s \in Symbol : SymbolOK(engine, s))'
  BY <1>1, <1>2, <1>4 DEF SymbolOK
<1>8. (run.up => (mode = "live" /\ ~Overnight => engine.today = clock.day /\ StopsOK(engine)))'
  <2>1. run'.up => Overnight
    BY <1>1
  <2> DEFINE stops == (engine.today = clock.day /\ StopsOK(engine))'
             live == mode' = "live"
  <2> HIDE DEF stops, live
  <2>2. run'.up => (live /\ ~Overnight => stops)
    BY <2>1
  <2>3. QED BY <2>2 DEF stops, live
<1>9. /\ (Len(engine.orders) <= MaxOrders /\ Len(exchange.orders) <= MaxSent)'
      /\ (~run.up => engine.orders = <<>>)'
      /\ (store \in [Symbol -> Route] /\ clean \subseteq Symbol)'
  BY <1>1, <1>4 DEF OrdersInv
<1>10. QED BY <1>5, <1>6, <1>7, <1>8, <1>9 DEF OrdersInv, WorldOK
-----------------------------------------------------------------------------
(* The invariant *)

\* The invariant holds at the start.
LEMMA InitHolds ==
  ASSUME OrdersAssumption, Init
  PROVE  OrdersInv
<1>1. /\ mode \in Modes /\ engine = Fresh(1) /\ store = [s \in Symbol |-> NoRoute]
      /\ exchange.orders = <<>> /\ exchange.reports = <<>> /\ clean = Symbol
      /\ exchange = [orders |-> <<>>, held |-> [s \in Symbol |-> 0], reports |-> <<>>]
      /\ clock = [day |-> 1, phase |-> 1] /\ run = Idle
  BY DEF Init
<1>2. exchange \in Account /\ \A s \in Symbol : exchange.held[s] = 0
  <2>1. <<>> \in Seq(ExchangeOrder) /\ <<>> \in Seq(Report)
    OBVIOUS
  <2>2. [s \in Symbol |-> 0] \in [Symbol -> Nat]
    OBVIOUS
  <2>3. QED BY <1>1, <2>1, <2>2 DEF Account
<1>3. HeldOK(exchange)
  <2>1. ASSUME NEW s \in Symbol PROVE Claims(<<>>, s) = 0
    <3>1. Countable(<<>>)
      BY DEF Countable
    <3>2. \A i \in DOMAIN <<>> : Claim(<<>>[i], s) = 0
      OBVIOUS
    <3>3. QED BY <3>1, <3>2, ClaimsZero
  <2>2. QED BY <1>1, <1>2, <2>1 DEF HeldOK
<1>4. AccountOK(exchange)
  BY <1>1, <1>2, <1>3 DEF AccountOK, OrdersOK, ReportsOK
<1>5. /\ MemoryOK(engine, exchange) /\ engine.orders = <<>>
      /\ \A s \in Symbol : SymbolOK(engine, s)
  BY <1>1, <1>4, FreshMemory
<1>6. Context /\ ~run.up
  <2>1. 1 \in 1..MaxDays
    BY DaysAssumption DEF OrdersAssumption
  <2>2. 1 \in DOMAIN Phases
    BY DEF Phases
  <2>3. run \in [up : BOOLEAN, linked : BOOLEAN, boots : Nat, faults : Nat, blind : BOOLEAN]
        /\ ~run.up
    BY <1>1 DEF Idle
  <2>4. QED BY <1>1, <2>1, <2>2, <2>3 DEF Context
<1>7. store \in [Symbol -> Route]
  <2>1. NoRoute \in Route
    BY DEF NoRoute, Route, OrdersAssumption
  <2>2. QED BY <1>1, <2>1
<1>8. Len(engine.orders) <= MaxOrders /\ Len(exchange.orders) <= MaxSent
  <2>1. Len(<<>>) = 0 /\ MaxOrders \in Nat /\ MaxSent \in Nat
    BY DEF OrdersAssumption
  <2>2. QED BY <1>1, <1>5, <2>1
<1>9. QED BY <1>1, <1>5, <1>6, <1>7, <1>8 DEF OrdersInv

\* A step that changes nothing keeps the invariant.
LEMMA StutterKeeps ==
  ASSUME OrdersInv, UNCHANGED vars
  PROVE  OrdersInv'
<1>1. UNCHANGED <<mode, engine, exchange, store, clock, run, clean>>
  BY DEF vars
<1>2. MemoryOK(engine, exchange)' /\ (run.blind \/ \A s \in Symbol : SymbolOK(engine, s))'
  <2>1. MemoryOK(engine, exchange)
    BY DEF OrdersInv
  <2>2. MemoryOK(engine, exchange)'
    BY <1>1, <2>1 DEF MemoryOK, OrdersOK, BoundOK, GateOK, ReportsOK, HeldOK, Claims, Claim,
                      Pending, Remaining
  <2>3. QED BY <1>1, <2>2 DEF OrdersInv, SymbolOK
<1>3. (run.up => (mode = "live" /\ ~Overnight => engine.today = clock.day /\ StopsOK(engine)))'
  BY <1>1 DEF OrdersInv, WorldOK, StopsOK
<1>4. QED BY <1>1, <1>2, <1>3 DEF OrdersInv, WorldOK, Context

\* What the engine, the exchange and the account say of each other holds for any
\* number of stocks, orders, starts, days and faults.
THEOREM OrdersInvariant == Spec => []OrdersInv
<1>1. Init => OrdersInv
  BY InitHolds, OrdersAssumption
<1>2. OrdersInv /\ [Next]_vars => OrdersInv'
  <2> SUFFICES ASSUME OrdersInv, [Next]_vars PROVE OrdersInv'
    OBVIOUS
  <2>1. OrdersAssumption
    BY OrdersAssumption
  <2>2. ASSUME NEW s \in Symbol, NEW t \in TickInputs(engine, s), OnRealTick(s, t)
        PROVE  OrdersInv'
    BY <2>1, <2>2, TickKeeps
  <2>3. ASSUME NEW t \in [Symbol -> UNION {ManageInputs(s) : s \in Symbol}],
               \A s \in Symbol : t[s] \in ManageInputs(s), ManagePendingOrders(t)
        PROVE  OrdersInv'
    BY <2>1, <2>3, ManageKeeps
  <2>4. ASSUME NEW l \in FillLevels \cup {0}, NEW again \in BOOLEAN, OnReceiveChejan(l, again)
        PROVE  OrdersInv'
    BY <2>1, <2>4, ChejanKeeps
  <2>5. ASSUME NEW a \in BOOLEAN, NEW p \in BOOLEAN, Boot(a, p)
        PROVE  OrdersInv'
    BY <2>1, <2>5, BootKeeps
  <2>6. ASSUME NEW a \in BOOLEAN, NEW p \in BOOLEAN, Recover(a, p)
        PROVE  OrdersInv'
    BY <2>1, <2>6, RecoverKeeps
  <2>7. CASE Stop
    BY <2>1, <2>7, StopKeeps
  <2>8. CASE Disconnect
    BY <2>1, <2>8, DisconnectKeeps
  <2>9. ASSUME NEW n \in DOMAIN exchange.orders, ExchangeClose(n)
        PROVE  OrdersInv'
    BY <2>1, <2>9, CloseKeeps
  <2>10. ASSUME NEW n \in DOMAIN exchange.orders,
                NEW k \in 1..Remaining(exchange.orders[n]), ExchangeFill(n, k)
         PROVE  OrdersInv'
    BY <2>1, <2>10, FillKeeps
  <2>11. CASE Advance
    BY <2>1, <2>11, AdvanceKeeps
  <2>12. CASE NextDay
    BY <2>1, <2>12, NextDayKeeps
  <2>13. CASE UNCHANGED vars
    BY <2>13, StutterKeeps
  <2>14. CASE ProcessNext
    BY <2>2, <2>3, <2>4, <2>5, <2>6, <2>7, <2>14 DEF ProcessNext
  <2>15. CASE EnvironmentNext
    BY <2>8, <2>9, <2>10, <2>11, <2>12, <2>15 DEF EnvironmentNext
  <2>16. QED BY <2>13, <2>14, <2>15 DEF Next
<1>3. QED BY <1>1, <1>2, PTL DEF Spec
-----------------------------------------------------------------------------
(* The account follows *)

\* Match speaks of its arguments only.
LEMMA MatchedNext ==
  ASSUME NEW e, NEW x, engine' = e, exchange' = x, \A s \in clean' : Match(e, x, s)
  PROVE  Matched'
<1>1. \A n, s : Owner(engine, n, s)' = Owner(e, n, s)
  BY DEF Owner, BindBrokerOrderId, ExistsOpenOrder, OpenIds, Open, Max
<1>2. \A n : Reported(exchange, n)' <=> Reported(x, n)
  BY DEF Reported
<1>3. \A s : Movers(exchange, s)' = Movers(x, s)
  BY <1>2 DEF Movers
<1>4. \A n, s : Tracks(engine, exchange, n, s)' <=> Tracks(e, x, n, s)
  BY <1>1, <1>2 DEF Tracks, Follows
<1>5. \A s : Match(engine, exchange, s)' <=> Match(e, x, s)
  BY <1>3, <1>4 DEF Match
<1>6. QED BY <1>5 DEF Matched

\* So does the order of its reports.
LEMMA InOrderNext ==
  ASSUME NEW x, exchange' = x, ReportsInOrder(x) PROVE ReportsInOrder(exchange)'
BY DEF ReportsInOrder

\* A handler keeps the clean symbols matched.
LEMMA EffectMatches ==
  ASSUME OrdersInv, AccountInv, run.up, NEW w, Sound(w), NEW ok, Effect(w, ok)
  PROVE  AccountInv'
<1>1. /\ engine' = w.e /\ exchange' = w.x /\ mode' = mode
      /\ clean' = clean \ (Blurred(exchange, w.x) \cup Withdrawn(engine, w.e))
  BY DEF Effect
<1>2. run'.up = run.up /\ run'.linked = run.linked
  BY UpFacts DEF Effect
<1>3. Faithful(w.e, w.x) /\ ReportsOK(exchange)
  BY UpFacts DEF Sound, AccountOK
<1> SUFFICES ASSUME mode = "live"
             PROVE  /\ run.linked \/ w.x.reports = <<>>
                    /\ ReportsInOrder(w.x) /\ \A s \in clean' : Match(w.e, w.x, s)
  BY <1>1, <1>2, MatchedNext, InOrderNext DEF AccountInv
<1>4. w.x.reports = exchange.reports
      /\ \A n \in DOMAIN exchange.orders :
           w.x.orders[n].qty = exchange.orders[n].qty
             /\ w.x.orders[n].filled = exchange.orders[n].filled
  BY <1>3 DEF Faithful
<1>5. ReportsInOrder(w.x)
  BY <1>3, <1>4 DEF AccountInv, ReportsInOrder, ReportsOK
<1>6. \A s \in clean' : Match(w.e, w.x, s)
  BY <1>1, <1>3 DEF AccountInv, Faithful
<1>7. QED BY <1>4, <1>5, <1>6 DEF AccountInv

\* The account and the portfolio of the next state.
LEMMA AccountNext ==
  ASSUME NEW e, NEW x, engine' = e, exchange' = x, run'.linked => run'.up,
         mode' = "live" =>
           /\ run'.linked \/ x.reports = <<>>
           /\ ReportsInOrder(x)
           /\ run'.up => \A s \in clean' : Match(e, x, s)
  PROVE  AccountInv'
<1>1. mode' = "live" => ReportsInOrder(exchange)'
  BY InOrderNext
<1>2. mode' = "live" /\ run'.up => Matched'
  BY MatchedNext
<1>3. QED BY <1>1, <1>2 DEF AccountInv

\* A step that changes neither of them.
LEMMA StillMatches ==
  ASSUME AccountInv, UNCHANGED <<mode, engine, exchange, run, clean>> PROVE AccountInv'
BY AccountNext DEF AccountInv, Matched

\* Before the first start there is nothing to match.
LEMMA InitMatches ==
  ASSUME Init PROVE AccountInv
<1>1. ~run.up /\ ~run.linked
  BY DEF Init, Idle
<1>2. exchange.reports = <<>> /\ DOMAIN exchange.reports = {}
  BY DEF Init
<1>3. QED BY <1>1, <1>2 DEF AccountInv, ReportsInOrder

\* No process, no match.
LEMMA StopMatches ==
  ASSUME OrdersInv, AccountInv, Stop PROVE AccountInv'
<1> DEFINE y == [exchange EXCEPT !.reports = <<>>]
           n == run.faults + (IF Phase = "closed" THEN 0 ELSE 1)
<1>1. engine' = engine' /\ exchange' = y /\ mode' = mode
      /\ run' = [run EXCEPT !.up = FALSE, !.linked = FALSE, !.faults = n]
  BY DEF Stop
<1>2. exchange \in Account
      /\ run \in [up : BOOLEAN, linked : BOOLEAN, boots : Nat, faults : Nat, blind : BOOLEAN]
  BY UpFacts
<1> HIDE DEF n
<1>3. y.reports = <<>> /\ DOMAIN y.reports = {} /\ ~run'.up /\ ~run'.linked
  BY <1>1, <1>2 DEF Account
<1> HIDE DEF y
<1>4. ReportsInOrder(y)
  BY <1>3 DEF ReportsInOrder
<1>5. QED BY <1>1, <1>3, <1>4, AccountNext

\* After a recovery no symbol is clean.
LEMMA RecoverMatches ==
  ASSUME OrdersInv, AccountInv, NEW account \in BOOLEAN, NEW pending \in BOOLEAN,
         Recover(account, pending)
  PROVE  AccountInv'
<1> DEFINE n == run.faults + (IF account /\ pending THEN 0 ELSE 1)
<1>1. /\ run.up /\ engine' = engine' /\ exchange' = exchange /\ mode' = mode /\ clean' = {}
      /\ run' = [run EXCEPT !.linked = TRUE, !.blind = TRUE, !.faults = n]
  BY DEF Recover
<1>2. run \in [up : BOOLEAN, linked : BOOLEAN, boots : Nat, faults : Nat, blind : BOOLEAN]
  BY UpFacts
<1> HIDE DEF n
<1>3. run'.up /\ run'.linked
  BY <1>1, <1>2
<1>4. QED BY <1>1, <1>3, AccountNext DEF AccountInv

\* The marks of the day are no part of a match.
LEMMA NextDayMatches ==
  ASSUME OrdersInv, AccountInv, NextDay PROVE AccountInv'
<1> DEFINE f == [engine EXCEPT !.forced = {}]
<1>1. engine' = f /\ UNCHANGED <<mode, exchange, run, clean>>
  BY DEF NextDay
<1>2. engine \in Memory
  BY UpFacts
<1>3. f.orders = engine.orders /\ f.bound = engine.bound /\ f.pos = engine.pos
  BY <1>2 DEF Memory
<1> HIDE DEF f
<1>4. \A s : Match(engine, exchange, s) => Match(f, exchange, s)
  BY <1>3, MatchMemory
<1>5. QED BY <1>1, <1>4, AccountNext DEF AccountInv, Matched

\* The reports that a lost connection takes along unclean their symbols.
LEMMA DisconnectMatches ==
  ASSUME OrdersInv, AccountInv, Disconnect PROVE AccountInv'
<1> DEFINE y == [exchange EXCEPT !.reports = <<>>]
           faults == run.faults + 1
<1>1. /\ engine' = engine /\ exchange' = y /\ mode' = mode
      /\ run' = [run EXCEPT !.linked = FALSE, !.faults = faults] /\ run.up
      /\ clean' = clean \ {exchange.reports[i].sym : i \in DOMAIN exchange.reports}
  BY DEF Disconnect
<1>2. exchange \in Account /\ ReportsOK(exchange)
      /\ run \in [up : BOOLEAN, linked : BOOLEAN, boots : Nat, faults : Nat, blind : BOOLEAN]
  BY UpFacts DEF AccountOK
<1> HIDE DEF faults
<1>3. /\ y.reports = <<>> /\ DOMAIN y.reports = {} /\ y.orders = exchange.orders
      /\ y.held = exchange.held /\ run'.up /\ ~run'.linked
  BY <1>1, <1>2 DEF Account
<1> HIDE DEF y
<1>4. ReportsInOrder(y)
  BY <1>3 DEF ReportsInOrder
<1>5. ASSUME NEW s \in clean', Match(engine, exchange, s) PROVE Match(engine, y, s)
  <2>1. ASSUME NEW n \in DOMAIN exchange.orders, exchange.orders[n].sym = s
        PROVE  ~Reported(exchange, n) /\ ~Reported(y, n)
    <3>1. ASSUME NEW i \in DOMAIN exchange.reports, exchange.reports[i].no = n PROVE FALSE
      <4>1. exchange.reports[i].sym = s
        BY <1>2, <2>1, <3>1 DEF ReportsOK
      <4>2. QED BY <1>1, <4>1
    <3>2. QED BY <1>3, <3>1 DEF Reported
  <2>2. Movers(y, s) = Movers(exchange, s)
    BY <1>3, <2>1 DEF Movers
  <2>3. \A n \in Movers(exchange, s) : Reported(y, n) <=> Reported(exchange, n)
    BY <2>1 DEF Movers
  <2>4. QED BY <1>3, <1>5, <2>2, <2>3, MatchKept DEF SameOrder
<1>6. QED BY <1>1, <1>3, <1>4, <1>5, AccountNext DEF AccountInv, Matched

\* An order that changes, of all of a sequence.
OneChanged(q, p, n, o) == /\ n \in DOMAIN q /\ DOMAIN p = DOMAIN q /\ p[n] = o
                          /\ \A i \in DOMAIN q \ {n} : p[i] = q[i]

\* A symbol is matched as before when an order of another one changes at the exchange.
LEMMA MatchChangedOther ==
  ASSUME NEW e, NEW x, NEW y, NEW n, NEW o, OneChanged(x.orders, y.orders, n, o),
         NEW s, x.orders[n].sym # s, o.sym # s, y.held[s] = x.held[s],
         \A m \in DOMAIN x.orders \ {n} : Reported(y, m) <=> Reported(x, m),
         Match(e, x, s)
  PROVE  Match(e, y, s)
<1>1. Movers(y, s) = Movers(x, s) /\ \A m \in Movers(x, s) : m \in DOMAIN x.orders \ {n}
  BY DEF Movers, OneChanged
<1>2. \A m \in Movers(x, s) : (Reported(y, m) <=> Reported(x, m)) /\ y.orders[m] = x.orders[m]
  BY <1>1 DEF OneChanged
<1>3. QED BY <1>1, <1>2, MatchKept DEF SameOrder

\* The end of an order at the exchange that no report is under way for leaves nothing
\* to be added.
LEMMA CloseMatches ==
  ASSUME OrdersInv, AccountInv, NEW n \in DOMAIN exchange.orders, ExchangeClose(n)
  PROVE  AccountInv'
<1> DEFINE q == exchange.orders
           o == [q[n] EXCEPT !.st = "done"]
           p == [q EXCEPT ![n] = o]
           y == [exchange EXCEPT !.orders = p]
<1>1. exchange \in Account /\ q \in Seq(ExchangeOrder) /\ q[n] \in ExchangeOrder
  BY UpFacts DEF Account
<1>2. exchange' = y /\ UNCHANGED <<mode, engine, run, clean>> /\ q[n].st # "done"
  BY <1>1 DEF ExchangeClose, Account, ExchangeOrder
<1>3. o.st = "done" /\ SameOrder(q[n], o)
  BY <1>1 DEF ExchangeOrder, SameOrder
<1> HIDE DEF o
<1>4. OneChanged(q, p, n, o)
  BY <1>1 DEF OneChanged
<1> HIDE DEF p
<1>5. y.orders = p /\ y.held = exchange.held /\ y.reports = exchange.reports
  BY <1>1 DEF Account
<1> HIDE DEF y, q
<1>6. \A m : Reported(y, m) <=> Reported(exchange, m)
  BY <1>5 DEF Reported
<1>7. ASSUME NEW s, Match(engine, exchange, s) PROVE Match(engine, y, s)
  <2>1. CASE q[n].sym # s
    BY <1>3, <1>4, <1>5, <1>6, <1>7, <2>1, MatchChangedOther DEF SameOrder, q
  <2>2. CASE q[n].sym = s /\ Reported(exchange, n)
    <3>1. Movers(y, s) = Movers(exchange, s)
      BY <1>3, <1>4, <1>5, <1>6, <2>2 DEF Movers, OneChanged, SameOrder, q
    <3>2. \A m \in Movers(exchange, s) : SameOrder(exchange.orders[m], y.orders[m])
      BY <1>3, <1>4, <1>5 DEF Movers, OneChanged, SameOrder, q
    <3>3. \A m \in Movers(exchange, s) :
            Owner(engine, m, s) \in DOMAIN engine.orders =>
              SameOrder(engine.orders[Owner(engine, m, s)], engine.orders[Owner(engine, m, s)])
      BY DEF SameOrder
    <3>4. QED BY <1>5, <1>6, <1>7, <3>1, <3>2, <3>3, MatchKept
  <2>3. CASE q[n].sym = s /\ ~Reported(exchange, n)
    <3>1. Movers(exchange, s) = {n}
      <4>1. n \in Movers(exchange, s)
        BY <1>2, <2>3 DEF Movers, q
      <4>2. QED BY <1>7, <4>1 DEF Match
    <3>2. Movers(y, s) = {}
      BY <1>3, <1>4, <1>5, <1>6, <2>3, <3>1 DEF Movers, OneChanged, q
    <3>3. engine.pos[s] = exchange.held[s]
      <4> DEFINE c == engine.orders[Owner(engine, n, s)]
      <4>1. Follows(c, q[n], engine.pos[s], exchange.held[s], Reported(exchange, n))
        BY <1>7, <3>1 DEF Match, Tracks, q
      <4>2. q[n].filled \in Nat /\ exchange.held[s] \in Nat /\ engine.pos[s] \in Nat
        <5>1. q[n].sym \in Symbol /\ q[n].filled \in Nat
          BY <1>1 DEF ExchangeOrder, q
        <5>2. engine \in Memory
          BY UpFacts
        <5>3. QED BY <1>1, <2>3, <5>1, <5>2 DEF Memory, Account
      <4> HIDE DEF c
      <4>3. QED BY <2>3, <4>1, <4>2 DEF Follows
    <3>4. QED BY <1>5, <3>2, <3>3 DEF Match
  <2>4. QED BY <2>1, <2>2, <2>3
<1>8. ReportsInOrder(exchange) /\ ReportsOK(exchange) => ReportsInOrder(y)
  <2>1. \A m \in DOMAIN q : p[m].filled = q[m].filled /\ p[m].qty = q[m].qty
    BY <1>3, <1>4 DEF OneChanged, SameOrder
  <2>2. QED BY <1>5, <2>1 DEF ReportsInOrder, ReportsOK, q
<1>9. ReportsOK(exchange)
  BY UpFacts DEF AccountOK
<1>10. QED BY <1>2, <1>5, <1>7, <1>8, <1>9, AccountNext DEF AccountInv, Matched

\* What a fill of k shares makes of order n, of the shares held and of the reports.
FilledBy(x, y, n, k, c, o) ==
  /\ OneChanged(x.orders, y.orders, n, o) /\ c = x.orders[n] /\ c.st # "done"
  /\ o.sym = c.sym /\ o.side = c.side /\ o.qty = c.qty /\ o.filled = c.filled + k
  /\ c.filled \in Nat /\ c.qty \in Nat /\ k \in Nat /\ c.sym \in Symbol
  /\ x.held[c.sym] \in Nat
  /\ y.held[c.sym] = IF c.side = "BUY" THEN x.held[c.sym] + k ELSE x.held[c.sym] - k
  /\ \A z \in Symbol \ {c.sym} : y.held[z] = x.held[z]
ReportedBy(x, y, n, k, c) ==
  /\ Len(x.reports) \in Nat /\ DOMAIN x.reports = 1..Len(x.reports)
  /\ DOMAIN y.reports = 1..(Len(x.reports) + 1)
  /\ \A i \in DOMAIN x.reports : y.reports[i] = x.reports[i]
  /\ LET r == y.reports[Len(x.reports) + 1]
     IN  /\ r.no = n /\ r.cum = c.filled + k /\ r.unfilled = c.qty - c.filled - k

\* External: a fill at the exchange.
LEMMA FillFacts ==
  ASSUME OrdersInv, NEW n \in DOMAIN exchange.orders,
         NEW k \in 1..Remaining(exchange.orders[n]), ExchangeFill(n, k)
  PROVE  /\ UNCHANGED <<mode, engine, run>>
         /\ clean' = IF run.linked THEN clean ELSE clean \ {exchange.orders[n].sym}
         /\ \E y, o : /\ exchange' = y /\ FilledBy(exchange, y, n, k, exchange.orders[n], o)
                      /\ IF run.linked THEN ReportedBy(exchange, y, n, k, exchange.orders[n])
                         ELSE y.reports = exchange.reports
<1> DEFINE x == exchange
           q == x.orders
           c == q[n]
           d == IF k = Remaining(c) THEN "done" ELSE c.st
           l == c.filled + k
           o == [c EXCEPT !.filled = l, !.st = d]
           p == [q EXCEPT ![n] = o]
           m == IF c.side = "BUY" THEN x.held[c.sym] + k ELSE x.held[c.sym] - k
           h == [x.held EXCEPT ![c.sym] = m]
           r == [no |-> n, sym |-> c.sym, side |-> c.side, cum |-> c.filled + k,
                 unfilled |-> Remaining(c) - k]
           u == IF run.linked THEN Append(x.reports, r) ELSE x.reports
           y == [x EXCEPT !.orders = p, !.held = h, !.reports = u]
<1>1. x \in Account /\ q \in Seq(ExchangeOrder) /\ c \in ExchangeOrder
      /\ x.held \in [Symbol -> Nat] /\ x.reports \in Seq(Report)
  BY UpFacts DEF Account
<1>2. /\ c.sym \in Symbol /\ c.qty \in Nat /\ c.filled \in Nat /\ x.held[c.sym] \in Nat
      /\ Remaining(c) = c.qty - c.filled /\ k \in Nat /\ n \in DOMAIN q
  <2>1. c.sym \in Symbol /\ c.qty \in Nat /\ c.filled \in Nat
    BY <1>1 DEF ExchangeOrder
  <2>2. QED BY <1>1, <2>1 DEF Remaining
<1>3. /\ c.st # "done" /\ exchange' = y
      /\ clean' = IF run.linked THEN clean ELSE clean \ {c.sym}
      /\ UNCHANGED <<mode, engine, run>>
  <2>1. exchange' = [exchange EXCEPT !.orders[n] = o,
           !.held[c.sym] = IF c.side = "BUY" THEN @ + k ELSE @ - k,
           !.reports = IF run.linked THEN Append(@, r) ELSE @]
    BY DEF ExchangeFill
  <2>2. [x EXCEPT !.orders[n] = o,
           !.held[c.sym] = IF c.side = "BUY" THEN @ + k ELSE @ - k,
           !.reports = IF run.linked THEN Append(@, r) ELSE @] = y
    <3>1. x \in Account
      BY <1>1
    <3> HIDE DEF c, r, o, x
    <3>2. QED BY ONLY <3>1 DEF Account, y, p, q, h, m, u
  <2>3. QED BY <2>1, <2>2 DEF ExchangeFill
<1>4. o.sym = c.sym /\ o.side = c.side /\ o.qty = c.qty /\ o.filled = c.filled + k
  <2> HIDE DEF c, d
  <2>1. QED BY <1>1 DEF ExchangeOrder
<1>5. r.no = n /\ r.cum = c.filled + k /\ r.unfilled = c.qty - c.filled - k
  <2>1. Remaining(c) - k = c.qty - c.filled - k
    BY <1>2
  <2> HIDE DEF c
  <2>2. QED BY <2>1
<1> HIDE DEF o, r, d, l
<1>6. OneChanged(q, p, n, o)
  BY <1>1, <1>2 DEF OneChanged
<1>7. /\ h[c.sym] = IF c.side = "BUY" THEN x.held[c.sym] + k ELSE x.held[c.sym] - k
      /\ \A z \in Symbol \ {c.sym} : h[z] = x.held[z]
  <2>1. x.held \in [Symbol -> Nat] /\ c.sym \in Symbol
    BY <1>1, <1>2
  <2> HIDE DEF x, c
  <2>2. QED BY <2>1
<1> HIDE DEF p, h, m
<1>8. y.orders = p /\ y.held = h /\ y.reports = u
  <2> HIDE DEF u
  <2>1. QED BY <1>1 DEF Account
<1>9. FilledBy(x, y, n, k, c, o)
  <2> HIDE DEF y, c, q
  <2>1. QED BY <1>2, <1>3, <1>4, <1>6, <1>7, <1>8 DEF FilledBy, q, c
<1>10. IF run.linked THEN ReportedBy(x, y, n, k, c) ELSE y.reports = x.reports
  <2>1. ASSUME run.linked PROVE ReportedBy(x, y, n, k, c)
    <3> DEFINE v == x.reports
    <3>1. v \in Seq(Report) /\ y.reports = Append(v, r)
      BY <1>1, <1>8, <2>1
    <3> HIDE DEF v, y, c
    <3>2. /\ Len(v) \in Nat /\ DOMAIN v = 1..Len(v)
          /\ DOMAIN y.reports = 1..(Len(v) + 1)
          /\ \A i \in DOMAIN v : y.reports[i] = v[i]
          /\ y.reports[Len(v) + 1] = r
      BY <3>1
    <3>3. QED BY <1>5, <3>2 DEF ReportedBy, v
  <2>2. ASSUME ~run.linked PROVE y.reports = x.reports
    BY <1>8, <2>2
  <2>3. QED BY <2>1, <2>2
<1> HIDE DEF y
<1>11. QED BY <1>3, <1>9, <1>10

\* A fill moves what an order still lacks into the reports under way.
LEMMA FillMatches ==
  ASSUME OrdersInv, AccountInv, NEW n \in DOMAIN exchange.orders,
         NEW k \in 1..Remaining(exchange.orders[n]), ExchangeFill(n, k)
  PROVE  AccountInv'
<1> DEFINE x == exchange
           c == exchange.orders[n]
<1>1. PICK y, o : /\ exchange' = y /\ FilledBy(x, y, n, k, c, o)
                  /\ IF run.linked THEN ReportedBy(x, y, n, k, c) ELSE y.reports = x.reports
  BY FillFacts
<1>2. UNCHANGED <<mode, engine, run>>
      /\ clean' = IF run.linked THEN clean ELSE clean \ {c.sym}
  BY FillFacts
<1>3. ReportsOK(x) /\ clean \subseteq Symbol /\ engine \in Memory
      /\ \A i \in DOMAIN x.reports : x.reports[i] \in Report
  <2>1. ReportsOK(x) /\ clean \subseteq Symbol /\ engine \in Memory
    BY UpFacts DEF AccountOK
  <2>2. x.reports \in Seq(Report)
    BY UpFacts DEF Account
  <2>3. QED BY <2>1, <2>2
<1> HIDE DEF x, c
<1>4. \A m \in DOMAIN x.orders \ {n} : Reported(y, m) <=> Reported(x, m)
  <2>1. CASE run.linked
    <3>1. ReportedBy(x, y, n, k, c)
      BY <1>1, <2>1
    <3>2. \A i \in DOMAIN y.reports : i \in DOMAIN x.reports \/ y.reports[i].no = n
      BY <3>1 DEF ReportedBy
    <3>3. \A i \in DOMAIN x.reports : i \in DOMAIN y.reports /\ y.reports[i] = x.reports[i]
      BY <3>1 DEF ReportedBy
    <3>4. QED BY <3>2, <3>3 DEF Reported
  <2>2. CASE ~run.linked
    BY <1>1, <2>2 DEF Reported
  <2>3. QED BY <2>1, <2>2
<1>5. ASSUME NEW s \in clean', run.up, Match(engine, x, s) PROVE Match(engine, y, s)
  <2>1. CASE s # c.sym
    <3>1. OneChanged(x.orders, y.orders, n, o) /\ o.sym # s /\ x.orders[n].sym # s
          /\ y.held[s] = x.held[s]
      BY <1>1, <1>2, <1>3, <2>1 DEF FilledBy
    <3>2. QED BY <1>4, <1>5, <3>1, MatchChangedOther
  <2>2. CASE s = c.sym
    <3>1. run.linked /\ ReportedBy(x, y, n, k, c)
      BY <1>1, <1>2, <2>2
    <3>2. Reported(y, n)
      <4>1. Len(x.reports) + 1 \in DOMAIN y.reports /\ y.reports[Len(x.reports) + 1].no = n
        BY <3>1 DEF ReportedBy
      <4>2. QED BY <4>1 DEF Reported
    <3>3. n \in DOMAIN x.orders /\ x.orders[n] = c /\ c.st # "done"
      BY <1>1 DEF FilledBy, OneChanged
    <3>4. Movers(x, s) = {n}
      <4>1. n \in Movers(x, s)
        BY <2>2, <3>3 DEF Movers
      <4>2. QED BY <1>5, <4>1 DEF Match
    <3>5. Movers(y, s) = {n}
      <4>1. DOMAIN y.orders = DOMAIN x.orders /\ y.orders[n] = o /\ o.sym = s
            /\ \A i \in DOMAIN x.orders \ {n} : y.orders[i] = x.orders[i]
        BY <1>1, <2>2 DEF FilledBy, OneChanged
      <4>2. QED BY <1>4, <3>2, <3>3, <3>4, <4>1 DEF Movers
    <3>6. Tracks(engine, y, n, s)
      <4> DEFINE id == Owner(engine, n, s)
                 a  == engine.orders[id]
      <4>1. id \in DOMAIN engine.orders
            /\ Follows(a, c, engine.pos[s], x.held[s], Reported(x, n))
        BY <1>5, <3>3, <3>4 DEF Match, Tracks
      <4>2. a.filled \in Nat /\ engine.pos[s] \in Nat
        <5>1. a \in Order
          BY <1>3, <4>1, MemoryFacts
        <5>2. QED BY <1>2, <1>3, <5>1 DEF Order, Memory
      <4> HIDE DEF a
      <4>3. Follows(a, o, engine.pos[s], y.held[s], TRUE)
        BY <1>1, <2>2, <4>1, <4>2 DEF Follows, FilledBy
      <4>4. y.orders[n] = o
        BY <1>1 DEF FilledBy, OneChanged
      <4>5. Follows(a, o, engine.pos[s], y.held[s], Reported(y, n))
        BY <3>2, <4>3 DEF Follows
      <4>6. QED BY <4>1, <4>4, <4>5 DEF Tracks, a
    <3>7. QED BY <3>5, <3>6 DEF Match
  <2>3. QED BY <2>1, <2>2
<1>6. ASSUME ReportsInOrder(x), run.linked \/ x.reports = <<>> PROVE ReportsInOrder(y)
  <2>1. CASE ~run.linked
    <3>1. DOMAIN y.reports = {}
      BY <1>1, <1>6, <2>1
    <3>2. QED BY <3>1 DEF ReportsInOrder
  <2>2. CASE run.linked
    <3> DEFINE L == Len(x.reports) + 1
    <3>1. /\ y.orders[n] = o /\ x.orders[n] = c /\ o.qty = c.qty /\ o.filled = c.filled + k
          /\ c.filled \in Nat /\ c.qty \in Nat /\ k \in Nat
          /\ \A m \in DOMAIN x.orders \ {n} : y.orders[m] = x.orders[m]
      BY <1>1 DEF FilledBy, OneChanged
    <3>2. /\ L \in Nat /\ DOMAIN y.reports = 1..L /\ DOMAIN x.reports = 1..(L - 1)
          /\ \A i \in DOMAIN x.reports : y.reports[i] = x.reports[i]
          /\ y.reports[L].no = n /\ y.reports[L].cum = c.filled + k
          /\ y.reports[L].unfilled = c.qty - c.filled - k
      BY <1>1, <2>2 DEF ReportedBy
    <3> HIDE DEF L
    <3>3. ASSUME NEW i \in DOMAIN y.reports
          PROVE  LET r == y.reports[i]
                     b == y.orders[r.no]
                 IN  /\ r.cum <= b.filled /\ r.cum + r.unfilled = b.qty
                     /\ (\A j \in DOMAIN y.reports : j > i => y.reports[j].no # r.no)
                          => r.cum = b.filled
      <4>1. CASE i = L
        <5>1. /\ y.reports[i].no = n /\ y.orders[n].qty = c.qty
              /\ y.reports[i].cum = y.orders[n].filled
          BY <3>1, <3>2, <4>1
        <5>2. y.reports[i].cum = c.filled + k /\ y.reports[i].unfilled = c.qty - c.filled - k
          BY <3>2, <4>1
        <5>3. y.reports[i].cum + y.reports[i].unfilled = c.qty /\ y.reports[i].cum \in Nat
          BY <3>1, <5>2
        <5>4. y.reports[i].cum <= y.orders[n].filled
          BY <5>1, <5>3
        <5>5. QED BY <5>1, <5>3, <5>4
      <4>2. CASE i # L
        <5> DEFINE v == x.reports[i]
        <5>1. i \in DOMAIN x.reports /\ y.reports[i] = v /\ L \in DOMAIN y.reports /\ L > i
              /\ \A j \in DOMAIN x.reports : j \in DOMAIN y.reports
          BY <3>2, <4>2
        <5>2. /\ v.no \in DOMAIN x.orders
              /\ v.cum <= x.orders[v.no].filled /\ v.cum + v.unfilled = x.orders[v.no].qty
              /\ (\A j \in DOMAIN x.reports : j > i => x.reports[j].no # v.no)
                   => v.cum = x.orders[v.no].filled
          BY <1>3, <1>6, <5>1 DEF ReportsInOrder, ReportsOK
        <5>3. v.cum \in Nat
          BY <1>3, <5>1 DEF Report
        <5> HIDE DEF v
        <5>4. CASE v.no = n
          <6>1. y.orders[v.no] = o /\ x.orders[v.no] = c
            BY <3>1, <5>4
          <6>2. v.cum <= o.filled /\ v.cum + v.unfilled = o.qty
            <7>1. v.cum <= c.filled /\ v.cum + v.unfilled = c.qty
              BY <5>2, <6>1
            <7>2. v.cum <= c.filled + k
              BY <3>1, <5>3, <7>1
            <7>3. QED BY <3>1, <7>1, <7>2
          <6>3. ~\A j \in DOMAIN y.reports : j > i => y.reports[j].no # v.no
            BY <3>2, <5>1, <5>4
          <6>4. QED BY <5>1, <6>1, <6>2, <6>3
        <5>5. CASE v.no # n
          <6>1. y.orders[v.no] = x.orders[v.no]
            BY <3>1, <5>2, <5>5
          <6>2. (\A j \in DOMAIN y.reports : j > i => y.reports[j].no # v.no)
                  => \A j \in DOMAIN x.reports : j > i => x.reports[j].no # v.no
            BY <3>2, <5>1
          <6>3. QED BY <5>1, <5>2, <6>1, <6>2
        <5>6. QED BY <5>4, <5>5
      <4>3. QED BY <4>1, <4>2
    <3>4. QED BY <3>3 DEF ReportsInOrder
  <2>3. QED BY <2>1, <2>2
<1>7. QED BY <1>1, <1>2, <1>5, <1>6, AccountNext DEF AccountInv, Matched, x

\* The reports under way once the first one, f, was handled.
LEMMA ReportsLeft ==
  ASSUME NEW x \in Account, x.reports # <<>>, NEW f, f = Head(x.reports), NEW again \in BOOLEAN,
         NEW y, y.orders = x.orders, y.reports = IF again THEN x.reports ELSE Tail(x.reports)
  PROVE  /\ Reported(x, f.no)
         /\ \A m : Reported(y, m) => Reported(x, m)
         /\ \A m : Reported(x, m) /\ m # f.no => Reported(y, m)
         /\ ReportsInOrder(x) => ReportsInOrder(y)
         /\ ReportsInOrder(x) /\ ~Reported(y, f.no) => f.cum = x.orders[f.no].filled
<1> DEFINE q == x.reports
           L == Len(q)
<1>1. L \in Nat /\ DOMAIN q = 1..L /\ 1 \in DOMAIN q /\ f = q[1] /\ q \in Seq(Report)
  BY DEF Account
<1>2. Reported(x, f.no)
  BY <1>1 DEF Reported
<1>3. CASE again
  <2>1. \A m : Reported(y, m) <=> Reported(x, m)
    BY <1>3 DEF Reported
  <2>2. ReportsInOrder(x) => ReportsInOrder(y)
    BY <1>3 DEF ReportsInOrder
  <2>3. QED BY <1>2, <2>1, <2>2
<1>4. CASE ~again
  <2> DEFINE t == y.reports
  <2>1. /\ DOMAIN t = 1..(L - 1)
        /\ \A i \in DOMAIN t : i + 1 \in DOMAIN q /\ t[i] = q[i + 1]
        /\ \A i \in DOMAIN q : i > 1 => i - 1 \in DOMAIN t /\ t[i - 1] = q[i]
    <3>1. t = Tail(q) /\ q # <<>>
      BY <1>4
    <3> HIDE DEF t, q
    <3>2. DOMAIN t = 1..(L - 1) /\ \A i \in DOMAIN t : t[i] = q[i + 1]
      BY <1>1, <3>1
    <3>3. \A i \in DOMAIN t : i + 1 \in DOMAIN q
      BY <1>1, <3>2
    <3>4. ASSUME NEW i \in DOMAIN q, i > 1 PROVE i - 1 \in DOMAIN t /\ t[i - 1] = q[i]
      <4>1. i \in Int /\ i - 1 \in 1..(L - 1) /\ (i - 1) + 1 = i
        BY <1>1, <3>4
      <4>2. QED BY <3>2, <4>1
    <3>5. QED BY <3>2, <3>3, <3>4
  <2> HIDE DEF t, L
  <2>2. \A m : Reported(y, m) => Reported(x, m)
    BY <2>1 DEF Reported, t
  <2>3. ASSUME NEW m, Reported(x, m), m # f.no PROVE Reported(y, m)
    <3>1. PICK i \in DOMAIN q : q[i].no = m
      BY <2>3 DEF Reported
    <3>2. i > 1
      BY <1>1, <2>3, <3>1
    <3>3. QED BY <2>1, <3>1, <3>2 DEF Reported, t
  <2>4. ASSUME ReportsInOrder(x) PROVE ReportsInOrder(y)
    <3>1. ASSUME NEW i \in DOMAIN t
          PROVE  LET r == t[i]
                     o == x.orders[r.no]
                 IN  /\ r.cum <= o.filled /\ r.cum + r.unfilled = o.qty
                     /\ (\A j \in DOMAIN t : j > i => t[j].no # r.no) => r.cum = o.filled
      <4> DEFINE r == q[i + 1]
                 o == x.orders[r.no]
      <4>1. i + 1 \in DOMAIN q /\ t[i] = r
        BY <2>1
      <4>2. /\ r.cum <= o.filled /\ r.cum + r.unfilled = o.qty
            /\ (\A j \in DOMAIN q : j > i + 1 => q[j].no # r.no) => r.cum = o.filled
        BY <2>4, <4>1 DEF ReportsInOrder
      <4> HIDE DEF r, o
      <4>3. ASSUME \A j \in DOMAIN t : j > i => t[j].no # r.no,
                   NEW j \in DOMAIN q, j > i + 1
            PROVE  q[j].no # r.no
        <5>1. i \in Nat /\ j \in Nat /\ i > 0
          BY <1>1, <2>1
        <5>2. j > 1 /\ j - 1 > i
          BY <4>3, <5>1
        <5>3. QED BY <2>1, <4>3, <5>2
      <4>4. QED BY <4>1, <4>2, <4>3 DEF r, o
    <3>2. QED BY <3>1 DEF ReportsInOrder, t
  <2>5. ASSUME ReportsInOrder(x), ~Reported(y, f.no) PROVE f.cum = x.orders[f.no].filled
    <3>1. ASSUME NEW j \in DOMAIN q, j > 1 PROVE q[j].no # f.no
      BY <2>1, <2>5, <3>1 DEF Reported, t
    <3>2. QED BY <1>1, <2>5, <3>1 DEF ReportsInOrder
  <2>6. QED BY <1>2, <2>2, <2>3, <2>4, <2>5
<1>5. QED BY <1>3, <1>4

\* What a report does to the order that tracks its own: the order and the position go on
\* to what the report says was filled, unless they are there already.
Applied(g, x, f) ==
  LET o == x.orders[f.no]
      d == g.orders[Owner(g, f.no, f.sym)]
  IN  /\ Owner(g, f.no, f.sym) \in DOMAIN g.orders
      /\ d.sym = o.sym /\ d.side = o.side /\ d.qty = o.qty /\ d.filled <= o.filled
      /\ d.filled \in Nat /\ o.filled \in Nat /\ x.held[f.sym] \in Nat /\ g.pos[f.sym] \in Nat
      /\ f.cum = o.filled => d.filled = o.filled
      /\ IF o.side = "BUY" THEN g.pos[f.sym] + (o.filled - d.filled) = x.held[f.sym]
         ELSE g.pos[f.sym] = x.held[f.sym] + (o.filled - d.filled)

LEMMA ReportApplied ==
  ASSUME NEW e \in Memory, NEW x \in Account, OrdersOK(e.orders), BoundOK(e, x),
         NEW f, Reports(e, x, f), f.no >= 0, f.side = x.orders[f.no].side,
         f.cum + f.unfilled = x.orders[f.no].qty, f.cum <= x.orders[f.no].filled,
         NEW g \in Memory,
         FillOf(e, f, BindBrokerOrderId(e, f), NormalizeFillQty(e, f, BindBrokerOrderId(e, f)), g),
         Tracks(e, x, f.no, f.sym)
  PROVE  Applied(g, x, f)
<1> DEFINE id == BindBrokerOrderId(e, f)
           n  == NormalizeFillQty(e, f, id)
           o  == x.orders[f.no]
           c  == e.orders[id]
           d  == g.orders[id]
           s  == f.sym
           h  == x.held[s]
<1>1. id = Owner(e, f.no, s)
  BY DEF Owner, BindBrokerOrderId
<1>2. id \in DOMAIN e.orders /\ Follows(c, o, e.pos[s], h, Reported(x, f.no))
  BY <1>1 DEF Tracks
<1>3. /\ DOMAIN e.orders = 1..Len(e.orders) /\ c \in Order
      /\ s \in Symbol /\ e.pos[s] \in Nat /\ g.pos[s] \in Nat /\ h \in Nat
  <2>1. s \in Symbol
    BY DEF Reports
  <2>2. QED BY <1>2, <2>1, MemoryFacts DEF Memory, Account
<1>4. o \in ExchangeOrder
  <2>1. f.no \in DOMAIN x.orders /\ x.orders \in Seq(ExchangeOrder)
    BY DEF Reports, Account
  <2>2. QED BY <2>1
<1>5. /\ c.filled \in Nat /\ c.qty \in Nat /\ o.filled \in Nat /\ o.qty \in Nat
      /\ f.cum \in Nat /\ f.unfilled \in Nat /\ id # 0 /\ o.side \in Sides
  <2>1. c.filled \in Nat /\ c.qty \in Nat
    BY <1>3 DEF Order
  <2>2. o.filled \in Nat /\ o.qty \in Nat /\ o.side \in Sides
    BY <1>4 DEF ExchangeOrder
  <2>3. f.cum \in Nat /\ f.unfilled \in Nat
    BY DEF Reports
  <2>4. id # 0
    BY <1>2, <1>3
  <2>5. QED BY <2>1, <2>2, <2>3, <2>4
<1>6. TableAfter(e.orders, g.orders, f, id, n)
  BY FillTable
<1>7. g.bound = Rebound(e, f, id) /\ g.pos[s] = Shares(e, f, n)
  BY DEF FillOf
<1>8. n = IF f.cum >= c.filled THEN f.cum - c.filled ELSE 0
  <2> DEFINE u == c.qty - f.unfilled
             v == Max({u, 0}) - c.filled
  <2>1. NormalizeFillQty(e, f, id) = Max({0, v})
    BY <1>5 DEF NormalizeFillQty
  <2>2. c.qty = o.qty
    BY <1>2 DEF Follows
  <2>3. u = f.cum
    BY <1>5, <2>2
  <2> HIDE DEF u, c, id, o
  <2>4. Max({u, 0}) = f.cum
    BY <1>5, <2>3, MaxOfTwo
  <2>5. v = f.cum - c.filled /\ v \in Int
    BY <1>5, <2>4
  <2> HIDE DEF v
  <2>6. Max({0, v}) = IF 0 >= v THEN 0 ELSE v
    BY <2>5, MaxOfTwo
  <2>7. QED BY <1>5, <2>1, <2>5, <2>6 DEF id
<1> HIDE DEF id, n
<1>9. Owner(g, f.no, s) = id
  <2>1. f.no \in DOMAIN g.bound /\ g.bound[f.no] = id
    BY <1>5, <1>7 DEF Rebound
  <2>2. QED BY <2>1 DEF Owner, BindBrokerOrderId
<1>10. /\ id \in DOMAIN g.orders /\ d.side = c.side /\ d.qty = c.qty /\ d.sym = c.sym
       /\ d.filled = c.filled + n
  <2>1. CASE n = 0
    BY <1>2, <1>5, <1>6, <2>1 DEF TableAfter
  <2>2. CASE n # 0
    BY <1>2, <1>5, <1>6, <2>2 DEF TableAfter, Follows
  <2>3. QED BY <2>1, <2>2
<1>11. c.sym = o.sym /\ c.side = o.side /\ c.qty = o.qty /\ c.filled <= o.filled
  BY <1>2 DEF Follows
<1>12. IF o.side = "BUY" THEN e.pos[s] + (o.filled - c.filled) = h
       ELSE e.pos[s] = h + (o.filled - c.filled)
  BY <1>2 DEF Follows
<1>13. g.pos[s] = IF o.side = "BUY" THEN e.pos[s] + n
                  ELSE IF n > e.pos[s] THEN 0 ELSE e.pos[s] - n
  BY <1>7 DEF Shares
<1> HIDE DEF o, c, d, s, h
<1>14. /\ n \in Nat /\ d.filled \in Nat /\ d.filled <= o.filled
       /\ f.cum = o.filled => d.filled = o.filled
  BY <1>5, <1>8, <1>10, <1>11 DEF o
<1>15. IF o.side = "BUY" THEN g.pos[s] + (o.filled - d.filled) = h
       ELSE g.pos[s] = h + (o.filled - d.filled)
  <2>1. /\ h \in Nat /\ e.pos[s] \in Nat /\ g.pos[s] \in Nat /\ n \in Nat
        /\ o.filled \in Nat /\ c.filled \in Nat /\ d.filled \in Nat
        /\ d.filled = c.filled + n /\ d.filled <= o.filled
    BY <1>3, <1>5, <1>10, <1>14
  <2>2. CASE o.side = "BUY"
    <3>1. e.pos[s] + (o.filled - c.filled) = h /\ g.pos[s] = e.pos[s] + n
      BY <1>12, <1>13, <2>2
    <3>2. g.pos[s] + (o.filled - d.filled) = h
      BY ONLY <2>1, <3>1
    <3>3. QED BY <2>2, <3>2
  <2>3. CASE o.side # "BUY"
    <3>1. e.pos[s] = h + (o.filled - c.filled)
          /\ g.pos[s] = IF n > e.pos[s] THEN 0 ELSE e.pos[s] - n
      BY <1>12, <1>13, <2>3
    <3>2. n <= e.pos[s]
      BY ONLY <2>1, <3>1
    <3>3. g.pos[s] = h + (o.filled - d.filled)
      BY ONLY <2>1, <3>1, <3>2
    <3>4. QED BY <2>3, <3>3
  <2>4. QED BY <2>2, <2>3
<1>16. QED BY <1>3, <1>5, <1>9, <1>10, <1>11, <1>14, <1>15 DEF Applied, o, d, s, h

\* A report leaves the symbols of other orders matched.
LEMMA ReportElsewhere ==
  ASSUME NEW e \in Memory, NEW x \in Account, OrdersOK(e.orders), BoundOK(e, x),
         NEW f, Reports(e, x, f), f.no >= 0, NEW g \in Memory,
         FillOf(e, f, BindBrokerOrderId(e, f), NormalizeFillQty(e, f, BindBrokerOrderId(e, f)), g),
         NEW y, y.orders = x.orders, y.held = x.held,
         \A m : m # f.no => (Reported(y, m) <=> Reported(x, m)),
         NEW s \in Symbol, s # f.sym, Match(e, x, s)
  PROVE  Match(g, y, s)
<1> DEFINE id == BindBrokerOrderId(e, f)
           n  == NormalizeFillQty(e, f, id)
<1>1. TableAfter(e.orders, g.orders, f, id, n)
  BY FillTable
<1>2. /\ g.bound = Rebound(e, f, id) /\ g.pos[s] = e.pos[s]
      /\ id # 0 => id \in DOMAIN e.orders /\ e.orders[id].sym = f.sym
  BY FillTarget DEF FillOf
<1>3. x.orders[f.no].sym = f.sym
  BY DEF Reports
<1> HIDE DEF id, n
<1>4. /\ DOMAIN g.orders = DOMAIN e.orders
      /\ \A i \in DOMAIN e.orders : e.orders[i].sym = s => g.orders[i] = e.orders[i]
      /\ \A i \in DOMAIN e.orders : g.orders[i].sym = s => g.orders[i] = e.orders[i]
  BY <1>1 DEF TableAfter
<1>5. OpenIds(g, s) = OpenIds(e, s)
  BY <1>4 DEF OpenIds
<1>6. ASSUME NEW m \in Movers(x, s)
      PROVE  /\ m # f.no /\ Owner(g, m, s) = Owner(e, m, s)
             /\ Owner(e, m, s) \in DOMAIN g.orders
             /\ SameOrder(e.orders[Owner(e, m, s)], g.orders[Owner(e, m, s)])
  <2>1. m # f.no
    BY <1>3 DEF Movers
  <2>2. /\ m \in DOMAIN g.bound <=> m \in DOMAIN e.bound
        /\ m \in DOMAIN e.bound => g.bound[m] = e.bound[m]
    BY <1>2, <2>1 DEF Rebound
  <2>3. Owner(g, m, s) = Owner(e, m, s)
    BY <1>5, <2>2, OwnerSame
  <2>4. Owner(e, m, s) \in DOMAIN e.orders /\ e.orders[Owner(e, m, s)].sym = s
    <3>1. Tracks(e, x, m, s) /\ x.orders[m].sym = s
      BY DEF Match, Movers
    <3>2. QED BY <3>1 DEF Tracks, Follows
  <2>5. QED BY <1>4, <2>1, <2>3, <2>4 DEF SameOrder
<1>7. Movers(y, s) = Movers(x, s)
  BY <1>3 DEF Movers
<1>8. \A m \in Movers(x, s) : (Reported(y, m) <=> Reported(x, m))
                              /\ SameOrder(x.orders[m], y.orders[m])
  BY <1>6 DEF SameOrder
<1>9. QED BY <1>2, <1>6, <1>7, <1>8, MatchKept

\* _on_receive_chejan_data: a report takes the portfolio on towards the account.
LEMMA ChejanMatches ==
  ASSUME OrdersAssumption, OrdersInv, AccountInv, NEW level \in FillLevels \cup {0},
         NEW again \in BOOLEAN, OnReceiveChejan(level, again)
  PROVE  AccountInv'
<1> DEFINE x == exchange
           f == Head(x.reports)
           g == OnFill(engine, f, level)
           y == [exchange EXCEPT !.reports = IF again THEN @ ELSE Tail(@)]
           id == BindBrokerOrderId(engine, f)
           n == NormalizeFillQty(engine, f, id)
<1>1. /\ run.up /\ x.reports # <<>> /\ engine' = g /\ exchange' = y
      /\ run' = [run EXCEPT !.faults = @ + (IF again THEN 1 ELSE 0),
                            !.blind = @ \/ Mistaken(engine, f)]
      /\ mode' = mode /\ clean' = clean
  BY DEF OnReceiveChejan
<1>2. /\ Context /\ engine \in Memory /\ x \in Account /\ OrdersOK(engine.orders)
      /\ BoundOK(engine, x) /\ ReportsOK(x) /\ clean \subseteq Symbol
      /\ run \in [up : BOOLEAN, linked : BOOLEAN, boots : Nat, faults : Nat, blind : BOOLEAN]
  BY UpFacts DEF MemoryOK
<1>3. run'.up = run.up /\ run'.linked = run.linked
  BY <1>1, <1>2
<1>4. y.orders = x.orders /\ y.held = x.held
      /\ y.reports = IF again THEN x.reports ELSE Tail(x.reports)
  BY <1>2 DEF Account
<1>5. f \in Report /\ 1 \in DOMAIN x.reports /\ f = x.reports[1]
  <2>1. x.reports \in Seq(Report)
    BY <1>2 DEF Account
  <2>2. QED BY <1>1, <2>1
<1> HIDE DEF y, g
<1>6. /\ Reported(x, f.no)
      /\ \A m : Reported(y, m) => Reported(x, m)
      /\ \A m : m # f.no => (Reported(y, m) <=> Reported(x, m))
      /\ ReportsInOrder(x) => ReportsInOrder(y)
      /\ ReportsInOrder(x) /\ ~Reported(y, f.no) => f.cum = x.orders[f.no].filled
  BY <1>1, <1>2, <1>4, ReportsLeft
<1> HIDE DEF f
<1>7. Reports(engine, x, f) /\ f.no >= 0 /\ f.side = x.orders[f.no].side
      /\ f.no \in DOMAIN x.orders /\ f.sym = x.orders[f.no].sym
  <2>1. /\ f.no \in DOMAIN x.orders /\ f.sym = x.orders[f.no].sym
        /\ f.side = x.orders[f.no].side
    BY <1>2, <1>5 DEF ReportsOK
  <2>2. QED BY <1>5, <2>1 DEF Reports, Report
<1>8. g \in Memory /\ FillOf(engine, f, id, n, g)
  <2>1. level \in Int
    BY DEF OrdersAssumption
  <2>2. QED BY <1>2, <1>7, <2>1, FillEffect DEF g
<1> HIDE DEF id, n
<1>9. ASSUME ReportsInOrder(x), NEW s \in clean, Match(engine, x, s) PROVE Match(g, y, s)
  <2>1. CASE s # f.sym
    BY <1>2, <1>4, <1>6, <1>7, <1>8, <1>9, <2>1, ReportElsewhere DEF id, n
  <2>2. CASE s = f.sym
    <3> DEFINE o == x.orders[f.no]
    <3>1. Movers(x, s) = {f.no}
      <4>1. f.no \in Movers(x, s)
        BY <1>6, <1>7, <2>2 DEF Movers
      <4>2. QED BY <1>9, <4>1 DEF Match
    <3>2. f.cum <= o.filled /\ f.cum + f.unfilled = o.qty
      BY <1>5, <1>9 DEF ReportsInOrder
    <3>3. Tracks(engine, x, f.no, f.sym)
      BY <1>9, <2>2, <3>1 DEF Match
    <3>4. Applied(g, x, f)
      BY <1>2, <1>7, <1>8, <3>2, <3>3, ReportApplied DEF id, n
    <3> DEFINE d == g.orders[Owner(g, f.no, f.sym)]
               r == Reported(y, f.no)
    <3>5. /\ Owner(g, f.no, f.sym) \in DOMAIN g.orders
          /\ d.sym = o.sym /\ d.side = o.side /\ d.qty = o.qty /\ d.filled <= o.filled
          /\ d.filled \in Nat /\ o.filled \in Nat /\ x.held[s] \in Nat /\ g.pos[s] \in Nat
          /\ f.cum = o.filled => d.filled = o.filled
          /\ IF o.side = "BUY" THEN g.pos[s] + (o.filled - d.filled) = x.held[s]
             ELSE g.pos[s] = x.held[s] + (o.filled - d.filled)
      BY <2>2, <3>4 DEF Applied
    <3> HIDE DEF d, o
    <3>6. ~r => d.filled = o.filled
      BY <1>6, <1>9, <3>5 DEF o
    <3> HIDE DEF r
    <3>7. Follows(d, o, g.pos[s], y.held[s], r)
      BY <1>4, <3>5, <3>6 DEF Follows
    <3>8. Tracks(g, y, f.no, s)
      BY <1>4, <2>2, <3>5, <3>7 DEF Tracks, d, o, r
    <3>9. Movers(y, s) \subseteq {f.no}
      BY <1>4, <1>6, <3>1 DEF Movers
    <3>10. ASSUME f.no \notin Movers(y, s) PROVE g.pos[s] = y.held[s]
      <4>1. ~r
        BY <1>4, <1>7, <2>2, <3>10 DEF Movers, r
      <4>2. QED BY <1>4, <3>5, <3>6, <4>1
    <3>11. QED BY <3>8, <3>9, <3>10 DEF Match
  <2>3. QED BY <2>1, <2>2
<1>10. run'.linked => run'.up
  BY <1>3 DEF AccountInv
<1>11. mode = "live" => (run'.linked \/ y.reports = <<>>) /\ ReportsInOrder(y)
  BY <1>1, <1>3, <1>6 DEF AccountInv, x
<1>12. mode = "live" /\ run'.up => \A s \in clean : Match(g, y, s)
  BY <1>3, <1>9 DEF AccountInv, Matched, x
<1>13. QED BY <1>1, <1>10, <1>11, <1>12, AccountNext

\* Of the orders of the account in s, those that are unsettled are the ones the memory has
\* restored.
RestoredOnly(f, x, s) ==
  /\ \A i \in DOMAIN f.orders : f.orders[i].restored \in s
  /\ \A n \in s : x.orders[n].st # "done" =>
       /\ n \in DOMAIN f.bound /\ f.bound[n] \in DOMAIN f.orders
       /\ SameOrder(x.orders[n], f.orders[f.bound[n]])

\* sync_pending_orders takes an order over as it is, bound to its number.
LEMMA OrderTakenOver ==
  ASSUME NEW e \in Memory, NEW n \in DOMAIN exchange.orders, NEW s, n \notin s,
         RestoredOnly(e, exchange, s)
  PROVE  RestoredOnly(RestoreOrder(e, n), exchange, s \cup {n})
<1> DEFINE x == exchange
           c == x.orders[n]
           o == [sym |-> c.sym, side |-> c.side, qty |-> c.qty, filled |-> c.filled,
                 why |-> "pending", day |-> clock.day, route |-> NoStrategy, restored |-> n,
                 st |-> IF c.filled > 0 THEN "PARTIAL" ELSE "SUBMITTED"]
           b == [k \in DOMAIN e.bound \cup {n} |-> IF k = n THEN Len(e.orders) + 1 ELSE e.bound[k]]
           p == Append(e.orders, o)
           f == [e EXCEPT !.orders = p, !.bound = b]
<1>1. ~\E i \in DOMAIN e.orders : e.orders[i].restored = n /\ e.orders[i].st # "CANCELED"
  BY DEF RestoredOnly
<1>2. CASE c.st = "done"
  <2>1. RestoreOrder(e, n) = e
    BY <1>2 DEF RestoreOrder
  <2>2. QED BY <1>2, <2>1 DEF RestoredOnly
<1>3. CASE c.st # "done"
  <2>1. RestoreOrder(e, n) = f
    BY <1>1, <1>3 DEF RestoreOrder
  <2>2. o.restored = n /\ SameOrder(c, o)
    BY DEF SameOrder
  <2> HIDE DEF o, c
  <2>3. /\ DOMAIN b = DOMAIN e.bound \cup {n} /\ b[n] = Len(e.orders) + 1
        /\ \A k \in DOMAIN e.bound \ {n} : b[k] = e.bound[k]
    OBVIOUS
  <2> HIDE DEF b
  <2>4. Len(e.orders) \in Nat /\ e.orders \in Seq(Order) /\ DOMAIN e.orders = 1..Len(e.orders)
    BY MemoryFacts
  <2>5. /\ DOMAIN p = 1..(Len(e.orders) + 1) /\ p[Len(e.orders) + 1] = o
        /\ \A i \in DOMAIN e.orders : p[i] = e.orders[i]
    BY <2>4
  <2> HIDE DEF p
  <2>6. f.orders = p /\ f.bound = b
    BY DEF Memory
  <2> HIDE DEF f
  <2>7. \A i \in DOMAIN p : p[i].restored \in s \cup {n}
    <3>1. \A i \in DOMAIN p : i \in DOMAIN e.orders \/ p[i] = o
      BY <2>4, <2>5
    <3>2. QED BY <2>2, <2>5, <3>1 DEF RestoredOnly
  <2>8. ASSUME NEW m \in s \cup {n}, x.orders[m].st # "done"
        PROVE  m \in DOMAIN b /\ b[m] \in DOMAIN p /\ SameOrder(x.orders[m], p[b[m]])
    <3>1. CASE m = n
      BY <2>2, <2>3, <2>4, <2>5, <3>1 DEF c
    <3>2. CASE m # n
      <4>1. m \in DOMAIN e.bound /\ e.bound[m] \in DOMAIN e.orders
            /\ SameOrder(x.orders[m], e.orders[e.bound[m]])
        BY <2>8, <3>2 DEF RestoredOnly
      <4>2. QED BY <2>3, <2>4, <2>5, <3>2, <4>1
    <3>3. QED BY <3>1, <3>2
  <2>9. QED BY <2>1, <2>6, <2>7, <2>8 DEF RestoredOnly, x
<1>4. QED BY <1>2, <1>3

\* So it does with all of them, in a memory without orders.
LEMMA OrdersTakenOver ==
  ASSUME OrdersAssumption, Context, NEW e, MemoryOK(e, exchange),
         Len(exchange.orders) <= MaxSent, e.orders = <<>>
  PROVE  RestoredOnly(SyncPendingOrders(e), exchange, DOMAIN exchange.orders)
<1> DEFINE D == DOMAIN exchange.orders
<1>1. PICK h : Restores(h, e) /\ SyncPendingOrders(e) = h[D]
  BY PendingRestored
<1> DEFINE B == {s \in SUBSET D : ~RestoredOnly(h[s], exchange, s)}
<1>2. IsFiniteSet(D)
  <2>1. exchange.orders \in Seq(ExchangeOrder)
    BY DEF MemoryOK, Account
  <2>2. D = 1..Len(exchange.orders) /\ Len(exchange.orders) \in Nat
    BY <2>1
  <2>3. \A m \in Nat : IsFiniteSet(1..m)
    BY PlacesFinite
  <2>4. QED BY <2>2, <2>3
<1>3. RestoredOnly(h[{}], exchange, {})
  BY <1>1 DEF Restores, RestoredOnly
<1>4. B = {}
  <2> SUFFICES ASSUME B # {} PROVE FALSE
    OBVIOUS
  <2>1. PICK s \in B : \A y \in s : s \ {y} \notin B
    <3>1. B \in SUBSET SUBSET D
      OBVIOUS
    <3> HIDE DEF B, D
    <3>2. QED BY <1>2, <3>1, LeastSet
  <2>2. s \in SUBSET D /\ ~RestoredOnly(h[s], exchange, s)
    BY <2>1
  <2>3. s # {}
    BY <1>3, <2>2
  <2> DEFINE n == Max(s)
             r == s \ {n}
  <2>4. n \in s /\ h[s] = RestoreOrder(h[r], n) /\ MemoryOK(h[r], exchange)
    BY <1>1, <2>2, <2>3 DEF Restores
  <2> HIDE DEF n
  <2>5. RestoredOnly(h[r], exchange, r) /\ h[r] \in Memory /\ n \notin r /\ n \in D
        /\ r \cup {n} = s
    BY <2>1, <2>2, <2>4 DEF MemoryOK
  <2> HIDE DEF r
  <2>6. RestoredOnly(h[s], exchange, r \cup {n})
    BY <2>4, <2>5, OrderTakenOver
  <2>7. QED BY <2>2, <2>5, <2>6
<1>5. QED BY <1>1, <1>4

\* At most one element.
LEMMA OnlyOne ==
  ASSUME NEW S, IsFiniteSet(S), Cardinality(S) <= 1, NEW m \in S, NEW n \in S
  PROVE  m = n
<1> SUFFICES ASSUME m # n PROVE FALSE
  OBVIOUS
<1>1. IsFiniteSet(S \ {m}) /\ Cardinality(S \ {m}) = Cardinality(S) - 1
  BY FS_RemoveElement
<1>2. Cardinality(S) \in Nat /\ Cardinality(S \ {m}) \in Nat
  BY <1>1, FS_CardinalityType
<1>3. Cardinality(S \ {m}) = 0
  BY <1>1, <1>2
<1>4. S \ {m} = {}
  BY <1>1, <1>3, FS_EmptySet
<1>5. QED BY <1>4

\* start of the process: both queries give a memory that matches the account, except for the
\* symbols several orders of which are unsettled.
LEMMA BootMatches ==
  ASSUME OrdersAssumption, OrdersInv, AccountInv, NEW account \in BOOLEAN,
         NEW pending \in BOOLEAN, Boot(account, pending)
  PROVE  AccountInv'
<1> DEFINE e == Fresh(clock.day)
           f == Sync(e, account, pending)
           both == account /\ pending
           n == run.faults + (IF both THEN 0 ELSE 1)
           x == exchange
<1>1. /\ engine' = f /\ exchange' = x /\ ~run.up
      /\ run' = [run EXCEPT !.up = TRUE, !.linked = TRUE, !.boots = run.boots + 1,
                            !.faults = n, !.blind = ~both]
      /\ clean' = IF both THEN {s \in Symbol : Cardinality(Unsettled(x, s)) <= 1} ELSE {}
      /\ mode' = mode
  BY DEF Boot
<1>2. /\ Context /\ AccountOK(x) /\ x \in Account /\ store \in [Symbol -> Route]
      /\ Len(x.orders) <= MaxSent /\ clock.day \in Nat
      /\ run \in [up : BOOLEAN, linked : BOOLEAN, boots : Nat, faults : Nat, blind : BOOLEAN]
  BY UpFacts
<1>3. run'.up /\ run'.linked
  <2> HIDE DEF n, both
  <2>1. QED BY <1>1, <1>2
<1>4. MemoryOK(e, x) /\ e.orders = <<>> /\ \A s \in Symbol : e.pos[s] = 0
  <2>1. \A s \in Symbol : e.pos[s] = 0
    BY DEF Fresh
  <2>2. QED BY <1>2, <2>1, FreshMemory
<1> HIDE DEF e, f, n
<1>5. ASSUME both, mode = "live", NEW s \in Symbol, Cardinality(Unsettled(x, s)) <= 1
      PROVE  Match(f, x, s)
  <2> DEFINE a == SyncAccount(e)
             M == Unsettled(x, s)
  <2>1. f = SyncPendingOrders(a)
    BY <1>5 DEF f, Sync
  <2>2. /\ MemoryOK(a, x) /\ a.orders = <<>>
        /\ a.pos[s] = IF x.held[s] > 0 THEN x.held[s] ELSE 0
    BY <1>2, <1>4, AccountSynced
  <2> HIDE DEF a, x
  <2>3. f.pos[s] = x.held[s]
    <3>1. f.pos = a.pos
      BY <1>2, <2>1, <2>2, PendingSynced DEF Restored, x
    <3>2. x.held[s] \in Nat
      BY <1>2 DEF Account
    <3>3. QED BY <2>2, <3>1, <3>2
  <2>4. RestoredOnly(f, x, DOMAIN x.orders)
    BY <1>2, <2>1, <2>2, OrdersTakenOver DEF x
  <2>5. DOMAIN x.reports = {}
    BY <1>1, <1>2, <1>5 DEF AccountInv, x
  <2>6. \A m : ~Reported(x, m)
    BY <2>5 DEF Reported
  <2>7. Movers(x, s) = M
    BY <2>6 DEF Movers, Unsettled
  <2>8. IsFiniteSet(M)
    <3>1. x.orders \in Seq(ExchangeOrder)
      BY <1>2 DEF Account
    <3>2. DOMAIN x.orders = 1..Len(x.orders) /\ Len(x.orders) \in Nat
      BY <3>1
    <3>3. IsFiniteSet(DOMAIN x.orders)
      BY <3>2, PlacesFinite
    <3>4. M \subseteq DOMAIN x.orders
      BY DEF Unsettled
    <3>5. QED BY <3>3, <3>4, FS_Subset
  <2>9. \A m, k \in M : m = k
    BY <1>5, <2>8, OnlyOne
  <2>10. ASSUME NEW m \in M PROVE Tracks(f, x, m, s)
    <3> DEFINE o == x.orders[m]
               d == f.orders[f.bound[m]]
    <3>1. m \in DOMAIN x.orders /\ o.sym = s /\ o.st # "done"
      BY DEF Unsettled
    <3>2. m \in DOMAIN f.bound /\ f.bound[m] \in DOMAIN f.orders /\ SameOrder(o, d)
      BY <2>4, <3>1 DEF RestoredOnly
    <3>3. Owner(f, m, s) = f.bound[m]
      BY <3>2 DEF Owner, BindBrokerOrderId
    <3>4. o.filled \in Nat /\ x.held[s] \in Nat
      <4>1. x.orders \in Seq(ExchangeOrder) /\ x.held[s] \in Nat
        BY <1>2 DEF Account
      <4>2. o \in ExchangeOrder
        BY <3>1, <4>1
      <4>3. QED BY <4>1, <4>2 DEF ExchangeOrder
    <3> HIDE DEF o, d, M
    <3>5. Follows(d, o, f.pos[s], x.held[s], Reported(x, m))
      BY <2>3, <3>2, <3>4 DEF Follows, SameOrder
    <3>6. QED BY <3>2, <3>3, <3>5 DEF Tracks, o, d
  <2>11. QED BY <2>3, <2>7, <2>9, <2>10 DEF Match
<1>6. mode = "live" => \A s \in clean' : Match(f, x, s)
  BY <1>1, <1>5
<1>7. QED BY <1>1, <1>3, <1>6, AccountNext DEF AccountInv

\* The account and the portfolio of the clean symbols say of each other what Match says, for
\* any number of stocks, orders, reports, starts, days and faults.
THEOREM AccountInvariant == Spec => [](OrdersInv /\ AccountInv)
<1>1. Init => AccountInv
  BY InitMatches
<1>2. OrdersInv /\ AccountInv /\ [Next]_vars => AccountInv'
  <2> SUFFICES ASSUME OrdersInv, AccountInv, [Next]_vars PROVE AccountInv'
    OBVIOUS
  <2>1. OrdersAssumption
    BY OrdersAssumption
  <2>2. ASSUME NEW s \in Symbol, NEW t \in TickInputs(engine, s), OnRealTick(s, t)
        PROVE  AccountInv'
    <3>1. run.up /\ \E w : Sound(w) /\ Effect(w, t.ok)
      BY <2>1, <2>2, TickEnds
    <3>2. QED BY <3>1, EffectMatches
  <2>3. ASSUME NEW t \in [Symbol -> UNION {ManageInputs(s) : s \in Symbol}],
               \A s \in Symbol : t[s] \in ManageInputs(s), ManagePendingOrders(t)
        PROVE  AccountInv'
    <3>1. run.up /\ \E w, ok : Sound(w) /\ Effect(w, ok)
      BY <2>1, <2>3, ManageEnds
    <3>2. QED BY <3>1, EffectMatches
  <2>4. ASSUME NEW l \in FillLevels \cup {0}, NEW again \in BOOLEAN, OnReceiveChejan(l, again)
        PROVE  AccountInv'
    BY <2>1, <2>4, ChejanMatches
  <2>5. ASSUME NEW a \in BOOLEAN, NEW p \in BOOLEAN, Boot(a, p)
        PROVE  AccountInv'
    BY <2>1, <2>5, BootMatches
  <2>6. ASSUME NEW a \in BOOLEAN, NEW p \in BOOLEAN, Recover(a, p)
        PROVE  AccountInv'
    BY <2>6, RecoverMatches
  <2>7. CASE Stop
    BY <2>7, StopMatches
  <2>8. CASE Disconnect
    BY <2>8, DisconnectMatches
  <2>9. ASSUME NEW n \in DOMAIN exchange.orders, ExchangeClose(n)
        PROVE  AccountInv'
    BY <2>9, CloseMatches
  <2>10. ASSUME NEW n \in DOMAIN exchange.orders,
                NEW k \in 1..Remaining(exchange.orders[n]), ExchangeFill(n, k)
         PROVE  AccountInv'
    BY <2>10, FillMatches
  <2>11. CASE Advance
    BY <2>11, StillMatches DEF Advance
  <2>12. CASE NextDay
    BY <2>12, NextDayMatches
  <2>13. CASE UNCHANGED vars
    BY <2>13, StillMatches DEF vars
  <2>14. CASE ProcessNext
    BY <2>2, <2>3, <2>4, <2>5, <2>6, <2>7, <2>14 DEF ProcessNext
  <2>15. CASE EnvironmentNext
    BY <2>8, <2>9, <2>10, <2>11, <2>12, <2>15 DEF EnvironmentNext
  <2>16. QED BY <2>13, <2>14, <2>15 DEF Next
<1>3. QED BY <1>1, <1>2, OrdersInvariant, PTL DEF Spec

-----------------------------------------------------------------------------
(* What follows from the invariant *)

\* The types of the memory, of the account and of the history.
THEOREM OrdersTypeCorrect == Spec => []OrdersTypeOK
<1>1. OrdersInv => OrdersTypeOK
  <2> SUFFICES ASSUME OrdersInv PROVE OrdersTypeOK
    OBVIOUS
  <2>1. engine \in Memory /\ exchange \in Account /\ BoundOK(engine, exchange)
    BY DEF OrdersInv, MemoryOK
  <2>2. /\ engine.orders \in Seq(Order) /\ Len(engine.orders) \in Nat
        /\ DOMAIN engine.bound \subseteq Int /\ engine.bound \in [DOMAIN engine.bound -> Nat]
    BY <2>1, MemoryFacts
  <2>3. engine.bound \in [DOMAIN engine.bound -> DOMAIN engine.orders]
    BY <2>1, <2>2 DEF BoundOK
  <2>4. DOMAIN engine.bound \subseteq -MaxOrders..MaxSent
    <3>1. ASSUME NEW k \in DOMAIN engine.bound PROVE k \in -MaxOrders..MaxSent
      <4>1. k \in Int /\ MaxOrders \in Nat /\ MaxSent \in Nat
        BY <2>2, OrdersAssumption
      <4>2. Len(engine.orders) <= MaxOrders /\ Len(exchange.orders) <= MaxSent
        BY DEF OrdersInv
      <4>3. exchange.orders \in Seq(ExchangeOrder)
        BY <2>1 DEF Account
      <4>4. Len(exchange.orders) \in Nat /\ DOMAIN exchange.orders = 1..Len(exchange.orders)
        BY <4>3
      <4>5. CASE k < 0
        <5>1. -k <= Len(engine.orders)
          BY <2>1, <4>5 DEF BoundOK
        <5>2. QED BY <2>2, <4>1, <4>2, <4>5, <5>1
      <4>6. CASE k >= 0
        <5>1. k \in DOMAIN exchange.orders
          BY <2>1, <4>6 DEF BoundOK
        <5>2. QED BY <4>1, <4>2, <4>4, <5>1
      <4>7. QED BY <4>1, <4>5, <4>6
    <3>2. QED BY <3>1
  <2>5. /\ engine.pos \in [Symbol -> Nat] /\ engine.gate \in [Symbol -> Gate]
        /\ engine.exit \in [Symbol -> Exit] /\ engine.cycle \in [Symbol -> Route]
        /\ engine.count \in [Strategy -> 0..OrderLimit]
        /\ engine.losses \in [Strategy -> 0..LossLimit]
        /\ engine.halted \subseteq Strategy /\ engine.forced \subseteq Symbol
        /\ engine.errors \in 0..ErrorLimit /\ engine.realized \in Int
        /\ exchange.held \in [Symbol -> Nat]
    BY <2>1 DEF Memory, Account
  <2>6. /\ mode \in Modes /\ store \in [Symbol -> Route] /\ clean \subseteq Symbol
        /\ clock \in [day : 1..MaxDays, phase : DOMAIN Phases]
    BY DEF OrdersInv, Context
  <2>7. QED BY <2>2, <2>3, <2>4, <2>5, <2>6 DEF OrdersTypeOK
<1>2. QED BY <1>1, OrdersInvariant, PTL

\* engine.py on_fill, sync_account: a flat symbol of a process that is not blind
\* keeps no exit, no mark and no route of its last trade.
THEOREM FlatHolds == Spec => []FlatLeavesNothing
<1>1. OrdersInv => FlatLeavesNothing
  BY DEF OrdersInv, FlatLeavesNothing, SymbolOK
<1>2. QED BY <1>1, OrdersInvariant, PTL

\* engine.py _check_stale_sell_order, _retry_sell_after_cancel: the mark of a cancel
\* stands as long as a resell waits; then shares are held and no buy is open.
THEOREM CancelHolds == Spec => []CancelMeansResell
<1>1. OrdersInv => CancelMeansResell
  <2> SUFFICES ASSUME OrdersInv, NEW s \in Symbol
               PROVE  /\ engine.gate[s].canceling <=> engine.gate[s].resell > 0
                      /\ engine.gate[s].canceling /\ ~run.blind =>
                           engine.pos[s] > 0 /\ ~engine.gate[s].selling
                             /\ \A i \in OpenIds(engine, s) :
                                  engine.orders[i].restored = 0 => engine.orders[i].side = "SELL"
    BY DEF CancelMeansResell
  <2>1. GateOK(engine) /\ engine \in Memory
    BY DEF OrdersInv, MemoryOK
  <2>2. ASSUME engine.gate[s].canceling, ~run.blind
        PROVE  /\ engine.pos[s] > 0 /\ ~engine.gate[s].selling
               /\ ~PendingBuy(engine.orders, s)
    BY <2>2 DEF OrdersInv, SymbolOK
  <2>3. ASSUME ~PendingBuy(engine.orders, s), NEW i \in OpenIds(engine, s),
               engine.orders[i].restored = 0
        PROVE  engine.orders[i].side = "SELL"
    <3>1. i \in DOMAIN engine.orders /\ engine.orders[i].sym = s
          /\ Pending(engine.orders[i])
      BY DEF OpenIds, Open, Pending
    <3>2. engine.orders[i] \in Order
      BY <2>1, <3>1, MemoryFacts
    <3>3. engine.orders[i].side # "BUY"
      BY <2>3, <3>1 DEF PendingBuy
    <3>4. QED BY <3>2, <3>3 DEF Order
  <2>4. engine.gate[s].canceling <=> engine.gate[s].resell > 0
    BY <2>1 DEF GateOK
  <2>5. QED BY <2>2, <2>3, <2>4
<1>2. QED BY <1>1, OrdersInvariant, PTL

\* engine.py _submit_auto_sell: the mark of a sell in progress has an open sell.
THEOREM SellingHolds == Spec => []SellingHasOrder
<1>1. OrdersInv => SellingHasOrder
  <2> SUFFICES ASSUME OrdersInv, NEW s \in Symbol, engine.gate[s].selling, ~run.blind
               PROVE  OpenSells(engine, s) # {}
    BY DEF SellingHasOrder
  <2>1. PendingSell(engine.orders, s)
    BY DEF OrdersInv, SymbolOK
  <2>2. PICK i \in DOMAIN engine.orders :
          /\ engine.orders[i].sym = s /\ engine.orders[i].side = "SELL"
          /\ Pending(engine.orders[i])
    BY <2>1 DEF PendingSell
  <2>3. engine.orders[i] \in Order
    BY MemoryFacts DEF OrdersInv, MemoryOK
  <2>4. i \in OpenSells(engine, s)
    BY <2>2, <2>3 DEF OpenSells, OpenIds, Open, Pending, Order
  <2>5. QED BY <2>4
<1>2. QED BY <1>1, OrdersInvariant, PTL

\* engine.py _check_auto_exit, _retry_sell_after_cancel: the open sells of a symbol
\* together ask for no more than the portfolio holds.
THEOREM SellsCoveredHolds == Spec => []SellsCovered
<1>1. OrdersInv => SellsCovered
  <2> SUFFICES ASSUME OrdersInv, NEW s \in Symbol, ~run.blind
               PROVE  SumFunction([i \in OpenSells(engine, s) |-> Remaining(engine.orders[i])])
                        <= engine.pos[s]
    BY DEF SellsCovered
  <2> DEFINE q == engine.orders
             S == OpenSells(engine, s)
  <2>1. Countable(q) /\ \A i \in DOMAIN q : q[i] \in Order
    BY MemoryFacts, CountableOrders DEF OrdersInv, MemoryOK
  <2>2. Claims(q, s) <= engine.pos[s]
    BY DEF OrdersInv, SymbolOK
  <2>3. S \subseteq DOMAIN q /\ \A i \in S : Claim(q[i], s) = Remaining(q[i])
    BY DEF OpenSells, OpenIds, Open, Claim, Pending
  <2>4. \A i \in DOMAIN q \ S : Claim(q[i], s) = 0
    BY <2>1 DEF OpenSells, OpenIds, Open, Claim, Pending, Order
  <2> HIDE DEF q, S
  <2>5. SumFunction([i \in S |-> Remaining(q[i])]) = Claims(q, s)
    BY <2>1, <2>3, <2>4, ClaimsOfSells
  <2>6. QED BY <2>2, <2>5 DEF q, S
<1>2. QED BY <1>1, OrdersInvariant, PTL

\* config_live.py:110: no process buys a stock again on the day it sold it at a loss,
\* unless it may live on into the next day.
THEOREM StoppedHolds ==
  ASSUME ~Overnight
  PROVE  Spec => []StoppedNotRebought
<1>1. OrdersInv => StoppedNotRebought
  <2> SUFFICES ASSUME OrdersInv, mode = "live",
                      NEW i \in DOMAIN engine.orders, NEW j \in DOMAIN engine.orders,
                      i < j, engine.orders[i].sym = engine.orders[j].sym,
                      engine.orders[i].why = "stop", engine.orders[i].st # "REJECTED",
                      engine.orders[j].why = "entry"
               PROVE  FALSE
    BY DEF StoppedNotRebought
  <2>1. CASE run.up
    <3>1. StopsOK(engine)
      BY <2>1 DEF OrdersInv, WorldOK
    <3>2. QED BY <3>1 DEF StopsOK
  <2>2. CASE ~run.up
    <3>1. engine.orders = <<>>
      BY <2>2 DEF OrdersInv
    <3>2. QED BY <3>1
  <2>3. QED BY <2>1, <2>2
<1>2. QED BY <1>1, OrdersInvariant, PTL

\* engine.py on_fill: the portfolio equals the account whenever all reports are applied, as
\* long as no order is sent while an earlier one of the symbol is unsettled, none is
\* cancelled that may still be filled and no report is lost.
THEOREM PortfolioHolds == Spec => []PortfolioMatchesAccount
<1>1. OrdersInv /\ AccountInv => PortfolioMatchesAccount
  <2> SUFFICES ASSUME OrdersInv, AccountInv, mode = "live", run.up,
                      exchange.reports = <<>>, NEW s \in clean
               PROVE  engine.pos[s] = exchange.held[s]
    BY DEF PortfolioMatchesAccount
  <2>1. Match(engine, exchange, s)
    BY DEF AccountInv, Matched
  <2>2. engine \in Memory /\ exchange \in Account /\ clean \subseteq Symbol
    BY UpFacts
  <2>3. ASSUME NEW n \in Movers(exchange, s) PROVE engine.pos[s] = exchange.held[s]
    <3> DEFINE id == Owner(engine, n, s)
               c  == engine.orders[id]
               o  == exchange.orders[n]
    <3>1. id \in DOMAIN engine.orders
          /\ Follows(c, o, engine.pos[s], exchange.held[s], Reported(exchange, n))
      BY <2>1 DEF Match, Tracks
    <3>2. ~Reported(exchange, n)
      <4>1. DOMAIN exchange.reports = {}
        OBVIOUS
      <4>2. QED BY <4>1 DEF Reported
    <3>3. o.filled \in Nat /\ engine.pos[s] \in Nat /\ exchange.held[s] \in Nat
      <4>1. exchange.orders \in Seq(ExchangeOrder) /\ n \in DOMAIN exchange.orders
        BY <2>2 DEF Account, Movers
      <4>2. o \in ExchangeOrder
        BY <4>1
      <4>3. QED BY <2>2, <4>2 DEF ExchangeOrder, Memory, Account
    <3> HIDE DEF c, o
    <3>4. QED BY <3>1, <3>2, <3>3 DEF Follows
  <2>4. CASE Movers(exchange, s) = {}
    BY <2>1, <2>4 DEF Match
  <2>5. QED BY <2>3, <2>4
<1>2. QED BY <1>1, AccountInvariant, PTL

=============================================================================
