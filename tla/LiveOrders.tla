----------------------------- MODULE LiveOrders -----------------------------
(* Orders and positions of the archived live engine: engine.py with the order
   manager, the portfolio and the order path of the Kiwoom broker, against an
   external exchange. The process is single threaded (one Qt event loop), so a
   handler is one step; what it does is composed of the operators below, each
   taking the world w = [e |-> engine memory, x |-> exchange] to the next one.

   Time is what the environment may choose: whether a timeout, a delay or a
   cooldown has passed is an input of the handler that asks. Prices are the
   profit levels of AutoExit. *)
EXTENDS AutoExit, Sequences, FiniteSets, SequencesExt, FiniteSetsExt

CONSTANTS
  Symbol,        \* stocks
  Strategy,      \* strategies that may signal, a subset of the names of AutoExit
  Modes,         \* RUN_MODE of config_live: "live", "paper"
  Levels,        \* profit levels a tick may have
  FillLevels,    \* profit levels a sell may be filled at
  Lots,          \* quantities a buy may ask for
  OrderLimit,    \* max_daily_orders of a strategy
  PositionLimit, \* max_positions of a strategy
  LossLimit,     \* max_consecutive_loss of a strategy
  RetryLimit,    \* RETRY_SELL_MAX_COUNT
  ErrorLimit,    \* MAX_ERROR_COUNT
  DailyLoss,     \* MAX_DAILY_LOSS, in levels times shares
  MaxOrders,     \* bound: orders an engine registers
  MaxSent,       \* bound: orders the exchange receives
  MaxBoots,      \* bound: starts of the process
  Overnight,     \* whether a process may live on into the next day, which the
                 \* default AUTO_SHUTDOWN_ENABLED excludes
  MaxDays,       \* bound: days
  MaxFaults      \* bound: refused orders and cancels, repeated reports, failed
                 \* queries, lost connections and kills

\* _load_runtime_config: no limit is set below 1.
Limit == Nat \ {0}

ASSUME OrdersAssumption ==
  /\ IsFiniteSet(Symbol)
  /\ Strategy \subseteq {"close_buy", "bottom_reversal", "leader_pullback"}
  /\ Modes \subseteq {"live", "paper"}
  /\ Levels \cup FillLevels \subseteq Int /\ Lots \subseteq Nat \ {0} /\ DailyLoss \in Int
  /\ {OrderLimit, PositionLimit, LossLimit, RetryLimit, ErrorLimit} \subseteq Limit
  /\ Overnight \in BOOLEAN
  /\ {MaxOrders, MaxSent, MaxBoots, MaxDays, MaxFaults} \subseteq Nat

\* There is a first day.
ASSUME DaysAssumption == MaxDays > 0

VARIABLES
  mode,     \* RUN_MODE
  engine,   \* memory of the process
  exchange, \* external: orders, account and fill reports under way
  store,    \* SQLite: strategy and day of the latest buy fill of each symbol
  clock,    \* day and phase of the market
  run,      \* whether the process is up and connected, its starts, and history:
            \* its faults so far, and whether it is blind: a query of its start
            \* failed, it has recovered a session since, or has taken a report
            \* for one of an order of the other side
  clean     \* history: the symbols whose fills were unambiguous since the start

vars == <<mode, engine, exchange, store, clock, run, clean>>

\* The phases of a day: 09:00 to 09:03 and 15:20 to 15:30 the market is open but
\* no automatic sell may go out.
Phases == <<"opening", "session", "closing", "closed">>

\* No strategy, or one that is not known.
NoStrategy == ""

NoRoute == [strategy |-> NoStrategy, day |-> 0]
NoGate == [selling |-> FALSE, canceling |-> FALSE, resell |-> 0, retries |-> 0]
Idle == [up |-> FALSE, linked |-> FALSE, boots |-> 0, faults |-> 0,
         blind |-> FALSE]

\* The memory of a fresh process. pos: quantities of the portfolio. gate:
\* sell_in_progress, cancel_in_progress, pending_resell and resell_retry_count.
\* cycle: trade_open_info and position_entry_context. signal: strategy of the
\* latest entry signal. stopped: day of stoploss_blocked_symbols. realized: the
\* profit since the daily base. forced: stale_force_exit_sent of today.
Fresh(today) ==
  [orders |-> <<>>, bound |-> <<>>,
   pos |-> [s \in Symbol |-> 0], gate |-> [s \in Symbol |-> NoGate],
   exit |-> [s \in Symbol |-> NoExit], cycle |-> [s \in Symbol |-> NoRoute],
   signal |-> [s \in Symbol |-> NoStrategy], stopped |-> [s \in Symbol |-> 0],
   count |-> [t \in Strategy |-> 0], losses |-> [t \in Strategy |-> 0],
   halted |-> {}, forced |-> {}, errors |-> 0, protected |-> FALSE,
   lossOut |-> FALSE, realized |-> 0, today |-> today]

Init ==
  /\ mode \in Modes
  /\ engine = Fresh(1)
  /\ exchange = [orders |-> <<>>, held |-> [s \in Symbol |-> 0], reports |-> <<>>]
  /\ store = [s \in Symbol |-> NoRoute]
  /\ clock = [day |-> 1, phase |-> 1]
  /\ run = Idle
  /\ clean = Symbol

Phase == Phases[clock.phase]
-----------------------------------------------------------------------------
(* The order manager. Orders are kept in the order of their time stamps. *)

Open(o) == o.st \in {"SUBMITTED", "PARTIAL"}
OpenIds(e, s) == {i \in DOMAIN e.orders : e.orders[i].sym = s /\ Open(e.orders[i])}
OpenSells(e, s) == {i \in OpenIds(e, s) : e.orders[i].side = "SELL"}
ExistsOpenOrder(e, s) == OpenIds(e, s) # {}

\* bind_broker_order_id: a number seen for the first time goes to the newest open
\* order of the symbol; 0 when there is none.
BindBrokerOrderId(e, f) ==
  IF f.no \in DOMAIN e.bound THEN e.bound[f.no]
  ELSE IF ExistsOpenOrder(e, f.sym) THEN Max(OpenIds(e, f.sym)) ELSE 0

\* Defect: the quantity of the report is taken as it comes.
NormalizeNothing(e, f, id) == f.cum

\* _normalize_fill_qty: what the report adds to the order it is bound to; as
\* reported when there is no such order.
NormalizeFillQty(e, f, id) ==
  IF id = 0 THEN f.cum
  ELSE Max({0, Max({e.orders[id].qty - f.unfilled, 0}) - e.orders[id].filled})

ApplyFill(o, n, unfilled) ==
  [o EXCEPT !.filled = @ + n, !.st = IF unfilled = 0 THEN "FILLED" ELSE "PARTIAL"]
-----------------------------------------------------------------------------
(* Protection of the engine. *)

DailyLossReached(e) == DailyLoss < 0 /\ e.realized <= DailyLoss

\* _check_engine_protection, for the strategy of the sell or for none.
CheckEngineProtection(e, t) ==
  [e EXCEPT
     !.halted = @ \cup {u \in Strategy : u = t /\ e.losses[u] >= LossLimit},
     !.protected = @ \/ e.errors >= ErrorLimit \/ DailyLossReached(e),
     !.lossOut = @ \/ DailyLossReached(e)]

\* The except branch of a handler; the counter stops at its limit, above which
\* nothing depends on it.
CountError(e) ==
  CheckEngineProtection([e EXCEPT !.errors = Min({@ + 1, ErrorLimit})], NoStrategy)

\* reset_daily_counters_if_needed.
ResetDaily(e) ==
  IF e.today = clock.day THEN e
  ELSE [e EXCEPT !.today = clock.day,
                 !.count = [t \in Strategy |-> 0], !.losses = [t \in Strategy |-> 0],
                 !.halted = {}, !.stopped = [s \in Symbol |-> 0], !.realized = 0,
                 !.lossOut = FALSE,
                 !.protected = @ /\ ~(e.lossOut /\ e.errors < ErrorLimit)]
-----------------------------------------------------------------------------
(* Fills. *)

\* _strategy_name_for_symbol: the strategy a position was opened by.
StrategyOf(e, s) == e.cycle[s].strategy

\* Portfolio.update_fill: a sell takes at most what is held.
FillShares(e, f, n) == IF f.side = "BUY" THEN n ELSE Min({n, e.pos[f.sym]})
UpdateFill(e, f, n, level) ==
  LET k == FillShares(e, f, n)
  IN  IF f.side = "BUY" THEN [e EXCEPT !.pos[f.sym] = @ + k]
      ELSE [e EXCEPT !.pos[f.sym] = @ - k, !.realized = @ + level * k]

\* _start_trade_cycle_if_needed and _close_trade_cycle_if_needed, by the
\* quantities before and after the fill.
StartTradeCycle(e, s, side, before) ==
  IF side = "BUY" /\ before = 0
    THEN [e EXCEPT !.cycle[s] = [strategy |-> e.signal[s], day |-> clock.day],
                   !.exit[s].trend = FALSE]
    ELSE e
CloseTradeCycle(e, s, side, before) ==
  IF side = "SELL" /\ before > 0 /\ e.pos[s] = 0
    THEN [e EXCEPT !.cycle[s] = NoRoute, !.exit[s].trend = FALSE]
    ELSE e

\* Defect: the exits of a closed position stay.
AfterFillKeepingExit(e, s, side) ==
  IF e.pos[s] = 0 THEN [e EXCEPT !.gate[s] = NoGate]
  ELSE IF side = "SELL" THEN [e EXCEPT !.gate[s].selling = FALSE] ELSE e

\* The end of on_fill: a flat position leaves nothing behind, a sell that leaves
\* shares opens the gate.
AfterFill(e, s, side) ==
  IF e.pos[s] = 0
    THEN [e EXCEPT !.gate[s] = NoGate, !.exit[s] = [NoExit EXCEPT !.trend = e.exit[s].trend]]
    ELSE IF side = "SELL" THEN [e EXCEPT !.gate[s].selling = FALSE] ELSE e

\* on_fill.
OnFill(e, f, level) ==
  LET id == BindBrokerOrderId(e, f)
      n  == NormalizeFillQty(e, f, id)
      b  == IF id = 0 THEN e
            ELSE [e EXCEPT !.bound = [k \in DOMAIN @ \cup {f.no} |-> IF k = f.no THEN id ELSE @[k]]]
      u  == UpdateFill(b, f, n, level)
      a  == IF id = 0 THEN u
            ELSE [u EXCEPT !.orders[id] = ApplyFill(@, n, f.unfilled)]
      c  == StartTradeCycle(a, f.sym, f.side, e.pos[f.sym])
  IN  IF n = 0 THEN b
      ELSE AfterFill(CloseTradeCycle(c, f.sym, f.side, e.pos[f.sym]), f.sym, f.side)

\* _resolve_fill_route_context: the route of the order a fill belongs to.
FillRoute(e, f) ==
  LET id == BindBrokerOrderId(e, f)
  IN  [strategy |-> IF id = 0 THEN NoStrategy ELSE e.orders[id].route, day |-> clock.day]

\* record_fill, of which only the latest buy of a symbol is ever read.
RecordFill(e, f) ==
  IF f.side = "BUY" /\ NormalizeFillQty(e, f, BindBrokerOrderId(e, f)) > 0
    THEN [store EXCEPT ![f.sym] = FillRoute(e, f)] ELSE store
-----------------------------------------------------------------------------
(* The broker's order path. *)

\* External: shares the exchange lets a sell take.
Unsettled(x, s) == {n \in DOMAIN x.orders : x.orders[n].sym = s /\ x.orders[n].st # "done"}
Remaining(o) == o.qty - o.filled
Reserved(x, s) ==
  SumFunction([n \in {m \in Unsettled(x, s) : x.orders[m].side = "SELL"} |->
                 Remaining(x.orders[n])])

\* External: SendOrder answered 0. A sell without shares is refused later, which
\* no event tells the engine.
Receive(x, s, side, qty) ==
  [x EXCEPT !.orders = Append(@,
     [sym |-> s, side |-> side, qty |-> qty, filled |-> 0,
      st |-> IF side = "SELL" /\ qty > x.held[s] - Reserved(x, s) THEN "done" ELSE "live"])]

\* _send_order_with_retry: whether one of the tries is answered with 0.
Sends(ok) == ok /\ run.linked

\* place_order and register: a refused SendOrder leaves a rejected order. In
\* paper mode nothing is sent.
PlaceOrder(w, s, side, qty, why, ok, route) ==
  LET st == IF mode = "paper" \/ Sends(ok) THEN "SUBMITTED" ELSE "REJECTED"
  IN  [e |-> [w.e EXCEPT !.orders = Append(@,
                [sym |-> s, side |-> side, qty |-> qty, filled |-> 0, st |-> st,
                 why |-> why, day |-> clock.day, route |-> route, restored |-> 0])],
       x |-> IF mode = "live" /\ st = "SUBMITTED" THEN Receive(w.x, s, side, qty) ELSE w.x]

Newest(w) == Last(w.e.orders)

\* The fill with which paper mode settles an order at once, under its local id.
PaperFill(w, level) ==
  LET o == Newest(w)
  IN  [w EXCEPT !.e = OnFill(w.e, [no |-> -Len(w.e.orders), sym |-> o.sym, side |-> o.side,
                                   cum |-> o.qty, unfilled |-> 0], level)]

\* cancel_order under the number the order is bound to. An order without a fill
\* is not bound: its local id names no order of the exchange, which changes nothing.
CancelOrder(x, e, id) ==
  [x EXCEPT !.orders = [n \in DOMAIN @ |->
     IF n \in DOMAIN e.bound /\ e.bound[n] = id /\ @[n].st = "live"
       THEN [@[n] EXCEPT !.st = "canceling"] ELSE @[n]]]
-----------------------------------------------------------------------------
(* What a tick and the order timer do to a symbol. An input t has the level and
   the cue of AutoExit, strong (trend hold), stale (the open sell is older than
   its timeout), waited (the delay of a resell is over), aged (the stale-position
   policy applies) and ok (SendOrder and the cancel answer 0). *)

AutoSellAllowed == Phase = "session"

\* Defect: the reentry block is not set.
AfterSubmitUnblocked(e, s, why) == CheckEngineProtection(e, StrategyOf(e, s))

\* _update_strategy_loss_count; above its limit nothing depends on the number.
UpdateLossCount(e, t, why) ==
  [e EXCEPT !.losses = [u \in Strategy |->
     IF u # t THEN @[u] ELSE IF IsStop(why) THEN Min({@[u] + 1, LossLimit}) ELSE 0]]

\* _set_reentry_block, for the day after a stop; the shorter block of every sell
\* is for the environment to say, see CanSendOrder.
SetReentryBlock(e, s, why) ==
  IF IsStop(why) THEN [e EXCEPT !.stopped[s] = clock.day] ELSE e

\* The end of _submit_auto_sell for an order that is still SUBMITTED.
AfterSubmit(e, s, why) ==
  LET t == StrategyOf(e, s)
  IN  SetReentryBlock(CheckEngineProtection(UpdateLossCount(e, t, why), t), s, why)

\* Defect: the mark stays when the order is refused.
SubmitAutoSellMarked(w, s, qty, why, t) ==
  LET placed == PlaceOrder([w EXCEPT !.e.gate[s].selling = TRUE], s, "SELL", qty, "exit",
                           t.ok, StrategyOf(w.e, s))
  IN  IF mode = "paper" THEN PaperFill(placed, t.level) ELSE placed

\* _submit_auto_sell. Outside its hours it calls _should_emit_order_block with an
\* argument missing, so the except branch runs. In paper mode the order is
\* filled before its status is read.
SubmitAutoSell(w, s, qty, why, t) ==
  LET placed == PlaceOrder([w EXCEPT !.e.gate[s].selling = TRUE], s, "SELL", qty,
                           IF IsStop(why) THEN "stop" ELSE "exit", t.ok, StrategyOf(w.e, s))
      done   == IF mode = "paper" THEN PaperFill(placed, t.level) ELSE placed
  IN  CASE ~AutoSellAllowed ->
             [w EXCEPT !.e = CountError([@ EXCEPT !.gate[s].selling = FALSE])]
        [] AutoSellAllowed /\ Newest(done).st = "SUBMITTED" ->
             [done EXCEPT !.e = AfterSubmit(@, s, why)]
        [] AutoSellAllowed /\ Newest(done).st = "REJECTED" ->
             [done EXCEPT !.e.gate[s].selling = FALSE]
        [] OTHER -> done

\* The gates in front of every automatic exit.
ExitClosed(e, s) ==
  \/ e.pos[s] = 0
  \/ e.gate[s].resell > 0 \/ e.gate[s].canceling \/ e.gate[s].selling
  \/ ExistsOpenOrder(e, s)

\* The position is from an earlier day.
Aged(e, s) == e.cycle[s].day > 0 /\ e.cycle[s].day < clock.day

\* _check_auto_exit.
CheckAutoExit(w, s, t) ==
  LET c == w.e.cycle[s]
      d == NextExit(TrendHold(w.e.exit[s], t.level, t.strong),
                    c.strategy, Aged(w.e, s), t.level, t.cue)
      v == [w EXCEPT !.e.exit[s] = d.exit]
      q == w.e.pos[s]
  IN  CASE ExitClosed(w.e, s) -> w
        [] ~ExitClosed(w.e, s) /\ d.why = "none" -> v
        [] OTHER -> SubmitAutoSell(v, s,
             IF d.why = "partial_take"
               THEN Min({PartialQty(q, Threshold(c.strategy, d.exit.trend).ratio), q}) ELSE q,
             d.why, t)

\* _check_stale_position_force_exit: once a day, whatever became of the order.
ForceExit(w, s, t) ==
  IF ExitClosed(w.e, s) \/ ~t.aged \/ s \in w.e.forced \/ StrategyOf(w.e, s) = NoStrategy
       \/ ~Aged(w.e, s)
    THEN w
    ELSE SubmitAutoSell([w EXCEPT !.e.forced = @ \cup {s}], s, w.e.pos[s], "stale_force_exit", t)

\* Defect: the remainder is forgotten.
CheckStaleSellOnly(w, s, t, n) ==
  IF OpenSells(w.e, s) = {} \/ ~t.stale THEN w
  ELSE [w EXCEPT !.e.orders[Max(OpenSells(w.e, s))].st = "CANCELED",
                 !.e.gate[s].canceling = TRUE, !.e.gate[s].selling = FALSE]

\* _check_stale_sell_order. n: the orders there were when the handler began,
\* since an order of this very step has not timed out.
CheckStaleSell(w, s, t, n) ==
  LET ids == OpenSells(w.e, s)
      id  == Max(ids)
      e   == w.e
  IN  IF e.gate[s].canceling \/ ids = {} THEN w
      ELSE IF id > n \/ ~t.stale \/ ~(mode = "paper" \/ Sends(t.ok)) THEN w
      ELSE [x |-> IF mode = "live" THEN CancelOrder(w.x, e, id) ELSE w.x,
            e |-> [e EXCEPT !.orders[id].st = "CANCELED",
                            !.bound = [k \in {j \in DOMAIN @ : @[j] # id} |-> @[k]],
                            !.gate[s] = [@ EXCEPT !.canceling = TRUE, !.selling = FALSE,
                                                  !.resell = Remaining(e.orders[id])]]]

GiveUpResell(w, s) ==
  [w EXCEPT !.e.gate[s] = [@ EXCEPT !.resell = 0, !.canceling = FALSE, !.selling = FALSE]]

\* Defect: what was cancelled is sold again, whatever has been filled since.
RetrySellAll(w, s, t, pending) ==
  LET g == w.e.gate[s]
      p == PlaceOrder(w, s, "SELL", g.resell, "resell", t.ok, StrategyOf(w.e, s))
  IN  IF g.resell = 0 \/ g.selling \/ ~t.waited \/ ~AutoSellAllowed \/ Newest(p).st = "REJECTED"
        THEN w
        ELSE [p EXCEPT !.e.gate[s] = [NoGate EXCEPT !.selling = TRUE]]

\* _retry_sell_after_cancel. pending: the resell was already waiting when the
\* handler began.
RetrySell(w, s, t, pending) ==
  LET g      == w.e.gate[s]
      placed == PlaceOrder([w EXCEPT !.e.gate[s].selling = TRUE], s, "SELL",
                           Min({g.resell, w.e.pos[s]}), "resell", t.ok, StrategyOf(w.e, s))
  IN  CASE g.resell = 0 \/ g.selling \/ ~pending \/ ~t.waited -> w
        [] g.resell > 0 /\ ~g.selling /\ pending /\ t.waited /\ ~AutoSellAllowed ->
             [w EXCEPT !.e = CountError([@ EXCEPT !.gate[s].selling = FALSE])]
        [] OTHER ->
             IF w.e.pos[s] = 0 \/ g.retries >= RetryLimit THEN GiveUpResell(w, s)
             ELSE IF ExistsOpenOrder(w.e, s) THEN w
             ELSE IF Newest(placed).st = "SUBMITTED"
               THEN [placed EXCEPT !.e.gate[s] = [g EXCEPT !.selling = TRUE, !.resell = 0,
                                    !.canceling = FALSE, !.retries = @ + 1]]
               ELSE [placed EXCEPT !.e.gate[s].selling = FALSE]

\* Positions can_send_order counts for a strategy.
PositionsOf(e, t) == {s \in Symbol : e.pos[s] > 0 /\ e.cycle[s].strategy = t}

\* The daily order limit of a strategy, and the count of an order that was submitted.
OrdersLeft(e, t) == e.count[t] < OrderLimit
CountOrder(e, t) == [e EXCEPT !.count[t] = @ + 1]

\* Defect: the orders of the day are not counted.
CanSendUncounted(e, s, t, clear) ==
  Phase # "closed" /\ ~e.protected /\ t \notin e.halted /\ e.stopped[s] # clock.day
    /\ e.pos[s] = 0 /\ clear

\* can_send_order for a buy, after the reset of the day. clear: no cooldown, no
\* interval and no reentry block runs, and price change, volume, amount and cash
\* are within their limits.
CanSendOrder(e, s, t, clear) ==
  /\ Phase \in {"opening", "session", "closing"} \/ mode = "paper"
  /\ ~DailyLossReached(e) /\ ~e.protected /\ t \notin e.halted
  /\ OrdersLeft(e, t)
  /\ e.stopped[s] # clock.day
  /\ e.pos[s] = 0
  /\ Cardinality(PositionsOf(e, t)) < PositionLimit
  /\ clear

\* on_tick: the signal of a strategy becomes a buy order.
OnTick(w, s, t) ==
  LET r      == [w EXCEPT !.e = ResetDaily(@)]
      placed == PlaceOrder([r EXCEPT !.e.signal[s] = t.signal], s, "BUY", t.lot, "entry",
                           t.ok, t.signal)
      count  == IF Newest(placed).st = "SUBMITTED"
                THEN [placed EXCEPT !.e = CountOrder(@, t.signal)] ELSE placed
  IN  IF w.e.protected \/ t.signal = NoStrategy THEN w
      ELSE IF ~CanSendOrder(r.e, s, t.signal, t.clear) THEN r
      ELSE IF mode = "paper" THEN PaperFill(count, 0) ELSE count
-----------------------------------------------------------------------------
(* Steps of the process. *)

\* The inputs that matter to a symbol in its present state: a closed gate looks
\* at timeouts only, a held position at the exits, a flat one at signals.
NoInput == [level |-> 0, cue |-> "none", strong |-> FALSE, stale |-> FALSE,
            waited |-> FALSE, aged |-> FALSE, ok |-> TRUE, signal |-> NoStrategy,
            lot |-> 1, clear |-> TRUE]
TimerInput(stale, waited, ok) ==
  [NoInput EXCEPT !.stale = stale, !.waited = waited, !.ok = ok]
TimerInputs(e, s) ==
  {TimerInput(a, b, c) :
     a \in {FALSE, ExistsOpenOrder(e, s)}, b \in {FALSE, e.gate[s].resell > 0}, c \in BOOLEAN}
ExitInput(level, cue, strong, ok) ==
  [NoInput EXCEPT !.level = level, !.cue = cue, !.strong = strong, !.ok = ok]
ExitInputs(e, s) ==
  {ExitInput(l, q, b, c) :
     l \in Levels, b \in BOOLEAN, c \in BOOLEAN,
     q \in Cues \ ((IF Aged(e, s) THEN {} ELSE {"due", "force"})
                    \cup (IF StrategyOf(e, s) = "bottom_reversal" THEN {} ELSE {"bull"}))}
SignalInput(signal, lot, clear, ok) ==
  [NoInput EXCEPT !.signal = signal, !.lot = lot, !.clear = clear, !.ok = ok]
SignalInputs ==
  {SignalInput(g, q, b, c) :
     g \in Strategy \cup {NoStrategy}, q \in Lots, b \in BOOLEAN, c \in BOOLEAN}

\* A tick of paper mode that sells may also buy.
BuyingInput(i, signal, lot) == [i EXCEPT !.signal = signal, !.lot = lot]
TickInputs(e, s) ==
  IF e.pos[s] = 0 THEN SignalInputs
  ELSE IF ExitClosed(e, s) THEN TimerInputs(e, s)
  ELSE IF mode = "live" THEN ExitInputs(e, s)
  ELSE ExitInputs(e, s) \cup {BuyingInput(i, g, q) :
         i \in ExitInputs(e, s), g \in Strategy, q \in Lots}

\* After an order while an earlier one of the symbol is unsettled, or still has
\* reports under way, it is open to which order a fill belongs.
Ambiguous(x, n) ==
  \/ \E m \in 1..(n - 1) : x.orders[m].sym = x.orders[n].sym /\ x.orders[m].st # "done"
  \/ \E i \in DOMAIN x.reports : x.reports[i].sym = x.orders[n].sym
Blurred(x, y) ==
  {y.orders[n].sym : n \in {k \in DOMAIN y.orders : k > Len(x.orders) /\ Ambiguous(y, k)}}

\* So it is after a cancel request, which the exchange may overtake with a fill.
Withdrawn(e, f) ==
  {f.orders[i].sym : i \in {j \in DOMAIN e.orders : e.orders[j].st # f.orders[j].st}}

\* A buy fill in paper mode is stored like any other.
StorePaper(e, f) ==
  [s \in Symbol |->
     IF \E i \in DOMAIN f.orders : i > Len(e.orders) /\ f.orders[i].side = "BUY"
                                   /\ f.orders[i].sym = s /\ f.orders[i].st = "FILLED"
       THEN [strategy |-> f.signal[s], day |-> clock.day] ELSE store[s]]

\* The effect of a handler on the variables, within the bounds. ok: the broker
\* answers 0.
Fault(n) == run.faults + n <= MaxFaults
Effect(w, ok) ==
  /\ ok \/ Fault(1)
  /\ Len(w.e.orders) <= MaxOrders /\ Len(w.x.orders) <= MaxSent
  /\ engine' = w.e /\ exchange' = w.x
  /\ store' = StorePaper(engine, w.e)
  /\ clean' = clean \ (Blurred(exchange, w.x) \cup Withdrawn(engine, w.e))
  /\ run' = [run EXCEPT !.faults = @ + (IF ok THEN 0 ELSE 1)]
  /\ UNCHANGED <<mode, clock>>

World == [e |-> engine, x |-> exchange]

\* on_real_tick of a running engine.
OnRealTick(s, t) ==
  /\ run.up /\ run.linked /\ Phase # "closed"
  /\ LET a == CheckAutoExit(World, s, t)
         b == CheckStaleSell(a, s, t, Len(engine.orders))
         c == RetrySell(b, s, t, engine.gate[s].resell > 0)
     IN  Effect(OnTick(c, s, t), t.ok)

\* The two rounds of the order timer over the symbols.
ForceExits(w, t) == FoldSet(LAMBDA s, v : ForceExit(v, s, t[s]), w, Symbol)
ManageSell(w, s, t) ==
  RetrySell(CheckStaleSell(w, s, t, Len(engine.orders)), s, t, engine.gate[s].resell > 0)
ManageSells(w, t) == FoldSet(LAMBDA s, v : ManageSell(v, s, t[s]), w, Symbol)

\* manage_pending_orders, every second: the stale positions first, then timeouts
\* and resells.
ManagePendingOrders(t) ==
  /\ run.up
  /\ Effect(ManageSells(ForceExits(World, t), t), \A s \in Symbol : t[s].ok)

\* Inputs of the timer for one symbol.
AgedInput(level, ok) == [NoInput EXCEPT !.aged = TRUE, !.level = level, !.ok = ok]
ManageInputs(s) ==
  TimerInputs(engine, s)
    \cup IF ExitClosed(engine, s) THEN {}
         ELSE IF ~Aged(engine, s) THEN {}
         ELSE {AgedInput(l, c) : l \in Levels, c \in BOOLEAN}

\* The report of an order whose number was never bound, or is bound no more since
\* its cancel, is taken for an open order of the other side.
Mistaken(e, f) ==
  LET id == BindBrokerOrderId(e, f) IN id > 0 /\ e.orders[id].side # f.side

\* _on_receive_chejan_data: the next fill report. A report may come again.
OnReceiveChejan(level, again) ==
  /\ run.up /\ exchange.reports # <<>>
  /\ again => Fault(1)
  /\ level \in IF Head(exchange.reports).side = "SELL" THEN FillLevels ELSE {0}
  /\ LET f == Head(exchange.reports)
     IN  /\ engine' = OnFill(engine, f, level)
         /\ exchange' = [exchange EXCEPT !.reports = IF again THEN @ ELSE Tail(@)]
         /\ store' = RecordFill(engine, f)
         /\ run' = [run EXCEPT !.faults = @ + (IF again THEN 1 ELSE 0),
                               !.blind = @ \/ Mistaken(engine, f)]
  /\ UNCHANGED <<mode, clock, clean>>

\* get_latest_buy_route.
LatestBuyRoute(s) == store[s]

\* _restore_position_route_context: the route of the latest stored buy.
RestoreRoute(e, s) == IF exchange.held[s] > 0 THEN LatestBuyRoute(s) ELSE e.cycle[s]

\* sync_account: quantities of the account with their routes. What the account no
\* longer holds stays as it was.
SyncAccount(e) ==
  [e EXCEPT !.pos = [s \in Symbol |-> IF exchange.held[s] > 0 THEN exchange.held[s] ELSE @[s]],
            !.cycle = [s \in Symbol |-> RestoreRoute(e, s)]]

\* sync_pending_orders for order n of the exchange: unless it is filled, or there is
\* an order restored under its number, it becomes a restored order bound to it.
RestoreOrder(e, n) ==
  LET o == exchange.orders[n]
  IN  IF \/ o.st = "done"
         \/ \E i \in DOMAIN e.orders : e.orders[i].restored = n /\ e.orders[i].st # "CANCELED"
        THEN e
        ELSE [e EXCEPT
                !.orders = Append(@, [sym |-> o.sym, side |-> o.side, qty |-> o.qty,
                   filled |-> o.filled, why |-> "pending", day |-> clock.day,
                   route |-> NoStrategy, restored |-> n,
                   st |-> IF o.filled > 0 THEN "PARTIAL" ELSE "SUBMITTED"]),
                !.bound = [k \in DOMAIN @ \cup {n} |->
                   IF k = n THEN Len(e.orders) + 1 ELSE @[k]]]

\* sync_pending_orders, in the order of the numbers.
SyncPendingOrders(e) ==
  FoldLeft(RestoreOrder, e, [n \in DOMAIN exchange.orders |-> n])

\* Both queries of a start or a recovery; either may fail, which leaves the engine
\* as it was.
Sync(e, account, pending) ==
  LET a == IF account THEN SyncAccount(e) ELSE e
  IN  IF pending THEN SyncPendingOrders(a) ELSE a

\* start of the process: the memory of the previous one is gone.
Boot(account, pending) ==
  /\ ~run.up /\ run.boots < MaxBoots /\ Phase # "closed"
  /\ (account /\ pending) \/ Fault(1)
  /\ engine' = Sync(Fresh(clock.day), account, pending)
  /\ Len(engine'.orders) <= MaxOrders
  /\ run' = [run EXCEPT !.up = TRUE, !.linked = TRUE, !.boots = @ + 1,
                        !.faults = @ + (IF account /\ pending THEN 0 ELSE 1),
                        !.blind = ~(account /\ pending)]
  /\ clean' = IF account /\ pending
                THEN {s \in Symbol : Cardinality(Unsettled(exchange, s)) <= 1} ELSE {}
  /\ UNCHANGED <<mode, exchange, store, clock>>

\* Recovery of the broker session by the running process.
Recover(account, pending) ==
  /\ run.up /\ ~run.linked
  /\ (account /\ pending) \/ Fault(1)
  /\ engine' = Sync(engine, account, pending)
  /\ Len(engine'.orders) <= MaxOrders
  /\ run' = [run EXCEPT !.linked = TRUE, !.blind = TRUE,
                        !.faults = @ + (IF account /\ pending THEN 0 ELSE 1)]
  /\ clean' = {}
  /\ UNCHANGED <<mode, exchange, store, clock>>

\* The process ends: shutdown after the close, or killed at any moment. Positions
\* that a shutdown in paper mode closes first are gone with the memory anyway.
Stop ==
  /\ run.up
  /\ Phase = "closed" \/ Fault(1)
  /\ run' = [run EXCEPT !.up = FALSE, !.linked = FALSE,
                        !.faults = @ + (IF Phase = "closed" THEN 0 ELSE 1)]
  /\ engine' = Fresh(clock.day)
  /\ exchange' = [exchange EXCEPT !.reports = <<>>]
  /\ UNCHANGED <<mode, store, clock, clean>>
-----------------------------------------------------------------------------
(* Steps of the environment. *)

\* External: the connection is lost, and with it the reports under way.
Disconnect ==
  /\ run.up /\ run.linked /\ mode = "live" /\ Fault(1)
  /\ run' = [run EXCEPT !.linked = FALSE, !.faults = @ + 1]
  /\ exchange' = [exchange EXCEPT !.reports = <<>>]
  /\ clean' = clean \ {exchange.reports[i].sym : i \in DOMAIN exchange.reports}
  /\ UNCHANGED <<mode, engine, store, clock>>

\* External: k shares of order n are filled, and reported with the quantity filled
\* so far and the one left.
ExchangeFill(n, k) ==
  LET o == exchange.orders[n]
      r == [no |-> n, sym |-> o.sym, side |-> o.side, cum |-> o.filled + k,
            unfilled |-> Remaining(o) - k]
  IN  /\ o.st # "done" /\ Phase # "closed"
      /\ exchange' = [exchange EXCEPT
           !.orders[n] = [o EXCEPT !.filled = o.filled + k,
                                   !.st = IF k = Remaining(o) THEN "done" ELSE o.st],
           !.held[o.sym] = IF o.side = "BUY" THEN @ + k ELSE @ - k,
           !.reports = IF run.linked THEN Append(@, r) ELSE @]
      /\ clean' = IF run.linked THEN clean ELSE clean \ {o.sym}
      /\ UNCHANGED <<mode, engine, store, clock, run>>

\* External: an order is refused after SendOrder answered, a cancel takes effect,
\* or the day ends for it. No fill report says so.
ExchangeClose(n) ==
  /\ exchange.orders[n].st \in {"live", "canceling"}
  /\ exchange' = [exchange EXCEPT !.orders[n].st = "done"]
  /\ UNCHANGED <<mode, engine, store, clock, run, clean>>

\* The next phase of the day. After the close no order stays.
Advance ==
  /\ clock.phase < Len(Phases)
  /\ clock' = [clock EXCEPT !.phase = @ + 1]
  /\ Phases[clock.phase + 1] = "closed" =>
       \A s \in Symbol : Unsettled(exchange, s) = {} /\ exchange.reports = <<>>
  /\ UNCHANGED <<mode, engine, exchange, store, run, clean>>

\* The next day. The marks of stale_force_exit_sent carry their date.
NextDay ==
  /\ Phase = "closed" /\ clock.day < MaxDays
  /\ run.up => Overnight
  /\ clock' = [day |-> clock.day + 1, phase |-> 1]
  /\ engine' = [engine EXCEPT !.forced = {}]
  /\ UNCHANGED <<mode, exchange, store, run, clean>>

ProcessNext ==
  \/ \E s \in Symbol : \E t \in TickInputs(engine, s) : OnRealTick(s, t)
  \/ \E t \in [Symbol -> UNION {ManageInputs(s) : s \in Symbol}] :
       (\A s \in Symbol : t[s] \in ManageInputs(s)) /\ ManagePendingOrders(t)
  \/ \E l \in FillLevels \cup {0}, again \in BOOLEAN : OnReceiveChejan(l, again)
  \/ \E a, p \in BOOLEAN : Boot(a, p) \/ Recover(a, p)
  \/ Stop

EnvironmentNext ==
  \/ Disconnect
  \/ \E n \in DOMAIN exchange.orders : 
       ExchangeClose(n) \/ \E k \in 1..Remaining(exchange.orders[n]) : ExchangeFill(n, k)
  \/ Advance
  \/ NextDay

Next == ProcessNext \/ EnvironmentNext

Spec == Init /\ [][Next]_vars
-----------------------------------------------------------------------------
(* Properties. *)

Route == [strategy : Strategy \cup {NoStrategy}, day : 0..MaxDays]
Order == [sym : Symbol, side : {"BUY", "SELL"}, qty : Nat \ {0}, filled : Nat,
          st : {"SUBMITTED", "PARTIAL", "FILLED", "REJECTED", "CANCELED"},
          why : {"entry", "stop", "exit", "resell", "pending"}, day : 1..MaxDays,
          route : Strategy \cup {NoStrategy}, restored : 0..MaxSent]
Exit == [partial : BOOLEAN, breakeven : BOOLEAN, armed : BOOLEAN,
         high : Levels \cup {0}, trend : BOOLEAN]
Gate == [selling : BOOLEAN, canceling : BOOLEAN, resell : Nat, retries : 0..RetryLimit]

\* Types of the engine memory and of the variables around it.
OrdersTypeOK ==
  /\ mode \in Modes
  /\ engine.orders \in Seq(Order)
  /\ engine.bound \in [DOMAIN engine.bound -> DOMAIN engine.orders]
  /\ DOMAIN engine.bound \subseteq -MaxOrders..MaxSent
  /\ engine.pos \in [Symbol -> Nat] /\ engine.gate \in [Symbol -> Gate]
  /\ engine.exit \in [Symbol -> Exit] /\ engine.cycle \in [Symbol -> Route]
  /\ engine.count \in [Strategy -> 0..OrderLimit]
  /\ engine.losses \in [Strategy -> 0..LossLimit]
  /\ engine.halted \subseteq Strategy /\ engine.forced \subseteq Symbol
  /\ engine.errors \in 0..ErrorLimit /\ engine.realized \in Int
  /\ exchange.held \in [Symbol -> Nat]
  /\ store \in [Symbol -> Route] /\ clean \subseteq Symbol
  /\ clock \in [day : 1..MaxDays, phase : DOMAIN Phases]

\* engine.py on_fill: whatever order fills, cancels, resells, restarts and
\* recoveries come in, a symbol that is flat keeps nothing of its last trade that
\* would act on the next one: no partial exit already taken, no armed trailing
\* stop, no cancel or resell that holds its exits back, no open trade cycle.
FlatLeavesNothing ==
  \A s \in Symbol : engine.pos[s] = 0 /\ ~run.blind =>
    /\ engine.exit[s] = NoExit /\ engine.gate[s] = NoGate /\ engine.cycle[s] = NoRoute

\* engine.py _check_stale_sell_order, _retry_sell_after_cancel: the mark of a
\* cancel, which keeps every exit of the symbol back, stands exactly as long as a
\* resell of shares that are held is waiting; the process buys nothing meanwhile.
CancelMeansResell ==
  \A s \in Symbol :
    /\ engine.gate[s].canceling <=> engine.gate[s].resell > 0
    /\ engine.gate[s].canceling /\ ~run.blind =>
         engine.pos[s] > 0 /\ ~engine.gate[s].selling
           /\ \A i \in OpenIds(engine, s) :
                engine.orders[i].restored = 0 => engine.orders[i].side = "SELL"

\* engine.py _submit_auto_sell: the mark of a sell in progress never outlives the
\* sell order it was set for, or the exits of the symbol would stay shut.
SellingHasOrder ==
  \A s \in Symbol : engine.gate[s].selling /\ ~run.blind => OpenSells(engine, s) # {}

\* engine.py _check_auto_exit, _retry_sell_after_cancel: the sells the engine has
\* open together never ask for more shares than the portfolio holds.
SellsCovered ==
  \A s \in Symbol : ~run.blind =>
    SumFunction([i \in OpenSells(engine, s) |-> Remaining(engine.orders[i])]) <= engine.pos[s]

\* engine.py on_fill: as long as no order is sent while an earlier one of the
\* symbol is unsettled, no order is cancelled that may still be filled and no
\* report is lost, the portfolio equals the account whenever all reports are
\* applied, however often and in whatever portions they come.
PortfolioMatchesAccount ==
  mode = "live" /\ run.up /\ exchange.reports = <<>> =>
    \A s \in clean : engine.pos[s] = exchange.held[s]

\* config_live.py:110: a stock that was sold at a loss is not bought again on the
\* same day, by one process in live mode.
StoppedNotRebought ==
  mode = "live" =>
    \A i, j \in DOMAIN engine.orders :
      /\ i < j /\ engine.orders[i].sym = engine.orders[j].sym
      /\ engine.orders[i].why = "stop" /\ engine.orders[i].st # "REJECTED"
      /\ engine.orders[j].why = "entry"
      => engine.orders[i].day < engine.orders[j].day
=============================================================================
