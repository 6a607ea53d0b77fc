----------------------------- MODULE LiveSession ----------------------------
(* The session of the archived live program: main_live.py with the queries, the
   condition search and the subscriptions of broker/kiwoom_broker.py.

   One thread runs the Qt event loop. A handler that waits for an answer of
   Kiwoom runs a loop of its own, which goes on dispatching timers and events, so
   handlers nest: stack holds the waiting ones, outermost first. A loop that was
   told to end returns only when it is the innermost. login_loop, tr_loop and
   condition_loop of the broker name the latest loop of their kind: loop holds
   their places in the stack, 0 for none. A second thread is the shutdown
   watchdog.

   Orders and positions are kept here as the codes they concern; LiveOrders
   models them. Whether a delay has passed is for the environment to say. *)
EXTENDS Naturals, Sequences, FiniteSets, SequencesExt

CONSTANTS
  Code,          \* stocks
  Account,       \* codes the account holds when the program starts
  Working,       \* codes with working orders when the program starts
  MaxRecoveries, \* STALE_REALDATA_MAX_RECOVERIES
  MaxFaults,     \* bound, with and without the condition search: failed logins, lost
                 \* connections, timeouts, refused requests and a hanging call
  MaxDepth       \* bound: nested handlers

ASSUME SessionAssumption ==
  /\ Account \subseteq Code /\ Working \subseteq Code
  /\ MaxRecoveries \in Nat /\ MaxFaults \in [BOOLEAN -> Nat] /\ MaxDepth \in Nat \ {0}

VARIABLES
  enabled, \* ENABLE_CONDITION_SEARCH, with strategies that use it
  app,     \* memory of the process
  pending, \* external: answers Kiwoom still owes
  clock,   \* the phase of the day
  dog,     \* the watchdog thread
  env      \* history: faults, a call that hangs, whether a wait timed out or a page
           \* was refused

vars == <<enabled, app, pending, clock, dog, env>>

\* 08:50, 14:40 and 15:35 divide a trading day.
Phases == <<"wait", "session", "late", "after">>
Session == {"session", "late"}

Query == {"deposit", "positions", "pending"}
Search == {"load", "send"}
Kind(w) == IF w = "login" THEN "login" ELSE IF w \in Query THEN "tr" ELSE "condition"

NoRows == [rows |-> {}, whole |-> FALSE]
NoLoops == [k \in {"login", "tr", "condition"} |-> 0]

\* MainLiveApp and KiwoomBroker when created. fate: whether the process is up, and
\* how it ended. got: the rows of the query that is waiting, and whether they are
\* all. done: the last start or recovery went through to its end.
NewApp ==
  [fate |-> "down", booting |-> TRUE, recovering |-> FALSE, started |-> FALSE,
   connected |-> FALSE, loaded |-> FALSE, blocked |-> FALSE,
   stale |-> 0, done |-> TRUE, stack |-> <<>>, loop |-> NoLoops,
   got |-> NoRows,
   snapshot |-> {}, condition |-> {}, owned |-> {}, registered |-> {}]

\* The memory and the answers are gone with the process.
Ended(how) == [NewApp EXCEPT !.fate = how]

Init ==
  /\ enabled \in BOOLEAN
  /\ app = NewApp
  /\ pending = {}
  /\ clock \in {"holiday"} \cup ToSet(Phases)
  /\ dog = "off"
  /\ env = [faults |-> 0, stuck |-> FALSE, torn |-> FALSE]
-----------------------------------------------------------------------------
(* Universe and subscriptions, on the memory a of the process. *)

\* The codes of the strategies.
Universe(a) == a.snapshot \cup (IF enabled THEN a.condition ELSE {})

\* The universe manager: a snapshot or a search result replaces its source, a code
\* enters or leaves the search.
ReplaceSnapshot(a, codes) == [a EXCEPT !.snapshot = codes]
ReplaceCondition(a, codes) == [a EXCEPT !.condition = codes]
AddCondition(a, s) == [a EXCEPT !.condition = @ \cup {s}]
RemoveCondition(a, s) == [a EXCEPT !.condition = @ \ {s}]

\* A code that is to stay subscribed when it leaves the search.
Needed(a, s) == s \in a.snapshot \cup a.owned

\* _all_watch_codes.
WatchCodes(a) == Universe(a) \cup a.owned

\* should_route: whose ticks are passed on to the engine.
ShouldRoute(a, s) == s \in WatchCodes(a)

\* Defect: only candidates are subscribed.
RefreshUniverse(a) == [a EXCEPT !.registered = Universe(a)]

\* _refresh_real_registration, register_real, _apply_real_registration.
RefreshRealRegistration(a) == [a EXCEPT !.registered = WatchCodes(a)]

\* load_snapshot_and_subscribe. A file that cannot be read changes nothing; the
\* candidates of an old one are dropped; one without rows is not subscribed.
LoadSnapshot(a, file) ==
  CASE file.st = "unreadable" -> a
    [] file.st = "old" -> RefreshRealRegistration(ReplaceSnapshot(a, {}))
    [] file.st = "current" /\ file.rows = {} -> ReplaceSnapshot(a, {})
    [] OTHER -> RefreshRealRegistration(ReplaceSnapshot(a, file.rows))

Unread == [st |-> "unreadable", rows |-> {}]
Files == {Unread, [st |-> "old", rows |-> {}]}
           \cup {[st |-> "current", rows |-> c] : c \in SUBSET Code}
-----------------------------------------------------------------------------
(* Waiting. w = [a |-> memory, p |-> answers owed, r |-> requests Kiwoom refuses
   in this step, f |-> the snapshot file]. *)

Top(a) == Last(a.stack)

\* The innermost handler asks and waits.
Ask(w, q) ==
  LET d == Len(w.a.stack)
  IN  [w EXCEPT !.a.stack[d] = [proc |-> @.proc, wait |-> q, st |-> "wait"],
                !.a.loop[Kind(q)] = d,
                !.a.got = IF q \in Query THEN NoRows ELSE @,
                !.a.loaded = @ /\ q # "load",
                !.p = @ \cup {q}]

Push(w, proc, q) ==
  Ask([w EXCEPT !.a.stack = Append(@, [proc |-> proc, wait |-> q, st |-> "wait"])], q)

Pop(w) == [w EXCEPT !.a.stack = Front(@)]

\* The innermost handler is through: the start goes on to the event loop of the
\* application, the others return.
Finish(w) ==
  CASE Top(w.a).proc = "boot" ->
         [w EXCEPT !.a.stack[1] = [proc |-> "boot", wait |-> "app", st |-> "wait"]]
    [] Top(w.a).proc = "recover" ->
         Pop([w EXCEPT !.a.recovering = FALSE, !.a.done = TRUE])
    [] OTHER -> Pop(w)

\* start_condition_search, to the first wait of load_condition_list.
StartConditionSearch(w) ==
  CASE ~enabled -> Finish([w EXCEPT !.a.started = TRUE])
    [] enabled /\ "load" \in w.r -> Finish([w EXCEPT !.a.loaded = FALSE])
    [] OTHER -> Ask(w, "load")

\* Defect: the recovery trusts the snapshot to subscribe.
AfterPendingUnrefreshed(w) ==
  IF Top(w.a).proc = "boot"
    THEN StartConditionSearch([w EXCEPT !.a = [LoadSnapshot(RefreshRealRegistration(@), w.f)
                                                 EXCEPT !.booting = FALSE]])
    ELSE StartConditionSearch([w EXCEPT !.a = [LoadSnapshot(@, w.f) EXCEPT !.started = FALSE]])

\* The rest of boot and of _recover_broker_session after sync_pending_orders.
AfterPending(w) ==
  LET b == [LoadSnapshot(RefreshRealRegistration(w.a), w.f) EXCEPT !.booting = FALSE]
      c == [RefreshRealRegistration(LoadSnapshot(w.a, w.f)) EXCEPT !.started = FALSE]
  IN  CASE Top(w.a).proc = "boot" /\ clock = "after" -> [w EXCEPT !.a = Ended("done"), !.p = {}]
        [] Top(w.a).proc = "boot" /\ clock = "wait" -> Finish([w EXCEPT !.a = b])
        [] Top(w.a).proc = "boot" /\ clock \in Session -> StartConditionSearch([w EXCEPT !.a = b])
        [] OTHER -> IF clock \in Session THEN StartConditionSearch([w EXCEPT !.a = c])
                    ELSE Finish([w EXCEPT !.a = c])

AskPending(w) == IF "pending" \in w.r THEN AfterPending(w) ELSE Ask(w, "pending")

\* After sync_account, whether it succeeded or not; boot subscribes in between.
AfterAccount(w) ==
  AskPending(IF Top(w.a).proc = "boot" THEN [w EXCEPT !.a = RefreshRealRegistration(@)] ELSE w)

\* sync_account.
AskPositions(w) == IF "positions" \in w.r THEN AfterAccount(w) ELSE Ask(w, "positions")
AskDeposit(w) == IF "deposit" \in w.r THEN AfterAccount(w) ELSE Ask(w, "deposit")

\* Defect: a failed recovery stays in progress.
LoginFailedHolding(w) ==
  IF Top(w.a).proc = "boot" THEN [w EXCEPT !.a = Ended("crashed"), !.p = {}]
  ELSE Pop([w EXCEPT !.a.blocked = TRUE, !.a.done = FALSE])

\* connect raised: a start ends the program, a recovery is put off.
LoginFailed(w) ==
  IF Top(w.a).proc = "boot" THEN [w EXCEPT !.a = Ended("crashed"), !.p = {}]
  ELSE Pop([w EXCEPT !.a.recovering = FALSE, !.a.blocked = TRUE, !.a.done = FALSE])

\* The innermost handler goes on after its loop returned.
Resume(w) ==
  LET f == Top(w.a)
      a == w.a
  IN  CASE f.wait = "login" -> IF a.connected THEN AskDeposit(w) ELSE LoginFailed(w)
        [] f.wait = "deposit" -> IF f.st = "quit" THEN AskPositions(w) ELSE AfterAccount(w)
        [] f.wait = "positions" ->
             AfterAccount(IF f.st = "quit"
                            THEN [w EXCEPT !.a.owned = @ \cup a.got.rows] ELSE w)
        [] f.wait = "pending" ->
             AfterPending(IF f.st = "quit"
                            THEN [w EXCEPT !.a.owned = @ \cup a.got.rows] ELSE w)
        [] f.wait = "load" ->
             IF f.st = "quit" /\ a.loaded /\ "send" \notin w.r THEN Ask(w, "send") ELSE Finish(w)
        [] f.wait = "send" ->
             Finish(IF f.st = "quit" THEN [w EXCEPT !.a.started = TRUE] ELSE w)
-----------------------------------------------------------------------------
(* Steps. *)

Fault(n) == env.faults + n <= MaxFaults[enabled]

World(r, f) == [a |-> app, p |-> pending, r |-> r, f |-> f]

Apply(w) ==
  /\ Len(w.a.stack) <= MaxDepth
  /\ app' = [w.a EXCEPT !.loaded = @ /\ \E d \in DOMAIN w.a.stack : w.a.stack[d].wait = "load"]
  /\ pending' = w.p

\* The innermost loop is running and dispatches the next event.
Dispatching == app.fate = "up" /\ ~env.stuck /\ Top(app).st = "wait"

\* boot up to the login of engine.start.
Boot ==
  /\ app.fate = "down"
  /\ IF clock \in {"holiday", "after"}
       THEN /\ app' = Ended("done")
            /\ UNCHANGED <<pending, dog>>
       ELSE /\ Apply(Push([World({}, Unread) EXCEPT !.a.fate = "up"],
                          "boot", "login"))
            /\ dog' = "armed"
  /\ UNCHANGED <<enabled, clock, env>>

\* Requests that a handler may make, and Kiwoom refuse, before it waits again.
Refusals ==
  LET f     == Top(app)
      after == {{}, {"pending"}} \cup IF enabled THEN {{"pending", "load"}} ELSE {}
  IN  CASE f.wait = "login" -> {{}} \cup {a \cup {"deposit"} : a \in after}
        [] f.wait = "deposit" -> IF f.st = "timeout" THEN after
                                 ELSE {{}} \cup {a \cup {"positions"} : a \in after}
        [] f.wait = "positions" -> after
        [] f.wait = "pending" -> {{}} \cup IF enabled THEN {{"load"}} ELSE {}
        [] f.wait = "load" -> {{}, {"send"}}
        [] OTHER -> {{}}

\* A loop that was told to end, or timed out, returns to its handler.
Return ==
  /\ app.fate = "up" /\ ~env.stuck /\ Top(app).st # "wait"
  /\ \E r \in Refusals :
       /\ Fault(Cardinality(r))
       /\ \E f \in IF Top(app).wait = "pending" \/ "pending" \in r THEN Files ELSE {Unread} :
            Apply(Resume(World(r, f)))
       /\ env' = [env EXCEPT !.faults = @ + Cardinality(r)]
  /\ UNCHANGED <<enabled, clock, dog>>

\* Ends the latest loop of a kind.
Quit(a, k, st) ==
  IF a.loop[k] = 0 THEN a
  ELSE [a EXCEPT !.stack[a.loop[k]].st = st, !.loop[k] = 0]

\* _on_event_connect with the answer to a login.
OnEventConnect(ok) ==
  /\ Dispatching /\ "login" \in pending
  /\ ok \/ Fault(1)
  /\ app' = Quit([app EXCEPT !.connected = ok], "login", "quit")
  /\ pending' = pending \ {"login"}
  /\ env' = [env EXCEPT !.faults = @ + IF ok THEN 0 ELSE 1]
  /\ UNCHANGED <<enabled, clock, dog>>

\* _on_event_connect when the connection is lost.
ConnectionLost ==
  /\ Dispatching /\ app.connected /\ Fault(1)
  /\ app' = Quit([app EXCEPT !.connected = FALSE], "login", "quit")
  /\ env' = [env EXCEPT !.faults = @ + 1]
  /\ UNCHANGED <<enabled, pending, clock, dog>>

\* Defect: the first page ends the query.
TrAnswerFirstPage(q, rows, more, ok) ==
  [a |-> Quit([app EXCEPT !.got = [rows |-> rows, whole |-> ~more]], "tr", "quit"),
   p |-> pending \ {q}]

\* The handlers of _on_receive_tr_data: a page that is not the last asks for the
\* next one, and a refusal of that ends the wait. They end whatever query is the
\* latest, which after a timeout may be another one.
TrAnswer(q, rows, more, ok) ==
  LET a == IF app.loop.tr = 0 THEN app
           ELSE IF app.stack[app.loop.tr].wait # q THEN app
           ELSE [app EXCEPT !.got = [rows |-> @.rows \cup rows, whole |-> ~more]]
  IN  IF more /\ ok THEN [a |-> a, p |-> pending]
      ELSE [a |-> Quit(a, "tr", "quit"), p |-> pending \ {q}]

OnReceiveTrData(q, rows, more, ok) ==
  /\ Dispatching /\ q \in pending
  /\ more => q # "deposit" /\ app.got.rows = {} /\ rows # {}
  /\ ok \/ (more /\ Fault(1))
  /\ LET all == CASE q = "deposit" -> {} [] q = "positions" -> Account [] OTHER -> Working
     IN  rows \subseteq all /\ (more \/ rows = all)
  /\ app' = TrAnswer(q, rows, more, ok).a /\ pending' = TrAnswer(q, rows, more, ok).p
  /\ env' = [env EXCEPT !.faults = @ + (IF ok THEN 0 ELSE 1), !.torn = @ \/ ~ok]
  /\ UNCHANGED <<enabled, clock, dog>>

\* _on_receive_condition_ver.
OnReceiveConditionVer(ok) ==
  /\ Dispatching /\ "load" \in pending
  /\ ok \/ Fault(1)
  /\ app' = Quit([app EXCEPT !.loaded = ok], "condition", "quit")
  /\ pending' = pending \ {"load"}
  /\ env' = [env EXCEPT !.faults = @ + IF ok THEN 0 ELSE 1]
  /\ UNCHANGED <<enabled, clock, dog>>

\* subscribe_initial_condition.
SubscribeInitial(a, codes) == RefreshRealRegistration(ReplaceCondition(a, codes))

\* _on_receive_tr_condition.
OnReceiveTrCondition(codes) ==
  /\ Dispatching /\ "send" \in pending
  /\ app' = Quit(SubscribeInitial(app, codes), "condition", "quit")
  /\ pending' = pending \ {"send"}
  /\ UNCHANGED <<enabled, clock, dog, env>>

\* on_condition_realtime. A code that left is unsubscribed unless it is needed.
ConditionChanged(a, s, event) ==
  CASE event = "I" /\ s \in a.condition -> a
    [] event = "I" /\ s \notin a.condition -> RefreshRealRegistration(AddCondition(a, s))
    [] event = "D" /\ Needed(a, s) -> RemoveCondition(a, s)
    [] event = "D" /\ ~Needed(a, s) -> RefreshRealRegistration(RemoveCondition(a, s))

\* _on_receive_real_condition.
OnConditionRealtime(s, event) ==
  /\ Dispatching /\ enabled /\ app.connected /\ app.started
  /\ app' = ConditionChanged(app, s, event)
  /\ UNCHANGED <<enabled, pending, clock, dog, env>>

\* _exec_loop_with_timeout: the timer of a loop that is no longer the latest of
\* its kind does nothing; the login has no timer.
Timeout(d) ==
  /\ Dispatching /\ Fault(1)
  /\ app.stack[d].wait \in Query \cup Search
  /\ app.loop[Kind(app.stack[d].wait)] = d
  /\ app' = Quit(app, Kind(app.stack[d].wait), "timeout")
  /\ env' = [env EXCEPT !.faults = @ + 1, !.torn = TRUE]
  /\ UNCHANGED <<enabled, pending, clock, dog>>
-----------------------------------------------------------------------------
(* Timers. Each of them calls auto_shutdown first. *)

\* auto_shutdown and shutdown, which ends in os._exit.
AutoShutdown ==
  /\ Dispatching /\ clock = "after"
  /\ app' = Ended("done") /\ pending' = {}
  /\ UNCHANGED <<enabled, clock, dog, env>>

\* Defect: the number of recoveries of a stale session is not limited.
RecoverUnlimited(why) ==
  IF app.recovering THEN World({}, Unread)
  ELSE Push([World({}, Unread) EXCEPT
               !.a.recovering = TRUE, !.a.registered = {},
               !.a.stale = @ + IF why = "stale" THEN 1 ELSE 0], "recover", "login")

\* The guards of _recover_broker_session, which also set the block. why: the
\* condition of on_heartbeat that called it.
Recover(why) ==
  CASE app.recovering -> World({}, Unread)
    [] ~app.recovering /\ clock = "late" ->
         [World({}, Unread) EXCEPT !.a.blocked = TRUE]
    [] ~app.recovering /\ clock = "session" /\ why = "stale" /\ app.stale >= MaxRecoveries ->
         [World({}, Unread) EXCEPT !.a.blocked = TRUE]
    [] OTHER ->
         Push([World({}, Unread) EXCEPT
                 !.a.recovering = TRUE, !.a.registered = {},
                 !.a.stale = @ + IF why = "stale" THEN 1 ELSE 0], "recover", "login")

\* Defect: a start may be recovered too.
CallsRecoverBooting(why) ==
  ~app.connected /\ why = "disconnected"

\* The conditions of on_heartbeat, in their order. A stale session has codes to
\* watch and no tick for STALE_REALDATA_SEC.
CallsRecover(why) ==
  /\ ~app.booting /\ clock \in Session /\ ~app.blocked
  /\ CASE ~app.started -> why = "inactive"
       [] app.started /\ ~app.connected -> why = "disconnected"
       [] OTHER -> why = "stale" /\ WatchCodes(app) # {}

OnHeartbeat(why) ==
  /\ Dispatching /\ clock # "after"
  /\ CallsRecover(why)
  /\ Apply(Recover(why))
  /\ UNCHANGED <<enabled, clock, dog, env>>

\* maybe_start_condition_search, every minute.
MaybeStartConditionSearch(r) ==
  /\ Dispatching /\ clock \in Session
  /\ ~app.booting /\ ~app.blocked
  /\ ~app.started \/ (enabled /\ app.condition = {})
  /\ r \subseteq {"load"} /\ Fault(Cardinality(r))
  /\ LET w == World(r, Unread)
     IN  Apply(IF ~enabled THEN [w EXCEPT !.a.started = TRUE]
               ELSE IF r # {} THEN [w EXCEPT !.a.loaded = FALSE]
               ELSE Push(w, "search", "load"))
  /\ env' = [env EXCEPT !.faults = @ + Cardinality(r)]
  /\ UNCHANGED <<enabled, clock, dog>>

\* Defect: the watchdog only asks for a shutdown.
WatchdogAsking ==
  /\ app.fate = "up" /\ clock = "after" /\ dog = "armed"
  /\ dog' = "off"
  /\ UNCHANGED <<enabled, app, pending, clock, env>>

\* _shutdown_watchdog_loop: past the hour it posts a shutdown and, if none has
\* begun within the grace period, ends the process itself.
Watchdog ==
  /\ app.fate = "up" /\ clock = "after"
  /\ CASE dog = "armed" -> dog' = "grace" /\ UNCHANGED <<app, pending>>
       [] dog = "grace" -> dog' = "off" /\ app' = Ended("killed") /\ pending' = {}
       [] OTHER -> FALSE
  /\ UNCHANGED <<enabled, clock, env>>
-----------------------------------------------------------------------------
(* Trading, as far as it decides what must be watched. *)

\* on_filtered_real_tick: a tick of a subscribed code leads to an order.
OnTick(s) ==
  /\ Dispatching /\ app.connected /\ clock \in Session
  /\ s \in app.registered \ app.owned /\ ShouldRoute(app, s)
  /\ app' = [app EXCEPT !.owned = @ \cup {s}]
  /\ UNCHANGED <<enabled, pending, clock, dog, env>>

\* on_fill: a holding is sold out.
OnFill(s) ==
  /\ Dispatching /\ app.connected /\ s \in app.owned
  /\ app' = [app EXCEPT !.owned = @ \ {s}]
  /\ UNCHANGED <<enabled, pending, clock, dog, env>>
-----------------------------------------------------------------------------
(* Time, and a call of Kiwoom that does not return. *)

Advance ==
  /\ clock \in ToSet(Front(Phases))
  /\ \E i \in DOMAIN Phases : Phases[i] = clock /\ clock' = Phases[i + 1]
  /\ UNCHANGED <<enabled, app, pending, dog, env>>

\* reconnect_blocked_until_ts passes.
Unblock ==
  /\ app.fate = "up" /\ app.blocked
  /\ app' = [app EXCEPT !.blocked = FALSE]
  /\ UNCHANGED <<enabled, pending, clock, dog, env>>

\* External: a call into Kiwoom hangs, and with it the thread of the event loop.
Hang ==
  /\ Dispatching /\ Fault(1)
  /\ env' = [env EXCEPT !.stuck = TRUE, !.faults = @ + 1]
  /\ UNCHANGED <<enabled, app, pending, clock, dog>>

Handler ==
  \/ Return
  \/ AutoShutdown
  \/ \E why \in {"inactive", "disconnected", "stale"} : OnHeartbeat(why)
  \/ \E r \in SUBSET {"load"} : MaybeStartConditionSearch(r)

Answer ==
  \/ \E ok \in BOOLEAN : OnEventConnect(ok) \/ OnReceiveConditionVer(ok)
  \/ \E q \in Query, rows \in SUBSET Code, more, ok \in BOOLEAN : OnReceiveTrData(q, rows, more, ok)
  \/ \E codes \in SUBSET Code : OnReceiveTrCondition(codes)

Next ==
  \/ Boot
  \/ Handler
  \/ Answer
  \/ ConnectionLost
  \/ \E s \in Code, event \in {"I", "D"} : OnConditionRealtime(s, event)
  \/ \E d \in DOMAIN app.stack : Timeout(d)
  \/ \E s \in Code : OnTick(s) \/ OnFill(s)
  \/ Watchdog
  \/ Advance \/ Unblock \/ Hang

\* The watchdog thread runs. For SessionRecovers, which is about sessions without
\* the condition search: timers fire, loops return, delays pass, a query is answered
\* or times out, and Kiwoom answers a login in the end. Time need not go on.
Fairness ==
  /\ WF_vars(Watchdog)
  /\ WF_vars(~enabled /\ Handler)
  /\ WF_vars(~enabled /\ Unblock)
  /\ WF_vars(~enabled /\ (Answer \/ \E d \in DOMAIN app.stack : Timeout(d)))

Spec == Init /\ [][Next]_vars
FairSpec == Spec /\ Fairness
-----------------------------------------------------------------------------
(* Properties. *)

Frame == [proc : {"boot", "recover", "search"},
          wait : {"login", "app"} \cup Query \cup Search, st : {"wait", "quit", "timeout"}]

\* Types of the process memory and of the variables around it.
SessionTypeOK ==
  /\ app.fate \in {"down", "up", "done", "killed", "crashed"}
  /\ app.stack \in Seq(Frame) /\ Len(app.stack) <= MaxDepth
  /\ app.loop \in [{"login", "tr", "condition"} -> 0..Len(app.stack)]
  /\ app.stale \in 0..MaxRecoveries
  /\ app.got.rows \subseteq Code
  /\ UNION {app.snapshot, app.condition, app.owned, app.registered} \subseteq Code
  /\ pending \subseteq {"login"} \cup Query \cup Search
  /\ clock \in {"holiday"} \cup ToSet(Phases) /\ dog \in {"off", "armed", "grace"}
  /\ env.faults \in 0..MaxFaults[enabled]

\* kiwoom_broker.py _exec_loop_with_timeout: however handlers nest, a handler that
\* waits for a login or a query waits in the latest loop of that kind, so that its
\* answer or its timeout can still end it.
WaitsCurrent ==
  \A d \in DOMAIN app.stack :
    app.stack[d].st = "wait" /\ Kind(app.stack[d].wait) \in {"login", "tr"}
        /\ app.stack[d].wait # "app"
      => app.loop[Kind(app.stack[d].wait)] = d

\* main_live.py _recover_broker_session, load_snapshot_and_subscribe: a connected
\* session that is neither starting nor recovering, and whose last recovery went
\* through, is subscribed to every candidate, every holding and every open order.
Subscribed ==
  app.fate = "up" /\ app.connected /\ ~app.booting /\ ~app.recovering /\ app.done
    => WatchCodes(app) \subseteq app.registered

\* kiwoom_broker.py _handle_opw00018, _handle_opt10075: a query that ends without a
\* timeout has all its pages, as long as no earlier query timed out, whose answer
\* may end this one, and no page was refused.
AnswersWhole ==
  \A d \in DOMAIN app.stack :
    app.stack[d].st = "quit" /\ app.stack[d].wait \in Query /\ ~env.torn
      => app.got.whole

\* main_live.py auto_shutdown, _shutdown_watchdog_loop: after 15:35 the process
\* ends, whatever it is waiting for, even if a login is never answered or a call
\* never returns.
SessionEnds == clock = "after" /\ app.fate = "up" ~> app.fate # "up"

\* main_live.py on_heartbeat: without the condition search, a session that has lost
\* its connection before 14:40 gets it back, unless the day goes on or a call hangs.
SessionRecovers ==
  ~enabled /\ app.fate = "up" /\ ~app.booting /\ ~app.connected /\ clock = "session"
    ~> app.connected \/ clock # "session" \/ app.fate # "up" \/ env.stuck

\* What the handlers on the stack amount to.
LifeOf ==
  CASE app.fate = "down" -> "down"
    [] app.fate \notin {"down", "up"} -> "ended"
    [] app.fate = "up" /\ \E d \in DOMAIN app.stack : app.stack[d].proc = "recover" -> "recovering"
    [] OTHER -> IF app.booting THEN "starting" ELSE "running"
Talking ==
  app.fate = "up" /\ \E d \in DOMAIN app.stack :
    app.stack[d].st = "wait" /\ app.stack[d].wait \in {"login"} \cup Query

\* main_live.py on_heartbeat, _recover_broker_session: the nested handlers implement
\* the life of a session as SessionLife states it.
Life == INSTANCE SessionLife WITH life <- LifeOf, talk <- Talking
LifeImplemented == Life!Spec
=============================================================================
