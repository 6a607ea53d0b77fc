-------------------------- MODULE MorningRun_proofs --------------------------
(***************************************************************************)
(* Theorems about MorningRun for any number of runs, processes of the      *)
(* order tool, connections, pages, dates and kills.                        *)
(*                                                                         *)
(* A step of the system is, for each of the tools, a step of that tool, a  *)
(* start or an end of it, or nothing.  So each tool's invariant is proved  *)
(* over its own steps, and the runner's from what it reads of theirs.      *)
(***************************************************************************)
EXTENDS MorningRun, SequenceTheorems, TLAPS

StreamStep ==
  \/ StreamNext
  \/ StartCapture
  \/ /\ cap.pc = "done"
     /\ EndCapture
  \/ UNCHANGED streamVars

BuyStep ==
  \/ BuyNext
  \/ \E p \in Process : StartTool(p) \/ Exit(p)
  \/ UNCHANGED buyVars

ReadStep ==
  \/ FetchPage
  \/ \E queries \in {ProbeQueries, LinkageQueries} : StartRead(queries)
  \/ EndRead
  \/ UNCHANGED read

LEMMA ToolSteps == [Next]_vars => StreamStep /\ BuyStep /\ ReadStep
<1> SUFFICES ASSUME [Next]_vars PROVE StreamStep /\ BuyStep /\ ReadStep
  OBVIOUS
<1>1. StreamStep
  BY DEF StreamStep, Next, vars, Start, Prewarm, ReadBefore, QuoteStep, ReadPrice, Preview,
         Submit, Submitted, ReadAfter, Linkage, PostChecks, OperatorBuys, OperatorDone
<1>2. BuyStep
  BY RunAssumption
     DEF BuyStep, Next, vars, Start, Prewarm, ReadBefore, QuoteStep, ReadPrice, Preview,
         Submit, Submitted, ReadAfter, Linkage, PostChecks, OperatorBuys, OperatorDone
<1>3. ReadStep
  BY DEF ReadStep, Next, vars, Start, Prewarm, ReadBefore, QuoteStep, ReadPrice, Preview,
         Submit, Submitted, ReadAfter, Linkage, PostChecks, OperatorBuys, OperatorDone
<1>4. QED BY <1>1, <1>2, <1>3

-----------------------------------------------------------------------------
(* The quote capture *)

StreamType ==
  [gen : Nat, connected : BOOLEAN, loggedIn : BOOLEAN, registered : BOOLEAN,
   quote : [at : NoTime..MaxTime, gen : Nat], last : NoTime..MaxTime, doubt : BOOLEAN]

CapType ==
  [pc : {"idle", "token", "issue", "connect", "pump", "done"},
   attempt : 0..Reconnects, observed : BOOLEAN, fresh : BOOLEAN]

CacheType == [expires : NoTime..(MaxTime + Margin + 1), last : NoTime..MaxTime]

\* What the protocol state always says: a login belongs to a connection, a
\* registration to a login, a quote to all of them.
ProtocolOK(s) ==
  /\ s.loggedIn => s.connected
  /\ s.registered => s.loggedIn
  /\ s.quote # NoQuote =>
       /\ s.connected /\ s.loggedIn /\ s.registered
       /\ s.quote.gen = s.gen /\ ~s.doubt

StreamInv ==
  /\ now \in 0..MaxTime /\ rollbacks \in 0..MaxRollbacks /\ over \in BOOLEAN
  /\ cache \in CacheType /\ stream \in StreamType /\ cap \in CapType
  /\ ProtocolOK(stream)
  /\ cap.pc = "pump" => stream.connected

LEMMA StreamImplies == StreamInv => StreamTypeOK /\ QuoteIsCurrent
BY DEF StreamInv, StreamTypeOK, StreamType, CapType, CacheType, ProtocolOK, QuoteIsCurrent

LEMMA NewStreamOK == NewStream \in StreamType /\ ProtocolOK(NewStream)
<1>1. NoTime \in NoTime..MaxTime
  BY StreamAssumption DEF NoTime
<1>2. QED BY <1>1 DEF NewStream, StreamType, ProtocolOK, NoQuote

LEMMA BeginOK ==
  ASSUME NEW s \in StreamType
  PROVE  Begin(s) \in StreamType /\ ProtocolOK(Begin(s)) /\ Begin(s).connected
<1>1. NoTime \in NoTime..MaxTime
  BY StreamAssumption DEF NoTime
<1>2. s.gen + 1 \in Nat
  BY DEF StreamType
<1>3. NewStream \in StreamType /\ NewStream.quote = NoQuote /\ ~NewStream.loggedIn
      /\ ~NewStream.registered
  BY NewStreamOK DEF NewStream
<1> HIDE DEF NewStream
<1>4. Begin(s) = [NewStream EXCEPT !.gen = s.gen + 1, !.connected = TRUE]
  BY DEF Begin
<1>5. QED BY <1>2, <1>3, <1>4 DEF StreamType, ProtocolOK

LEMMA DisconnectOK ==
  ASSUME NEW s \in StreamType
  PROVE  Disconnect(s) \in StreamType /\ ProtocolOK(Disconnect(s))
<1>1. NoQuote \in [at : NoTime..MaxTime, gen : Nat]
  BY StreamAssumption DEF NoTime, NoQuote
<1>2. QED BY <1>1 DEF Disconnect, StreamType, ProtocolOK

\* One frame leaves the connection alone and the protocol state in order.
LEMMA ConsumeOK ==
  ASSUME NEW s \in StreamType, ProtocolOK(s), s.connected, NEW f \in Frame,
         NEW t \in 0..MaxTime
  PROVE  Consume(s, f, t) \in StreamType /\ ProtocolOK(Consume(s, f, t))
         /\ Consume(s, f, t).connected
<1> DEFINE seen == [s EXCEPT !.last = t]
           back == [SetBack(s) EXCEPT !.doubt = TRUE]
           quoted == [seen EXCEPT !.quote = [at |-> t, gen |-> s.gen], !.doubt = FALSE]
<1>0. NoQuote \in [at : NoTime..MaxTime, gen : Nat] /\ t \in NoTime..MaxTime
  BY StreamAssumption DEF NoTime, NoQuote
<1>1. back \in StreamType /\ ProtocolOK(back) /\ back.connected
  BY <1>0 DEF SetBack, StreamType, ProtocolOK
<1>2. seen \in StreamType /\ ProtocolOK(seen) /\ seen.connected
  BY <1>0 DEF StreamType, ProtocolOK
<1>3. Ack(seen, f) \in StreamType /\ ProtocolOK(Ack(seen, f)) /\ Ack(seen, f).connected
  BY <1>0, <1>2 DEF Ack, StreamType, ProtocolOK, Frame
<1>4. ASSUME Quotes(s, f)
      PROVE  quoted \in StreamType /\ ProtocolOK(quoted) /\ quoted.connected
  BY <1>0, <1>4 DEF Quotes, StreamType, ProtocolOK
<1>5. Consume(s, f, t) =
        CASE Behind(s, t) -> back
          [] ~Behind(s, t) /\ f.kind \in {"LOGIN", "REG"} -> Ack(seen, f)
          [] ~Behind(s, t) /\ Quotes(s, f) -> quoted
          [] OTHER -> seen
  BY DEF Consume
<1> HIDE DEF seen, back, quoted
<1>6. ~(f.kind \in {"LOGIN", "REG"} /\ Quotes(s, f))
  BY DEF Quotes
<1>7. CASE Behind(s, t)
  BY <1>1, <1>5, <1>7
<1>8. CASE ~Behind(s, t) /\ f.kind \in {"LOGIN", "REG"}
  <2>1. Consume(s, f, t) = Ack(seen, f)
    BY <1>5, <1>6, <1>8
  <2>2. QED BY <1>3, <2>1
<1>9. CASE ~Behind(s, t) /\ Quotes(s, f)
  BY <1>4, <1>5, <1>6, <1>9
<1>10. CASE ~Behind(s, t) /\ f.kind \notin {"LOGIN", "REG"} /\ ~Quotes(s, f)
  BY <1>2, <1>5, <1>10
<1>11. QED BY <1>7, <1>8, <1>9, <1>10

\* How a capture ends or goes on after an exception.
LEMMA EndOK ==
  ASSUME StreamTypeOK, NEW s \in StreamType, NEW fresh \in BOOLEAN, NEW observed \in BOOLEAN,
         End(s, fresh, observed)
  PROVE  stream' \in StreamType /\ ProtocolOK(stream') /\ cap' \in CapType /\ cap'.pc = "done"
<1>1. cap \in CapType
  BY DEF StreamTypeOK, CapType
<1>2. cap' \in CapType /\ cap'.pc = "done"
  BY <1>1 DEF End, CapType
<1>3. QED BY <1>2, DisconnectOK DEF End

LEMMA FailedOK ==
  ASSUME StreamTypeOK, NEW s \in StreamType, NEW observed \in BOOLEAN, Failed(s, observed)
  PROVE  stream' \in StreamType /\ ProtocolOK(stream') /\ cap' \in CapType
         /\ cap'.pc \in {"token", "done"}
<1>1. cap \in CapType
  BY DEF StreamTypeOK, CapType
<1>2. cap' \in CapType /\ cap'.pc \in {"token", "done"}
  <2>1. CASE Retries(cap.attempt)
    <3>1. cap.attempt + 1 \in 0..Reconnects
      BY <1>1, <2>1, StreamAssumption DEF Retries, CapType
    <3>2. cap' = [cap EXCEPT !.pc = "token", !.attempt = cap.attempt + 1, !.fresh = FALSE,
                             !.observed = observed]
      BY <2>1 DEF Failed
    <3>3. QED BY <1>1, <3>1, <3>2 DEF CapType
  <2>2. CASE ~Retries(cap.attempt)
    BY <1>1, <2>2 DEF Failed, CapType
  <2>3. QED BY <2>1, <2>2
<1>3. QED BY <1>2, DisconnectOK DEF Failed

LEMMA StreamInitOK == StreamInit => StreamInv
<1> SUFFICES ASSUME StreamInit PROVE StreamInv
  OBVIOUS
<1>1. stream \in StreamType /\ ProtocolOK(stream)
  BY NewStreamOK DEF StreamInit
<1>2. cache \in CacheType
  BY StreamAssumption DEF StreamInit, NewCache, CacheType, NoTime
<1>3. cap \in CapType /\ cap.pc = "idle"
  BY StreamAssumption DEF StreamInit, NoCapture, CapType
<1>4. now \in 0..MaxTime /\ rollbacks \in 0..MaxRollbacks
  BY StreamAssumption DEF StreamInit
<1>5. over \in BOOLEAN
  BY DEF StreamInit
<1>6. QED BY <1>1, <1>2, <1>3, <1>4, <1>5
         DEF StreamInv

LEMMA GetTokenOK == StreamInv /\ GetToken => StreamInv'
<1> SUFFICES ASSUME StreamInv, GetToken PROVE StreamInv'
  OBVIOUS
<1>0. /\ now \in NoTime..MaxTime /\ NoTime \in NoTime..(MaxTime + Margin + 1)
      /\ stream \in StreamType /\ cap \in CapType /\ cap.pc = "token" /\ cache \in CacheType
  BY StreamAssumption DEF StreamInv, NoTime, GetToken
<1>1. UNCHANGED <<now, rollbacks, over>>
  BY DEF GetToken
<1>2. cache' \in CacheType
  <2>1. /\ [cache EXCEPT !.expires = NoTime] \in CacheType
        /\ [cache EXCEPT !.last = now] \in CacheType
        /\ [expires |-> NoTime, last |-> now] \in CacheType
    BY <1>0 DEF CacheType
  <2>2. QED BY <2>1 DEF GetToken
<1>3. CASE End(stream, FALSE, cap.observed)
  <2>1. /\ stream' \in StreamType /\ ProtocolOK(stream')
        /\ cap' \in CapType /\ cap'.pc = "done"
    BY <1>0, <1>3, StreamImplies, EndOK DEF CapType
  <2>2. QED BY <1>1, <1>2, <2>1 DEF StreamInv
<1>4. CASE \E pc \in {"connect", "issue"} : cap' = [cap EXCEPT !.pc = pc] /\ UNCHANGED stream
  <2>1. cap' \in CapType /\ cap'.pc # "pump" /\ UNCHANGED stream
    BY <1>0, <1>4 DEF CapType
  <2>2. QED BY <1>1, <1>2, <2>1 DEF StreamInv
<1>5. QED BY <1>3, <1>4 DEF GetToken

LEMMA IssueTokenOK == StreamInv /\ IssueToken => StreamInv'
<1> SUFFICES ASSUME StreamInv, IssueToken PROVE StreamInv'
  OBVIOUS
<1>0. /\ now \in 0..MaxTime /\ stream \in StreamType /\ cap \in CapType
      /\ cap.pc = "issue" /\ cache \in CacheType
  BY DEF StreamInv, IssueToken
<1>1. UNCHANGED <<now, rollbacks, over>>
  BY DEF IssueToken
<1>2. CASE End(stream, FALSE, cap.observed) /\ UNCHANGED cache
  <2>1. /\ stream' \in StreamType /\ ProtocolOK(stream')
        /\ cap' \in CapType /\ cap'.pc = "done"
    BY <1>0, <1>2, StreamImplies, EndOK DEF CapType
  <2>2. QED BY <1>1, <1>2, <2>1 DEF StreamInv
<1>3. ASSUME NEW e \in now..(MaxTime + Margin + 1), cache' = [expires |-> e, last |-> now],
             cap' = [cap EXCEPT !.pc = "connect"], UNCHANGED stream
      PROVE  StreamInv'
  <2>1. /\ e \in NoTime..(MaxTime + Margin + 1) /\ now \in NoTime..MaxTime
    BY <1>0, StreamAssumption DEF NoTime
  <2>2. cache' \in CacheType
    BY <1>3, <2>1 DEF CacheType
  <2>3. cap' \in CapType /\ cap'.pc # "pump"
    BY <1>0, <1>3 DEF CapType
  <2>4. QED BY <1>1, <1>3, <2>2, <2>3 DEF StreamInv
<1>4. QED BY <1>2, <1>3 DEF IssueToken

\* Every step of an open connection that leaves the clocks alone ends the capture,
\* tries again, or goes on with a protocol state in order.
LEMMA ConnectedOK ==
  ASSUME StreamInv, UNCHANGED <<now, rollbacks, over, cache>>,
         \/ \E s \in StreamType, fresh, observed \in BOOLEAN : End(s, fresh, observed)
         \/ \E s \in StreamType, observed \in BOOLEAN : Failed(s, observed)
         \/ /\ stream' \in StreamType /\ ProtocolOK(stream') /\ stream'.connected
            /\ cap' \in CapType
  PROVE  StreamInv'
<1>1. /\ stream' \in StreamType /\ ProtocolOK(stream') /\ cap' \in CapType
      /\ cap'.pc = "pump" => stream'.connected
  <2>0. StreamTypeOK
    BY StreamImplies
  <2>1. CASE \E s \in StreamType, fresh, observed \in BOOLEAN : End(s, fresh, observed)
    BY <2>0, <2>1, EndOK
  <2>2. CASE \E s \in StreamType, observed \in BOOLEAN : Failed(s, observed)
    BY <2>0, <2>2, FailedOK
  <2>3. CASE /\ stream' \in StreamType /\ ProtocolOK(stream') /\ stream'.connected
             /\ cap' \in CapType
    BY <2>3
  <2>4. QED BY <2>1, <2>2, <2>3
<1>2. QED BY <1>1 DEF StreamInv

LEMMA ConnectionSteps ==
  ASSUME StreamInv, NEW f \in Frame, Connect \/ PumpEnds \/ ConnectionLost \/ Receive(f)
  PROVE  StreamInv'
<1>0. /\ now \in 0..MaxTime /\ stream \in StreamType /\ cap \in CapType
      /\ cap.observed \in BOOLEAN /\ cap.fresh \in BOOLEAN
      /\ ProtocolOK(stream)
      /\ cap.pc = "pump" => stream.connected
  BY DEF StreamInv, CapType
<1>1. UNCHANGED <<now, rollbacks, over, cache>>
  BY DEF Connect, PumpEnds, ConnectionLost, Receive
<1>2. ASSUME NEW s \in StreamType, NEW observed \in BOOLEAN, Finish(s, observed)
      PROVE  \E fresh \in BOOLEAN : End(s, fresh, observed)
  <2>1. PICK ok \in BOOLEAN : End(s, Closed(Usable(s, now), ok), observed)
    BY <1>2 DEF Finish
  <2>2. Closed(Usable(s, now), ok) \in BOOLEAN
    BY DEF Closed
  <2>3. QED BY <2>1, <2>2
<1>3. CASE Connect
  <2>1. Begin(stream) \in StreamType /\ ProtocolOK(Begin(stream)) /\ Begin(stream).connected
    BY <1>0, BeginOK
  <2>2. CASE End(stream, cap.fresh, cap.observed)
    BY <1>0, <1>1, <2>2, ConnectedOK
  <2>3. CASE \E s \in {stream, Begin(stream)} : Failed(s, cap.observed)
    BY <1>0, <1>1, <2>1, <2>3, ConnectedOK
  <2>4. CASE stream' = Begin(stream) /\ cap' = [cap EXCEPT !.pc = "pump"]
    <3>1. cap' \in CapType
      BY <1>0, <2>4 DEF CapType
    <3>2. QED BY <1>1, <2>1, <2>4, <3>1, ConnectedOK
  <2>5. QED BY <1>3, <2>2, <2>3, <2>4 DEF Connect
<1>4. CASE PumpEnds
  BY <1>0, <1>1, <1>2, <1>4, ConnectedOK DEF PumpEnds
<1>5. CASE ConnectionLost
  BY <1>0, <1>1, <1>5, ConnectedOK DEF ConnectionLost
<1>6. CASE Receive(f)
  <2> DEFINE s == Consume(stream, f, now)
             observed == cap.observed \/ (~Behind(stream, now) /\ Quotes(stream, f))
  <2>1. s \in StreamType /\ ProtocolOK(s) /\ s.connected
    BY <1>0, <1>6, ConsumeOK DEF Receive
  <2>2. observed \in BOOLEAN
    BY <1>0
  <2>3. \/ Finish(s, observed)
        \/ Failed(s, observed)
        \/ stream' = s /\ cap' = [cap EXCEPT !.observed = observed]
    BY <1>6 DEF Receive
  <2> HIDE DEF s, observed
  <2>4. CASE Finish(s, observed)
    BY <1>1, <1>2, <2>1, <2>2, <2>4, ConnectedOK
  <2>5. CASE Failed(s, observed)
    BY <1>1, <2>1, <2>2, <2>5, ConnectedOK
  <2>6. CASE stream' = s /\ cap' = [cap EXCEPT !.observed = observed]
    <3>1. cap' \in CapType
      BY <1>0, <2>2, <2>6 DEF CapType
    <3>2. QED BY <1>1, <2>1, <2>6, <3>1, ConnectedOK
  <2>7. QED BY <2>3, <2>4, <2>5, <2>6
<1>7. QED BY <1>3, <1>4, <1>5, <1>6

LEMMA StreamStepOK == StreamInv /\ StreamStep => StreamInv'
<1> SUFFICES ASSUME StreamInv, StreamStep PROVE StreamInv'
  OBVIOUS
<1>1. CASE GetToken \/ IssueToken
  BY <1>1, GetTokenOK, IssueTokenOK
<1>2. ASSUME NEW f \in Frame, Connect \/ PumpEnds \/ ConnectionLost \/ Receive(f)
      PROVE  StreamInv'
  BY <1>2, ConnectionSteps
<1>3. CASE Connect \/ PumpEnds \/ ConnectionLost
  <2>1. [kind |-> "REG", ok |-> TRUE] \in Frame
    BY DEF Frame
  <2>2. QED BY <1>2, <1>3, <2>1
<1>4. CASE ClockTicks
  <2>1. now' \in 0..MaxTime
    BY <1>4, StreamAssumption DEF StreamInv, ClockTicks
  <2>2. QED BY <1>4, <2>1 DEF StreamInv, ClockTicks
<1>5. CASE ClockSetBack
  <2>1. now' \in 0..MaxTime /\ rollbacks' \in 0..MaxRollbacks
    BY <1>5, StreamAssumption DEF StreamInv, ClockSetBack
  <2>2. QED BY <1>5, <2>1 DEF StreamInv, ClockSetBack
<1>6. CASE DeadlinePasses
  BY <1>6 DEF StreamInv, DeadlinePasses
<1>7. CASE \/ StartCapture
           \/ /\ cap.pc = "done"
              /\ EndCapture
  <2>1. /\ now' \in 0..MaxTime /\ rollbacks' \in 0..MaxRollbacks
        /\ NoTime \in NoTime..(MaxTime + Margin + 1) /\ NoTime \in NoTime..MaxTime
        /\ 0 \in 0..Reconnects
    BY <1>7, StreamAssumption DEF StartCapture, EndCapture, NoTime
  <2>2. over' \in BOOLEAN
    BY <1>7 DEF StartCapture, EndCapture
  <2>3. cache' \in CacheType
    BY <1>7, <2>1 DEF StartCapture, EndCapture, NewCache, CacheType
  <2>4. stream' \in StreamType /\ ProtocolOK(stream')
    BY <1>7, NewStreamOK DEF StartCapture, EndCapture
  <2>5. cap' \in CapType /\ cap'.pc # "pump"
    BY <1>7, <2>1 DEF StartCapture, EndCapture, NoCapture, CapType, StreamInv
  <2>6. QED BY <2>1, <2>2, <2>3, <2>4, <2>5 DEF StreamInv
<1>8. CASE UNCHANGED streamVars
  BY <1>8 DEF streamVars, StreamInv
<1>9. QED
  BY <1>1, <1>2, <1>3, <1>4, <1>5, <1>6, <1>7, <1>8 DEF StreamStep, StreamNext

\* The quote a capture keeps is of the present connection, logged in and registered,
\* and no frame since was older than the one before: for any number of connections,
\* whatever frames the server sends in which order, and however the clock is set back.
THEOREM QuotesAreCurrent == Spec => []QuoteIsCurrent
<1>1. Init => StreamInv
  BY StreamInitOK DEF Init
<1>2. StreamInv /\ [Next]_vars => StreamInv'
  BY ToolSteps, StreamStepOK
<1>3. StreamInv => QuoteIsCurrent
  BY StreamImplies
<1>4. QED BY <1>1, <1>2, <1>3, PTL DEF Spec

-----------------------------------------------------------------------------
(* The order tool *)

ToolType ==
  [pc : {"idle", "check", "auth", "post", "answer", "done"}, day : 0..MaxDays,
   answer : {"none", "acked", "refused", "unknown"}]

\* p found no file of date d and has not come to write it.
At(p, d) == tool[p].pc \in {"auth", "post", "answer"} /\ tool[p].day = d

\* p sent an order of date d and will write its file.
Owes(p, d) ==
  /\ tool[p].pc = "answer" /\ tool[p].day = d
  /\ tool[p].answer \in {"acked", "unknown"}

\* What holds of a date while the file guards it: one process at most is under way,
\* none once the file is there, and an order that was accepted is in the file or its
\* process still has to write it.
Guarded(d) ==
  /\ orders[d] <= 1
  /\ \A p, q \in Process : At(p, d) /\ At(q, d) => p = q
  /\ d \in sentinel => \A p \in Process : ~At(p, d)
  /\ orders[d] # 0 => d \in sentinel \/ \E p \in Process : Owes(p, d)

\* A process that is under way has read a date.
Dated == \A p \in Process : tool[p].pc \in {"auth", "post", "answer"} => tool[p].day # 0

BuyInv ==
  /\ BuyTypeOK /\ Dated
  /\ \A d \in 1..MaxDays : d \notin unguarded => Guarded(d)

LEMMA BuyInitOK == BuyInit => BuyInv
<1> SUFFICES ASSUME BuyInit PROVE BuyInv
  OBVIOUS
<1>1. tool \in [Process -> ToolType] /\ \A p \in Process : tool[p].pc = "idle"
  BY BuyAssumption DEF BuyInit, NoTool, ToolType
<1>2. BuyTypeOK
  BY <1>1, BuyAssumption DEF BuyInit, BuyTypeOK, ToolType
<1>3. \A d \in 1..MaxDays : Guarded(d)
  BY <1>1 DEF BuyInit, Guarded, At
<1>4. QED BY <1>1, <1>2, <1>3 DEF BuyInv, Dated

\* What one process does changes its own record only.
LEMMA ToolChange ==
  ASSUME tool \in [Process -> ToolType], Dated, NEW p \in Process, NEW x \in ToolType,
         tool' = [tool EXCEPT ![p] = x],
         x.pc \in {"auth", "post", "answer"} => x.day # 0
  PROVE  /\ tool' \in [Process -> ToolType] /\ Dated'
         /\ tool'[p] = x
         /\ \A q \in Process \ {p} : tool'[q] = tool[q]
BY DEF Dated

\* The record that a process has after each of its steps.
LEMMA ToolRecords ==
  ASSUME BuyTypeOK, Dated, NEW p \in Process
  PROVE  /\ StartTool(p) => tool' = [tool EXCEPT ![p] = [tool[p] EXCEPT !.pc = "check"]]
         /\ Authenticate(p) =>
              \E pc \in {"post", "done"} : tool' = [tool EXCEPT ![p] = [tool[p] EXCEPT !.pc = pc]]
         /\ Record(p) \/ Kill(p) => tool' = [tool EXCEPT ![p] = [tool[p] EXCEPT !.pc = "done"]]
         /\ Exit(p) => tool' = [tool EXCEPT ![p] = NoTool]
BY DEF StartTool, Authenticate, Record, Kill, Exit

LEMMA BuyTypeStep == BuyTypeOK /\ Dated /\ BuyStep => BuyTypeOK' /\ Dated'
<1> SUFFICES ASSUME BuyTypeOK, Dated, BuyStep PROVE BuyTypeOK' /\ Dated'
  OBVIOUS
<1>0. tool \in [Process -> ToolType] /\ MaxDays \in Nat \ {0} /\ MaxKills \in Nat
  BY BuyAssumption DEF BuyTypeOK, ToolType
<1>1. NoTool \in ToolType /\ day \in 1..MaxDays /\ NoTool.pc = "idle"
  BY <1>0 DEF NoTool, ToolType, BuyTypeOK
<1> DEFINE Rest == /\ day' \in 1..MaxDays /\ kills' \in 0..MaxKills
                   /\ sentinel' \subseteq 1..MaxDays /\ unguarded' \subseteq 1..MaxDays
                   /\ orders' \in [1..MaxDays -> Nat]
<1>2. ASSUME NEW p \in Process, StartTool(p) \/ Authenticate(p) \/ Exit(p)
      PROVE  tool' \in [Process -> ToolType] /\ Dated' /\ Rest
  <2>1. Rest
    BY <1>2 DEF StartTool, Authenticate, Exit, BuyTypeOK
  <2>2. \E x \in ToolType : /\ tool' = [tool EXCEPT ![p] = x]
                            /\ x.pc \in {"auth", "post", "answer"} => x.day # 0
    <3>1. CASE StartTool(p)
      <4>1. [tool[p] EXCEPT !.pc = "check"] \in ToolType
        BY <1>0 DEF ToolType
      <4>2. [tool[p] EXCEPT !.pc = "check"].pc = "check"
        BY <1>0 DEF ToolType
      <4>3. QED BY <3>1, <4>1, <4>2, ToolRecords
    <3>2. CASE Authenticate(p)
      <4>1. tool[p].day # 0
        BY <3>2 DEF Authenticate, Dated
      <4>2. PICK pc \in {"post", "done"} : tool' = [tool EXCEPT ![p] = [tool[p] EXCEPT !.pc = pc]]
        BY <3>2, ToolRecords
      <4>3. [tool[p] EXCEPT !.pc = pc] \in ToolType /\ [tool[p] EXCEPT !.pc = pc].day # 0
        BY <1>0, <4>1 DEF ToolType
      <4>4. QED BY <4>2, <4>3
    <3>3. CASE Exit(p)
      BY <1>1, <3>3, ToolRecords
    <3>4. QED BY <1>2, <3>1, <3>2, <3>3
  <2>3. QED BY <1>0, <2>1, <2>2, ToolChange
<1>3. ASSUME NEW p \in Process, Check(p)
      PROVE  tool' \in [Process -> ToolType] /\ Dated' /\ Rest
  <2>1. /\ [NoTool EXCEPT !.pc = "auth", !.day = day] \in ToolType
        /\ [NoTool EXCEPT !.pc = "auth", !.day = day].day # 0
    <3>1. ASSUME NEW x \in ToolType
          PROVE  /\ [x EXCEPT !.pc = "auth", !.day = day] \in ToolType
                 /\ [x EXCEPT !.pc = "auth", !.day = day].day = day
      <4>1. day \in 0..MaxDays
        BY <1>0, <1>1
      <4>2. QED BY <4>1 DEF ToolType
    <3>2. day # 0
      BY <1>1
    <3>3. QED BY <1>1, <3>1, <3>2
  <2>2. /\ [tool[p] EXCEPT !.pc = "done"] \in ToolType
        /\ [tool[p] EXCEPT !.pc = "done"].pc = "done"
    BY <1>0 DEF ToolType
  <2>3. Rest
    BY <1>3 DEF Check, BuyTypeOK
  <2>4. \/ tool' = [tool EXCEPT ![p] = [tool[p] EXCEPT !.pc = "done"]]
        \/ tool' = [tool EXCEPT ![p] = [NoTool EXCEPT !.pc = "auth", !.day = day]]
    BY <1>3 DEF Check
  <2>5. QED BY <1>0, <2>1, <2>2, <2>3, <2>4, ToolChange
<1>4. ASSUME NEW p \in Process, Post(p)
      PROVE  tool' \in [Process -> ToolType] /\ Dated' /\ Rest
  <2>1. PICK accepted \in BOOLEAN, answer \in {"acked", "refused", "unknown"} :
          /\ tool' = [tool EXCEPT ![p].pc = "answer", ![p].answer = answer]
          /\ orders' = [orders EXCEPT ![tool[p].day] = IF accepted THEN @ + 1 ELSE @]
    BY <1>4 DEF Post
  <2> DEFINE x == [tool[p] EXCEPT !.pc = "answer", !.answer = answer]
  <2>2. x \in ToolType /\ x.day = tool[p].day
    BY <1>0 DEF ToolType
  <2>3. tool' = [tool EXCEPT ![p] = x]
    BY <1>0, <2>1 DEF ToolType
  <2>4. tool[p].day # 0
    BY <1>4 DEF Post, Dated
  <2>5. orders \in [1..MaxDays -> Nat] /\ tool[p].day \in 1..MaxDays
    BY <1>0, <2>4 DEF BuyTypeOK, ToolType
  <2>6. orders' \in [1..MaxDays -> Nat]
    BY <2>1, <2>5
  <2>7. Rest
    BY <1>4, <2>6 DEF Post, BuyTypeOK
  <2> HIDE DEF x, Rest
  <2>8. QED BY <1>0, <2>2, <2>3, <2>4, <2>7, ToolChange
<1>5. ASSUME NEW p \in Process, Record(p) \/ Kill(p)
      PROVE  tool' \in [Process -> ToolType] /\ Dated' /\ Rest
  <2>1. /\ [tool[p] EXCEPT !.pc = "done"] \in ToolType
        /\ [tool[p] EXCEPT !.pc = "done"].pc = "done"
    BY <1>0 DEF ToolType
  <2>2. tool[p].pc = "answer" => tool[p].day \in 1..MaxDays
    BY <1>0 DEF Dated, ToolType
  <2>3. Rest
    BY <1>0, <1>5, <2>2 DEF Record, Kill, BuyTypeOK
  <2>4. QED BY <1>0, <1>5, <2>1, <2>3, ToolChange, ToolRecords
<1>6. ASSUME Midnight \/ UNCHANGED buyVars
      PROVE  tool' \in [Process -> ToolType] /\ Dated' /\ Rest
  <2>1. UNCHANGED <<tool, sentinel, orders, unguarded, kills>>
    BY <1>6 DEF Midnight, buyVars
  <2>2. day' \in 1..MaxDays
    BY <1>0, <1>1, <1>6 DEF Midnight, buyVars
  <2>3. Rest
    BY <2>1, <2>2 DEF BuyTypeOK
  <2>4. QED BY <1>0, <2>1, <2>3 DEF Dated
<1> HIDE DEF Rest
<1>7. tool' \in [Process -> ToolType] /\ Dated' /\ Rest
  BY <1>2, <1>3, <1>4, <1>5, <1>6 DEF BuyStep, BuyNext
<1>8. QED BY <1>7 DEF Rest, BuyTypeOK, ToolType

\* Steps that put nobody under way for a date and settle nothing keep it guarded.
LEMMA GuardedFrame ==
  ASSUME NEW d \in 1..MaxDays, Guarded(d),
         orders'[d] = orders[d], (d \in sentinel') <=> (d \in sentinel),
         \A q \in Process : At(q, d)' => At(q, d),
         \A q \in Process : Owes(q, d) => Owes(q, d)'
  PROVE  Guarded(d)'
BY DEF Guarded

LEMMA GuardedStep ==
  ASSUME BuyInv, BuyStep, NEW d \in 1..MaxDays, d \notin unguarded'
  PROVE  Guarded(d)'
<1>0. tool \in [Process -> ToolType] /\ Dated /\ BuyTypeOK
  BY DEF BuyInv, BuyTypeOK, ToolType
<1>1. d \notin unguarded
  BY DEF BuyStep, BuyNext, StartTool, Exit, Check, Authenticate, Post, Record, Kill,
         Midnight, buyVars
<1>2. Guarded(d)
  BY <1>1 DEF BuyInv
<1>3. ASSUME NEW p \in Process, NEW x \in ToolType, tool' = [tool EXCEPT ![p] = x],
             x.pc \in {"auth", "post", "answer"} => At(p, d) \/ x.day # d,
             ~Owes(p, d), UNCHANGED <<orders, sentinel>>
      PROVE  Guarded(d)'
  <2>1. tool'[p] = x /\ \A q \in Process \ {p} : tool'[q] = tool[q]
    BY <1>0, <1>3
  <2>2. \A q \in Process : At(q, d)' => At(q, d)
    BY <1>3, <2>1 DEF At
  <2>3. \A q \in Process : Owes(q, d) => Owes(q, d)'
    BY <1>3, <2>1 DEF Owes
  <2>4. QED BY <1>2, <1>3, <2>2, <2>3, GuardedFrame
<1>4. ASSUME NEW p \in Process, StartTool(p) \/ Authenticate(p) \/ Exit(p)
      PROVE  Guarded(d)'
  <2>1. UNCHANGED <<orders, sentinel>> /\ ~Owes(p, d)
    BY <1>4 DEF StartTool, Authenticate, Exit, Owes
  <2>2. \E x \in ToolType : /\ tool' = [tool EXCEPT ![p] = x]
                            /\ x.pc \in {"auth", "post", "answer"} => At(p, d) \/ x.day # d
    <3>1. CASE StartTool(p)
      <4>1. [tool[p] EXCEPT !.pc = "check"] \in ToolType
            /\ [tool[p] EXCEPT !.pc = "check"].pc = "check"
        BY <1>0 DEF ToolType
      <4>2. QED BY <1>0, <3>1, <4>1, ToolRecords
    <3>2. CASE Authenticate(p)
      <4>1. PICK pc \in {"post", "done"} : tool' = [tool EXCEPT ![p] = [tool[p] EXCEPT !.pc = pc]]
        BY <1>0, <3>2, ToolRecords
      <4>2. [tool[p] EXCEPT !.pc = pc] \in ToolType /\ [tool[p] EXCEPT !.pc = pc].day = tool[p].day
        BY <1>0 DEF ToolType
      <4>3. tool[p].day = d => At(p, d)
        BY <3>2 DEF Authenticate, At
      <4>4. QED BY <4>1, <4>2, <4>3
    <3>3. CASE Exit(p)
      <4>1. NoTool \in ToolType /\ NoTool.pc = "idle"
        BY BuyAssumption DEF NoTool, ToolType
      <4>2. QED BY <1>0, <3>3, <4>1, ToolRecords
    <3>4. QED BY <1>4, <3>1, <3>2, <3>3
  <2>3. QED BY <1>3, <2>1, <2>2
<1>5. ASSUME NEW p \in Process, Check(p) PROVE Guarded(d)'
  <2> DEFINE x == [NoTool EXCEPT !.pc = "auth", !.day = day]
             y == [tool[p] EXCEPT !.pc = "done"]
  <2>0. UNCHANGED <<orders, sentinel>> /\ ~Owes(p, d) /\ ~At(p, d)
    BY <1>5 DEF Check, Owes, At
  <2>1. CASE tool' = [tool EXCEPT ![p] = y]
    <3>1. y \in ToolType /\ y.pc = "done"
      BY <1>0 DEF ToolType
    <3> HIDE DEF y
    <3>2. QED BY <1>3, <2>0, <2>1, <3>1
  <2>2. CASE /\ day \notin sentinel /\ tool' = [tool EXCEPT ![p] = x]
             /\ unguarded' = IF Underway # {} THEN unguarded \cup {day} ELSE unguarded
    <3>1. x \in ToolType /\ x.pc = "auth" /\ x.day = day
      <4>1. NoTool \in ToolType /\ day \in 0..MaxDays
        BY <1>0, BuyAssumption DEF NoTool, ToolType, BuyTypeOK
      <4>2. ASSUME NEW r \in ToolType
            PROVE  /\ [r EXCEPT !.pc = "auth", !.day = day] \in ToolType
                   /\ [r EXCEPT !.pc = "auth", !.day = day].pc = "auth"
                   /\ [r EXCEPT !.pc = "auth", !.day = day].day = day
        BY <4>1 DEF ToolType
      <4>3. QED BY <4>1, <4>2
    <3> HIDE DEF x
    <3>2. CASE day # d
      BY <1>3, <2>0, <2>2, <3>1, <3>2
    <3>3. CASE day = d
      <4>1. Underway = {}
        BY <2>2, <3>3
      <4>2. \A q \in Process : ~At(q, d)
        BY <3>3, <4>1 DEF Underway, At
      <4>3. tool'[p] = x /\ \A q \in Process \ {p} : tool'[q] = tool[q]
        BY <1>0, <2>2
      <4>4. \A q \in Process : At(q, d)' => q = p
        BY <4>2, <4>3 DEF At
      <4>5. \A q \in Process : Owes(q, d) => Owes(q, d)'
        BY <2>0, <4>3 DEF Owes
      <4>6. orders'[d] = orders[d] /\ d \notin sentinel /\ d \notin sentinel'
        BY <2>0, <2>2, <3>3
      <4>7. QED BY <1>2, <4>4, <4>5, <4>6 DEF Guarded
    <3>4. QED BY <3>2, <3>3
  <2>3. QED BY <1>5, <2>1, <2>2 DEF Check
<1>6. ASSUME NEW p \in Process, Post(p) PROVE Guarded(d)'
  <2>1. PICK accepted \in BOOLEAN, answer \in {"acked", "refused", "unknown"} :
          /\ accepted => answer # "refused"
          /\ tool' = [tool EXCEPT ![p].pc = "answer", ![p].answer = answer]
          /\ orders' = [orders EXCEPT ![tool[p].day] = IF accepted THEN @ + 1 ELSE @]
    BY <1>6 DEF Post
  <2> DEFINE x == [tool[p] EXCEPT !.pc = "answer", !.answer = answer]
  <2>2. x.pc = "answer" /\ x.answer = answer /\ x.day = tool[p].day
    BY <1>0 DEF ToolType
  <2>3. tool' = [tool EXCEPT ![p] = x]
    BY <1>0, <2>1 DEF ToolType
  <2> HIDE DEF x
  <2>4. tool'[p] = x /\ \A q \in Process \ {p} : tool'[q] = tool[q]
    BY <1>0, <2>3
  <2>5. tool[p].pc = "post" /\ UNCHANGED sentinel
    BY <1>6 DEF Post
  <2>6. \A q \in Process : At(q, d)' => At(q, d)
    BY <2>2, <2>4, <2>5 DEF At
  <2>7. \A q \in Process : Owes(q, d) => Owes(q, d)'
    BY <2>4, <2>5 DEF Owes
  <2>8. orders \in [1..MaxDays -> Nat]
    BY <1>0 DEF BuyTypeOK
  <2>9. CASE tool[p].day # d
    <3>1. orders'[d] = orders[d]
      BY <2>1, <2>8, <2>9
    <3>2. QED BY <1>2, <2>5, <2>6, <2>7, <3>1, GuardedFrame
  <2>10. CASE tool[p].day = d
    <3>1. At(p, d)
      BY <2>5, <2>10 DEF At
    <3>2. d \notin sentinel
      BY <1>2, <3>1 DEF Guarded
    <3>3. \A q \in Process : ~Owes(q, d)
      <4>1. \A q \in Process : Owes(q, d) => At(q, d)
        BY DEF Owes, At
      <4>2. ~Owes(p, d)
        BY <2>5 DEF Owes
      <4>3. QED BY <1>2, <3>1, <4>1, <4>2 DEF Guarded
    <3>4. orders[d] = 0
      BY <1>2, <3>2, <3>3 DEF Guarded
    <3>5. orders'[d] = IF accepted THEN 1 ELSE 0
      BY <2>1, <2>8, <2>10, <3>4
    <3>6. orders'[d] <= 1 /\ (orders'[d] # 0 => accepted)
      BY <3>5
    <3>7. accepted => Owes(p, d)'
      BY <2>1, <2>2, <2>4, <2>10 DEF Owes
    <3>8. \A q, r \in Process : At(q, d)' /\ At(r, d)' => q = r
      BY <1>2, <2>6 DEF Guarded
    <3>9. d \notin sentinel'
      BY <2>5, <3>2
    <3>10. orders'[d] # 0 => \E q \in Process : Owes(q, d)'
      BY <3>6, <3>7
    <3>11. QED BY <3>6, <3>8, <3>9, <3>10 DEF Guarded
  <2>11. QED BY <2>9, <2>10
<1>7. ASSUME NEW p \in Process, Record(p) PROVE Guarded(d)'
  <2> DEFINE x == [tool[p] EXCEPT !.pc = "done"]
  <2>1. x \in ToolType /\ x.pc = "done"
    BY <1>0 DEF ToolType
  <2>2. tool' = [tool EXCEPT ![p] = x]
    BY <1>0, <1>7, ToolRecords
  <2> HIDE DEF x
  <2>3. tool'[p] = x /\ \A q \in Process \ {p} : tool'[q] = tool[q]
    BY <1>0, <2>2
  <2>4. /\ tool[p].pc = "answer" /\ UNCHANGED orders
        /\ sentinel' = IF Records(tool[p].answer) THEN sentinel \cup {tool[p].day} ELSE sentinel
    BY <1>7 DEF Record
  <2>5. \A q \in Process : At(q, d)' => At(q, d) /\ q # p
    BY <2>1, <2>3 DEF At
  <2>6. \A q \in Process \ {p} : Owes(q, d) => Owes(q, d)'
    BY <2>3 DEF Owes
  <2>7. CASE tool[p].day # d
    <3>1. (d \in sentinel') <=> (d \in sentinel)
      BY <2>4, <2>7
    <3>2. ~Owes(p, d)
      BY <2>7 DEF Owes
    <3>3. \A q \in Process : Owes(q, d) => Owes(q, d)'
      BY <2>6, <3>2
    <3>4. QED BY <1>2, <2>4, <2>5, <3>1, <3>3, GuardedFrame
  <2>8. CASE tool[p].day = d
    <3>1. At(p, d)
      BY <2>4, <2>8 DEF At
    <3>2. \A q \in Process : ~At(q, d)'
      BY <1>2, <2>5, <3>1 DEF Guarded
    <3>3. orders[d] # 0 => d \in sentinel'
      <4>1. CASE Records(tool[p].answer)
        BY <2>4, <2>8, <4>1
      <4>2. CASE ~Records(tool[p].answer)
        <5>1. \A q \in Process : Owes(q, d) => At(q, d)
          BY DEF Owes, At
        <5>2. ~Owes(p, d)
          BY <4>2 DEF Owes, Records
        <5>3. \A q \in Process : ~Owes(q, d)
          BY <1>2, <3>1, <5>1, <5>2 DEF Guarded
        <5>4. QED BY <1>2, <2>4, <4>2, <5>3 DEF Guarded
      <4>3. QED BY <4>1, <4>2
    <3>4. orders'[d] = orders[d] /\ orders[d] <= 1
      BY <1>2, <2>4 DEF Guarded
    <3>5. QED BY <3>2, <3>3, <3>4 DEF Guarded
  <2>9. QED BY <2>7, <2>8
<1>8. ASSUME NEW p \in Process, Kill(p) PROVE Guarded(d)'
  <2>1. [tool[p] EXCEPT !.pc = "done"] \in ToolType /\ [tool[p] EXCEPT !.pc = "done"].pc = "done"
    BY <1>0 DEF ToolType
  <2>2. ~Owes(p, d)
    BY <1>8 DEF Kill, Owes
  <2>3. UNCHANGED <<orders, sentinel>>
    BY <1>8 DEF Kill
  <2>4. QED BY <1>0, <1>3, <1>8, <2>1, <2>2, <2>3, ToolRecords
<1>9. ASSUME Midnight \/ UNCHANGED buyVars PROVE Guarded(d)'
  <2>1. UNCHANGED <<tool, orders, sentinel>>
    BY <1>9 DEF Midnight, buyVars
  <2>2. QED BY <1>2, <2>1 DEF Guarded, At, Owes
<1>10. QED
  BY <1>4, <1>5, <1>6, <1>7, <1>8, <1>9 DEF BuyStep, BuyNext

LEMMA BuyStepOK == BuyInv /\ BuyStep => BuyInv'
<1> SUFFICES ASSUME BuyInv, BuyStep PROVE BuyInv'
  OBVIOUS
<1>1. BuyTypeOK' /\ Dated'
  BY BuyTypeStep DEF BuyInv
<1>2. \A d \in 1..MaxDays : d \notin unguarded' => Guarded(d)'
  BY GuardedStep
<1>3. QED BY <1>1, <1>2 DEF BuyInv

\* However answers are lost and whatever is refused, at most one order of a date is
\* accepted, for any number of processes, of the runner and of operators, on any
\* number of dates: except on dates on which two processes looked for the file before
\* either wrote it, or one died between its order and the file.
THEOREM OneOrderOnly == Spec => []OneOrderPerDate
<1>1. Init => BuyInv
  BY BuyInitOK DEF Init
<1>2. BuyInv /\ [Next]_vars => BuyInv'
  BY ToolSteps, BuyStepOK
<1>3. BuyInv => OneOrderPerDate
  BY DEF BuyInv, Guarded, OneOrderPerDate
<1>4. QED BY <1>1, <1>2, <1>3, PTL DEF Spec

-----------------------------------------------------------------------------
(* The account queries *)

\* The pages of the present query are the first ones, each once, in their order; so
\* were those of every query that was complete.
ReadType(todo) ==
  [st : {"idle", "fetch", "ok", "failed"}, todo : {todo}, pages : Seq(Nat), whole : {TRUE}]

InOrder(r) ==
  /\ r \in ReadType(r.todo)
  /\ Len(r.pages) < PageLimit
  /\ \A i \in 1..Len(r.pages) : r.pages[i] = i

LEMMA EmptyInOrder ==
  ASSUME NEW todo, NEW r \in ReadType(todo), r.pages = <<>>
  PROVE  InOrder(r)
<1>1. <<>> \in Seq(Nat) /\ Len(<<>>) = 0
  BY EmptySeq
<1>2. r.todo = todo
  BY DEF ReadType
<1>3. QED BY <1>1, <1>2, ReadAssumption DEF InOrder

\* The page that is taken next is the one after the last.
LEMMA TakeInOrder ==
  ASSUME NEW r, InOrder(r), NEW s \in Served(r)
  PROVE  InOrder(TakePage(r, s))
<1> DEFINE n == Len(r.pages)
           pages == Append(r.pages, s.page)
<1>0. /\ r.pages \in Seq(Nat) /\ n \in Nat /\ n < PageLimit
      /\ r \in ReadType(r.todo) /\ r.whole = TRUE
      /\ \A i \in 1..n : r.pages[i] = i
      /\ r.pages \in [1..n -> Nat]
  BY LenProperties DEF InOrder, ReadType
<1>1. (IF r.pages = <<>> THEN 0 ELSE r.pages[n]) = n
  <2>1. CASE r.pages = <<>>
    BY <2>1, EmptySeq
  <2>2. CASE r.pages # <<>>
    <3>1. n \in 1..n
      BY <1>0, <2>2, EmptySeq
    <3>2. QED BY <1>0, <2>2, <3>1
  <2>3. QED BY <2>1, <2>2
<1>2. \/ s.page = n /\ n # 0 /\ s.last = FALSE
      \/ s.page = n + 1
  BY <1>1 DEF Served
<1>3. ASSUME NEW st \in {"ok", "fetch", "failed"}, NEW todo
      PROVE  InOrder([r EXCEPT !.st = st, !.todo = todo, !.pages = <<>>])
  <2> DEFINE x == [r EXCEPT !.st = st, !.todo = todo, !.pages = <<>>]
  <2>1. <<>> \in Seq(Nat)
    BY EmptySeq
  <2>2. x \in ReadType(todo) /\ x.pages = <<>>
    BY <1>0, <2>1 DEF ReadType
  <2> HIDE DEF x
  <2>3. InOrder(x)
    BY <2>2, EmptyInOrder
  <2>4. QED BY <2>3 DEF x
<1>4. CASE s.page = n /\ n # 0 /\ s.last = FALSE
  <2>1. r.pages[n] = n /\ n \in 1..n
    BY <1>0, <1>4
  <2>2. CursorRepeated(r, s.page)
    BY <1>0, <1>4, <2>1 DEF CursorRepeated
  <2>3. TakePage(r, s) = [r EXCEPT !.st = "failed", !.pages = <<>>]
    BY <1>4, <2>2 DEF TakePage
  <2>4. [r EXCEPT !.st = "failed", !.pages = <<>>]
          = [r EXCEPT !.st = "failed", !.todo = r.todo, !.pages = <<>>]
    BY <1>0 DEF ReadType
  <2>5. QED BY <1>3, <2>3, <2>4
<1>5. CASE s.page = n + 1
  <2>1. /\ pages \in Seq(Nat) /\ Len(pages) = n + 1
        /\ \A i \in 1..(n + 1) : pages[i] = i
    <3>1. /\ pages \in Seq(Nat) /\ Len(pages) = n + 1
          /\ \A i \in 1..n : pages[i] = r.pages[i]
          /\ pages[n + 1] = n + 1
      BY <1>0, <1>5, AppendProperties
    <3>2. QED BY <1>0, <3>1
  <2> HIDE DEF pages
  <2>2. pages = [i \in 1..s.page |-> i]
    <3>1. pages \in [1..(n + 1) -> Nat]
      BY <2>1, LenProperties
    <3>2. QED BY <1>5, <2>1, <3>1
  <2>3. CASE s.last
    <3>1. [r EXCEPT !.whole = @ /\ pages = [i \in 1..s.page |-> i]] = r
      <4>1. (r.whole /\ pages = [i \in 1..s.page |-> i]) = TRUE
        BY <1>0, <2>2
      <4>2. [r EXCEPT !.whole = TRUE] = r
        BY <1>0 DEF ReadType
      <4>3. QED BY <4>1, <4>2
    <3> DEFINE st == IF Len(r.todo) = 1 THEN "ok" ELSE "fetch"
               todo == Tail(r.todo)
    <3>2. TakePage(r, s) = NextQuery(r)
      BY <2>3, <3>1 DEF TakePage, pages
    <3>3. NextQuery(r) = [r EXCEPT !.st = st, !.todo = todo, !.pages = <<>>]
      BY DEF NextQuery
    <3>4. st \in {"ok", "fetch", "failed"}
      OBVIOUS
    <3> HIDE DEF st, todo
    <3>5. InOrder([r EXCEPT !.st = st, !.todo = todo, !.pages = <<>>])
      BY <1>3, <3>4
    <3>6. QED BY <3>2, <3>3, <3>5
  <2>4. CASE ~s.last
    <3>1. CASE ~CursorRepeated(r, s.page) /\ Len(pages) < PageLimit
      <4> DEFINE x == [r EXCEPT !.pages = pages]
      <4>1. TakePage(r, s) = x
        BY <2>4, <3>1 DEF TakePage, pages
      <4>2. x \in ReadType(r.todo) /\ x.pages = pages /\ x.todo = r.todo
        BY <1>0, <2>1 DEF ReadType
      <4> HIDE DEF x
      <4>3. InOrder(x)
        BY <2>1, <3>1, <4>2 DEF InOrder
      <4>4. QED BY <4>1, <4>3
    <3>2. CASE ~(~CursorRepeated(r, s.page) /\ Len(pages) < PageLimit)
      <4>1. TakePage(r, s) = [r EXCEPT !.st = "failed", !.pages = <<>>]
        BY <2>4, <3>2 DEF TakePage, pages
      <4>2. [r EXCEPT !.st = "failed", !.pages = <<>>]
              = [r EXCEPT !.st = "failed", !.todo = r.todo, !.pages = <<>>]
        BY <1>0 DEF ReadType
      <4>3. QED BY <1>3, <4>1, <4>2
    <3>3. QED BY <3>1, <3>2
  <2>5. QED BY <2>3, <2>4
<1>6. QED BY <1>2, <1>4, <1>5

LEMMA NoReadInOrder ==
  ASSUME NEW st \in {"idle", "fetch", "failed"}, NEW queries
  PROVE  InOrder([NoRead EXCEPT !.st = st, !.todo = queries]) /\ InOrder(NoRead)
<1>1. <<>> \in Seq(Nat)
  BY EmptySeq
<1>2. NoRead \in ReadType(<<>>) /\ NoRead.pages = <<>>
  BY <1>1 DEF NoRead, ReadType
<1>3. /\ [NoRead EXCEPT !.st = st, !.todo = queries] \in ReadType(queries)
      /\ [NoRead EXCEPT !.st = st, !.todo = queries].pages = <<>>
  BY <1>2 DEF ReadType
<1>4. QED BY <1>2, <1>3, EmptyInOrder

LEMMA ReadStepOK == InOrder(read) /\ ReadStep => InOrder(read')
<1> SUFFICES ASSUME InOrder(read), ReadStep PROVE InOrder(read')
  OBVIOUS
<1>1. CASE FetchPage
  <2>1. CASE read' = [read EXCEPT !.st = "failed", !.pages = <<>>]
    <3>1. <<>> \in Seq(Nat)
      BY EmptySeq
    <3>2. read' \in ReadType(read.todo) /\ read'.pages = <<>>
      BY <2>1, <3>1 DEF InOrder, ReadType
    <3>3. QED BY <3>2, EmptyInOrder
  <2>2. CASE \E s \in Served(read) : read' = TakePage(read, s)
    BY <2>2, TakeInOrder
  <2>3. QED BY <1>1, <2>1, <2>2 DEF FetchPage
<1>2. ASSUME NEW queries, StartRead(queries) PROVE InOrder(read')
  BY <1>2, NoReadInOrder DEF StartRead
<1>3. CASE EndRead
  BY <1>3, NoReadInOrder DEF EndRead
<1>4. CASE UNCHANGED read
  BY <1>4
<1>5. QED BY <1>1, <1>2, <1>3, <1>4 DEF ReadStep

-----------------------------------------------------------------------------
(* The runner *)

RunType ==
  [pc : {"idle", "prewarm", "before", "quote", "price", "preview", "submit",
         "submitting", "after", "history", "linkage"},
   day : 0..MaxDays, sent : BOOLEAN, whole : BOOLEAN,
   status : {"NOT_STARTED", "ABORTED", "PARTIAL_PRICE_OVER_CAP", "DONE"}]

BookType == [run : 0..MaxRuns, price : Price \cup {"none"}]

\* What a run has behind it at each of its steps: its account queries were whole,
\* its own capture ended with a fresh quote that is in the file, its price is low.
BehindRun ==
  /\ run.pc \in {"quote", "price", "preview", "submit"} \/ run.sent => run.whole
  /\ run.pc \in {"price", "preview", "submit", "submitting"} =>
       book[run.day].run = runs /\ cap.pc = "done" /\ cap.observed /\ cap.fresh
  /\ run.pc \in {"preview", "submit", "submitting"} => book[run.day].price = "low"

RunTyped ==
  /\ run \in RunType /\ book \in [1..MaxDays -> BookType]
  /\ runs \in 0..MaxRuns /\ buys \in 0..MaxBuys
  /\ run.pc # "idle" => run.day \in 1..MaxDays

RunInv == RunTyped /\ BehindRun

\* All that is needed: each tool's invariant and the runner's.
MorningInv == StreamInv /\ BuyInv /\ InOrder(read) /\ RunInv

\* A capture that ended does nothing more.
LEMMA EndedCapture == cap.pc = "done" /\ StreamNext => FALSE
BY DEF StreamNext, GetToken, IssueToken, Connect, PumpEnds, ConnectionLost, Receive,
       ClockTicks, ClockSetBack, DeadlinePasses, Running

\* Steps in which the runner does nothing.
LEMMA RunnerWaits ==
  ASSUME RunInv, UNCHANGED <<run, book, runs>>, buys' \in 0..MaxBuys,
         StreamNext \/ UNCHANGED streamVars
  PROVE  RunInv'
<1>1. RunTyped'
  BY DEF RunInv, RunTyped
<1>2. cap.pc = "done" => UNCHANGED cap
  BY EndedCapture DEF streamVars
<1>3. BehindRun'
  BY <1>2 DEF RunInv, BehindRun
<1>4. QED BY <1>1, <1>3 DEF RunInv

\* A run that changes its own record only, and not towards an order.
LEMMA RunnerGoesOn ==
  ASSUME RunInv, NEW x \in RunType, run' = x, UNCHANGED <<book, buys>>, runs' \in 0..MaxRuns,
         x.pc # "idle" => x.day \in 1..MaxDays,
         x.pc = "quote" \/ x.sent => x.whole,
         x.pc \notin {"price", "preview", "submit", "submitting"}
  PROVE  RunInv'
<1>1. RunTyped'
  BY DEF RunInv, RunTyped
<1>2. BehindRun'
  BY DEF RunInv, BehindRun
<1>3. QED BY <1>1, <1>2 DEF RunInv

LEMMA AbortedOK ==
  ASSUME run \in RunType
  PROVE  /\ Aborted \in RunType /\ Aborted.pc = "idle"
         /\ Aborted.sent = run.sent /\ Aborted.whole = run.whole
BY DEF Aborted, RunType

LEMMA RunInitOK == Init => RunInv
<1> SUFFICES ASSUME Init PROVE RunInv
  OBVIOUS
<1>0. MaxDays \in Nat \ {0} /\ MaxRuns \in Nat /\ MaxBuys \in Nat
  BY BuyAssumption, RunAssumption
<1>1. run \in RunType /\ run.pc = "idle" /\ run.sent = FALSE
  BY <1>0 DEF Init, NewRun, RunType
<1>2. book \in [1..MaxDays -> BookType]
  <2>1. PICK p \in Price \cup {"none"} :
          book = [d \in 1..MaxDays |-> IF d = 1 THEN [run |-> 0, price |-> p] ELSE NoBook]
    BY DEF Init
  <2>2. [run |-> 0, price |-> p] \in BookType /\ NoBook \in BookType
    BY <1>0 DEF BookType, NoBook
  <2>3. QED BY <2>1, <2>2
<1>3. runs \in 0..MaxRuns /\ buys \in 0..MaxBuys
  BY <1>0 DEF Init
<1>4. QED BY <1>1, <1>2, <1>3 DEF RunInv, RunTyped, BehindRun

LEMMA RunNext == MorningInv /\ [Next]_vars => RunInv'
<1> SUFFICES ASSUME MorningInv, [Next]_vars PROVE RunInv'
  OBVIOUS
<1>0. /\ RunInv /\ run \in RunType /\ runs \in 0..MaxRuns /\ buys \in 0..MaxBuys
      /\ MaxRuns \in Nat /\ MaxBuys \in Nat /\ cap \in CapType
      /\ book \in [1..MaxDays -> BookType]
      /\ run.pc # "idle" => run.day \in 1..MaxDays
      /\ InOrder(read)
  BY RunAssumption DEF MorningInv, RunInv, RunTyped, StreamInv
<1>1. run.pc = "quote" \/ run.sent => run.whole
  BY <1>0 DEF RunInv, BehindRun
<1>2. /\ Aborted \in RunType /\ Aborted.pc = "idle"
      /\ Aborted.sent = run.sent /\ Aborted.whole = run.whole
  BY <1>0, AbortedOK
<1>3. ASSUME run' = Aborted, UNCHANGED <<book, runs, buys>> PROVE RunInv'
  BY <1>0, <1>1, <1>2, <1>3, RunnerGoesOn
<1>4. ASSUME NEW pc \in {"before", "after", "history", "linkage"}, NEW status,
             run.pc # "idle",
             status \in {"NOT_STARTED", "ABORTED", "PARTIAL_PRICE_OVER_CAP", "DONE"},
             run' = [run EXCEPT !.pc = pc, !.status = status], UNCHANGED <<book, runs, buys>>
      PROVE  RunInv'
  <2> DEFINE x == [run EXCEPT !.pc = pc, !.status = status]
  <2>1. /\ x \in RunType /\ x.pc = pc /\ x.day = run.day
        /\ x.sent = run.sent /\ x.whole = run.whole
    BY <1>0, <1>4 DEF RunType
  <2> HIDE DEF x
  <2>2. run' = x
    BY <1>4 DEF x
  <2>3. QED BY <1>0, <1>1, <1>4, <2>1, <2>2, RunnerGoesOn
<1>5. ASSUME NEW pc, run' = [run EXCEPT !.pc = pc]
      PROVE  run' = [run EXCEPT !.pc = pc, !.status = run.status]
  BY <1>0, <1>5 DEF RunType
<1>6. run.status \in {"NOT_STARTED", "ABORTED", "PARTIAL_PRICE_OVER_CAP", "DONE"}
  BY <1>0 DEF RunType
<1>7. CASE Start
  <2> DEFINE x == [NewRun EXCEPT !.pc = "prewarm", !.day = day]
  <2>1. day \in 1..MaxDays
    BY DEF MorningInv, BuyInv, BuyTypeOK
  <2>2. NewRun \in RunType /\ NewRun.sent = FALSE
    BY BuyAssumption DEF NewRun, RunType
  <2>3. x \in RunType /\ x.pc = "prewarm" /\ x.day = day /\ x.sent = FALSE
    <3>1. ASSUME NEW r \in RunType
          PROVE  /\ [r EXCEPT !.pc = "prewarm", !.day = day] \in RunType
                 /\ [r EXCEPT !.pc = "prewarm", !.day = day].pc = "prewarm"
                 /\ [r EXCEPT !.pc = "prewarm", !.day = day].day = day
                 /\ [r EXCEPT !.pc = "prewarm", !.day = day].sent = r.sent
      <4>1. day \in 0..MaxDays
        BY <2>1, BuyAssumption
      <4>2. QED BY <4>1 DEF RunType
    <3>2. QED BY <2>2, <3>1
  <2> HIDE DEF x
  <2>4. run' = x
    BY <1>7 DEF Start, x
  <2>5. runs' \in 0..MaxRuns /\ UNCHANGED <<book, buys>>
    BY <1>0, <1>7 DEF Start
  <2>6. QED BY <1>0, <2>1, <2>3, <2>4, <2>5, RunnerGoesOn
<1>8. CASE Prewarm
  BY <1>3, <1>4, <1>5, <1>6, <1>8 DEF Prewarm
<1>9. CASE ReadBefore
  <2>1. UNCHANGED <<book, runs, buys>>
    BY <1>9 DEF ReadBefore
  <2>2. CASE run' = Aborted
    BY <1>3, <2>1, <2>2
  <2>3. CASE /\ ~ReadFails
             /\ run' = [run EXCEPT !.pc = "quote", !.whole = read.st = "ok" /\ read.whole]
    <3> DEFINE x == [run EXCEPT !.pc = "quote", !.whole = TRUE]
    <3>1. (read.st = "ok" /\ read.whole) = TRUE
      BY <1>0, <2>3 DEF InOrder, ReadType, ReadFails
    <3>2. run' = x
      BY <2>3, <3>1
    <3>3. x \in RunType /\ x.pc = "quote" /\ x.day = run.day /\ x.whole = TRUE
      BY <1>0 DEF RunType
    <3> HIDE DEF x
    <3>4. run.pc # "idle"
      BY <1>9 DEF ReadBefore
    <3>5. QED BY <1>0, <2>1, <3>2, <3>3, <3>4, RunnerGoesOn
  <2>4. QED BY <1>9, <2>2, <2>3 DEF ReadBefore
<1>10. CASE QuoteStep
  <2>1. /\ run.pc = "quote" /\ cap.pc = "done" /\ UNCHANGED <<runs, buys>>
        /\ run.day \in 1..MaxDays
    BY <1>0, <1>10 DEF QuoteStep
  <2>2. cap'.pc = "done" /\ cap'.observed = cap.observed /\ cap'.fresh = cap.fresh
    BY <1>0, <1>10, <2>1 DEF QuoteStep, EndCapture, CapType
  <2>3. /\ book' \in [1..MaxDays -> BookType]
        /\ book'[run.day].run = runs \/ UNCHANGED book
    <3>1. ASSUME NEW p \in Price, book' = [book EXCEPT ![run.day] = [run |-> runs, price |-> p]]
          PROVE  book' \in [1..MaxDays -> BookType] /\ book'[run.day].run = runs
      <4>1. [run |-> runs, price |-> p] \in BookType
        BY <1>0 DEF BookType
      <4>2. QED BY <1>0, <2>1, <3>1, <4>1
    <3>2. QED BY <1>0, <1>10, <3>1 DEF QuoteStep
  <2>4. CASE run' = Aborted
    <3>1. RunTyped'
      BY <1>0, <1>2, <2>1, <2>3, <2>4 DEF RunTyped
    <3>2. BehindRun'
      BY <1>1, <1>2, <2>4 DEF BehindRun
    <3>3. QED BY <3>1, <3>2 DEF RunInv
  <2>5. CASE /\ ExitsWell(cap) /\ run' = [run EXCEPT !.pc = "price"]
             /\ book'[run.day].run = runs
    <3>1. /\ run' \in RunType /\ run'.pc = "price" /\ run'.day = run.day
          /\ run'.sent = run.sent /\ run'.whole = run.whole
      BY <1>0, <2>5 DEF RunType
    <3>2. RunTyped'
      BY <1>0, <2>1, <2>3, <3>1 DEF RunTyped
    <3>3. BehindRun'
      BY <1>1, <2>1, <2>2, <2>5, <3>1 DEF BehindRun, ExitsWell
    <3>4. QED BY <3>2, <3>3 DEF RunInv
  <2>6. \/ run' = Aborted
        \/ /\ ExitsWell(cap) /\ run' = [run EXCEPT !.pc = "price"]
           /\ \E p \in Price : book' = [book EXCEPT ![run.day] = [run |-> runs, price |-> p]]
    BY <1>10 DEF QuoteStep, ExitsWell
  <2>7. ASSUME NEW p \in Price, book' = [book EXCEPT ![run.day] = [run |-> runs, price |-> p]]
        PROVE  book'[run.day].run = runs
    BY <1>0, <2>1, <2>7
  <2>8. QED BY <2>4, <2>5, <2>6, <2>7
<1>11. CASE ReadPrice
  <2>1. run.pc = "price" /\ UNCHANGED <<book, runs, buys>> /\ UNCHANGED cap
    BY <1>11 DEF ReadPrice, streamVars
  <2>2. CASE run' = Aborted
    BY <1>3, <2>1, <2>2
  <2>3. CASE run' = [run EXCEPT !.pc = "after", !.status = "PARTIAL_PRICE_OVER_CAP"]
    BY <1>4, <2>1, <2>3
  <2>4. CASE book[run.day].price = "low" /\ run' = [run EXCEPT !.pc = "preview"]
    <3>1. /\ run' \in RunType /\ run'.pc = "preview" /\ run'.day = run.day
          /\ run'.sent = run.sent /\ run'.whole = run.whole
      BY <1>0, <2>4 DEF RunType
    <3>2. RunTyped'
      BY <1>0, <2>1, <3>1 DEF RunTyped
    <3>3. BehindRun'
      BY <1>0, <2>1, <2>4, <3>1 DEF RunInv, BehindRun
    <3>4. QED BY <3>2, <3>3 DEF RunInv
  <2>5. QED BY <1>11, <2>2, <2>3, <2>4 DEF ReadPrice
<1>12. ASSUME NEW pc \in {"submit", "submitting"}, NEW sent \in BOOLEAN,
              run.pc \in {"preview", "submit"},
              run' = [run EXCEPT !.pc = pc, !.sent = sent],
              UNCHANGED <<cap, book, runs, buys>>
       PROVE  RunInv'
  <2>1. /\ run' \in RunType /\ run'.pc = pc /\ run'.day = run.day /\ run'.whole = run.whole
    BY <1>0, <1>12 DEF RunType
  <2>2. RunTyped'
    BY <1>0, <1>12, <2>1 DEF RunTyped
  <2>3. BehindRun'
    BY <1>0, <1>12, <2>1 DEF RunInv, BehindRun
  <2>4. QED BY <2>2, <2>3 DEF RunInv
<1>13. CASE Preview
  <2>1. run.pc = "preview" /\ UNCHANGED <<book, runs, buys>> /\ UNCHANGED cap
    BY <1>13 DEF Preview, streamVars
  <2>2. run.sent \in BOOLEAN /\ [run EXCEPT !.pc = "submit"] = [run EXCEPT !.pc = "submit", !.sent = run.sent]
    BY <1>0 DEF RunType
  <2>3. QED BY <1>3, <1>12, <1>13, <2>1, <2>2 DEF Preview
<1>14. CASE Submit
  BY <1>12, <1>14 DEF Submit, streamVars
<1>15. CASE Submitted \/ ReadAfter \/ Linkage
  BY <1>4, <1>5, <1>6, <1>15 DEF Submitted, ReadAfter, Linkage
<1>16. CASE PostChecks
  <2> DEFINE x == [run EXCEPT !.pc = "idle",
                              !.status = IF @ = "NOT_STARTED" THEN "DONE" ELSE @]
  <2>1. x \in RunType /\ x.pc = "idle" /\ x.sent = run.sent /\ x.whole = run.whole
    BY <1>0 DEF RunType
  <2> HIDE DEF x
  <2>2. run' = x /\ UNCHANGED <<book, runs, buys>>
    BY <1>16 DEF PostChecks, x
  <2>3. QED BY <1>0, <1>1, <2>1, <2>2, RunnerGoesOn
<1>17. CASE OperatorBuys
  <2>1. buys' \in 0..MaxBuys /\ UNCHANGED <<run, book, runs>> /\ UNCHANGED streamVars
    BY <1>0, <1>17 DEF OperatorBuys
  <2>2. QED BY <1>0, <2>1, RunnerWaits
<1>18. ASSUME UNCHANGED runVars, StreamNext \/ UNCHANGED streamVars PROVE RunInv'
  BY <1>0, <1>18, RunnerWaits DEF runVars
<1>19. QED
  BY <1>7, <1>8, <1>9, <1>10, <1>11, <1>13, <1>14, <1>15, <1>16, <1>17, <1>18
     DEF Next, vars, OperatorDone

LEMMA MorningInit == Init => MorningInv
<1> SUFFICES ASSUME Init PROVE MorningInv
  OBVIOUS
<1>1. InOrder(read)
  BY NoReadInOrder DEF Init, ReadInit
<1>2. QED BY <1>1, StreamInitOK, BuyInitOK, RunInitOK DEF Init, MorningInv

LEMMA MorningNext == MorningInv /\ [Next]_vars => MorningInv'
<1> SUFFICES ASSUME MorningInv, [Next]_vars PROVE MorningInv'
  OBVIOUS
<1>1. StreamStep /\ BuyStep /\ ReadStep
  BY ToolSteps
<1>2. StreamInv' /\ BuyInv'
  BY <1>1, StreamStepOK, BuyStepOK DEF MorningInv
<1>3. InOrder(read')
  BY <1>1, ReadStepOK DEF MorningInv
<1>4. RunInv'
  BY RunNext
<1>5. QED BY <1>2, <1>3, <1>4 DEF MorningInv

\* The clocks, the capture, the order tool, the queries and the runner have their
\* shapes, and retries, pages, runs and orders stay in their bounds.
THEOREM RunTypeCorrect == Spec => []RunTypeOK
<1>1. MorningInv => RunTypeOK
  <2> SUFFICES ASSUME MorningInv PROVE RunTypeOK
    OBVIOUS
  <2>1. StreamTypeOK /\ BuyTypeOK
    BY StreamImplies DEF MorningInv, BuyInv
  <2>2. ReadTypeOK
    BY DEF MorningInv, InOrder, ReadType, ReadTypeOK
  <2>3. QED BY <2>1, <2>2 DEF MorningInv, RunInv, RunTyped, RunType, BookType, RunTypeOK
<1>2. QED BY <1>1, MorningInit, MorningNext, PTL DEF Spec

\* A run sends its order only at a low price from a quote of its own capture that was
\* fresh when the capture ended, for any number of runs on a date, whatever files the
\* earlier ones left, and however often its capture connected again.
THEOREM OrdersFollowFreshQuotes == Spec => []OrderFromFreshQuote
<1>1. MorningInv => OrderFromFreshQuote
  <2> SUFFICES ASSUME MorningInv, run.pc \in {"preview", "submit", "submitting"}
               PROVE  /\ book[run.day] = [run |-> runs, price |-> "low"]
                      /\ cap.pc = "done" /\ cap.observed /\ cap.fresh
    BY DEF OrderFromFreshQuote
  <2>1. /\ book[run.day].run = runs /\ book[run.day].price = "low"
        /\ cap.pc = "done" /\ cap.observed /\ cap.fresh
    BY DEF MorningInv, RunInv, BehindRun
  <2>2. book[run.day] \in BookType
    BY DEF MorningInv, RunInv, RunTyped
  <2>3. QED BY <2>1, <2>2 DEF BookType
<1>2. QED BY <1>1, MorningInit, MorningNext, PTL DEF Spec

\* A run sends its order only after every account query before it was answered with
\* all its pages, each once, for any number of pages, whichever of them the server
\* repeats, and whatever queries fail.
THEOREM EvidenceWhole == Spec => []EvidenceIsWhole
<1>1. MorningInv => EvidenceIsWhole
  BY DEF MorningInv, RunInv, BehindRun, EvidenceIsWhole
<1>2. QED BY <1>1, MorningInit, MorningNext, PTL DEF Spec
=============================================================================
