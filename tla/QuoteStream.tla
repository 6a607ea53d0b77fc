----------------------------- MODULE QuoteStream -----------------------------
(***************************************************************************)
(* One capture of quotes for one symbol: the protocol state                *)
(* (adapters/kiwoom_rest_stream.py), the loop that connects, logs in,      *)
(* registers and receives (kiwoom_rest_ws.py) and the token cache it asks  *)
(* before every connection (kiwoom_rest_auth.py).                          *)
(*                                                                         *)
(* The wall clock may be set back; the monotonic clock only decides when   *)
(* the capture is over.  The server sends any frame at any time.  Reasons  *)
(* and failure stages, which only describe a result, are left out.         *)
(***************************************************************************)
EXTENDS Integers

CONSTANTS
  Reconnects,     \* further connections after the first
  MaxAge,         \* ticks up to which a quote is usable: 0 when a tick exceeds 3 seconds
  Margin,         \* a token is renewed when it has no more than this left
  MaxTime,        \* bound: wall clock times 0..MaxTime during a capture
  MaxRollbacks    \* bound: times the wall clock is set back

ASSUME StreamAssumption ==
  /\ Reconnects \in Nat /\ MaxAge \in Nat /\ Margin \in Nat
  /\ MaxTime \in Nat /\ MaxRollbacks \in Nat

VARIABLES
  now,         \* the wall clock, from the start of the capture
  rollbacks,   \* times it was set back
  over,        \* the deadline on the monotonic clock has passed
  cache,       \* PaperTokenCache: expiry of the token, last time it looked
  stream,      \* QuoteStreamState
  cap          \* local variables of capture_stream

streamVars == <<now, rollbacks, over, cache, stream, cap>>

NoTime == -1
NoQuote == [at |-> NoTime, gen |-> 0]

\* doubt (a history field): after the last answer or quote, a frame arrived at an
\* earlier time than the one before it.
NewStream ==
  [gen |-> 0, connected |-> FALSE, loggedIn |-> FALSE, registered |-> FALSE,
   quote |-> NoQuote, last |-> NoTime, doubt |-> FALSE]
NewCache == [expires |-> NoTime, last |-> NoTime]
NoCapture == [pc |-> "idle", attempt |-> 0, observed |-> FALSE, fresh |-> FALSE]

StreamInit ==
  /\ now = 0 /\ rollbacks = 0 /\ over = FALSE
  /\ cache = NewCache /\ stream = NewStream /\ cap = NoCapture

-----------------------------------------------------------------------------
(* The protocol state *)

Begin(s) ==
  [NewStream EXCEPT !.gen = s.gen + 1, !.connected = TRUE]

Disconnect(s) ==
  [s EXCEPT !.connected = FALSE, !.loggedIn = FALSE, !.registered = FALSE,
            !.quote = NoQuote, !.doubt = FALSE]

\* Defect: a login answer leaves the quote.
AckKeepingQuote(s, f) ==
  IF f.kind = "LOGIN"
    THEN [s EXCEPT !.loggedIn = f.ok, !.registered = FALSE]
    ELSE [s EXCEPT !.registered = s.loggedIn /\ f.ok, !.quote = NoQuote, !.doubt = FALSE]

Ack(s, f) ==
  IF f.kind = "LOGIN"
    THEN [s EXCEPT !.loggedIn = f.ok, !.registered = FALSE, !.quote = NoQuote, !.doubt = FALSE]
    ELSE [s EXCEPT !.registered = s.loggedIn /\ f.ok, !.quote = NoQuote, !.doubt = FALSE]

\* What the server sends; ok says that the code is 0, or the data a valid quote.
\* Anything else has no effect on the protocol state.
Frame == [kind : {"LOGIN", "REG", "REAL", "OTHER"}, ok : BOOLEAN]

\* A frame that is older than the one before.
SetBack(s) == [s EXCEPT !.quote = NoQuote]

Quotes(s, f) == f.kind = "REAL" /\ f.ok /\ s.loggedIn /\ s.registered

Behind(s, t) == s.last # NoTime /\ t < s.last

Consume(s, f, t) ==
  LET seen == [s EXCEPT !.last = t]
  IN  CASE Behind(s, t) -> [SetBack(s) EXCEPT !.doubt = TRUE]
        [] ~Behind(s, t) /\ f.kind \in {"LOGIN", "REG"} -> Ack(seen, f)
        [] ~Behind(s, t) /\ Quotes(s, f) ->
             [seen EXCEPT !.quote = [at |-> t, gen |-> s.gen], !.doubt = FALSE]
        [] OTHER -> seen

Usable(s, t) ==
  /\ s.connected /\ s.registered /\ s.quote # NoQuote
  /\ t - s.quote.at \in 0..MaxAge

-----------------------------------------------------------------------------
(* The capture *)

StartCapture ==
  /\ now' = 0 /\ rollbacks' = 0 /\ over' = FALSE
  /\ cache' = NewCache /\ stream' = NewStream
  /\ cap' = [NoCapture EXCEPT !.pc = "token"]

\* The process ends; only what it reported is left.
EndCapture ==
  /\ now' = 0 /\ rollbacks' = 0 /\ over' = FALSE
  /\ cache' = NewCache /\ stream' = NewStream
  /\ cap' = [cap EXCEPT !.attempt = 0]

Running == cap.pc \notin {"idle", "done"}

\* The finally clause without a socket, or with one that closes.
End(s, fresh, observed) ==
  /\ stream' = Disconnect(s)
  /\ cap' = [cap EXCEPT !.pc = "done", !.fresh = fresh, !.observed = observed]

\* PaperTokenCache.get up to the issue of a token.  Without a token no further
\* connection is tried.
GetToken ==
  /\ cap.pc = "token"
  /\ \/ /\ now < cache.last
        /\ cache' = [cache EXCEPT !.expires = NoTime]
        /\ End(stream, FALSE, cap.observed)
     \/ /\ now >= cache.last /\ cache.expires # NoTime /\ now + Margin < cache.expires
        /\ cache' = [cache EXCEPT !.last = now]
        /\ cap' = [cap EXCEPT !.pc = "connect"]
        /\ UNCHANGED stream
     \/ /\ now >= cache.last
        /\ cache.expires = NoTime \/ now + Margin >= cache.expires
        /\ cache' = [expires |-> NoTime, last |-> now]
        /\ cap' = [cap EXCEPT !.pc = "issue"]
        /\ UNCHANGED stream
  /\ UNCHANGED <<now, rollbacks, over>>

\* A token that is invalid, expires too soon or took the clock back is none.
IssueToken ==
  /\ cap.pc = "issue"
  /\ \/ End(stream, FALSE, cap.observed) /\ UNCHANGED cache
     \/ \E e \in now..(MaxTime + Margin + 1) :
          /\ e > now + Margin /\ now >= cache.last
          /\ cache' = [expires |-> e, last |-> now]
          /\ cap' = [cap EXCEPT !.pc = "connect"]
          /\ UNCHANGED stream
  /\ UNCHANGED <<now, rollbacks, over>>

\* Defect: one connection too many.
RetriesOnceMore(attempt) == attempt <= Reconnects

Retries(attempt) == attempt < Reconnects

\* An exception with the token at hand: connect again unless that was the last try.
Failed(s, observed) ==
  /\ stream' = Disconnect(s)
  /\ cap' = IF Retries(cap.attempt)
              THEN [cap EXCEPT !.pc = "token", !.attempt = @ + 1, !.fresh = FALSE,
                               !.observed = observed]
              ELSE [cap EXCEPT !.pc = "done", !.fresh = FALSE, !.observed = observed]

\* Connect and send LOGIN; either may fail.
Connect ==
  /\ cap.pc = "connect"
  /\ \/ over /\ End(stream, cap.fresh, cap.observed)
     \/ ~over /\ \E s \in {stream, Begin(stream)} : Failed(s, cap.observed)
     \/ ~over /\ stream' = Begin(stream) /\ cap' = [cap EXCEPT !.pc = "pump"]
  /\ UNCHANGED <<now, rollbacks, over, cache>>

\* The socket closes, or it does not and nothing is reported as fresh.
Closed(fresh, ok) == fresh /\ ok

\* _pump returns; the quote is judged and the socket closed.
Finish(s, observed) ==
  \E ok \in BOOLEAN : End(s, Closed(Usable(s, now), ok), observed)

\* Defect: only a registered connection looks at the deadline.
PumpEndsRegistered ==
  /\ cap.pc = "pump" /\ over /\ stream.registered
  /\ Finish(stream, cap.observed)
  /\ UNCHANGED <<now, rollbacks, over, cache>>

PumpEnds ==
  /\ cap.pc = "pump" /\ over
  /\ Finish(stream, cap.observed)
  /\ UNCHANGED <<now, rollbacks, over, cache>>

\* The connection is lost, or login and registration take too long.
ConnectionLost ==
  /\ cap.pc = "pump" /\ ~over
  /\ Failed(stream, cap.observed)
  /\ UNCHANGED <<now, rollbacks, over, cache>>

\* One frame.  A first login answer is followed by the registration request, which
\* may not get out; a refusal ends the capture.
Receive(f) ==
  /\ cap.pc = "pump" /\ ~over
  /\ LET s == Consume(stream, f, now)
         observed == cap.observed \/ (~Behind(stream, now) /\ Quotes(stream, f))
         refused == /\ ~Behind(stream, now)
                    /\ \/ f.kind = "LOGIN" /\ ~s.loggedIn
                       \/ f.kind = "REG" /\ ~s.registered
     IN  \/ refused /\ Finish(s, observed)
         \/ ~stream.loggedIn /\ s.loggedIn /\ Failed(s, observed)
         \/ /\ ~refused
            /\ stream' = s
            /\ cap' = [cap EXCEPT !.observed = observed]
  /\ UNCHANGED <<now, rollbacks, over, cache>>

ClockTicks ==
  /\ Running /\ now < MaxTime
  /\ now' = now + 1
  /\ UNCHANGED <<rollbacks, over, cache, stream, cap>>

ClockSetBack ==
  /\ Running /\ rollbacks < MaxRollbacks
  /\ \E t \in 0..(now - 1) : now' = t
  /\ rollbacks' = rollbacks + 1
  /\ UNCHANGED <<over, cache, stream, cap>>

DeadlinePasses ==
  /\ Running /\ ~over
  /\ over' = TRUE
  /\ UNCHANGED <<now, rollbacks, cache, stream, cap>>

StreamNext ==
  \/ GetToken
  \/ IssueToken
  \/ Connect
  \/ PumpEnds
  \/ ConnectionLost
  \/ \E f \in Frame : Receive(f)
  \/ ClockTicks
  \/ ClockSetBack
  \/ DeadlinePasses

\* The capture proceeds whatever the server does, and its time runs out.
StreamFairness ==
  /\ WF_streamVars(GetToken) /\ WF_streamVars(IssueToken) /\ WF_streamVars(Connect)
  /\ WF_streamVars(PumpEnds) /\ WF_streamVars(DeadlinePasses)

-----------------------------------------------------------------------------
(* Properties *)

StreamTypeOK ==
  /\ now \in 0..MaxTime /\ rollbacks \in 0..MaxRollbacks /\ over \in BOOLEAN
  /\ cache \in [expires : NoTime..(MaxTime + Margin + 1), last : NoTime..MaxTime]
  /\ stream \in [gen : Nat, connected : BOOLEAN, loggedIn : BOOLEAN, registered : BOOLEAN,
                 quote : [at : NoTime..MaxTime, gen : Nat], last : NoTime..MaxTime,
                 doubt : BOOLEAN]
  /\ cap \in [pc : {"idle", "token", "issue", "connect", "pump", "done"},
              attempt : 0..Reconnects, observed : BOOLEAN, fresh : BOOLEAN]

\* A quote that is kept was received in the present connection, under its login
\* and registration, and no frame since was older than the one before.
QuoteIsCurrent ==
  stream.quote # NoQuote =>
    /\ stream.connected /\ stream.loggedIn /\ stream.registered
    /\ stream.quote.gen = stream.gen
    /\ ~stream.doubt
=============================================================================
