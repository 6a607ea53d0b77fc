----------------------------- MODULE RequestLife ----------------------------
(* What ledger and dispatcher promise whoever submits a request: it is claimed
   once, only a claim calls the broker, and it is settled by the broker's answer
   or because the broker is never called for it.  A session opens only when no
   claimed request is in doubt, however often the process starts anew. *)
EXTENDS Naturals

CONSTANTS Key, NoKey

VARIABLES
  phase,    \* of each request: none, intent, doubt (claimed) or settled
  inside,   \* the request inside send, NoKey when none
  open,     \* the session is open
  calls,    \* how often the broker was called for each request
  answered  \* the requests the broker has answered

requestVars == <<phase, inside, open, calls, answered>>

Init ==
  /\ phase = [k \in Key |-> "none"]
  /\ inside = NoKey
  /\ open = FALSE
  /\ calls = [k \in Key |-> 0]
  /\ answered = {}

Enter(k) ==
  /\ open /\ inside = NoKey
  /\ phase[k] = "none"
  /\ phase' = [phase EXCEPT ![k] = "intent"]
  /\ UNCHANGED <<inside, open, calls, answered>>

Claim(k) ==
  /\ open /\ inside = NoKey
  /\ phase[k] = "intent"
  /\ phase' = [phase EXCEPT ![k] = "doubt"]
  /\ inside' = k
  /\ UNCHANGED <<open, calls, answered>>

Call ==
  /\ open /\ inside # NoKey
  /\ calls[inside] = 0
  /\ calls' = [calls EXCEPT ![inside] = 1]
  /\ UNCHANGED <<phase, inside, open, answered>>

Return ==
  /\ inside # NoKey /\ calls[inside] = 1
  /\ inside' = NoKey
  /\ UNCHANGED <<phase, open, calls, answered>>

Answered(k) == calls[k] = 1 /\ k \notin answered /\ answered' = answered \cup {k}

Answer(k) == Answered(k) /\ UNCHANGED <<phase, inside, open, calls>>

\* With inside = NoKey a request that was not called never will be.
Settle(k) ==
  /\ inside = NoKey
  /\ phase[k] \in {"intent", "doubt"}
  /\ phase' = [phase EXCEPT ![k] = "settled"]
  /\ \/ (calls[k] = 0 \/ k \in answered) /\ UNCHANGED answered
     \/ Answered(k)
  /\ UNCHANGED <<inside, open, calls>>

Approve ==
  /\ ~open /\ inside = NoKey
  /\ \A k \in Key : phase[k] # "doubt"
  /\ open' = TRUE
  /\ UNCHANGED <<phase, inside, calls, answered>>

Crash ==
  /\ open' = FALSE
  /\ inside' = NoKey
  /\ UNCHANGED <<phase, calls, answered>>

Next ==
  \/ \E k \in Key : Enter(k) \/ Claim(k) \/ Answer(k) \/ Settle(k)
  \/ Call \/ Return \/ Approve \/ Crash

Spec == Init /\ [][Next]_requestVars
=============================================================================
