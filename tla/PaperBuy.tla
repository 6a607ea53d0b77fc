------------------------------ MODULE PaperBuy ------------------------------
(***************************************************************************)
(* The tool that submits one paper order (tools/submit_paper_buy.py with   *)
(* adapters/kiwoom_rest_order.py): processes that may run side by side,    *)
(* and the file of the date that keeps a second order from being sent.     *)
(* A preview changes nothing and is left out.                              *)
(***************************************************************************)
EXTENDS Integers, FiniteSets

CONSTANTS
  Process,     \* processes of the tool
  MaxDays,     \* bound: dates 1..MaxDays
  MaxKills     \* bound: processes killed and files that cannot be written

ASSUME BuyAssumption == MaxDays \in Nat \ {0} /\ MaxKills \in Nat

VARIABLES
  day,         \* the date
  tool,        \* per process: where it is, its date and the answer it got
  sentinel,    \* dates with a file paper-buy-<date>.json
  orders,      \* broker: accepted orders by the date their process read
  unguarded,   \* history: dates on which the file did not guard, see Check and Kill
  kills        \* kills and failed writes so far

buyVars == <<day, tool, sentinel, orders, unguarded, kills>>

NoTool == [pc |-> "idle", day |-> 0, answer |-> "none"]

BuyInit ==
  /\ day = 1 /\ tool = [p \in Process |-> NoTool]
  /\ sentinel = {} /\ orders = [d \in 1..MaxDays |-> 0]
  /\ unguarded = {} /\ kills = 0

\* Started with --confirm-execute.
StartTool(p) ==
  /\ tool[p].pc = "idle"
  /\ tool' = [tool EXCEPT ![p].pc = "check"]
  /\ UNCHANGED <<day, sentinel, orders, unguarded, kills>>

\* Processes that found no file of the date and have not come to write it.
Underway == {p \in Process : tool[p].pc \in {"auth", "post", "answer"} /\ tool[p].day = day}

\* Credentials may be missing; a sentinel of the date ends the process.
Check(p) ==
  /\ tool[p].pc = "check"
  /\ \/ tool' = [tool EXCEPT ![p].pc = "done"] /\ UNCHANGED unguarded
     \/ /\ day \notin sentinel
        /\ tool' = [tool EXCEPT ![p] = [NoTool EXCEPT !.pc = "auth", !.day = day]]
        /\ unguarded' = IF Underway # {} THEN unguarded \cup {day} ELSE unguarded
  /\ UNCHANGED <<day, sentinel, orders, kills>>

Authenticate(p) ==
  /\ tool[p].pc = "auth"
  /\ \E pc \in {"post", "done"} : tool' = [tool EXCEPT ![p].pc = pc]
  /\ UNCHANGED <<day, sentinel, orders, unguarded, kills>>

\* One POST.  The broker accepts or refuses it, or does not get it, and of what it
\* answers everything, a refusal included, may be lost or unreadable.  An accepted
\* order is answered with its number.
Post(p) ==
  /\ tool[p].pc = "post"
  /\ \E accepted \in BOOLEAN, answer \in {"acked", "refused", "unknown"} :
       /\ accepted => answer # "refused"
       /\ ~accepted => answer # "acked"
       /\ tool' = [tool EXCEPT ![p].pc = "answer", ![p].answer = answer]
       /\ orders' = [orders EXCEPT ![tool[p].day] = IF accepted THEN @ + 1 ELSE @]
  /\ UNCHANGED <<day, sentinel, unguarded, kills>>

\* Defect: nothing is recorded when the outcome is unknown.
RecordsAcked(answer) == answer = "acked"

\* classify_order_response and the handler of UNKNOWN.
Records(answer) == answer \in {"acked", "unknown"}

Record(p) ==
  /\ tool[p].pc = "answer"
  /\ tool' = [tool EXCEPT ![p].pc = "done"]
  /\ sentinel' = IF Records(tool[p].answer) THEN sentinel \cup {tool[p].day} ELSE sentinel
  /\ UNCHANGED <<day, orders, unguarded, kills>>

\* The process is killed (the runner does so after 300 seconds), or the file cannot
\* be written.
Kill(p) ==
  /\ tool[p].pc \notin {"idle", "done"}
  /\ kills < MaxKills
  /\ kills' = kills + 1
  /\ tool' = [tool EXCEPT ![p].pc = "done"]
  /\ unguarded' = IF tool[p].pc = "answer" THEN unguarded \cup {tool[p].day} ELSE unguarded
  /\ UNCHANGED <<day, sentinel, orders>>

Exit(p) ==
  /\ tool[p].pc = "done"
  /\ tool' = [tool EXCEPT ![p] = NoTool]
  /\ UNCHANGED <<day, sentinel, orders, unguarded, kills>>

Midnight ==
  /\ day < MaxDays
  /\ day' = day + 1
  /\ UNCHANGED <<tool, sentinel, orders, unguarded, kills>>

BuyNext ==
  \/ \E p \in Process :
       Check(p) \/ Authenticate(p) \/ Post(p) \/ Record(p) \/ Kill(p)
  \/ Midnight

\* Requests time out, so every process comes to its end.
BuyFairness ==
  \A p \in Process :
    /\ WF_buyVars(Check(p)) /\ WF_buyVars(Authenticate(p)) /\ WF_buyVars(Post(p))
    /\ WF_buyVars(Record(p))

-----------------------------------------------------------------------------
(* Properties *)

BuyTypeOK ==
  /\ day \in 1..MaxDays /\ kills \in 0..MaxKills
  /\ tool \in [Process -> [pc : {"idle", "check", "auth", "post", "answer", "done"},
                           day : 0..MaxDays,
                           answer : {"none", "acked", "refused", "unknown"}]]
  /\ sentinel \subseteq 1..MaxDays /\ unguarded \subseteq 1..MaxDays
  /\ orders \in [1..MaxDays -> Nat]

\* However answers are lost, at most one order of a date is accepted, unless two
\* processes looked for its file before either wrote it, or one died between sending
\* an order and writing it.
OneOrderPerDate ==
  \A d \in 1..MaxDays : orders[d] <= 1 \/ d \in unguarded
=============================================================================
