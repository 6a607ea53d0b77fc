----------------------------- MODULE MorningRun -----------------------------
(***************************************************************************)
(* The unattended morning run (tools/r045_morning_run.py) over the tools   *)
(* it starts: account probes (AccountRead), the quote capture              *)
(* (QuoteStream, with tools/probe_kiwoom_ws.py around it) and the paper    *)
(* order (PaperBuy).                                                       *)
(* Each step is a process of its own, the next one starts after it ended.  *)
(* An operator may start the order tool too, at any time; runs may be      *)
(* repeated on a date and find the files of earlier ones, the first one    *)
(* does so too.                                                            *)
(***************************************************************************)
EXTENDS QuoteStream, PaperBuy, AccountRead

CONSTANTS
  Runner,     \* the process of the order tool that the runner starts
  MaxRuns,    \* bound: morning runs
  MaxBuys     \* bound: orders the operator starts

ASSUME RunAssumption == Runner \in Process /\ MaxRuns \in Nat /\ MaxBuys \in Nat

VARIABLES
  run,     \* the runner: where it is, its date, status and what its tools returned
  book,    \* last-quote file by date: the run that wrote it and its price
  runs,    \* runs started
  buys     \* orders the operator started

runVars == <<run, book, runs, buys>>
vars == <<streamVars, buyVars, read, runVars>>

\* A price that may be ordered, or one above the cap.
Price == {"low", "high"}
NoBook == [run |-> 0, price |-> "none"]

\* History: sent, the run has started the order tool; whole, every query of the
\* account probe was answered and had all its pages.
NewRun == [pc |-> "idle", day |-> 0, status |-> "NOT_STARTED", sent |-> FALSE, whole |-> FALSE]

Init ==
  /\ StreamInit /\ BuyInit /\ ReadInit
  /\ run = NewRun
  /\ \E p \in Price \cup {"none"} :
       book = [d \in 1..MaxDays |-> IF d = 1 THEN [run |-> 0, price |-> p] ELSE NoBook]
  /\ runs = 0 /\ buys = 0

\* The market is open; otherwise a runner ends without doing anything.
Start ==
  /\ run.pc = "idle" /\ runs < MaxRuns
  /\ run' = [NewRun EXCEPT !.pc = "prewarm", !.day = day]
  /\ runs' = runs + 1
  /\ UNCHANGED <<streamVars, buyVars, read, book, buys>>

Aborted == [run EXCEPT !.pc = "idle", !.status = "ABORTED"]

\* The offline probe fails, or it succeeds and the account probe starts.
Prewarm ==
  /\ run.pc = "prewarm"
  /\ \/ run' = Aborted /\ UNCHANGED read
     \/ run' = [run EXCEPT !.pc = "before"] /\ StartRead(ProbeQueries)
  /\ UNCHANGED <<streamVars, buyVars, book, runs, buys>>

\* Defect: the exit code of the account probe is not looked at.
ReadFailsNever == FALSE

\* The account probe did not exit with 0.
ReadFails == read.st # "ok"

ReadBefore ==
  /\ run.pc = "before" /\ ReadEnded
  /\ \/ ReadFails /\ run' = Aborted /\ UNCHANGED streamVars
     \/ /\ ~ReadFails /\ StartCapture
        /\ run' = [run EXCEPT !.pc = "quote", !.whole = read.st = "ok" /\ read.whole]
  /\ EndRead
  /\ UNCHANGED <<buyVars, book, runs, buys>>

\* Defect: any quote will do, however old.
ExitsWellObserved(c) == c.observed

\* The exit code of the probe.
ExitsWell(c) == c.observed /\ c.fresh

\* The probe writes the last quote if there was one, and exits.
QuoteStep ==
  /\ run.pc = "quote" /\ cap.pc = "done"
  /\ \/ /\ \/ ~cap.observed /\ UNCHANGED book
           \/ cap.observed /\ \E p \in Price :
                book' = [book EXCEPT ![run.day] = [run |-> runs, price |-> p]]
        /\ run' = IF ExitsWell(cap) THEN [run EXCEPT !.pc = "price"] ELSE Aborted
     \/ cap.observed /\ run' = Aborted /\ UNCHANGED book
  /\ EndCapture
  /\ UNCHANGED <<buyVars, read, runs, buys>>

\* The runner reads the file.
ReadPrice ==
  /\ run.pc = "price"
  /\ run' \in {Aborted, IF book[run.day].price = "low" THEN [run EXCEPT !.pc = "preview"]
                        ELSE [run EXCEPT !.pc = "after", !.status = "PARTIAL_PRICE_OVER_CAP"]}
  /\ UNCHANGED <<streamVars, buyVars, read, book, runs, buys>>

Preview ==
  /\ run.pc = "preview"
  /\ run' \in {Aborted, [run EXCEPT !.pc = "submit"]}
  /\ UNCHANGED <<streamVars, buyVars, read, book, runs, buys>>

Submit ==
  /\ run.pc = "submit"
  /\ StartTool(Runner)
  /\ run' = [run EXCEPT !.pc = "submitting", !.sent = TRUE]
  /\ UNCHANGED <<streamVars, read, book, runs, buys>>

\* Whatever the order tool returned, the run goes on.
Submitted ==
  /\ run.pc = "submitting"
  /\ Exit(Runner)
  /\ run' = [run EXCEPT !.pc = "after"]
  /\ UNCHANGED <<streamVars, read, book, runs, buys>>

\* The checks after the order, which never abort: the account again, the linkage of
\* its order numbers, and the end.
ReadAfter ==
  /\ run.pc = "after"
  /\ run' = [run EXCEPT !.pc = "history"] /\ StartRead(ProbeQueries)
  /\ UNCHANGED <<streamVars, buyVars, book, runs, buys>>

Linkage ==
  /\ run.pc = "history" /\ ReadEnded
  /\ run' = [run EXCEPT !.pc = "linkage"] /\ StartRead(LinkageQueries)
  /\ UNCHANGED <<streamVars, buyVars, book, runs, buys>>

PostChecks ==
  /\ run.pc = "linkage" /\ ReadEnded
  /\ run' = [run EXCEPT !.pc = "idle",
                        !.status = IF @ = "NOT_STARTED" THEN "DONE" ELSE @]
  /\ EndRead
  /\ UNCHANGED <<streamVars, buyVars, book, runs, buys>>

OperatorBuys ==
  /\ buys < MaxBuys
  /\ \E p \in Process \ {Runner} : StartTool(p)
  /\ buys' = buys + 1
  /\ UNCHANGED <<streamVars, read, run, book, runs>>

OperatorDone(p) ==
  /\ Exit(p)
  /\ UNCHANGED <<streamVars, read, runVars>>

Next ==
  \/ Start
  \/ Prewarm
  \/ ReadBefore
  \/ QuoteStep
  \/ ReadPrice
  \/ Preview
  \/ Submit
  \/ Submitted
  \/ ReadAfter
  \/ Linkage
  \/ PostChecks
  \/ OperatorBuys
  \/ \E p \in Process \ {Runner} : OperatorDone(p)
  \/ FetchPage /\ UNCHANGED <<streamVars, buyVars, runVars>>
  \/ StreamNext /\ UNCHANGED <<buyVars, read, runVars>>
  \/ BuyNext /\ UNCHANGED <<streamVars, read, runVars>>

Spec == Init /\ [][Next]_vars

\* Every step of the runner ends: its processes do, or are killed after 300 seconds.
Fairness ==
  /\ StreamFairness /\ BuyFairness /\ WF_read(FetchPage)
  /\ WF_vars(Prewarm) /\ WF_vars(ReadBefore) /\ WF_vars(QuoteStep)
  /\ WF_vars(ReadPrice) /\ WF_vars(Preview) /\ WF_vars(Submit) /\ WF_vars(Submitted)
  /\ WF_vars(ReadAfter) /\ WF_vars(Linkage) /\ WF_vars(PostChecks)

FairSpec == Spec /\ Fairness

-----------------------------------------------------------------------------
(* Properties *)

RunTypeOK ==
  /\ StreamTypeOK /\ BuyTypeOK /\ ReadTypeOK
  /\ run \in [pc : {"idle", "prewarm", "before", "quote", "price", "preview", "submit",
                    "submitting", "after", "history", "linkage"},
              day : 0..MaxDays, sent : BOOLEAN, whole : BOOLEAN,
              status : {"NOT_STARTED", "ABORTED", "PARTIAL_PRICE_OVER_CAP", "DONE"}]
  /\ book \in [1..MaxDays -> [run : 0..MaxRuns, price : Price \cup {"none"}]]
  /\ runs \in 0..MaxRuns /\ buys \in 0..MaxBuys

\* A run sends its order only at a price that is below the cap, from a quote of its
\* own capture which was fresh, in a connection that was closed, at its end.
OrderFromFreshQuote ==
  run.pc \in {"preview", "submit", "submitting"} =>
    /\ book[run.day] = [run |-> runs, price |-> "low"]
    /\ cap.pc = "done" /\ cap.observed /\ cap.fresh

\* A run sends its order only after every account query before it was answered with
\* all its pages, each once, whatever pages the server repeats or has left to send.
EvidenceIsWhole == run.sent => run.whole

\* A run that was started ends, whatever the server and the broker do.
RunEnds == run.pc # "idle" ~> run.pc = "idle"
=============================================================================
