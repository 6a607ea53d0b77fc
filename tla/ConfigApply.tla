----------------------------- MODULE ConfigApply -----------------------------
(***************************************************************************)
(* Desired settings of one symbol on their way to the ledger: the inbox    *)
(* (contracts/inbox.py), the coordinator (execution/config_apply.py) and   *)
(* the ledger's side (ledger.apply_inbox_config).  Inbox and ledger are    *)
(* two databases; every access to one of them is one transaction and one   *)
(* action, and nothing is held between them.  Each thread inside the       *)
(* coordinator keeps the commands it still has to apply.                   *)
(*                                                                         *)
(* A command is named by its row in the inbox.  Replays of a command that  *)
(* was received, and commands whose sender is not authenticated, change    *)
(* nothing and are no steps.  Digests always match: one command, one       *)
(* content.                                                                *)
(***************************************************************************)
EXTENDS Integers, Sequences, FiniteSets

CONSTANTS
  Thread,        \* threads that use the coordinator
  MaxCommands,   \* bound: rows of the inbox
  MaxVersion,    \* bound: settings versions 1..MaxVersion
  MaxLocal,      \* bound: configurations applied past the inbox
  MaxStops       \* bound: crashes, retired leases and failed transactions

ASSUME ConfigBoundAssumption ==
  MaxCommands \in Nat /\ MaxVersion \in Nat \ {0} /\ MaxLocal \in Nat /\ MaxStops \in Nat

VARIABLES
  inbox,     \* durable: the rows of config_commands in rowid order
  configs,   \* durable: the ledger's AppliedConfig entries, oldest first
  ready,     \* the session gate of the present lease
  thread,    \* what each thread inside the coordinator holds
  stops      \* how often a bounded failure happened

vars == <<inbox, configs, ready, thread, stops>>

Local == 0      \* command_id of a configuration that came past the inbox
None == "NONE"
Legacy == "LEGACY_AUTHENTICATION_UNVERIFIED"
Stale == "STALE_CONFIG_VERSION"
NotOwned == "ACCOUNT_LOCK_NOT_OWNED"

Commands == 1..Len(inbox)

\* accepted and applied are 0 where the column is NULL.
Row(decision, expected, version) ==
  [decision |-> decision, expected |-> expected, version |-> version,
   accepted |-> IF decision = "ACCEPTED" THEN version ELSE 0,
   state |-> "NOT_APPLIED", reason |-> None, applied |-> 0]

\* The migration isolates rows accepted before senders were authenticated.
LegacyRow ==
  [decision |-> "ACCEPTED", expected |-> 0, version |-> 1, accepted |-> 0,
   state |-> "APPLY_BLOCKED", reason |-> Legacy, applied |-> 0]

\* holds: the thread's lease is the present one.
Idle == [step |-> "idle", queue |-> {}, retry |-> FALSE, holds |-> TRUE]

Init ==
  /\ inbox \in {<<>>, <<LegacyRow>>}
  /\ configs = <<>>
  /\ ready = FALSE
  /\ thread = [t \in Thread |-> Idle]
  /\ stops = 0

-----------------------------------------------------------------------------
(* The inbox *)

AcceptedVersions == {0} \cup {inbox[c].accepted : c \in Commands}

\* settings.decide, for an authorised sender.
Decision(expected, version, late) ==
  IF /\ ~late
     /\ expected \in AcceptedVersions
     /\ \A a \in AcceptedVersions : a <= expected
     /\ version > expected
    THEN "ACCEPTED" ELSE "REJECTED"

Receive(expected, version, late) ==
  /\ Len(inbox) < MaxCommands
  /\ inbox' = Append(inbox, Row(Decision(expected, version, late), expected, version))
  /\ UNCHANGED <<configs, ready, thread, stops>>

\* Defect: the operator's retry also reopens unauthenticated rows.
ReopensAny(row, retry) ==
  row.state = "NOT_APPLIED" \/ (row.state = "APPLY_BLOCKED" /\ retry)

\* What begin_apply takes up again besides APPLYING.
Reopens(row, retry) ==
  \/ row.state = "NOT_APPLIED"
  \/ row.state = "APPLY_BLOCKED" /\ retry /\ row.reason # Legacy

\* What the resume loops list.  Accepted versions grow with the rowid, so both
\* orders are the order of the rows.
Listed(states) ==
  {c \in Commands : inbox[c].decision = "ACCEPTED" /\ inbox[c].state \in states}

-----------------------------------------------------------------------------
(* The ledger *)

Configured == configs # <<>>
AppliedVersion == IF Configured THEN configs[Len(configs)].version ELSE 1

InLedger(c) == \E i \in 1..Len(configs) : configs[i].command = c

\* Defect: an earlier application of the same command is not looked for.
NeverExisting(c) == FALSE

\* ledger._existing_inbox_application
Existing(c) == InLedger(c)

\* Defect: the version a command was written for is not compared.
ApplicableToAny(row) == row.version > row.expected

\* ledger._check_inbox_apply_version; the implicit baseline 1 is desired version 0.
Applicable(row) ==
  /\ IF Configured THEN AppliedVersion = row.expected
     ELSE row.expected = 0 /\ AppliedVersion = 1
  /\ row.version > row.expected
  /\ \A i \in 1..Len(configs) : configs[i].version # row.version

LocalConfigs == {i \in 1..Len(configs) : configs[i].command = Local}

\* apply_config and apply_virtual_stop_config
ApplyLocal(version) ==
  /\ ready
  /\ Cardinality(LocalConfigs) < MaxLocal
  /\ version > AppliedVersion
  /\ configs' = Append(configs, [version |-> version, command |-> Local])
  /\ UNCHANGED <<inbox, ready, thread, stops>>

-----------------------------------------------------------------------------
(* The coordinator *)

Start(t, queue, retry) ==
  /\ thread[t].step = "idle"
  /\ queue # {}
  /\ thread' = [thread EXCEPT ![t] = [step |-> "gate", queue |-> queue,
                                      retry |-> retry, holds |-> TRUE]]
  /\ UNCHANGED <<inbox, configs, ready, stops>>

Apply(t, c, retry) == Start(t, {c}, retry)
ResumeApplying(t) == Start(t, Listed({"APPLYING"}), FALSE)
ResumePending(t) == ready /\ Start(t, Listed({"NOT_APPLIED", "APPLYING"}), FALSE)

Current(t) == CHOOSE c \in thread[t].queue : \A d \in thread[t].queue : c <= d

Enter(t, step) == thread' = [thread EXCEPT ![t].step = step]

\* One apply returned: the loop goes on with the next command.
Return(t) ==
  LET rest == thread[t].queue \ {Current(t)}
  IN  thread' = [thread EXCEPT
        ![t] = IF rest = {} THEN Idle ELSE [@ EXCEPT !.step = "gate", !.queue = rest]]

\* An exception ends the loop with it.
Raise(t) == thread' = [thread EXCEPT ![t] = Idle]

SetRow(c, state, reason, applied) ==
  inbox' = [inbox EXCEPT
    ![c] = [@ EXCEPT !.state = state, !.reason = reason, !.applied = applied]]

\* apply looks at lease.ready; the lease may be retired before its next step.
Gate(t) ==
  /\ thread[t].step = "gate"
  /\ IF ready /\ thread[t].holds THEN Enter(t, "begin") ELSE Raise(t)
  /\ UNCHANGED <<inbox, configs, ready, stops>>

\* begin_apply
Begin(t) ==
  /\ thread[t].step = "begin"
  /\ LET c == Current(t)
     IN  \/ /\ inbox[c].decision # "ACCEPTED"
            /\ Raise(t)
            /\ UNCHANGED inbox
         \/ /\ inbox[c].decision = "ACCEPTED"
            /\ Reopens(inbox[c], thread[t].retry)
            /\ SetRow(c, "APPLYING", None, inbox[c].applied)
            /\ Enter(t, "ledger")
         \/ /\ inbox[c].decision = "ACCEPTED"
            /\ ~Reopens(inbox[c], thread[t].retry)
            /\ IF inbox[c].state = "APPLYING" THEN Enter(t, "ledger") ELSE Return(t)
            /\ UNCHANGED inbox
  /\ UNCHANGED <<configs, ready, stops>>

\* Defect: a refusal of the ledger is taken for an application.
ApplyToLedgerOrNot(t) ==
  /\ thread[t].step = "ledger"
  /\ LET c == Current(t)
     IN  IF thread[t].holds /\ ~Existing(c) /\ Applicable(inbox[c])
           THEN configs' = Append(configs, [version |-> inbox[c].version, command |-> c])
           ELSE UNCHANGED configs
  /\ Enter(t, "mark")
  /\ UNCHANGED <<inbox, ready, stops>>

\* ledger.apply_inbox_config
ApplyToLedger(t) ==
  /\ thread[t].step = "ledger"
  /\ LET c == Current(t)
     IN  \/ /\ thread[t].holds /\ Existing(c)
            /\ Enter(t, "mark")
            /\ UNCHANGED configs
         \/ /\ thread[t].holds /\ ~Existing(c) /\ Applicable(inbox[c])
            /\ configs' = Append(configs, [version |-> inbox[c].version, command |-> c])
            /\ Enter(t, "mark")
         \/ /\ ~thread[t].holds
            /\ Enter(t, NotOwned)
            /\ UNCHANGED configs
         \/ /\ thread[t].holds /\ ~Existing(c) /\ ~Applicable(inbox[c])
            /\ Enter(t, Stale)
            /\ UNCHANGED configs
  /\ UNCHANGED <<inbox, ready, stops>>

\* mark_applied
MarkApplied(t) ==
  /\ thread[t].step = "mark"
  /\ LET c == Current(t)
     IN  \/ /\ inbox[c].state = "APPLYING"
            /\ SetRow(c, "APPLIED", None, inbox[c].version)
            /\ Return(t)
         \/ /\ inbox[c].state = "APPLIED"
            /\ Return(t)
            /\ UNCHANGED inbox
         \/ /\ inbox[c].state \notin {"APPLYING", "APPLIED"}
            /\ Raise(t)
            /\ UNCHANGED inbox
  /\ UNCHANGED <<configs, ready, stops>>

\* Defect: a late refusal overwrites whatever the row says.
BlockAnyway(t) ==
  /\ thread[t].step \in {Stale, NotOwned}
  /\ SetRow(Current(t), "APPLY_BLOCKED", thread[t].step, inbox[Current(t)].applied)
  /\ Return(t)
  /\ UNCHANGED <<configs, ready, stops>>

\* block_apply, with the reason the thread carries as its step.
BlockApply(t) ==
  /\ thread[t].step \in {Stale, NotOwned}
  /\ LET c == Current(t)
         reason == thread[t].step
     IN  \/ /\ inbox[c].state = "APPLYING"
            /\ SetRow(c, "APPLY_BLOCKED", reason, inbox[c].applied)
            /\ Return(t)
         \/ /\ inbox[c].state = "APPLY_BLOCKED" /\ inbox[c].reason = reason
            /\ Return(t)
            /\ UNCHANGED inbox
         \/ /\ inbox[c].state # "APPLYING"
            /\ ~(inbox[c].state = "APPLY_BLOCKED" /\ inbox[c].reason = reason)
            /\ Raise(t)
            /\ UNCHANGED inbox
  /\ UNCHANGED <<configs, ready, stops>>

-----------------------------------------------------------------------------
(* The environment *)

\* Ledger.approve_virtual_reconciliation opens the gate.
Approve ==
  /\ ~ready
  /\ ready' = TRUE
  /\ UNCHANGED <<inbox, configs, thread, stops>>

Stop ==
  /\ stops < MaxStops
  /\ stops' = stops + 1
  /\ UNCHANGED <<inbox, configs>>

Crash ==
  /\ Stop
  /\ ready' = FALSE
  /\ thread' = [t \in Thread |-> Idle]

\* AccountLease.retire: the threads live on with a lease that refuses everything
\* while the next session starts.
Retire ==
  /\ Stop
  /\ ready' = FALSE
  /\ thread' = [t \in Thread |-> IF thread[t].step = "idle" THEN Idle
                                 ELSE [thread[t] EXCEPT !.holds = FALSE]]

\* A transaction fails with an error of the database.
Fault(t) ==
  /\ thread[t].step # "idle"
  /\ Stop
  /\ Raise(t)
  /\ UNCHANGED ready

Step(t) == Gate(t) \/ Begin(t) \/ ApplyToLedger(t) \/ MarkApplied(t) \/ BlockApply(t)

Next ==
  \/ \E e \in 0..MaxVersion, v \in 1..MaxVersion, late \in BOOLEAN : Receive(e, v, late)
  \/ \E v \in 1..MaxVersion : ApplyLocal(v)
  \/ \E t \in Thread :
       \/ \E c \in Commands, retry \in BOOLEAN : Apply(t, c, retry)
       \/ ResumeApplying(t)
       \/ ResumePending(t)
       \/ Gate(t)
       \/ Begin(t)
       \/ ApplyToLedger(t)
       \/ MarkApplied(t)
       \/ BlockApply(t)
       \/ Fault(t)
  \/ Approve
  \/ Crash
  \/ Retire

Spec == Init /\ [][Next]_vars

\* Threads go on, sessions are approved, and the operator keeps resuming what is
\* pending and retrying what is blocked.
Fairness ==
  /\ WF_vars(Approve)
  /\ \A t \in Thread : WF_vars(Step(t))
  /\ SF_vars(\E t \in Thread : ResumePending(t))
  /\ \A c \in 1..MaxCommands :
       SF_vars(\E t \in Thread : /\ c \in Commands /\ ready
                                 /\ inbox[c].state = "APPLY_BLOCKED" /\ Apply(t, c, TRUE))

FairSpec == Spec /\ Fairness

-----------------------------------------------------------------------------
(* Properties *)

RowType ==
  [decision : {"ACCEPTED", "REJECTED"}, expected : 0..MaxVersion, version : 1..MaxVersion,
   accepted : 0..MaxVersion,
   state : {"NOT_APPLIED", "APPLYING", "APPLIED", "APPLY_BLOCKED"},
   reason : {None, Legacy, Stale, NotOwned}, applied : 0..MaxVersion]

ThreadType ==
  [step : {"idle", "gate", "begin", "ledger", "mark", Stale, NotOwned}, queue : SUBSET (Nat \ {0}),
   retry : BOOLEAN, holds : BOOLEAN]

\* Rows, entries and threads have their shapes, and a row's columns agree: a
\* reason exactly when it is blocked, an applied version exactly when applied.
ConfigTypeOK ==
  /\ inbox \in Seq(RowType)
  /\ configs \in Seq([version : 1..MaxVersion, command : Nat])
  /\ ready \in BOOLEAN
  /\ thread \in [Thread -> ThreadType]
  /\ stops \in 0..MaxStops
  /\ \A t \in Thread : thread[t].step # "idle" =>
       thread[t].queue # {} /\ thread[t].queue \subseteq Commands
  /\ \A c \in Commands :
       /\ (inbox[c].reason # None) <=> (inbox[c].state = "APPLY_BLOCKED")
       /\ inbox[c].applied = IF inbox[c].state = "APPLIED" THEN inbox[c].version ELSE 0

\* The inbox never claims APPLIED unless the ledger durably holds the command
\* under that version, whatever threads, crashes and retired sessions intervene.
AppliedIsDurable ==
  \A c \in Commands : inbox[c].state = "APPLIED" =>
    \E i \in 1..Len(configs) : configs[i] = [version |-> inbox[c].applied, command |-> c]

\* The ledger's versions only grow, each desired setting follows the very one it
\* was written for, and no command is applied twice.
VersionsAdvance ==
  \A i, j \in 1..Len(configs) : i < j =>
    /\ configs[i].version < configs[j].version
    /\ configs[i].command = configs[j].command => configs[i].command = Local
    /\ j = i + 1 /\ configs[j].command # Local =>
         inbox[configs[j].command].expected = configs[i].version

\* Only commands of authenticated senders that the inbox accepted reach the ledger.
AuthenticatedOnly ==
  \A i \in 1..Len(configs) : configs[i].command # Local =>
    LET row == inbox[configs[i].command]
    IN  row.decision = "ACCEPTED" /\ row.reason # Legacy /\ row.accepted # 0

\* Once the ledger holds a command, the inbox comes to say APPLIED and stays so,
\* however often the two commits were separated by a crash or a late refusal.
Converges ==
  \A c \in 1..MaxCommands :
    InLedger(c) ~> [](c \in Commands /\ inbox[c].state = "APPLIED")
=============================================================================
