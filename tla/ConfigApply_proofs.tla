-------------------------- MODULE ConfigApply_proofs --------------------------
(***************************************************************************)
(* Theorems about ConfigApply for any number of threads, commands,         *)
(* versions and failures.                                                  *)
(***************************************************************************)
EXTENDS ConfigApply, SequenceTheorems, WellFoundedInduction, TLAPS

\* The command a thread works on is one of those it listed.
LEMMA CurrentInQueue ==
  ASSUME ConfigTypeOK, NEW t \in Thread, thread[t].step # "idle"
  PROVE  Current(t) \in thread[t].queue /\ Current(t) \in Commands
<1> DEFINE Q == thread[t].queue
<1>1. Q \subseteq Nat /\ Q # {} /\ Q \subseteq Commands
  BY DEF ConfigTypeOK, ThreadType
<1> DEFINE R == OpToRel(<, Nat)
<1>2. IsWellFoundedOn(R, Nat)
  BY NatLessThanWellFounded
<1> HIDE DEF R
<1>3. \E c \in Q : \A d \in Q : ~(<<d, c>> \in R)
  BY <1>1, <1>2, WFMin
<1>4. \E c \in Q : \A d \in Q : c <= d
  <2>1. PICK c \in Q : \A d \in Q : ~(<<d, c>> \in R)
    BY <1>3
  <2>2. R = {p \in Nat \X Nat : p[1] < p[2]}
    BY Zenon DEF R, OpToRel
  <2>3. ASSUME NEW d \in Q PROVE c <= d
    <3>1. d \in Nat /\ c \in Nat
      BY <1>1
    <3>2. <<d, c>> \notin {p \in Nat \X Nat : p[1] < p[2]}
      BY <2>1, <2>2
    <3>3. ~(d < c)
      BY <3>1, <3>2
    <3>4. QED BY <3>1, <3>3
  <2>4. QED BY <2>3
<1>5. Current(t) \in Q
  BY <1>4 DEF Current
<1>6. QED BY <1>1, <1>5

LEMMA RowUpdate ==
  ASSUME inbox \in Seq(RowType), NEW c \in Commands, NEW state, NEW reason, NEW applied,
         SetRow(c, state, reason, applied),
         state \in {"NOT_APPLIED", "APPLYING", "APPLIED", "APPLY_BLOCKED"},
         reason \in {None, Legacy, Stale, NotOwned}, applied \in 0..MaxVersion
  PROVE  /\ inbox' \in Seq(RowType) /\ Len(inbox') = Len(inbox)
         /\ inbox'[c].state = state /\ inbox'[c].reason = reason
         /\ inbox'[c].applied = applied
         /\ inbox'[c].version = inbox[c].version
         /\ inbox'[c].expected = inbox[c].expected
         /\ \A d \in Commands : d # c => inbox'[d] = inbox[d]
<1> DEFINE row == [inbox[c] EXCEPT !.state = state, !.reason = reason, !.applied = applied]
<1>1. inbox[c] \in RowType
  BY ElementOfSeq DEF Commands
<1>2. inbox' = [inbox EXCEPT ![c] = row]
  BY DEF SetRow
<1>3. /\ row \in RowType
      /\ row.state = state /\ row.reason = reason /\ row.applied = applied
      /\ row.version = inbox[c].version /\ row.expected = inbox[c].expected
  BY <1>1 DEF RowType
<1> HIDE DEF row
<1>4. /\ inbox' \in Seq(RowType) /\ Len(inbox') = Len(inbox)
      /\ inbox'[c] = row
      /\ \A d \in Commands : d # c => inbox'[d] = inbox[d]
  BY <1>2, <1>3, ExceptSeq DEF Commands
<1>5. QED BY <1>3, <1>4

\* What a thread inside the coordinator does to itself: it moves to another step
\* of the same command, to the next command, or out.
Moves(t) ==
  Return(t) \/ Raise(t) \/ \E step \in {"begin", "ledger", "mark", Stale, NotOwned} : Enter(t, step)

QueuesOK ==
  \A t \in Thread : thread[t].step # "idle" =>
    thread[t].queue # {} /\ thread[t].queue \subseteq Commands

RowsOK ==
  \A c \in Commands :
    /\ (inbox[c].reason # None) <=> (inbox[c].state = "APPLY_BLOCKED")
    /\ inbox[c].applied = IF inbox[c].state = "APPLIED" THEN inbox[c].version ELSE 0

LEMMA ThreadMoves ==
  ASSUME ConfigTypeOK, NEW t \in Thread, thread[t].step # "idle", Moves(t)
  PROVE  /\ thread' \in [Thread -> ThreadType]
         /\ \A u \in Thread : thread'[u].step # "idle" =>
              thread'[u].queue # {} /\ thread'[u].queue \subseteq Commands
<1>0. thread \in [Thread -> ThreadType] /\ QueuesOK
  BY DEF ConfigTypeOK, QueuesOK
<1>1. Idle \in ThreadType /\ Idle.step = "idle"
  BY DEF Idle, ThreadType
<1>2. CASE Raise(t)
  BY <1>0, <1>1, <1>2 DEF Raise, QueuesOK
<1>3. ASSUME NEW step \in {"begin", "ledger", "mark", Stale, NotOwned}, Enter(t, step)
      PROVE  /\ thread' \in [Thread -> ThreadType]
             /\ \A u \in Thread : thread'[u].step # "idle" =>
                  thread'[u].queue # {} /\ thread'[u].queue \subseteq Commands
  BY <1>0, <1>3 DEF Enter, ThreadType, QueuesOK
<1>4. CASE Return(t)
  <2> DEFINE rest == thread[t].queue \ {Current(t)}
             next == [thread[t] EXCEPT !.step = "gate", !.queue = rest]
  <2>1. rest \subseteq thread[t].queue
    OBVIOUS
  <2>2. next \in ThreadType /\ next.queue = rest
    BY <1>0, <2>1 DEF ThreadType
  <2>3. rest \subseteq Commands
    BY <1>0, <2>1 DEF QueuesOK
  <2>4. thread' = [thread EXCEPT ![t] = IF rest = {} THEN Idle ELSE next]
    BY <1>4 DEF Return
  <2> HIDE DEF rest, next
  <2>5. QED BY <1>0, <1>1, <2>2, <2>3, <2>4 DEF QueuesOK
<1>5. QED BY <1>2, <1>3, <1>4 DEF Moves

-----------------------------------------------------------------------------
(* Type correctness *)

LEMMA ConfigTypeInit == Init => ConfigTypeOK
<1> SUFFICES ASSUME Init PROVE ConfigTypeOK
  OBVIOUS
<1>1. thread \in [Thread -> ThreadType] /\ \A t \in Thread : thread[t].step = "idle"
  BY DEF Init, Idle, ThreadType
<1>2. configs \in Seq([version : 1..MaxVersion, command : Nat])
  BY EmptySeq DEF Init
<1>3. stops \in 0..MaxStops
  BY ConfigBoundAssumption DEF Init
<1>4. inbox \in Seq(RowType) /\ RowsOK
  <2>1. CASE inbox = <<>>
    BY <2>1, EmptySeq DEF RowsOK, Commands
  <2>2. CASE inbox = <<LegacyRow>>
    <3>1. LegacyRow \in RowType /\ LegacyRow.state = "APPLY_BLOCKED"
          /\ LegacyRow.reason = Legacy /\ LegacyRow.applied = 0
      BY ConfigBoundAssumption DEF LegacyRow, RowType
    <3>2. inbox \in Seq(RowType) /\ Len(inbox) = 1 /\ inbox[1] = LegacyRow
      BY <2>2, <3>1
    <3>3. QED BY <3>1, <3>2 DEF RowsOK, Commands, Legacy, None
  <2>3. QED BY <2>1, <2>2 DEF Init
<1>5. ready \in BOOLEAN
  BY DEF Init
<1>6. QED BY <1>1, <1>2, <1>3, <1>4, <1>5 DEF ConfigTypeOK, RowsOK

\* A row that begin_apply, mark_applied or block_apply changes keeps its columns
\* in agreement and what was received.
LEMMA RowStep ==
  ASSUME ConfigTypeOK, NEW c \in Commands, NEW state, NEW reason, NEW applied,
         SetRow(c, state, reason, applied),
         state \in {"NOT_APPLIED", "APPLYING", "APPLIED", "APPLY_BLOCKED"},
         reason \in {None, Legacy, Stale, NotOwned},
         (reason # None) <=> (state = "APPLY_BLOCKED"),
         applied = IF state = "APPLIED" THEN inbox[c].version ELSE 0
  PROVE  /\ inbox' \in Seq(RowType) /\ Len(inbox') = Len(inbox) /\ RowsOK'
         /\ inbox'[c].state = state
         /\ \A d \in Commands :
              /\ inbox'[d].version = inbox[d].version
              /\ inbox'[d].expected = inbox[d].expected
              /\ d # c => inbox'[d] = inbox[d]
<1>1. inbox \in Seq(RowType) /\ RowsOK
  BY DEF ConfigTypeOK, RowsOK
<1>2. inbox[c] \in RowType
  BY <1>1, ElementOfSeq DEF Commands
<1>3. applied \in 0..MaxVersion
  BY <1>2, ConfigBoundAssumption DEF RowType
<1>4. /\ inbox' \in Seq(RowType) /\ Len(inbox') = Len(inbox)
      /\ \A d \in Commands : d # c => inbox'[d] = inbox[d]
      /\ inbox'[c].state = state /\ inbox'[c].reason = reason
      /\ inbox'[c].applied = applied
      /\ inbox'[c].version = inbox[c].version /\ inbox'[c].expected = inbox[c].expected
  BY <1>1, <1>3, RowUpdate
<1>5. Commands' = Commands
  BY <1>4 DEF Commands
<1>6. \A d \in Commands :
        /\ (inbox'[d].reason # None) <=> (inbox'[d].state = "APPLY_BLOCKED")
        /\ inbox'[d].applied = IF inbox'[d].state = "APPLIED" THEN inbox'[d].version ELSE 0
  BY <1>1, <1>4 DEF RowsOK
<1>7. RowsOK'
  BY <1>5, <1>6 DEF RowsOK
<1>8. QED BY <1>4, <1>7

\* A thread that tests the gate, begins, marks or blocks leaves the inbox alone or changes the
\* row of its command, and the ledger alone.
LEMMA InboxStep ==
  ASSUME ConfigTypeOK, NEW t \in Thread, Gate(t) \/ Begin(t) \/ MarkApplied(t) \/ BlockApply(t)
  PROVE  /\ thread[t].step # "idle" /\ Moves(t) /\ UNCHANGED <<configs, ready, stops>>
         /\ inbox' \in Seq(RowType) /\ Len(inbox') = Len(inbox) /\ RowsOK'
         /\ \A d \in Commands :
              /\ inbox'[d].version = inbox[d].version
              /\ inbox'[d].expected = inbox[d].expected
              /\ inbox'[d].state = "APPLIED" /\ inbox[d].state # "APPLIED" =>
                   thread[t].step = "mark" /\ d = Current(t)
<1>0. thread[t].step # "idle" /\ UNCHANGED <<configs, ready, stops>>
  BY DEF Gate, Begin, MarkApplied, BlockApply, Stale, NotOwned
<1> DEFINE c == Current(t)
<1>1. c \in Commands
  BY <1>0, CurrentInQueue
<1>2. inbox \in Seq(RowType) /\ RowsOK
  BY DEF ConfigTypeOK, RowsOK
<1>3. Moves(t)
  BY DEF Gate, Begin, MarkApplied, BlockApply, Moves
<1> HIDE DEF c
<1>4. CASE UNCHANGED inbox
  BY <1>0, <1>2, <1>3, <1>4 DEF RowsOK, Commands
<1>5. CASE SetRow(c, "APPLYING", None, inbox[c].applied) /\ inbox[c].state # "APPLIED"
  <2>1. inbox[c].applied = 0
    BY <1>1, <1>2, <1>5 DEF RowsOK
  <2>2. None \in {None, Legacy, Stale, NotOwned}
    OBVIOUS
  <2>3. /\ inbox' \in Seq(RowType) /\ Len(inbox') = Len(inbox) /\ RowsOK'
        /\ inbox'[c].state = "APPLYING"
        /\ \A d \in Commands :
             /\ inbox'[d].version = inbox[d].version
             /\ inbox'[d].expected = inbox[d].expected
             /\ d # c => inbox'[d] = inbox[d]
    BY <1>1, <1>5, <2>1, <2>2, RowStep
  <2>4. QED BY <1>0, <1>3, <2>3
<1>6. CASE SetRow(c, "APPLIED", None, inbox[c].version) /\ thread[t].step = "mark"
  <2>1. None \in {None, Legacy, Stale, NotOwned}
    OBVIOUS
  <2>2. /\ inbox' \in Seq(RowType) /\ Len(inbox') = Len(inbox) /\ RowsOK'
        /\ \A d \in Commands :
             /\ inbox'[d].version = inbox[d].version
             /\ inbox'[d].expected = inbox[d].expected
             /\ d # c => inbox'[d] = inbox[d]
    BY <1>1, <1>6, <2>1, RowStep
  <2>3. QED BY <1>0, <1>3, <1>6, <2>2 DEF c
<1>7. ASSUME NEW reason \in {Stale, NotOwned}, inbox[c].state # "APPLIED",
             SetRow(c, "APPLY_BLOCKED", reason, inbox[c].applied)
      PROVE  /\ inbox' \in Seq(RowType) /\ Len(inbox') = Len(inbox) /\ RowsOK'
             /\ inbox'[c].state = "APPLY_BLOCKED"
             /\ \A d \in Commands :
                  /\ inbox'[d].version = inbox[d].version
                  /\ inbox'[d].expected = inbox[d].expected
                  /\ d # c => inbox'[d] = inbox[d]
  <2>1. inbox[c].applied = 0
    BY <1>1, <1>2, <1>7 DEF RowsOK
  <2>2. reason # None /\ reason \in {None, Legacy, Stale, NotOwned}
    BY DEF None, Stale, NotOwned
  <2>3. QED BY <1>1, <1>7, <2>1, <2>2, RowStep
<1>8. \/ UNCHANGED inbox
      \/ SetRow(c, "APPLYING", None, inbox[c].applied) /\ inbox[c].state # "APPLIED"
      \/ SetRow(c, "APPLIED", None, inbox[c].version) /\ thread[t].step = "mark"
      \/ \E reason \in {Stale, NotOwned} :
           inbox[c].state # "APPLIED" /\ SetRow(c, "APPLY_BLOCKED", reason, inbox[c].applied)
  BY DEF Gate, Begin, MarkApplied, BlockApply, Reopens, c
<1>9. QED BY <1>0, <1>3, <1>4, <1>5, <1>6, <1>7, <1>8

\* A new row at the end of the inbox.
LEMMA ReceiveStep ==
  ASSUME ConfigTypeOK, NEW e \in 0..MaxVersion, NEW v \in 1..MaxVersion,
         NEW late \in BOOLEAN, Receive(e, v, late)
  PROVE  /\ inbox' \in Seq(RowType) /\ Len(inbox') = Len(inbox) + 1 /\ RowsOK'
         /\ \A d \in Commands : inbox'[d] = inbox[d]
         /\ inbox'[Len(inbox) + 1].state = "NOT_APPLIED"
<1> DEFINE row == Row(Decision(e, v, late), e, v)
<1>1. Decision(e, v, late) \in {"ACCEPTED", "REJECTED"}
  BY DEF Decision
<1>2. row \in RowType /\ row.state = "NOT_APPLIED" /\ row.reason = None /\ row.applied = 0
  BY <1>1, ConfigBoundAssumption DEF Row, RowType
<1>3. inbox \in Seq(RowType) /\ RowsOK
  BY DEF ConfigTypeOK, RowsOK
<1>4. inbox' = Append(inbox, row)
  BY DEF Receive
<1> HIDE DEF row
<1>5. /\ inbox' \in Seq(RowType) /\ Len(inbox') = Len(inbox) + 1
      /\ \A d \in Commands : inbox'[d] = inbox[d]
      /\ inbox'[Len(inbox) + 1] = row
  BY <1>2, <1>3, <1>4, AppendProperties DEF Commands
<1>6. \A d \in 1..(Len(inbox) + 1) : d \in Commands \/ d = Len(inbox) + 1
  BY <1>3, LenProperties DEF Commands
<1>7. RowsOK'
  BY <1>2, <1>3, <1>5, <1>6 DEF RowsOK, Commands
<1>8. QED BY <1>2, <1>5, <1>7

Entry == [version : 1..MaxVersion, command : Nat]

\* A new entry at the end of the ledger's configurations.
LEMMA EntryStep ==
  ASSUME configs \in Seq(Entry), NEW x \in Entry, configs' = Append(configs, x)
  PROVE  /\ configs' \in Seq(Entry) /\ Len(configs') = Len(configs) + 1
         /\ \A i \in 1..Len(configs) : configs'[i] = configs[i]
         /\ configs'[Len(configs) + 1] = x
         /\ \A i \in 1..Len(configs') : i \in 1..Len(configs) \/ i = Len(configs) + 1
<1>1. /\ configs' \in Seq(Entry) /\ Len(configs') = Len(configs) + 1
      /\ \A i \in 1..Len(configs) : configs'[i] = configs[i]
      /\ configs'[Len(configs) + 1] = x
  BY AppendProperties
<1>2. Len(configs) \in Nat
  BY LenProperties
<1>3. QED BY <1>1, <1>2

\* What the ledger does for a thread: nothing, or one new entry for its command.
LEMMA LedgerStep ==
  ASSUME ConfigTypeOK, NEW t \in Thread, ApplyToLedger(t)
  PROVE  /\ thread[t].step # "idle" /\ Moves(t) /\ UNCHANGED <<inbox, ready, stops>>
         /\ Current(t) \in Commands
         /\ [version |-> inbox[Current(t)].version, command |-> Current(t)] \in Entry
<1>1. thread[t].step # "idle" /\ Moves(t) /\ UNCHANGED <<inbox, ready, stops>>
  BY DEF ApplyToLedger, Moves
<1>2. Current(t) \in Commands
  BY <1>1, CurrentInQueue
<1>3. inbox \in Seq(RowType)
  BY DEF ConfigTypeOK
<1>4. inbox[Current(t)].version \in 1..MaxVersion
  <2>1. inbox[Current(t)] \in RowType
    BY <1>2, <1>3, ElementOfSeq DEF Commands
  <2>2. QED BY <2>1 DEF RowType
<1>5. Current(t) \in Nat
  BY <1>2 DEF Commands
<1>6. QED BY <1>1, <1>2, <1>4, <1>5 DEF Entry

ConfigParts ==
  /\ inbox \in Seq(RowType) /\ RowsOK /\ configs \in Seq(Entry)
  /\ thread \in [Thread -> ThreadType] /\ QueuesOK
  /\ ready \in BOOLEAN /\ stops \in 0..MaxStops

LEMMA ConfigTypeNext == ConfigTypeOK /\ [Next]_vars => ConfigTypeOK'
<1> SUFFICES ASSUME ConfigTypeOK, [Next]_vars PROVE ConfigTypeOK'
  OBVIOUS
<1>0. ConfigParts
  BY DEF ConfigTypeOK, ConfigParts, RowsOK, QueuesOK, Entry
<1>a. SUFFICES ConfigParts'
  BY DEF ConfigTypeOK, ConfigParts, RowsOK, QueuesOK, Entry
<1> USE DEF ConfigParts
<1>1. ASSUME NEW e \in 0..MaxVersion, NEW v \in 1..MaxVersion, NEW late \in BOOLEAN,
             Receive(e, v, late)
      PROVE  ConfigParts'
  <2>1. inbox' \in Seq(RowType) /\ Len(inbox') = Len(inbox) + 1 /\ RowsOK'
    BY <1>1, ReceiveStep
  <2>2. Commands \subseteq Commands'
    BY <1>0, <2>1, LenProperties DEF Commands
  <2>3. UNCHANGED <<configs, ready, thread, stops>>
    BY <1>1 DEF Receive
  <2>4. QueuesOK'
    BY <1>0, <2>2, <2>3 DEF QueuesOK
  <2>5. QED BY <1>0, <2>1, <2>3, <2>4
<1>2. ASSUME NEW v \in 1..MaxVersion, ApplyLocal(v)
      PROVE  ConfigParts'
  <2>1. [version |-> v, command |-> Local] \in Entry
    BY DEF Entry, Local
  <2>2. configs' = Append(configs, [version |-> v, command |-> Local])
        /\ UNCHANGED <<inbox, ready, thread, stops>>
    BY <1>2 DEF ApplyLocal
  <2>3. configs' \in Seq(Entry)
    BY <1>0, <2>1, <2>2, EntryStep
  <2>4. QED BY <1>0, <2>2, <2>3 DEF RowsOK, QueuesOK, Commands
<1>3. ASSUME NEW t \in Thread, NEW queue \in SUBSET Commands, NEW retry \in BOOLEAN,
             Start(t, queue, retry)
      PROVE  ConfigParts'
  <2> DEFINE new == [step |-> "gate", queue |-> queue, retry |-> retry, holds |-> TRUE]
  <2>1. queue \subseteq Nat \ {0}
    BY <1>0, LenProperties DEF Commands
  <2>2. new \in ThreadType /\ new.queue = queue
    BY <2>1 DEF ThreadType
  <2>3. thread' = [thread EXCEPT ![t] = new] /\ queue # {}
        /\ UNCHANGED <<inbox, configs, ready, stops>>
    BY <1>3 DEF Start
  <2> HIDE DEF new
  <2>4. thread' \in [Thread -> ThreadType] /\ QueuesOK'
    BY <1>0, <2>2, <2>3 DEF QueuesOK, Commands
  <2>5. QED BY <1>0, <2>3, <2>4 DEF RowsOK, Commands
<1>4. ASSUME NEW t \in Thread, NEW c \in Commands, NEW retry \in BOOLEAN, Apply(t, c, retry)
      PROVE  ConfigParts'
  BY <1>3, <1>4 DEF Apply
<1>5. ASSUME NEW t \in Thread, ResumeApplying(t) \/ ResumePending(t)
      PROVE  ConfigParts'
  <2>1. \A states : Listed(states) \in SUBSET Commands
    BY DEF Listed
  <2>2. \E queue \in SUBSET Commands : Start(t, queue, FALSE)
    BY <1>5, <2>1 DEF ResumeApplying, ResumePending
  <2>3. QED BY <1>3, <2>2
<1>6. ASSUME NEW t \in Thread, Gate(t) \/ Begin(t) \/ MarkApplied(t) \/ BlockApply(t)
      PROVE  ConfigParts'
  <2>1. /\ thread[t].step # "idle" /\ Moves(t) /\ UNCHANGED <<configs, ready, stops>>
        /\ inbox' \in Seq(RowType) /\ Len(inbox') = Len(inbox) /\ RowsOK'
    BY <1>6, InboxStep
  <2>2. thread' \in [Thread -> ThreadType] /\ QueuesOK'
    BY <2>1, ThreadMoves DEF QueuesOK, Commands
  <2>3. QED BY <1>0, <2>1, <2>2
<1>7. ASSUME NEW t \in Thread, ApplyToLedger(t)
      PROVE  ConfigParts'
  <2> DEFINE new == [version |-> inbox[Current(t)].version, command |-> Current(t)]
  <2>1. /\ thread[t].step # "idle" /\ Moves(t) /\ UNCHANGED <<inbox, ready, stops>>
        /\ new \in Entry
    BY <1>7, LedgerStep
  <2>2. configs' = configs \/ configs' = Append(configs, new)
    BY <1>7 DEF ApplyToLedger
  <2> HIDE DEF new
  <2>3. configs' \in Seq(Entry)
    BY <1>0, <2>1, <2>2, EntryStep
  <2>4. thread' \in [Thread -> ThreadType] /\ QueuesOK'
    BY <2>1, ThreadMoves DEF QueuesOK, Commands
  <2>5. QED BY <1>0, <2>1, <2>3, <2>4 DEF RowsOK, Commands
<1>8. ASSUME Stop PROVE stops' \in 0..MaxStops /\ UNCHANGED <<inbox, configs>>
  BY <1>0, <1>8, ConfigBoundAssumption DEF Stop
<1>9. ASSUME NEW t \in Thread, Fault(t)
      PROVE  ConfigParts'
  <2>1. thread[t].step # "idle" /\ Moves(t) /\ Stop /\ UNCHANGED ready
    BY <1>9 DEF Fault, Moves
  <2>2. thread' \in [Thread -> ThreadType]
        /\ \A u \in Thread : thread'[u].step # "idle" =>
             thread'[u].queue # {} /\ thread'[u].queue \subseteq Commands
    BY <2>1, ThreadMoves
  <2>3. QED BY <1>0, <1>8, <2>1, <2>2 DEF RowsOK, QueuesOK, Commands
<1>10. CASE Approve
  BY <1>0, <1>10 DEF Approve, RowsOK, QueuesOK, Commands
<1>11. CASE Crash
  <2>1. Idle \in ThreadType /\ Idle.step = "idle"
    BY DEF Idle, ThreadType
  <2>2. thread' \in [Thread -> ThreadType] /\ QueuesOK'
    BY <1>11, <2>1 DEF Crash, QueuesOK
  <2>3. QED BY <1>0, <1>8, <1>11, <2>2 DEF Crash, RowsOK, Commands
<1>12. CASE Retire
  <2>1. Idle \in ThreadType /\ Idle.step = "idle"
    BY DEF Idle, ThreadType
  <2>2. \A t \in Thread : [thread[t] EXCEPT !.holds = FALSE] \in ThreadType
    BY <1>0 DEF ThreadType
  <2>3. thread' \in [Thread -> ThreadType]
    BY <1>12, <2>1, <2>2 DEF Retire
  <2>4. UNCHANGED <<inbox, configs>> /\ stops' \in 0..MaxStops
    BY <1>8, <1>12 DEF Retire
  <2>5. \A t \in Thread : thread'[t].step # "idle" =>
          thread[t].step # "idle" /\ thread'[t].queue = thread[t].queue
    BY <1>0, <1>12, <2>1 DEF Retire, ThreadType
  <2>6. QueuesOK'
    BY <1>0, <2>4, <2>5 DEF QueuesOK, Commands
  <2>7. ready' \in BOOLEAN
    BY <1>12 DEF Retire
  <2>8. QED BY <1>0, <2>3, <2>4, <2>6, <2>7 DEF RowsOK, Commands
<1>13. CASE UNCHANGED vars
  BY <1>0, <1>13 DEF vars, RowsOK, QueuesOK, Commands
<1>14. QED
  BY <1>1, <1>2, <1>4, <1>5, <1>6, <1>7, <1>9, <1>10, <1>11, <1>12, <1>13 DEF Next

\* Rows, entries and threads stay well-formed and a row's columns agree.
THEOREM ConfigTypeCorrect == Spec => []ConfigTypeOK
<1>1. QED BY ConfigTypeInit, ConfigTypeNext, PTL DEF Spec

-----------------------------------------------------------------------------
(* The inbox tells the truth about the ledger *)

Holds(c) ==
  \E i \in 1..Len(configs) : configs[i] = [version |-> inbox[c].version, command |-> c]

\* Entries agree with the rows they came from, a thread that is about to mark its
\* command has seen it in the ledger, and so has every row that is APPLIED.
DurableInv ==
  /\ ConfigTypeOK
  /\ \A i \in 1..Len(configs) : configs[i].command # Local =>
       /\ configs[i].command \in Commands
       /\ configs[i].version = inbox[configs[i].command].version
  /\ \A t \in Thread : thread[t].step = "mark" => Holds(Current(t))
  /\ \A c \in Commands : inbox[c].state = "APPLIED" => Holds(c)

LEMMA DurableInit == Init => DurableInv
<1> SUFFICES ASSUME Init PROVE DurableInv
  OBVIOUS
<1>1. ConfigTypeOK
  BY ConfigTypeInit
<1>2. Len(configs) = 0
  BY DEF Init
<1>3. \A t \in Thread : thread[t].step = "idle"
  BY DEF Init, Idle
<1>4. \A c \in Commands : inbox[c].state # "APPLIED"
  <2>1. CASE inbox = <<>>
    BY <2>1 DEF Commands
  <2>2. CASE inbox = <<LegacyRow>>
    <3>1. Len(inbox) = 1 /\ inbox[1] = LegacyRow
      BY <2>2
    <3>2. QED BY <3>1 DEF Commands, LegacyRow
  <2>3. QED BY <2>1, <2>2 DEF Init
<1>5. QED BY <1>1, <1>2, <1>3, <1>4 DEF DurableInv

\* Rows keep their version and entries stay where they are.
Kept ==
  /\ Commands \subseteq Commands'
  /\ \A c \in Commands : inbox'[c].version = inbox[c].version
                      /\ inbox'[c].expected = inbox[c].expected
  /\ Len(configs) \in Nat /\ Len(configs') \in Nat /\ Len(configs) <= Len(configs')
  /\ \A i \in 1..Len(configs) : configs'[i] = configs[i]

LEMMA HoldsKept ==
  ASSUME Kept, NEW c \in Commands, Holds(c)
  PROVE  Holds(c)'
<1>1. PICK i \in 1..Len(configs) :
        configs[i] = [version |-> inbox[c].version, command |-> c]
  BY DEF Holds
<1>2. i \in 1..Len(configs') /\ configs'[i] = configs[i]
  BY DEF Kept
<1>3. QED BY <1>1, <1>2 DEF Kept, Holds

\* Steps of the ledger and the coordinator only add rows and entries.
LEMMA KeptNext == ConfigTypeOK /\ [Next]_vars => Kept
<1> SUFFICES ASSUME ConfigTypeOK, [Next]_vars PROVE Kept
  OBVIOUS
<1>0. inbox \in Seq(RowType) /\ configs \in Seq(Entry)
  BY DEF ConfigTypeOK, Entry
<1>1. Len(configs) \in Nat /\ Len(inbox) \in Nat
  BY <1>0, LenProperties
<1>2. CASE UNCHANGED <<inbox, configs>>
  BY <1>1, <1>2 DEF Kept, Commands
<1>3. ASSUME NEW e \in 0..MaxVersion, NEW v \in 1..MaxVersion, NEW late \in BOOLEAN,
             Receive(e, v, late)
      PROVE  Kept
  <2>1. Len(inbox') = Len(inbox) + 1 /\ \A d \in Commands : inbox'[d] = inbox[d]
    BY <1>3, ReceiveStep
  <2>2. UNCHANGED configs
    BY <1>3 DEF Receive
  <2>3. QED BY <1>1, <2>1, <2>2 DEF Kept, Commands
<1>4. ASSUME NEW x \in Entry, configs' = Append(configs, x), UNCHANGED inbox PROVE Kept
  <2>1. /\ Len(configs') = Len(configs) + 1
        /\ \A i \in 1..Len(configs) : configs'[i] = configs[i]
    BY <1>0, <1>4, EntryStep
  <2>2. QED BY <1>1, <1>4, <2>1 DEF Kept, Commands
<1>5. ASSUME NEW v \in 1..MaxVersion, ApplyLocal(v) PROVE Kept
  <2>1. [version |-> v, command |-> Local] \in Entry
    BY DEF Entry, Local
  <2>2. QED BY <1>4, <1>5, <2>1 DEF ApplyLocal
<1>6. ASSUME NEW t \in Thread, ApplyToLedger(t) PROVE Kept
  <2> DEFINE new == [version |-> inbox[Current(t)].version, command |-> Current(t)]
  <2>1. UNCHANGED inbox /\ new \in Entry
    BY <1>6, LedgerStep
  <2>2. configs' = configs \/ configs' = Append(configs, new)
    BY <1>6 DEF ApplyToLedger
  <2> HIDE DEF new
  <2>3. QED BY <1>2, <1>4, <2>1, <2>2
<1>7. ASSUME NEW t \in Thread, Gate(t) \/ Begin(t) \/ MarkApplied(t) \/ BlockApply(t) PROVE Kept
  <2>1. /\ UNCHANGED configs /\ Len(inbox') = Len(inbox)
        /\ \A d \in Commands : inbox'[d].version = inbox[d].version
                             /\ inbox'[d].expected = inbox[d].expected
    BY <1>7, InboxStep
  <2>2. QED BY <1>1, <2>1 DEF Kept, Commands
<1>8. QED
  BY <1>2, <1>3, <1>5, <1>6, <1>7
     DEF Next, vars, Apply, ResumeApplying, ResumePending, Start, Approve, Crash, Retire,
         Fault, Stop

\* New entries belong to the command of the thread that made them.
LEMMA EntriesNext ==
  ASSUME DurableInv, [Next]_vars
  PROVE  \A i \in 1..Len(configs') : configs'[i].command # Local =>
           /\ configs'[i].command \in Commands'
           /\ configs'[i].version = inbox'[configs'[i].command].version
<1>0. Kept /\ configs \in Seq(Entry) /\ ConfigTypeOK
  BY KeptNext DEF DurableInv, ConfigTypeOK, Entry
<1> DEFINE Agrees(i) == configs'[i].command # Local =>
             /\ configs'[i].command \in Commands'
             /\ configs'[i].version = inbox'[configs'[i].command].version
<1>1. \A i \in 1..Len(configs) : Agrees(i)
  BY <1>0 DEF DurableInv, Kept
<1>2. CASE UNCHANGED configs
  BY <1>1, <1>2
<1>3. ASSUME NEW v \in 1..MaxVersion, ApplyLocal(v)
      PROVE  \A i \in 1..Len(configs') : Agrees(i)
  <2> DEFINE new == [version |-> v, command |-> Local]
  <2>1. new \in Entry /\ new.command = Local
    BY DEF Entry, Local
  <2>2. configs' = Append(configs, new)
    BY <1>3 DEF ApplyLocal
  <2> HIDE DEF new
  <2>3. /\ configs'[Len(configs) + 1] = new
        /\ \A i \in 1..Len(configs') : i \in 1..Len(configs) \/ i = Len(configs) + 1
    BY <1>0, <2>1, <2>2, EntryStep
  <2>4. QED BY <1>1, <2>1, <2>3
<1>4. ASSUME NEW t \in Thread, ApplyToLedger(t)
      PROVE  \A i \in 1..Len(configs') : Agrees(i)
  <2> DEFINE new == [version |-> inbox[Current(t)].version, command |-> Current(t)]
  <2>1. UNCHANGED inbox /\ new \in Entry /\ Current(t) \in Commands
    BY <1>0, <1>4, LedgerStep
  <2>2. configs' = configs \/ configs' = Append(configs, new)
    BY <1>4 DEF ApplyToLedger
  <2>3. new.command = Current(t) /\ new.version = inbox[Current(t)].version
    OBVIOUS
  <2> HIDE DEF new
  <2>4. CASE configs' = Append(configs, new)
    <3>1. /\ configs'[Len(configs) + 1] = new
          /\ \A i \in 1..Len(configs') : i \in 1..Len(configs) \/ i = Len(configs) + 1
      BY <1>0, <2>1, <2>4, EntryStep
    <3>2. QED BY <1>1, <2>1, <2>3, <3>1 DEF Commands
  <2>5. QED BY <1>2, <2>2, <2>4
<1>5. QED
  BY <1>2, <1>3, <1>4
     DEF Next, vars, Receive, Apply, ResumeApplying, ResumePending, Start, Gate, Begin,
         MarkApplied, BlockApply, Approve, Crash, Retire, Fault, Stop

\* A thread about to mark is one that was, or one the ledger just answered.
LEMMA MarkOrigin ==
  ASSUME ConfigTypeOK, [Next]_vars, NEW u \in Thread, thread'[u].step = "mark"
  PROVE  /\ thread'[u].queue = thread[u].queue
         /\ thread[u].step = "mark" \/ ApplyToLedger(u)
<1>0. thread \in [Thread -> ThreadType]
  BY DEF ConfigTypeOK
<1>1. CASE UNCHANGED thread
  BY <1>1
<1>2. ASSUME NEW t \in Thread, Return(t) \/ Raise(t) PROVE thread'[u] = thread[u]
  <2>1. Idle.step = "idle"
    BY DEF Idle
  <2>2. CASE Raise(t)
    BY <1>0, <2>1, <2>2 DEF Raise
  <2>3. CASE Return(t)
    <3> DEFINE rest == thread[t].queue \ {Current(t)}
               next == [thread[t] EXCEPT !.step = "gate", !.queue = rest]
    <3>1. next.step = "gate"
      BY <1>0 DEF ThreadType
    <3>2. thread' = [thread EXCEPT ![t] = IF rest = {} THEN Idle ELSE next]
      BY <2>3 DEF Return
    <3> HIDE DEF rest, next
    <3>3. QED BY <1>0, <2>1, <3>1, <3>2
  <2>4. QED BY <1>2, <2>2, <2>3
<1>3. ASSUME NEW t \in Thread, NEW step, Enter(t, step)
      PROVE  thread'[u].queue = thread[u].queue /\ (u # t => thread'[u] = thread[u])
  BY <1>0, <1>3 DEF Enter, ThreadType
<1>4. ASSUME NEW t \in Thread, NEW step, Enter(t, step), step # "mark"
      PROVE  thread'[u] = thread[u]
  BY <1>0, <1>4 DEF Enter, ThreadType
<1>5. ASSUME NEW t \in Thread, Gate(t) \/ Begin(t) PROVE thread'[u] = thread[u]
  BY <1>2, <1>4, <1>5 DEF Gate, Begin
<1>6. ASSUME NEW t \in Thread, MarkApplied(t) \/ BlockApply(t) \/ Fault(t)
      PROVE  thread'[u] = thread[u]
  BY <1>2, <1>6 DEF MarkApplied, BlockApply, Fault
<1>7. ASSUME NEW t \in Thread, ApplyToLedger(t)
      PROVE  thread'[u].queue = thread[u].queue /\ (u = t \/ thread'[u] = thread[u])
  BY <1>3, <1>7 DEF ApplyToLedger
<1>8. ASSUME NEW t \in Thread, NEW queue, NEW retry, Start(t, queue, retry)
      PROVE  thread'[u] = thread[u]
  BY <1>0, <1>8 DEF Start
<1>9. CASE Crash
  BY <1>9 DEF Crash, Idle
<1>10. CASE Retire
  <2>1. Idle.step = "idle"
    BY DEF Idle
  <2>2. thread'[u] = [thread[u] EXCEPT !.holds = FALSE]
    BY <1>10, <2>1 DEF Retire
  <2>3. thread[u] \in ThreadType
    BY <1>0
  <2>4. thread'[u].queue = thread[u].queue /\ thread'[u].step = thread[u].step
    BY <2>2, <2>3 DEF ThreadType
  <2>5. QED BY <2>4
<1>11. QED
  BY <1>1, <1>5, <1>6, <1>7, <1>8, <1>9, <1>10
     DEF Next, vars, Receive, ApplyLocal, Apply, ResumeApplying, ResumePending, Approve

\* After the ledger answered a thread, it holds the thread's command.
LEMMA LedgerHolds ==
  ASSUME DurableInv, NEW t \in Thread, ApplyToLedger(t), thread'[t].step = "mark"
  PROVE  \E i \in 1..Len(configs') :
           configs'[i] = [version |-> inbox[Current(t)].version, command |-> Current(t)]
<1> DEFINE c == Current(t)
           new == [version |-> inbox[c].version, command |-> c]
<1>0. ConfigTypeOK /\ configs \in Seq(Entry) /\ thread \in [Thread -> ThreadType]
  BY DEF DurableInv, ConfigTypeOK, Entry
<1>1. c \in Commands /\ new \in Entry
  BY <1>0, LedgerStep
<1>2. \/ Existing(c) /\ UNCHANGED configs
      \/ configs' = Append(configs, new)
  <2>1. ASSUME NEW step \in {Stale, NotOwned}, Enter(t, step) PROVE FALSE
    BY <1>0, <2>1 DEF Enter, ThreadType, Stale, NotOwned
  <2>2. QED BY <2>1 DEF ApplyToLedger
<1>3. CASE Existing(c) /\ UNCHANGED configs
  <2>1. PICK i \in 1..Len(configs) : configs[i].command = c
    BY <1>3 DEF Existing, InLedger
  <2>2. c # Local
    BY <1>1 DEF Commands, Local
  <2>3. configs[i].version = inbox[c].version
    BY <2>1, <2>2 DEF DurableInv
  <2>4. configs[i] \in Entry
    BY <1>0, ElementOfSeq
  <2>5. configs[i] = [version |-> configs[i].version, command |-> configs[i].command]
    BY <2>4 DEF Entry
  <2>6. QED BY <1>3, <2>1, <2>3, <2>5
<1>4. CASE configs' = Append(configs, new)
  <2> HIDE DEF new
  <2>1. Len(configs') = Len(configs) + 1 /\ configs'[Len(configs) + 1] = new
    BY <1>0, <1>1, <1>4, EntryStep
  <2>2. Len(configs) + 1 \in 1..Len(configs')
    BY <1>0, <2>1, LenProperties
  <2>3. QED BY <2>1, <2>2 DEF new
<1>5. QED BY <1>2, <1>3, <1>4

LEMMA DurableNext == DurableInv /\ [Next]_vars => DurableInv'
<1> SUFFICES ASSUME DurableInv, [Next]_vars PROVE DurableInv'
  OBVIOUS
<1>0. ConfigTypeOK /\ ConfigTypeOK' /\ Kept
  BY ConfigTypeNext, KeptNext DEF DurableInv
<1>1. \A i \in 1..Len(configs') : configs'[i].command # Local =>
        /\ configs'[i].command \in Commands'
        /\ configs'[i].version = inbox'[configs'[i].command].version
  BY EntriesNext
<1>2. ASSUME NEW u \in Thread, thread'[u].step = "mark" PROVE Holds(Current(u))'
  <2>1. /\ thread'[u].queue = thread[u].queue
        /\ thread[u].step = "mark" \/ ApplyToLedger(u)
    BY <1>0, <1>2, MarkOrigin
  <2>2. Current(u)' = Current(u)
    BY <2>1 DEF Current
  <2>3. CASE thread[u].step = "mark"
    <3>1. Current(u) \in Commands /\ Holds(Current(u))
      BY <1>0, <2>3, CurrentInQueue DEF DurableInv
    <3>2. QED BY <1>0, <2>2, <3>1, HoldsKept
  <2>4. CASE ApplyToLedger(u)
    <3>1. \E i \in 1..Len(configs') :
            configs'[i] = [version |-> inbox[Current(u)].version, command |-> Current(u)]
      BY <1>2, <2>4, LedgerHolds
    <3>2. UNCHANGED inbox
      BY <2>4 DEF ApplyToLedger
    <3>3. QED BY <2>2, <3>1, <3>2 DEF Holds
  <2>5. QED BY <2>1, <2>3, <2>4
<1>3. ASSUME NEW c \in Commands', inbox'[c].state = "APPLIED" PROVE Holds(c)'
  <2>1. CASE c \in Commands /\ inbox[c].state = "APPLIED"
    BY <1>0, <2>1, HoldsKept DEF DurableInv
  <2>2. CASE UNCHANGED inbox
    BY <1>0, <1>3, <2>2, HoldsKept DEF DurableInv, Commands
  <2>3. ASSUME NEW e \in 0..MaxVersion, NEW v \in 1..MaxVersion, NEW late \in BOOLEAN,
               Receive(e, v, late)
        PROVE  Holds(c)'
    <3>1. /\ Len(inbox') = Len(inbox) + 1
          /\ \A d \in Commands : inbox'[d] = inbox[d]
          /\ inbox'[Len(inbox) + 1].state = "NOT_APPLIED"
      BY <1>0, <2>3, ReceiveStep
    <3>2. Len(inbox) \in Nat
      BY <1>0, LenProperties DEF ConfigTypeOK
    <3>3. c \in Commands
      BY <1>3, <3>1, <3>2 DEF Commands
    <3>4. QED BY <1>3, <2>1, <3>1, <3>3
  <2>4. ASSUME NEW t \in Thread, Gate(t) \/ Begin(t) \/ MarkApplied(t) \/ BlockApply(t)
        PROVE  Holds(c)'
    <3>1. /\ Len(inbox') = Len(inbox)
          /\ inbox'[c].state = "APPLIED" /\ inbox[c].state # "APPLIED" =>
               thread[t].step = "mark" /\ c = Current(t)
      <4>1. Len(inbox') = Len(inbox)
        BY <1>0, <2>4, InboxStep
      <4>2. c \in Commands
        BY <1>3, <4>1 DEF Commands
      <4>3. QED BY <1>0, <2>4, <4>1, <4>2, InboxStep
    <3>2. c \in Commands
      BY <1>3, <3>1 DEF Commands
    <3>3. CASE inbox[c].state # "APPLIED"
      BY <1>0, <1>3, <3>1, <3>2, <3>3, HoldsKept DEF DurableInv
    <3>4. QED BY <2>1, <3>2, <3>3
  <2>5. QED
    BY <2>2, <2>3, <2>4
       DEF Next, vars, ApplyLocal, Apply, ResumeApplying, ResumePending, Start,
           ApplyToLedger, Approve, Crash, Retire, Fault, Stop
<1>4. QED BY <1>0, <1>1, <1>2, <1>3 DEF DurableInv

\* APPLIED in the inbox means that the ledger durably holds the command under
\* that version, for any number of threads, commands, crashes, retired sessions
\* and failed transactions between the two databases.
THEOREM AppliedDurably == Spec => []AppliedIsDurable
<1>1. DurableInv => AppliedIsDurable
  <2> SUFFICES ASSUME DurableInv, NEW c \in Commands, inbox[c].state = "APPLIED"
               PROVE  \E i \in 1..Len(configs) :
                        configs[i] = [version |-> inbox[c].applied, command |-> c]
    BY DEF AppliedIsDurable
  <2>1. inbox[c].applied = inbox[c].version
    BY DEF DurableInv, ConfigTypeOK
  <2>2. QED BY <2>1 DEF DurableInv, Holds
<1>2. QED BY <1>1, DurableInit, DurableNext, PTL DEF Spec

-----------------------------------------------------------------------------
(* The ledger's versions advance *)

\* An entry that may follow the ledger's last one.
Follows(x) ==
  /\ Configured => x.version > configs[Len(configs)].version
  /\ x.command # Local => ~InLedger(x.command)
  /\ x.command # Local /\ Configured =>
       inbox[x.command].expected = configs[Len(configs)].version

\* Steps that leave the ledger alone keep what its entries say about the rows.
LEMMA AdvanceKept ==
  ASSUME DurableInv, VersionsAdvance, Kept, UNCHANGED configs
  PROVE  VersionsAdvance'
<1> SUFFICES ASSUME NEW i \in 1..Len(configs), NEW j \in 1..Len(configs), i < j
             PROVE  /\ configs[i].version < configs[j].version
                    /\ configs[i].command = configs[j].command => configs[i].command = Local
                    /\ j = i + 1 /\ configs[j].command # Local =>
                         inbox'[configs[j].command].expected = configs[i].version
  BY DEF VersionsAdvance
<1>1. configs[j].command # Local => configs[j].command \in Commands
  BY DEF DurableInv
<1>2. QED BY <1>1 DEF VersionsAdvance, Kept

\* One more entry that follows the last keeps the order of all.
LEMMA AdvanceAppend ==
  ASSUME DurableInv, VersionsAdvance, NEW x \in Entry, Follows(x),
         configs' = Append(configs, x), UNCHANGED inbox
  PROVE  VersionsAdvance'
<1> DEFINE n == Len(configs)
<1>0. configs \in Seq(Entry)
  BY DEF DurableInv, ConfigTypeOK, Entry
<1>1. /\ Len(configs') = n + 1 /\ n \in Nat
      /\ \A i \in 1..n : configs'[i] = configs[i]
      /\ configs'[n + 1] = x
  BY <1>0, EntryStep, LenProperties
<1>2. \A i \in 1..n : configs[i].version \in Nat
  <2>1. \A i \in 1..n : configs[i] \in Entry
    BY <1>0, ElementOfSeq
  <2>2. QED BY <2>1 DEF Entry
<1>3. x.version \in Nat
  BY DEF Entry
<1>4. ASSUME NEW i \in 1..n
      PROVE  /\ configs[i].version < x.version
             /\ configs[i].command = x.command => configs[i].command = Local
             /\ n = i /\ x.command # Local =>
                  inbox[x.command].expected = configs[i].version
  <2>1. n \in 1..n /\ Configured
    BY <1>0, <1>1 DEF Configured
  <2>2. x.version > configs[n].version
    BY <2>1 DEF Follows
  <2>3. configs[i].version <= configs[n].version
    BY <1>1, <1>2, <2>1 DEF VersionsAdvance
  <2>4. configs[i].version < x.version
    BY <1>2, <1>3, <2>1, <2>2, <2>3
  <2>5. QED BY <2>1, <2>4 DEF Follows, InLedger
<1> HIDE DEF n
<1>5. SUFFICES ASSUME NEW i \in 1..(n + 1), NEW j \in 1..(n + 1), i < j
               PROVE  /\ configs'[i].version < configs'[j].version
                      /\ configs'[i].command = configs'[j].command =>
                           configs'[i].command = Local
                      /\ j = i + 1 /\ configs'[j].command # Local =>
                           inbox[configs'[j].command].expected = configs'[i].version
  BY <1>1 DEF VersionsAdvance
<1>6. i \in 1..n /\ (j \in 1..n \/ j = n + 1)
  BY <1>1, <1>5
<1>7. CASE j \in 1..n
  BY <1>1, <1>5, <1>6, <1>7 DEF VersionsAdvance, n
<1>8. CASE j = n + 1
  <2>1. j = i + 1 => n = i
    BY <1>1, <1>6, <1>8
  <2>2. QED BY <1>1, <1>4, <1>6, <1>8, <2>1
<1>9. QED BY <1>6, <1>7, <1>8

LEMMA AdvanceNext == DurableInv /\ VersionsAdvance /\ [Next]_vars => VersionsAdvance'
<1> SUFFICES ASSUME DurableInv, VersionsAdvance, [Next]_vars PROVE VersionsAdvance'
  OBVIOUS
<1>0. ConfigTypeOK /\ Kept
  BY KeptNext DEF DurableInv
<1>1. CASE UNCHANGED configs
  BY <1>0, <1>1, AdvanceKept
<1>2. ASSUME NEW v \in 1..MaxVersion, ApplyLocal(v) PROVE VersionsAdvance'
  <2> DEFINE new == [version |-> v, command |-> Local]
  <2>1. new \in Entry
    BY DEF Entry, Local
  <2>2. Follows(new)
    BY <1>2 DEF ApplyLocal, Follows, AppliedVersion
  <2>3. configs' = Append(configs, new) /\ UNCHANGED inbox
    BY <1>2 DEF ApplyLocal
  <2> HIDE DEF new
  <2>4. QED BY <2>1, <2>2, <2>3, AdvanceAppend
<1>3. ASSUME NEW t \in Thread, ApplyToLedger(t) PROVE VersionsAdvance'
  <2> DEFINE c == Current(t)
             new == [version |-> inbox[c].version, command |-> c]
  <2>1. UNCHANGED inbox /\ new \in Entry
    BY <1>0, <1>3, LedgerStep
  <2>2. \/ UNCHANGED configs
        \/ configs' = Append(configs, new) /\ ~Existing(c) /\ Applicable(inbox[c])
    BY <1>3 DEF ApplyToLedger
  <2>3. CASE configs' = Append(configs, new) /\ ~Existing(c) /\ Applicable(inbox[c])
    <3>1. Follows(new)
      BY <2>3 DEF Follows, Existing, Applicable, AppliedVersion
    <3> HIDE DEF new
    <3>2. QED BY <2>1, <2>3, <3>1, AdvanceAppend
  <2>4. QED BY <1>1, <2>2, <2>3
<1>4. QED
  BY <1>1, <1>2, <1>3
     DEF Next, vars, Receive, Apply, ResumeApplying, ResumePending, Start, Gate, Begin,
         MarkApplied, BlockApply, Approve, Crash, Retire, Fault, Stop

\* The ledger's versions strictly grow, each desired setting follows the version
\* it was written for and no command is applied twice, for any number of threads
\* inside the coordinator, crashes and resumed loops.
THEOREM VersionsOnlyAdvance == Spec => []VersionsAdvance
<1>1. Init => VersionsAdvance
  BY DEF Init, VersionsAdvance
<1>2. DurableInv /\ VersionsAdvance /\ [Next]_vars => DurableInv' /\ VersionsAdvance'
  BY DurableNext, AdvanceNext
<1>3. QED BY <1>1, <1>2, DurableInit, PTL DEF Spec

-----------------------------------------------------------------------------
(* Only what an authenticated sender had accepted reaches the ledger *)

AuthenticRow(row) ==
  row.decision = "ACCEPTED" /\ row.reason # Legacy /\ row.accepted # 0

Authentic(c) == AuthenticRow(inbox[c])

\* An accepted row is authentic, or one the migration isolated and nothing reopens.
RowsAuthentic ==
  \A c \in Commands : inbox[c].decision = "ACCEPTED" =>
    \/ Authentic(c)
    \/ inbox[c].state = "APPLY_BLOCKED" /\ inbox[c].reason = Legacy

AuthInv ==
  /\ DurableInv
  /\ RowsAuthentic
  /\ \A t \in Thread : thread[t].step = "ledger" => Authentic(Current(t))
  /\ AuthenticatedOnly

LEMMA AuthInit == Init => AuthInv
<1> SUFFICES ASSUME Init PROVE AuthInv
  OBVIOUS
<1>1. RowsAuthentic
  <2>1. CASE inbox = <<>>
    BY <2>1 DEF RowsAuthentic, AuthenticRow, Commands
  <2>2. CASE inbox = <<LegacyRow>>
    <3>1. Len(inbox) = 1 /\ inbox[1] = LegacyRow
      BY <2>2
    <3>2. LegacyRow.state = "APPLY_BLOCKED" /\ LegacyRow.reason = Legacy
      BY DEF LegacyRow
    <3>3. QED BY <3>1, <3>2 DEF RowsAuthentic, AuthenticRow, Commands
  <2>3. QED BY <2>1, <2>2 DEF Init
<1>2. \A t \in Thread : thread[t].step = "idle"
  BY DEF Init, Idle
<1>3. Len(configs) = 0
  BY DEF Init
<1>4. QED BY <1>1, <1>2, <1>3, DurableInit DEF AuthInv, AuthenticatedOnly

\* What the coordinator writes to a row that is authentic, if it was accepted, leaves
\* it so.
LEMMA AuthRow ==
  ASSUME ConfigTypeOK, RowsAuthentic, NEW c \in Commands, NEW state, NEW reason, NEW applied,
         SetRow(c, state, reason, applied), reason # Legacy,
         inbox[c].decision = "ACCEPTED" => Authentic(c)
  PROVE  /\ RowsAuthentic'
         /\ \A d \in Commands : Authentic(d) => Authentic(d)'
<1> DEFINE row == [inbox[c] EXCEPT !.state = state, !.reason = reason, !.applied = applied]
<1>0. inbox \in Seq(RowType) /\ Len(inbox) \in Nat
  BY LenProperties DEF ConfigTypeOK
<1>1. inbox[c] \in RowType
  BY <1>0, ElementOfSeq DEF Commands
<1>2. inbox' = [inbox EXCEPT ![c] = row]
  BY DEF SetRow
<1>3. /\ row.reason = reason /\ row.state = state
      /\ row.decision = inbox[c].decision /\ row.accepted = inbox[c].accepted
  BY <1>1 DEF RowType
<1> HIDE DEF row
<1>5. /\ Len(inbox') = Len(inbox)
      /\ inbox'[c] = row
      /\ \A d \in Commands : d # c => inbox'[d] = inbox[d]
  <2>1. inbox \in Seq(RowType \cup {row})
    BY <1>0, SeqMonotonic
  <2>2. QED BY <1>2, <2>1, ExceptSeq DEF Commands
<1>6. Commands' = Commands
  BY <1>5 DEF Commands
<1>7. \A d \in Commands : Authentic(d) => Authentic(d)'
  BY <1>3, <1>5 DEF Authentic, AuthenticRow
<1>8. ASSUME NEW d \in Commands, inbox'[d].decision = "ACCEPTED"
      PROVE  \/ Authentic(d)'
             \/ inbox'[d].state = "APPLY_BLOCKED" /\ inbox'[d].reason = Legacy
  <2>1. CASE d = c
    BY <1>3, <1>5, <1>7, <1>8, <2>1
  <2>2. CASE d # c
    BY <1>5, <1>7, <1>8, <2>2 DEF RowsAuthentic
  <2>3. QED BY <2>1, <2>2
<1>9. RowsAuthentic'
  BY <1>6, <1>8 DEF RowsAuthentic
<1>10. QED BY <1>7, <1>9

\* begin_apply passes a command on only when it is authentic.
LEMMA BeginAuthentic ==
  ASSUME ConfigTypeOK, RowsAuthentic, NEW t \in Thread, Begin(t), thread'[t].step = "ledger"
  PROVE  Authentic(Current(t))
<1> DEFINE c == Current(t)
<1>0. thread \in [Thread -> ThreadType] /\ thread[t].step # "idle"
  BY DEF ConfigTypeOK, Begin
<1>1. c \in Commands
  BY <1>0, CurrentInQueue
<1>2. ASSUME Raise(t) PROVE FALSE
  <2>1. thread'[t] = Idle
    BY <1>0, <1>2 DEF Raise
  <2>2. QED BY <2>1 DEF Idle
<1>3. ASSUME Return(t) PROVE FALSE
  <2> DEFINE rest == thread[t].queue \ {c}
             next == [thread[t] EXCEPT !.step = "gate", !.queue = rest]
  <2>1. next.step = "gate" /\ Idle.step = "idle"
    BY <1>0 DEF ThreadType, Idle
  <2>2. thread' = [thread EXCEPT ![t] = IF rest = {} THEN Idle ELSE next]
    BY <1>3 DEF Return
  <2> HIDE DEF rest, next
  <2>3. QED BY <1>0, <2>1, <2>2
<1> HIDE DEF c
<1>4. /\ inbox[c].decision = "ACCEPTED"
      /\ Reopens(inbox[c], thread[t].retry) \/ inbox[c].state = "APPLYING"
  BY <1>2, <1>3 DEF Begin, c
<1>5. ~(inbox[c].state = "APPLY_BLOCKED" /\ inbox[c].reason = Legacy)
  BY <1>4 DEF Reopens
<1>6. QED BY <1>1, <1>4, <1>5 DEF RowsAuthentic, c

\* Rows stay authentic, and what arrives or is written is.
LEMMA AuthRowsNext ==
  ASSUME ConfigTypeOK, RowsAuthentic, [Next]_vars
  PROVE  /\ RowsAuthentic'
         /\ \A d \in Commands : Authentic(d) => Authentic(d)'
<1> DEFINE Goal == /\ RowsAuthentic'
                   /\ \A d \in Commands : Authentic(d) => Authentic(d)'
<1>0. RowsOK
  BY DEF ConfigTypeOK, RowsOK
<1>1. ASSUME UNCHANGED inbox PROVE Goal
  BY <1>1 DEF RowsAuthentic, Authentic, AuthenticRow, Commands
<1>2. ASSUME NEW e \in 0..MaxVersion, NEW v \in 1..MaxVersion, NEW late \in BOOLEAN,
             Receive(e, v, late)
      PROVE  Goal
  <2> DEFINE row == Row(Decision(e, v, late), e, v)
  <2>1. row.decision = "ACCEPTED" => row.accepted # 0
    BY DEF Row
  <2>2. row.reason # Legacy
    BY DEF Row, None, Legacy
  <2>3. row \in RowType
    <3>1. Decision(e, v, late) \in {"ACCEPTED", "REJECTED"}
      BY DEF Decision
    <3>2. QED BY <3>1, ConfigBoundAssumption DEF Row, RowType
  <2>4. inbox' = Append(inbox, row)
    BY <1>2 DEF Receive
  <2> HIDE DEF row
  <2>5. /\ Len(inbox') = Len(inbox) + 1 /\ Len(inbox) \in Nat
        /\ \A d \in Commands : inbox'[d] = inbox[d]
        /\ inbox'[Len(inbox) + 1] = row
    BY <2>3, <2>4, AppendProperties, LenProperties DEF ConfigTypeOK, Commands
  <2>6. \A d \in Commands' : d \in Commands \/ d = Len(inbox) + 1
    BY <2>5 DEF Commands
  <2>7. \A d \in Commands : Authentic(d) => Authentic(d)'
    BY <2>5 DEF Authentic, AuthenticRow
  <2>8. ASSUME NEW d \in Commands', inbox'[d].decision = "ACCEPTED"
        PROVE  \/ Authentic(d)'
               \/ inbox'[d].state = "APPLY_BLOCKED" /\ inbox'[d].reason = Legacy
    <3>1. CASE d \in Commands
      BY <2>5, <2>7, <2>8, <3>1 DEF RowsAuthentic
    <3>2. CASE d = Len(inbox) + 1
      BY <2>1, <2>2, <2>5, <2>8, <3>2 DEF Authentic, AuthenticRow
    <3>3. QED BY <2>6, <3>1, <3>2
  <2>9. RowsAuthentic'
    BY <2>8 DEF RowsAuthentic
  <2>10. QED BY <2>7, <2>9
<1>3. ASSUME NEW t \in Thread, Begin(t) PROVE Goal
  <2> DEFINE c == Current(t)
  <2>1. c \in Commands
    BY <1>3, CurrentInQueue DEF Begin
  <2> HIDE DEF c
  <2>2. CASE /\ inbox[c].decision = "ACCEPTED" /\ Reopens(inbox[c], thread[t].retry)
             /\ SetRow(c, "APPLYING", None, inbox[c].applied)
    <3>1. Authentic(c)
      BY <2>1, <2>2 DEF RowsAuthentic, Reopens
    <3>2. None # Legacy
      BY DEF None, Legacy
    <3>3. QED BY <2>1, <2>2, <3>1, <3>2, AuthRow
  <2>3. QED BY <1>1, <1>3, <2>2 DEF Begin, c
<1>4. ASSUME NEW t \in Thread, MarkApplied(t) \/ BlockApply(t) PROVE Goal
  <2> DEFINE c == Current(t)
  <2>1. c \in Commands
    BY <1>4, CurrentInQueue DEF MarkApplied, BlockApply, Stale, NotOwned
  <2> HIDE DEF c
  <2>2. ASSUME NEW state, NEW reason, NEW applied, inbox[c].state = "APPLYING",
               reason \in {None, Stale, NotOwned}, SetRow(c, state, reason, applied)
        PROVE  Goal
    <3>1. inbox[c].decision = "ACCEPTED" => Authentic(c)
      BY <2>1, <2>2 DEF RowsAuthentic
    <3>2. reason # Legacy
      BY <2>2 DEF None, Legacy, Stale, NotOwned
    <3>3. QED BY <2>1, <2>2, <3>1, <3>2, AuthRow
  <2>3. CASE MarkApplied(t)
    BY <1>1, <2>2, <2>3 DEF MarkApplied, c
  <2>4. CASE BlockApply(t)
    BY <1>1, <2>2, <2>4 DEF BlockApply, c
  <2>5. QED BY <1>4, <2>3, <2>4
<1> HIDE DEF Goal
<1>5. Goal
  BY <1>1, <1>2, <1>3, <1>4
     DEF Next, vars, ApplyLocal, Apply, ResumeApplying, ResumePending, Start, Gate,
         ApplyToLedger, Approve, Crash, Retire, Fault, Stop
<1>6. QED BY <1>5 DEF Goal

\* A thread about to ask the ledger is one that was, or one that just began.
LEMMA LedgerOrigin ==
  ASSUME ConfigTypeOK, [Next]_vars, NEW u \in Thread, thread'[u].step = "ledger"
  PROVE  /\ thread'[u].queue = thread[u].queue
         /\ thread[u].step = "ledger" \/ Begin(u)
<1>0. thread \in [Thread -> ThreadType]
  BY DEF ConfigTypeOK
<1>1. CASE UNCHANGED thread
  BY <1>1
<1>2. ASSUME NEW t \in Thread, Return(t) \/ Raise(t) PROVE thread'[u] = thread[u]
  <2>1. Idle.step = "idle"
    BY DEF Idle
  <2>2. CASE Raise(t)
    BY <1>0, <2>1, <2>2 DEF Raise
  <2>3. CASE Return(t)
    <3> DEFINE rest == thread[t].queue \ {Current(t)}
               next == [thread[t] EXCEPT !.step = "gate", !.queue = rest]
    <3>1. next.step = "gate"
      BY <1>0 DEF ThreadType
    <3>2. thread' = [thread EXCEPT ![t] = IF rest = {} THEN Idle ELSE next]
      BY <2>3 DEF Return
    <3> HIDE DEF rest, next
    <3>3. QED BY <1>0, <2>1, <3>1, <3>2
  <2>4. QED BY <1>2, <2>2, <2>3
<1>3. ASSUME NEW t \in Thread, NEW step, Enter(t, step)
      PROVE  thread'[u].queue = thread[u].queue /\ (u # t => thread'[u] = thread[u])
  BY <1>0, <1>3 DEF Enter, ThreadType
<1>4. ASSUME NEW t \in Thread, NEW step, Enter(t, step), step # "ledger"
      PROVE  thread'[u] = thread[u]
  BY <1>0, <1>4 DEF Enter, ThreadType
<1>5. ASSUME NEW t \in Thread, Begin(t)
      PROVE  thread'[u].queue = thread[u].queue /\ (u = t \/ thread'[u] = thread[u])
  <2>1. CASE Return(t) \/ Raise(t)
    BY <1>2, <2>1
  <2>2. CASE Enter(t, "ledger")
    BY <1>3, <2>2
  <2>3. QED BY <1>5, <2>1, <2>2 DEF Begin
<1>6. ASSUME NEW t \in Thread,
             Gate(t) \/ ApplyToLedger(t) \/ MarkApplied(t) \/ BlockApply(t) \/ Fault(t)
      PROVE  thread'[u] = thread[u]
  <2>1. Stale # "ledger" /\ NotOwned # "ledger"
    BY DEF Stale, NotOwned
  <2>2. CASE Gate(t)
    BY <1>2, <1>4, <2>2 DEF Gate
  <2>3. CASE ApplyToLedger(t)
    BY <1>4, <2>1, <2>3 DEF ApplyToLedger
  <2>4. CASE MarkApplied(t) \/ BlockApply(t) \/ Fault(t)
    BY <1>2, <2>4 DEF MarkApplied, BlockApply, Fault
  <2>5. QED BY <1>6, <2>2, <2>3, <2>4
<1>7. ASSUME NEW t \in Thread, NEW queue, NEW retry, Start(t, queue, retry)
      PROVE  thread'[u] = thread[u]
  BY <1>0, <1>7 DEF Start
<1>8. CASE Crash
  BY <1>8 DEF Crash, Idle
<1>9. CASE Retire
  <2>1. Idle.step = "idle"
    BY DEF Idle
  <2>2. thread'[u] = [thread[u] EXCEPT !.holds = FALSE]
    BY <1>9, <2>1 DEF Retire
  <2>3. thread[u] \in ThreadType
    BY <1>0
  <2>4. thread'[u].queue = thread[u].queue /\ thread'[u].step = thread[u].step
    BY <2>2, <2>3 DEF ThreadType
  <2>5. QED BY <2>4
<1>10. QED
  BY <1>1, <1>5, <1>6, <1>7, <1>8, <1>9
     DEF Next, vars, Receive, ApplyLocal, Apply, ResumeApplying, ResumePending, Approve

LEMMA AuthNext == AuthInv /\ [Next]_vars => AuthInv'
<1> SUFFICES ASSUME AuthInv, [Next]_vars PROVE AuthInv'
  OBVIOUS
<1>0. DurableInv /\ ConfigTypeOK /\ RowsAuthentic /\ configs \in Seq(Entry)
  BY DEF AuthInv, DurableInv, ConfigTypeOK, Entry
<1>1. DurableInv'
  BY <1>0, DurableNext
<1>2. /\ RowsAuthentic'
      /\ \A d \in Commands : Authentic(d) => Authentic(d)'
  BY <1>0, AuthRowsNext
<1>3. ASSUME NEW u \in Thread, thread'[u].step = "ledger" PROVE Authentic(Current(u))'
  <2>1. /\ thread'[u].queue = thread[u].queue
        /\ thread[u].step = "ledger" \/ Begin(u)
    BY <1>0, <1>3, LedgerOrigin
  <2>2. Current(u)' = Current(u)
    BY <2>1 DEF Current
  <2>3. thread[u].step # "idle"
    BY <2>1 DEF Begin
  <2>4. Current(u) \in Commands
    BY <1>0, <2>3, CurrentInQueue
  <2>5. Authentic(Current(u))
    <3>1. CASE thread[u].step = "ledger"
      BY <3>1 DEF AuthInv
    <3>2. CASE Begin(u)
      BY <1>0, <1>3, <3>2, BeginAuthentic
    <3>3. QED BY <2>1, <3>1, <3>2
  <2>6. AuthenticRow(inbox'[Current(u)])
    BY <1>2, <2>4, <2>5 DEF Authentic
  <2>7. QED BY <2>2, <2>6 DEF Authentic
<1>4. ASSUME NEW i \in 1..Len(configs'), configs'[i].command # Local
      PROVE  AuthenticRow(inbox'[configs'[i].command])
  <2>1. CASE i \in 1..Len(configs) /\ configs'[i] = configs[i]
    <3>1. configs[i].command \in Commands /\ Authentic(configs[i].command)
      BY <1>0, <1>4, <2>1 DEF AuthInv, DurableInv, AuthenticatedOnly, Authentic, AuthenticRow
    <3>2. QED BY <1>2, <2>1, <3>1 DEF Authentic
  <2>2. CASE UNCHANGED configs
    BY <2>1, <2>2
  <2>3. ASSUME NEW v \in 1..MaxVersion, ApplyLocal(v) PROVE AuthenticRow(inbox'[configs'[i].command])
    <3> DEFINE new == [version |-> v, command |-> Local]
    <3>1. new \in Entry /\ new.command = Local
      BY DEF Entry, Local
    <3>2. configs' = Append(configs, new)
      BY <2>3 DEF ApplyLocal
    <3> HIDE DEF new
    <3>3. /\ configs'[Len(configs) + 1] = new
          /\ \A n \in 1..Len(configs) : configs'[n] = configs[n]
          /\ \A n \in 1..Len(configs') : n \in 1..Len(configs) \/ n = Len(configs) + 1
      BY <1>0, <3>1, <3>2, EntryStep
    <3>4. QED BY <1>4, <2>1, <3>1, <3>3
  <2>4. ASSUME NEW t \in Thread, ApplyToLedger(t) PROVE AuthenticRow(inbox'[configs'[i].command])
    <3> DEFINE new == [version |-> inbox[Current(t)].version, command |-> Current(t)]
    <3>1. UNCHANGED inbox /\ new \in Entry
      BY <1>0, <2>4, LedgerStep
    <3>2. configs' = configs \/ configs' = Append(configs, new)
      BY <2>4 DEF ApplyToLedger
    <3>3. Authentic(new.command)
      BY <2>4 DEF AuthInv, ApplyToLedger
    <3> HIDE DEF new
    <3>4. CASE configs' = Append(configs, new)
      <4>1. /\ configs'[Len(configs) + 1] = new
            /\ \A n \in 1..Len(configs) : configs'[n] = configs[n]
            /\ \A n \in 1..Len(configs') : n \in 1..Len(configs) \/ n = Len(configs) + 1
        BY <1>0, <3>1, <3>4, EntryStep
      <4>2. CASE i = Len(configs) + 1
        BY <3>1, <3>3, <4>1, <4>2 DEF Authentic
      <4>3. QED BY <2>1, <4>1, <4>2
    <3>5. QED BY <2>2, <3>2, <3>4
  <2>5. QED
    BY <2>2, <2>3, <2>4
       DEF Next, vars, Receive, Apply, ResumeApplying, ResumePending, Start, Gate, Begin,
           MarkApplied, BlockApply, Approve, Crash, Retire, Fault, Stop
<1>5. AuthenticatedOnly'
  BY <1>4 DEF AuthenticatedOnly, AuthenticRow
<1>6. QED BY <1>1, <1>2, <1>3, <1>5 DEF AuthInv

\* Only commands that the inbox accepted from an authenticated sender are in the
\* ledger: a row isolated by the migration is never reopened, by no thread, retry
\* or recovery, and a command is begun only after its row was accepted.
THEOREM OnlyAuthenticated == Spec => []AuthenticatedOnly
<1>1. AuthInv => AuthenticatedOnly
  BY DEF AuthInv
<1>2. QED BY <1>1, AuthInit, AuthNext, PTL DEF Spec
=============================================================================
