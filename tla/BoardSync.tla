------------------------------ MODULE BoardSync ------------------------------
(***************************************************************************)
(* The draft of the board on several devices and its copy on the server:   *)
(* the page (web/board/board.js), its cloud client (cloud-client.js), the  *)
(* worker (cloud/worker.mjs) and the database functions behind it          *)
(* (supabase/migrations).                                                  *)
(*                                                                         *)
(* A draft is the set of edits it was made with; local edits add to it and *)
(* loading the server's draft replaces it.  A page waits for one call at a *)
(* time.  Database functions are transactions, serialised per owner.  The  *)
(* arrival of an answer is one step with its transaction, because nothing  *)
(* in between can change it; answers also get lost, and a call the page    *)
(* gave up on may still reach the database later.                          *)
(***************************************************************************)
EXTENDS Integers, Sequences, FiniteSets

CONSTANTS
  Page,          \* pages (devices) that show the board
  MaxEdits,      \* bound: edits per page
  MaxSaves,      \* bound: saves with a request key of their own
  MaxLogins,     \* bound: logins that reach the database
  MaxLate,       \* bound: calls given up on that are still on their way
  Pins,          \* whether a PIN that is typed is right: a subset of BOOLEAN
  MaxFailures,   \* wrong PINs in a row that lock the board
  MaxSessions,   \* sessions the database keeps
  MaxReceipts    \* receipts the database keeps

ASSUME BoardBoundAssumption ==
  /\ MaxEdits \in Nat /\ MaxSaves \in Nat /\ MaxLogins \in Nat /\ MaxLate \in Nat
  /\ Pins \subseteq BOOLEAN
  /\ MaxFailures \in Nat \ {0} /\ MaxSessions \in Nat \ {0} /\ MaxReceipts \in Nat

VARIABLES
  history,    \* database: the saved snapshots, the last one is board_snapshots
  receipts,   \* database: save_receipts
  sessions,   \* database: the tokens in pin_sessions, which grow with created_at
  pin,        \* database: failed attempts and lock of pin_access
  logins,     \* tokens given out
  keys,       \* request keys given out
  page,       \* what each page holds
  late,       \* calls given up on that may still reach the database
  refused     \* history variable: keys whose page was told VERSION_CONFLICT

server == <<history, receipts, sessions, pin, logins>>
vars == <<server, keys, page, late, refused>>

Null == -1      \* revision === null
NoToken == 0    \* session === null
NoSave == [key |-> 0]
NoDraft == [revision |-> Null]
NoCall == [kind |-> "none"]

SignedOut(p) == [p EXCEPT !.session = NoToken, !.revision = Null, !.pending = NoSave]

EmptyPage ==
  [session |-> NoToken, revision |-> Null, pending |-> NoSave, draft |-> {}, edits |-> 0,
   candidate |-> NoDraft, call |-> NoCall]

Init ==
  /\ history = <<>> /\ receipts = {} /\ sessions = {}
  /\ pin = [failed |-> 0, locked |-> FALSE]
  /\ logins = 0 /\ keys = 0
  /\ page = [c \in Page |-> EmptyPage]
  /\ late = {} /\ refused = {}

-----------------------------------------------------------------------------
(* The database *)

\* pin_owner
Valid(token) == token \in sessions

\* cp_pin_login
LoginReply(q) ==
  IF pin.locked THEN [status |-> "PIN_LOCKED"]
  ELSE IF ~q.right
    THEN [status |-> IF pin.failed + 1 >= MaxFailures THEN "PIN_LOCKED" ELSE "PIN_INCORRECT"]
  ELSE [status |-> "ok", token |-> logins + 1]

\* Defect: one session too many is kept.
NewestAndOne(s, n) == {t \in s : Cardinality({u \in s : u > t}) <= n}

Newest(s, n) == {t \in s : Cardinality({u \in s : u > t}) < n}

LoginEffect(q) ==
  /\ CASE pin.locked -> UNCHANGED <<pin, sessions, logins>>
       [] ~pin.locked /\ ~q.right ->
            /\ pin' = [failed |-> pin.failed + 1,
                       locked |-> pin.failed + 1 >= MaxFailures]
            /\ UNCHANGED <<sessions, logins>>
       [] ~pin.locked /\ q.right ->
            /\ logins < MaxLogins
            /\ pin' = [failed |-> 0, locked |-> FALSE]
            /\ sessions' = Newest(sessions, MaxSessions - 1) \cup {logins + 1}
            /\ logins' = logins + 1
  /\ UNCHANGED <<history, receipts>>

\* cp_pin_load_board
ReadReply(q) ==
  IF ~Valid(q.session) THEN [status |-> "UNAUTHENTICATED"]
  ELSE [status |-> "ok", revision |-> Len(history),
        content |-> IF history = <<>> THEN {} ELSE history[Len(history)].content]

\* cp_pin_logout
LogoutEffect(q) ==
  /\ sessions' = sessions \ {q.session}
  /\ UNCHANGED <<history, receipts, pin, logins>>

Receipt(q) == {r \in receipts : r.key = q.save.key}

\* Defect: the revision is compared before the receipt is looked for.
SaveReplyByRevision(q) ==
  IF ~Valid(q.session) THEN [status |-> "UNAUTHENTICATED"]
  ELSE IF q.save.expected # Len(history) THEN [status |-> "VERSION_CONFLICT"]
  ELSE IF Cardinality(receipts) >= MaxReceipts THEN [status |-> "RATE_LIMITED"]
  ELSE [status |-> "ok", revision |-> Len(history) + 1]

\* cp_pin_save_board.  A key is used with one content and one expected revision.
SaveReply(q) ==
  IF ~Valid(q.session) THEN [status |-> "UNAUTHENTICATED"]
  ELSE IF Receipt(q) # {} THEN [status |-> "ok", revision |-> q.save.expected + 1]
  ELSE IF q.save.expected # Len(history) THEN [status |-> "VERSION_CONFLICT"]
  ELSE IF Cardinality(receipts) >= MaxReceipts THEN [status |-> "RATE_LIMITED"]
  ELSE [status |-> "ok", revision |-> Len(history) + 1]

\* Defect: whatever revision the snapshot was made from, it is stored.
CommitsAnyway(q) ==
  /\ Valid(q.session) /\ Receipt(q) = {}
  /\ Cardinality(receipts) < MaxReceipts

\* The save passes every check.
Commits(q) ==
  /\ Valid(q.session) /\ Receipt(q) = {}
  /\ q.save.expected = Len(history)
  /\ Cardinality(receipts) < MaxReceipts

SaveEffect(q) ==
  /\ IF Commits(q)
       THEN /\ history' = Append(history, q.save)
            /\ receipts' = receipts \cup {[key |-> q.save.key, session |-> q.session]}
       ELSE UNCHANGED <<history, receipts>>
  /\ UNCHANGED <<sessions, pin, logins>>

Reply(q) ==
  CASE q.kind = "login" -> LoginReply(q)
    [] q.kind \in {"inspect", "load"} -> ReadReply(q)
    [] q.kind = "logout" -> [status |-> "ok"]
    [] q.kind \in {"save", "retry"} -> SaveReply(q)

Effect(q) ==
  CASE q.kind = "login" -> LoginEffect(q)
    [] q.kind \in {"inspect", "load"} -> UNCHANGED server
    [] q.kind = "logout" -> LogoutEffect(q)
    [] q.kind \in {"save", "retry"} -> SaveEffect(q)

\* A session ends after 12 hours, the oldest first.
SessionExpires ==
  \E t \in sessions :
    /\ \A u \in sessions : t <= u
    /\ sessions' = sessions \ {t}
    /\ UNCHANGED <<history, receipts, pin, logins, keys, page, late, refused>>

\* A receipt is deleted after 24 hours: later than the session that made it ends.
ReceiptExpires ==
  \E r \in receipts :
    /\ \A s \in receipts : r.key <= s.key
    /\ ~Valid(r.session)
    /\ receipts' = receipts \ {r}
    /\ UNCHANGED <<history, sessions, pin, logins, keys, page, late, refused>>

\* 15 minutes have passed; the next login starts counting again.
Unlock ==
  /\ pin.locked
  /\ pin' = [failed |-> 0, locked |-> FALSE]
  /\ UNCHANGED <<history, receipts, sessions, logins, keys, page, late, refused>>

-----------------------------------------------------------------------------
(* The page: each button starts one call, and buttons rest while it runs *)

Idle(c) == page[c].call = NoCall
SignedIn(c) == page[c].session # NoToken
Call(p, q) == [p EXCEPT !.call = q]

Local(c, p) ==
  /\ page' = [page EXCEPT ![c] = p]
  /\ UNCHANGED <<server, keys, late, refused>>

\* commitDraft, also while a call runs.
Edit(c) ==
  /\ page[c].edits < MaxEdits
  /\ Local(c, [page[c] EXCEPT !.edits = @ + 1,
                              !.draft = @ \cup {<<c, page[c].edits + 1>>}])

Login(c, right) ==
  /\ Idle(c) /\ ~SignedIn(c)
  /\ Local(c, Call([SignedOut(page[c]) EXCEPT !.candidate = NoDraft],
                   [kind |-> "login", right |-> right]))

Logout(c) ==
  /\ Idle(c) /\ SignedIn(c)
  /\ Local(c, Call([SignedOut(page[c]) EXCEPT !.candidate = NoDraft],
                   [kind |-> "logout", session |-> page[c].session]))

\* An unconfirmed save keeps load from reading, after the candidate was dropped.
Load(c) ==
  /\ Idle(c) /\ SignedIn(c)
  /\ LET p == [page[c] EXCEPT !.candidate = NoDraft]
     IN  Local(c, IF p.pending # NoSave THEN p
                  ELSE Call(p, [kind |-> "load", session |-> p.session]))

\* The draft is replaced unless it changed since it was compared.
ConfirmLoad(c) ==
  /\ Idle(c) /\ SignedIn(c) /\ page[c].candidate # NoDraft
  /\ LET p == page[c]
         dropped == [p EXCEPT !.candidate = NoDraft]
     IN  Local(c, IF p.draft # p.candidate.baseline THEN dropped
                  ELSE [dropped EXCEPT !.draft = p.candidate.content,
                                       !.revision = p.candidate.revision])

CancelLoad(c) ==
  /\ Idle(c) /\ SignedIn(c) /\ page[c].candidate # NoDraft
  /\ Local(c, [page[c] EXCEPT !.candidate = NoDraft])

SaveCall(p, kind) == Call(p, [kind |-> kind, session |-> p.session, save |-> p.pending])

\* A first attempt, or the same content again while an attempt is unconfirmed.
Save(c) ==
  /\ Idle(c) /\ SignedIn(c) /\ page[c].revision # Null
  /\ \/ /\ page[c].pending = NoSave
        /\ keys < MaxSaves
        /\ keys' = keys + 1
        /\ LET save == [key |-> keys + 1, by |-> c, content |-> page[c].draft,
                        expected |-> page[c].revision]
           IN  page' = [page EXCEPT ![c] = SaveCall([@ EXCEPT !.pending = save], "save")]
        /\ UNCHANGED <<server, late, refused>>
     \/ /\ page[c].pending # NoSave /\ page[c].pending.content = page[c].draft
        /\ Local(c, SaveCall(page[c], "save"))

Retry(c) ==
  /\ Idle(c) /\ SignedIn(c) /\ page[c].revision # Null
  /\ page[c].pending # NoSave
  /\ Local(c, SaveCall(page[c], "retry"))

-----------------------------------------------------------------------------
(* Calls and answers *)

\* Defect: the save stays pending after a conflict.
ConflictedPending(p) == [p EXCEPT !.call = NoCall]

Conflicted(p) == [p EXCEPT !.call = NoCall, !.revision = Null, !.pending = NoSave]

\* What the page makes of an answer other than 401.
Answered(p, a) ==
  CASE p.call.kind = "login" /\ a.status = "ok" ->
         Call([p EXCEPT !.session = a.token], [kind |-> "inspect", session |-> a.token])
    [] p.call.kind = "inspect" /\ a.status = "ok" ->
         [p EXCEPT !.call = NoCall, !.revision = IF a.revision = 0 THEN 0 ELSE @]
    [] p.call.kind = "load" /\ a.status = "ok" /\ a.revision = 0 ->
         [p EXCEPT !.call = NoCall, !.revision = 0]
    [] p.call.kind = "load" /\ a.status = "ok" /\ a.revision # 0 ->
         [p EXCEPT !.call = NoCall,
                   !.candidate = [revision |-> a.revision, content |-> a.content,
                                  baseline |-> p.draft]]
    [] p.call.kind \in {"save", "retry"} /\ a.status = "ok" ->
         [p EXCEPT !.call = NoCall, !.revision = a.revision, !.pending = NoSave,
                   !.candidate = IF p.call.kind = "save" THEN NoDraft ELSE @]
    [] p.call.kind \in {"save", "retry"} /\ a.status = "VERSION_CONFLICT" ->
         Conflicted(p)
    [] OTHER -> [p EXCEPT !.call = NoCall]

\* The database handles the call and the page gets the answer.
Serve(c) ==
  /\ ~Idle(c)
  /\ Effect(page[c].call)
  /\ LET p == page[c]
         a == Reply(p.call)
     IN  /\ page' = [page EXCEPT
              ![c] = IF a.status \in {"UNAUTHENTICATED", "PIN_INCORRECT"}
                       THEN [SignedOut(p) EXCEPT !.call = NoCall]
                       ELSE Answered(p, a)]
         /\ refused' = IF a.status = "VERSION_CONFLICT" THEN refused \cup {p.pending.key}
                       ELSE refused
  /\ UNCHANGED <<keys, late>>

\* A call given up on is handled after all.
ServeLate(q) ==
  /\ Effect(q)
  /\ late' = late \ {q}
  /\ UNCHANGED <<keys, page, refused>>

\* A retry looks on the wire as the save it repeats.
Wire(q) == [q EXCEPT !.kind = IF @ = "retry" THEN "save" ELSE @]

\* The call is lost, still on its way, or handled without an answer.
Abandon(q) ==
  \/ UNCHANGED <<server, late>>
  \/ /\ q.kind \notin {"inspect", "load"}
     /\ late' = late \cup {Wire(q)}
     /\ Cardinality(late') <= MaxLate
     /\ UNCHANGED server
  \/ Effect(q) /\ UNCHANGED late

\* NETWORK_ERROR or DATABASE_UNAVAILABLE: the page does not know what happened.
GiveUp(c) ==
  /\ ~Idle(c)
  /\ Abandon(page[c].call)
  /\ page' = [page EXCEPT ![c].call = NoCall]
  /\ UNCHANGED <<keys, refused>>

\* The page is reloaded: only the draft in the browser's storage survives.
Reload(c) ==
  /\ \/ Idle(c) /\ SignedIn(c) /\ UNCHANGED <<server, late>>
     \/ ~Idle(c) /\ Abandon(page[c].call)
  /\ page' = [page EXCEPT ![c] = [EmptyPage EXCEPT !.draft = page[c].draft,
                                                   !.edits = page[c].edits]]
  /\ UNCHANGED <<keys, refused>>

Next ==
  \/ \E c \in Page :
       \/ Edit(c)
       \/ \E right \in Pins : Login(c, right)
       \/ Logout(c)
       \/ Load(c)
       \/ ConfirmLoad(c)
       \/ CancelLoad(c)
       \/ Save(c)
       \/ Retry(c)
       \/ Serve(c)
       \/ GiveUp(c)
       \/ Reload(c)
  \/ \E q \in late : ServeLate(q)
  \/ SessionExpires
  \/ ReceiptExpires
  \/ Unlock

Spec == Init /\ [][Next]_vars

\* Calls get through at times, and the user retries a save that is unconfirmed.
Fairness ==
  \A c \in Page : SF_vars(Serve(c)) /\ SF_vars(Retry(c))

FairSpec == Spec /\ Fairness

-----------------------------------------------------------------------------
(* Properties *)

Draft == SUBSET (Page \X (1..MaxEdits))
SaveType == [key : 1..MaxSaves, by : Page, content : Draft, expected : 0..MaxSaves]

CallType ==
  {NoCall} \cup [kind : {"login"}, right : BOOLEAN]
  \cup [kind : {"inspect", "load", "logout"}, session : 1..MaxLogins]
  \cup [kind : {"save", "retry"}, session : 1..MaxLogins, save : SaveType]

\* Everything has its shape, the database keeps within its limits, and the PIN is
\* locked exactly after MaxFailures wrong ones in a row.
BoardTypeOK ==
  /\ history \in Seq(SaveType)
  /\ receipts \subseteq [key : 1..MaxSaves, session : 1..MaxLogins]
  /\ Cardinality(receipts) <= MaxReceipts
  /\ sessions \subseteq 1..MaxLogins /\ Cardinality(sessions) <= MaxSessions
  /\ pin \in [failed : 0..MaxFailures, locked : BOOLEAN]
  /\ pin.locked <=> pin.failed = MaxFailures
  /\ logins \in 0..MaxLogins /\ keys \in 0..MaxSaves
  /\ late \subseteq CallType /\ Cardinality(late) <= MaxLate /\ refused \subseteq 1..MaxSaves
  /\ \A c \in Page :
       /\ page[c].session \in 0..MaxLogins /\ page[c].revision \in Null..MaxSaves
       /\ page[c].pending \in {NoSave} \cup SaveType
       /\ page[c].draft \in Draft
       /\ page[c].call \in CallType

\* A page that was told VERSION_CONFLICT has not saved and never will, even if
\* an earlier attempt with the same key is still on its way.
RefusedNeverApplied ==
  \A i \in 1..Len(history) : history[i].key \notin refused

\* No save drops what another device had saved, however calls are lost, delayed
\* and retried.
OthersKept ==
  \A i \in 2..Len(history) :
    {e \in history[i - 1].content : e[1] # history[i].by} \subseteq history[i].content

\* A save whose answer was lost is confirmed, refused or given up with its
\* session in the end, unless the receipts are full until they expire.
SaveDecided ==
  \A c \in Page : page[c].pending # NoSave ~>
    page[c].pending = NoSave \/ Cardinality(receipts) >= MaxReceipts

\* cloud-client.js: "Existing remote data must be explicitly loaded before
\* overwriting it", so a save holds everything the server held.
NoLostUpdate ==
  \A i \in 2..Len(history) : history[i - 1].content \subseteq history[i].content
=============================================================================
