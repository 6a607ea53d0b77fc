-------------------------- MODULE BoardSync_proofs --------------------------
(***************************************************************************)
(* Theorems about BoardSync for any number of pages, saves, logins and     *)
(* delayed calls.                                                          *)
(*                                                                         *)
(* A save the server may still see is a try: the unconfirmed save of a     *)
(* page, or one that is on its way after its page gave up on it.  The      *)
(* argument has three parts.  TypesOK gives every piece of state its       *)
(* shape.  CoreOK relates the database to the tries: a key belongs to one  *)
(* save, a key in the history is still known from its receipt as long as   *)
(* its session is valid, and a refused key is behind the history for good. *)
(* PagesOK relates the draft of a page to the revision it claims to be.    *)
(***************************************************************************)
EXTENDS BoardSync, FiniteSetTheorems, SequenceTheorems, WellFoundedInduction, TLAPS

CandidateType == [revision : 1..MaxSaves, content : Draft, baseline : Draft]

PageType ==
  [session : 0..MaxLogins, revision : Null..MaxSaves, pending : {NoSave} \cup SaveType,
   draft : Draft, edits : 0..MaxEdits, candidate : {NoDraft} \cup CandidateType,
   call : CallType]

\* A call carries the session and the unconfirmed save of its page.
CallOK(c, p) ==
  /\ p.pending # NoSave =>
       /\ p.session # NoToken /\ p.pending.by = c
       /\ p.call.kind \in {"none", "save", "retry"}
  /\ p.call.kind \in {"save", "retry"} =>
       p.pending # NoSave /\ p.call.save = p.pending /\ p.call.session = p.session

DatabaseOK ==
  /\ history \in Seq(SaveType) /\ Len(history) <= keys /\ keys \in 0..MaxSaves
  /\ receipts \subseteq [key : 1..MaxSaves, session : 1..MaxLogins]
  /\ IsFiniteSet(receipts) /\ Cardinality(receipts) <= MaxReceipts
  /\ sessions \subseteq 1..logins /\ logins \in 0..MaxLogins
  /\ IsFiniteSet(sessions) /\ Cardinality(sessions) <= MaxSessions
  /\ pin \in [failed : 0..MaxFailures, locked : BOOLEAN]
  /\ pin.locked <=> pin.failed = MaxFailures
  /\ refused \subseteq 1..MaxSaves

LateOK ==
  /\ late \subseteq CallType /\ IsFiniteSet(late) /\ Cardinality(late) <= MaxLate
  /\ \A q \in late : q.kind \in {"login", "logout", "save"}

CallsOK ==
  /\ page \in [Page -> PageType]
  /\ \A c \in Page : CallOK(c, page[c]) /\ page[c].session <= logins
  /\ LateOK

TypesOK == DatabaseOK /\ CallsOK

\* A set within a limit stays in it when an element leaves.
LEMMA FewerAfterRemoval ==
  ASSUME NEW S, IsFiniteSet(S), NEW n \in Nat, Cardinality(S) <= n, NEW x \in S
  PROVE  IsFiniteSet(S \ {x}) /\ Cardinality(S \ {x}) <= n
<1>1. Cardinality(S) \in Nat
  BY FS_CardinalityType
<1>2. IsFiniteSet(S \ {x}) /\ Cardinality(S \ {x}) = Cardinality(S) - 1
  BY FS_RemoveElement
<1>3. QED BY <1>1, <1>2

-----------------------------------------------------------------------------
(* The database and the tries *)

Tries ==
  {[save |-> page[c].pending, session |-> page[c].session] :
     c \in {d \in Page : page[d].pending # NoSave}}
  \cup {[save |-> q.save, session |-> q.session] : q \in {r \in late : r.kind = "save"}}

\* The edits of other devices in a draft, and the draft saved as a revision.
Others(c, d) == {e \in d : e[1] # c}
Content(h, e) == IF e = 0 THEN {} ELSE h[e].content

Saved(h, k) == \E i \in 1..Len(h) : h[i].key = k

\* A try keeps what others had saved when it was made.
TriesKeepOthers ==
  \A t \in Tries :
    /\ t.save.expected <= Len(history)
    /\ Others(t.save.by, Content(history, t.save.expected)) \subseteq t.save.content

HistoryInOrder ==
  \A i \in 1..Len(history) : history[i].expected = i - 1 /\ history[i].key <= keys

\* A key is used with one save, in one session, and stored once.
OneSavePerKey ==
  /\ \A t \in Tries : t.save.key <= keys /\ t.session <= logins
  /\ \A t, u \in Tries : t.save.key = u.save.key => t = u
  /\ \A t \in Tries, i \in 1..Len(history) :
       history[i].key = t.save.key => history[i] = t.save
  /\ \A i, j \in 1..Len(history) : history[i].key = history[j].key => i = j

\* A stored save that may be tried again has its receipt, or its session is over.
StoredIsKnown ==
  /\ \A r \in receipts : Saved(history, r.key)
  /\ \A t \in Tries :
       /\ t.session \in sessions
       /\ Saved(history, t.save.key)
       => \E r \in receipts : r.key = t.save.key /\ r.session = t.session

RefusedIsBehind ==
  \A k \in refused :
    /\ k <= keys /\ ~Saved(history, k)
    /\ \A t \in Tries : t.save.key = k => t.save.expected < Len(history)

CoreOK ==
  /\ TriesKeepOthers /\ HistoryInOrder /\ OneSavePerKey /\ StoredIsKnown /\ RefusedIsBehind
  /\ OthersKept

-----------------------------------------------------------------------------
(* The draft of a page *)

\* The save can still be confirmed: it is stored, or it is based on the last revision.
Live(h, s) == s.expected = Len(h) \/ Saved(h, s.key)

\* The draft holds what others had saved in the revision the page is at, also
\* after a save is confirmed late or a loaded draft replaces the edited one.
DraftOK(h, c, p) ==
  /\ h = <<>> => Others(c, p.draft) = {}
  /\ p.revision # Null =>
       p.revision <= Len(h) /\ Others(c, p.draft) = Others(c, Content(h, p.revision))
  /\ p.candidate # NoDraft =>
       /\ p.candidate.revision <= Len(h)
       /\ p.candidate.content = Content(h, p.candidate.revision)
       /\ p.revision # Null /\ p.revision >= p.candidate.revision =>
            Others(c, p.candidate.content) = Others(c, p.draft)
  /\ p.pending # NoSave /\ Live(h, p.pending) =>
       Others(c, p.pending.content) = Others(c, p.draft)
  /\ p.pending # NoSave /\ p.candidate # NoDraft =>
       /\ p.revision = p.pending.expected
       /\ Live(h, p.pending) => p.pending.expected >= p.candidate.revision

PagesOK == \A c \in Page : DraftOK(history, c, page[c])

IInv == TypesOK /\ CoreOK /\ PagesOK

-----------------------------------------------------------------------------
(* The database and the tries, step by step *)

TryType == [save : SaveType, session : 1..MaxLogins]

\* A session may end and a new one may begin: no try belongs to the new one.
LEMMA CoreKept ==
  ASSUME TypesOK, CoreOK, Tries \subseteq TryType, Tries' \subseteq Tries,
         UNCHANGED <<history, receipts, keys, refused>>,
         logins' \in Nat, logins <= logins',
         \A s \in sessions' : s \in sessions \/ s > logins
  PROVE  CoreOK'
<1>1. logins \in Nat /\ \A t \in Tries : t.session \in Nat /\ t.session <= logins
  BY DEF TypesOK, DatabaseOK, CoreOK, OneSavePerKey, TryType
<1>2. TriesKeepOthers'
  BY DEF CoreOK, TriesKeepOthers, Content
<1>3. HistoryInOrder'
  BY DEF CoreOK, HistoryInOrder
<1>4. OneSavePerKey'
  <2>1. \A t \in Tries' : t.save.key <= keys' /\ t.session <= logins'
    BY <1>1 DEF CoreOK, OneSavePerKey
  <2>2. QED BY <2>1 DEF CoreOK, OneSavePerKey
<1>5. StoredIsKnown'
  <2>1. ASSUME NEW t \in Tries', t.session \in sessions', Saved(history, t.save.key)'
        PROVE  \E r \in receipts' : r.key = t.save.key /\ r.session = t.session
    <3>1. t \in Tries /\ t.session \in sessions
      BY <1>1, <2>1
    <3>2. Saved(history, t.save.key)
      BY <2>1 DEF Saved
    <3>3. QED BY <3>1, <3>2 DEF CoreOK, StoredIsKnown
  <2>2. \A r \in receipts' : Saved(history, r.key)'
    BY DEF CoreOK, StoredIsKnown, Saved
  <2>3. QED BY <2>1, <2>2 DEF StoredIsKnown
<1>6. RefusedIsBehind'
  BY DEF CoreOK, RefusedIsBehind, Saved
<1>7. OthersKept'
  BY DEF CoreOK, OthersKept
<1>8. QED BY <1>2, <1>3, <1>4, <1>5, <1>6, <1>7 DEF CoreOK

\* Only the receipt of a session that is over goes, and no live try needs it.
LEMMA CoreReceiptExpires ==
  ASSUME TypesOK, CoreOK, Tries' \subseteq Tries,
         UNCHANGED <<history, sessions, logins, keys, refused>>,
         NEW r \in receipts, ~Valid(r.session), receipts' = receipts \ {r}
  PROVE  CoreOK'
<1>2. TriesKeepOthers'
  BY DEF CoreOK, TriesKeepOthers, Content
<1>3. HistoryInOrder'
  BY DEF CoreOK, HistoryInOrder
<1>4. OneSavePerKey'
  BY DEF CoreOK, OneSavePerKey
<1>5. StoredIsKnown'
  <2>1. ASSUME NEW t \in Tries', t.session \in sessions', Saved(history, t.save.key)'
        PROVE  \E s \in receipts' : s.key = t.save.key /\ s.session = t.session
    <3>1. t \in Tries /\ t.session \in sessions /\ Saved(history, t.save.key)
      BY <2>1 DEF Saved
    <3>2. PICK s \in receipts : s.key = t.save.key /\ s.session = t.session
      BY <3>1 DEF CoreOK, StoredIsKnown
    <3>3. s # r
      BY <3>1, <3>2 DEF Valid
    <3>4. QED BY <3>2, <3>3
  <2>2. \A s \in receipts' : Saved(history, s.key)'
    BY DEF CoreOK, StoredIsKnown, Saved
  <2>3. QED BY <2>1, <2>2 DEF StoredIsKnown
<1>6. RefusedIsBehind'
  BY DEF CoreOK, RefusedIsBehind, Saved
<1>7. OthersKept'
  BY DEF CoreOK, OthersKept
<1>8. QED BY <1>2, <1>3, <1>4, <1>5, <1>6, <1>7 DEF CoreOK

\* A save that passes every check is a try that is not stored yet, and not refused.
LEMMA CommitsFirstTime ==
  ASSUME TypesOK, CoreOK, NEW q, [save |-> q.save, session |-> q.session] \in Tries,
         Commits(q)
  PROVE  ~Saved(history, q.save.key) /\ q.save.key \notin refused
<1> DEFINE t == [save |-> q.save, session |-> q.session]
<1>1. t \in Tries /\ t.save = q.save /\ t.session = q.session
  OBVIOUS
<1> HIDE DEF t
<1>2. t.session \in sessions /\ t.save.expected = Len(history)
      /\ {r \in receipts : r.key = t.save.key} = {}
  BY <1>1 DEF Commits, Valid, Receipt
<1>3. ~Saved(history, t.save.key)
  BY <1>1, <1>2 DEF CoreOK, StoredIsKnown
<1>4. Len(history) \in Nat
  BY DEF TypesOK, DatabaseOK
<1>5. t.save.key \notin refused
  BY <1>1, <1>2, <1>4 DEF CoreOK, RefusedIsBehind
<1>6. QED BY <1>1, <1>3, <1>5

\* The history h is g with one more save.
Grown(g, h, s) ==
  /\ Len(h) = Len(g) + 1 /\ Len(g) \in Nat
  /\ \A i \in 1..Len(g) : h[i] = g[i]
  /\ h[Len(g) + 1] = s
  /\ \A n \in 0..Len(g) : Content(h, n) = Content(g, n)
  /\ \A k : Saved(h, k) <=> Saved(g, k) \/ k = s.key

LEMMA Stored ==
  ASSUME NEW g \in Seq(SaveType), NEW s \in SaveType
  PROVE  Append(g, s) \in Seq(SaveType) /\ Grown(g, Append(g, s), s)
<1> DEFINE h == Append(g, s)
<1>1. /\ h \in Seq(SaveType) /\ Len(h) = Len(g) + 1 /\ Len(g) \in Nat
      /\ \A i \in 1..Len(g) : h[i] = g[i]
      /\ h[Len(g) + 1] = s
  BY AppendProperties
<1> HIDE DEF h
<1>2. \A n \in 0..Len(g) : Content(h, n) = Content(g, n)
  BY <1>1 DEF Content
<1>3. ASSUME NEW k PROVE Saved(h, k) <=> Saved(g, k) \/ k = s.key
  <2>1. 1..Len(h) = 1..Len(g) \cup {Len(g) + 1}
    BY <1>1
  <2>2. QED BY <1>1, <2>1 DEF Saved
<1>4. Grown(g, h, s)
  BY <1>1, <1>2, <1>3 DEF Grown
<1>5. QED BY <1>1, <1>4 DEF h

LEMMA CoreCommits ==
  ASSUME TypesOK, CoreOK, Tries \subseteq TryType, Tries' \subseteq Tries,
         NEW q, [save |-> q.save, session |-> q.session] \in Tries,
         Commits(q), SaveEffect(q), UNCHANGED <<keys, refused>>
  PROVE  CoreOK'
<1> DEFINE t0 == [save |-> q.save, session |-> q.session]
<1>1. t0 \in Tries /\ t0.save = q.save /\ t0.session = q.session
  OBVIOUS
<1> HIDE DEF t0
<1>2. /\ history' = Append(history, q.save)
      /\ receipts' = receipts \cup {[key |-> q.save.key, session |-> q.session]}
      /\ UNCHANGED <<sessions, logins, keys, refused>>
      /\ q.save.expected = Len(history)
  BY DEF SaveEffect, Commits
<1>3. q.save \in SaveType /\ q.save.key <= keys
  BY <1>1 DEF TryType, CoreOK, OneSavePerKey
<1>4. Grown(history, history', q.save)
  BY <1>2, <1>3, Stored DEF TypesOK, DatabaseOK
<1> USE <1>4 DEF Grown
<1>5. 1..Len(history') = 1..Len(history) \cup {Len(history) + 1}
  BY <1>4
<1>6. ~Saved(history, q.save.key) /\ q.save.key \notin refused
  BY CommitsFirstTime
<1>7. TriesKeepOthers'
  <2>1. ASSUME NEW t \in Tries'
        PROVE  /\ t.save.expected <= Len(history')
               /\ Others(t.save.by, Content(history', t.save.expected)) \subseteq t.save.content
    <3>1. t \in Tries /\ t.save.expected \in 0..MaxSaves
      BY DEF TryType, SaveType
    <3>2. t.save.expected <= Len(history)
          /\ Others(t.save.by, Content(history, t.save.expected)) \subseteq t.save.content
      BY <3>1 DEF CoreOK, TriesKeepOthers
    <3>3. t.save.expected \in 0..Len(history)
      BY <1>4, <3>1, <3>2
    <3>4. QED BY <1>4, <3>2, <3>3
  <2>2. QED BY <2>1 DEF TriesKeepOthers
<1>8. HistoryInOrder'
  <2>1. \A i \in 1..Len(history) : history[i].expected = i - 1 /\ history[i].key <= keys
    BY DEF CoreOK, HistoryInOrder
  <2>2. q.save.expected = (Len(history) + 1) - 1
    BY <1>2, <1>4
  <2>3. \A i \in 1..Len(history') : history'[i].expected = i - 1 /\ history'[i].key <= keys
    BY <1>3, <1>4, <1>5, <2>1, <2>2
  <2>4. QED BY <1>2, <2>3 DEF HistoryInOrder
<1>9. OneSavePerKey'
  <2>1. /\ \A t \in Tries' : t.save.key <= keys' /\ t.session <= logins'
        /\ \A t, u \in Tries' : t.save.key = u.save.key => t = u
    BY <1>2 DEF CoreOK, OneSavePerKey
  <2>2. ASSUME NEW t \in Tries', NEW i \in 1..Len(history'), history'[i].key = t.save.key
        PROVE  history'[i] = t.save
    <3>1. CASE i \in 1..Len(history)
      BY <1>4, <2>2, <3>1 DEF CoreOK, OneSavePerKey
    <3>2. CASE i = Len(history) + 1
      <4>1. t.save.key = t0.save.key
        BY <1>1, <1>4, <2>2, <3>2
      <4>2. t = t0
        BY <1>1, <4>1 DEF CoreOK, OneSavePerKey
      <4>3. QED BY <1>1, <1>4, <3>2, <4>2
    <3>3. QED BY <1>5, <3>1, <3>2
  <2>3. \A i \in 1..Len(history) : history[i].key # q.save.key
    BY <1>6 DEF Saved
  <2>4. ASSUME NEW i \in 1..Len(history'), NEW j \in 1..Len(history'),
               history'[i].key = history'[j].key
        PROVE  i = j
    <3>1. CASE i \in 1..Len(history) /\ j \in 1..Len(history)
      BY <1>4, <2>4, <3>1 DEF CoreOK, OneSavePerKey
    <3>2. CASE i = Len(history) + 1 /\ j \in 1..Len(history)
      BY <1>4, <2>3, <2>4, <3>2
    <3>3. CASE j = Len(history) + 1 /\ i \in 1..Len(history)
      BY <1>4, <2>3, <2>4, <3>3
    <3>4. QED BY <1>5, <3>1, <3>2, <3>3
  <2>5. QED BY <2>1, <2>2, <2>4 DEF OneSavePerKey
<1>10. StoredIsKnown'
  <2>1. ASSUME NEW t \in Tries', t.session \in sessions', Saved(history, t.save.key)'
        PROVE  \E r \in receipts' : r.key = t.save.key /\ r.session = t.session
    <3>1. Saved(history, t.save.key) \/ t.save.key = q.save.key
      BY <1>4, <2>1 DEF Saved
    <3>2. CASE Saved(history, t.save.key)
      BY <1>2, <2>1, <3>2 DEF CoreOK, StoredIsKnown
    <3>3. CASE t.save.key = q.save.key
      <4>1. t = t0
        BY <1>1, <3>3 DEF CoreOK, OneSavePerKey
      <4>2. [key |-> q.save.key, session |-> q.session] \in receipts'
        BY <1>2
      <4>3. QED BY <1>1, <4>1, <4>2
    <3>4. QED BY <3>1, <3>2, <3>3
  <2>2. ASSUME NEW r \in receipts' PROVE Saved(history', r.key)
    <3>1. r \in receipts \/ r.key = q.save.key
      BY <1>2
    <3>2. QED BY <1>4, <3>1 DEF CoreOK, StoredIsKnown
  <2>3. \A r \in receipts' : Saved(history, r.key)'
    BY <2>2 DEF Saved
  <2>4. QED BY <2>1, <2>3 DEF StoredIsKnown
<1>11. RefusedIsBehind'
  <2>1. ASSUME NEW k \in refused'
        PROVE  /\ k <= keys' /\ ~Saved(history', k)
               /\ \A t \in Tries' : t.save.key = k => t.save.expected < Len(history')
    <3>1. k \in refused /\ k <= keys /\ ~Saved(history, k) /\ k # q.save.key
      BY <1>2, <1>6 DEF CoreOK, RefusedIsBehind
    <3>2. ASSUME NEW t \in Tries', t.save.key = k PROVE t.save.expected < Len(history')
      <4>1. t.save.expected < Len(history) /\ t.save.expected \in Nat
        BY <3>1, <3>2 DEF CoreOK, RefusedIsBehind, TryType, SaveType
      <4>2. QED BY <1>4, <4>1
    <3>3. QED BY <1>2, <1>4, <3>1, <3>2
  <2>2. QED BY <2>1 DEF RefusedIsBehind, Saved
<1>12. OthersKept'
  <2>1. ASSUME NEW i \in 2..Len(history')
        PROVE  {e \in history'[i - 1].content : e[1] # history'[i].by} \subseteq history'[i].content
    <3>1. CASE i \in 1..Len(history)
      <4>1. i \in 2..Len(history) /\ i - 1 \in 1..Len(history)
        BY <1>4, <3>1
      <4>2. history'[i] = history[i] /\ history'[i - 1] = history[i - 1]
        BY <1>4, <4>1
      <4>3. QED BY <4>1, <4>2 DEF CoreOK, OthersKept
    <3>2. CASE i = Len(history) + 1
      <4>1. i - 1 = Len(history) /\ Len(history) # 0 /\ Len(history) \in 1..Len(history)
        BY <1>4, <3>2
      <4>2. Others(t0.save.by, Content(history, Len(history))) \subseteq t0.save.content
        BY <1>1, <1>2 DEF CoreOK, TriesKeepOthers
      <4>3. history'[i] = q.save /\ history'[i - 1] = history[Len(history)]
        BY <1>4, <3>2, <4>1
      <4>4. QED BY <1>1, <4>1, <4>2, <4>3 DEF Others, Content
    <3>3. QED BY <1>4, <1>5, <3>1, <3>2
  <2>2. QED BY <2>1 DEF OthersKept
<1>13. QED BY <1>7, <1>8, <1>9, <1>10, <1>11, <1>12 DEF CoreOK

\* A key is refused when its save is behind the history and not stored.
LEMMA CoreRefuses ==
  ASSUME TypesOK, CoreOK, Tries \subseteq TryType, Tries' \subseteq Tries,
         NEW q, [save |-> q.save, session |-> q.session] \in Tries,
         Valid(q.session), Receipt(q) = {}, q.save.expected # Len(history),
         UNCHANGED <<server, keys>>, refused' = refused \cup {q.save.key}
  PROVE  CoreOK'
<1> DEFINE t0 == [save |-> q.save, session |-> q.session]
<1>1. t0 \in Tries /\ t0.save = q.save /\ t0.session = q.session
  OBVIOUS
<1> HIDE DEF t0
<1>2. UNCHANGED <<history, receipts, sessions, logins, keys>>
  BY DEF server
<1>3. TriesKeepOthers' /\ HistoryInOrder' /\ OneSavePerKey' /\ OthersKept'
  <2>1. TriesKeepOthers'
    BY <1>2 DEF CoreOK, TriesKeepOthers, Content
  <2>2. HistoryInOrder'
    BY <1>2 DEF CoreOK, HistoryInOrder
  <2>3. OneSavePerKey'
    BY <1>2 DEF CoreOK, OneSavePerKey
  <2>4. OthersKept'
    BY <1>2 DEF CoreOK, OthersKept
  <2>5. QED BY <2>1, <2>2, <2>3, <2>4
<1>4. StoredIsKnown'
  BY <1>2 DEF CoreOK, StoredIsKnown, Saved
<1>5. RefusedIsBehind'
  <2>1. \A r \in receipts : r.key # t0.save.key
    BY <1>1 DEF Receipt
  <2>2. ~Saved(history, t0.save.key)
    BY <1>1, <2>1 DEF Valid, CoreOK, StoredIsKnown
  <2>3. t0.save.expected < Len(history)
    <3>1. t0.save.expected \in Nat /\ t0.save.expected <= Len(history) /\ Len(history) \in Nat
      BY <1>1 DEF TypesOK, DatabaseOK, TryType, SaveType, CoreOK, TriesKeepOthers
    <3>2. QED BY <1>1, <3>1
  <2>4. \A t \in Tries : t.save.key = t0.save.key => t = t0
    BY <1>1 DEF CoreOK, OneSavePerKey
  <2>5. t0.save.key <= keys
    BY <1>1 DEF CoreOK, OneSavePerKey
  <2>6. ASSUME NEW k \in refused'
        PROVE  /\ k <= keys /\ ~Saved(history, k)
               /\ \A t \in Tries : t.save.key = k => t.save.expected < Len(history)
    <3>1. CASE k \in refused
      BY <3>1 DEF CoreOK, RefusedIsBehind
    <3>2. CASE k = t0.save.key
      BY <2>2, <2>3, <2>4, <2>5, <3>2
    <3>3. QED BY <1>1, <3>1, <3>2
  <2>7. QED BY <1>2, <2>6 DEF RefusedIsBehind, Saved
<1>6. QED BY <1>3, <1>4, <1>5 DEF CoreOK

\* A new save has a key of its own and starts from a draft that keeps what others saved.
LEMMA CoreNewSave ==
  ASSUME TypesOK, CoreOK, Tries \subseteq TryType,
         UNCHANGED <<server, refused>>, keys' = keys + 1,
         NEW s, NEW session \in 1..logins, s.key = keys + 1, s.expected \in 0..Len(history),
         Others(s.by, Content(history, s.expected)) \subseteq s.content,
         Tries' \subseteq Tries \cup {[save |-> s, session |-> session]}
  PROVE  CoreOK'
<1> DEFINE t0 == [save |-> s, session |-> session]
<1>1. t0.save = s /\ t0.session = session /\ Tries' \subseteq Tries \cup {t0}
  OBVIOUS
<1> HIDE DEF t0
<1>2. UNCHANGED <<history, receipts, sessions, logins>>
  BY DEF server
<1>3. keys \in Nat /\ logins \in Nat
  BY DEF TypesOK, DatabaseOK
<1>4. \A t \in Tries : t.save.key # keys + 1 /\ t.save.key <= keys + 1
  BY <1>3 DEF TryType, SaveType, CoreOK, OneSavePerKey
<1>5. \A i \in 1..Len(history) : history[i].key # keys + 1 /\ history[i].key <= keys + 1
  <2>1. ASSUME NEW i \in 1..Len(history) PROVE history[i].key <= keys /\ history[i].key \in Nat
    <3>1. history[i] \in SaveType
      BY ElementOfSeq DEF TypesOK, DatabaseOK
    <3>2. QED BY <3>1 DEF SaveType, CoreOK, HistoryInOrder
  <2>2. QED BY <1>3, <2>1
<1>6. TriesKeepOthers'
  BY <1>1, <1>2 DEF CoreOK, TriesKeepOthers, Content
<1>7. HistoryInOrder'
  BY <1>2, <1>5 DEF CoreOK, HistoryInOrder
<1>8. OneSavePerKey'
  <2>1. \A t \in Tries' : t.save.key <= keys' /\ t.session <= logins'
    BY <1>1, <1>2, <1>3, <1>4 DEF CoreOK, OneSavePerKey
  <2>2. \A t, u \in Tries' : t.save.key = u.save.key => t = u
    BY <1>1, <1>4 DEF CoreOK, OneSavePerKey
  <2>3. \A t \in Tries', i \in 1..Len(history) :
          history[i].key = t.save.key => history[i] = t.save
    BY <1>1, <1>5 DEF CoreOK, OneSavePerKey
  <2>4. QED BY <1>2, <2>1, <2>2, <2>3 DEF CoreOK, OneSavePerKey
<1>9. StoredIsKnown'
  <2>1. ~Saved(history, s.key)
    BY <1>5 DEF Saved
  <2>2. QED BY <1>1, <1>2, <2>1 DEF CoreOK, StoredIsKnown, Saved
<1>10. RefusedIsBehind'
  <2>1. ASSUME NEW k \in refused
        PROVE  /\ k <= keys' /\ ~Saved(history, k)
               /\ \A t \in Tries' : t.save.key = k => t.save.expected < Len(history)
    <3>1. k <= keys /\ k \in Nat
      BY DEF TypesOK, DatabaseOK, CoreOK, RefusedIsBehind
    <3>2. k # s.key /\ k <= keys'
      BY <1>3, <3>1
    <3>3. QED BY <1>1, <3>2 DEF CoreOK, RefusedIsBehind
  <2>2. QED BY <1>2, <2>1 DEF RefusedIsBehind, Saved
<1>11. OthersKept'
  BY <1>2 DEF CoreOK, OthersKept
<1>12. QED BY <1>6, <1>7, <1>8, <1>9, <1>10, <1>11 DEF CoreOK

-----------------------------------------------------------------------------
(* The tries and the calls *)

LEMMA CallShapes ==
  ASSUME NEW q \in CallType
  PROVE  /\ q.kind \in {"none", "login", "inspect", "load", "logout", "save", "retry"}
         /\ q = NoCall <=> q.kind = "none"
         /\ q.kind = "login" => q \in [kind : {"login"}, right : BOOLEAN]
         /\ q.kind \in {"inspect", "load", "logout"} =>
              q \in [kind : {"inspect", "load", "logout"}, session : 1..MaxLogins]
         /\ q.kind \in {"save", "retry"} =>
              q \in [kind : {"save", "retry"}, session : 1..MaxLogins, save : SaveType]
BY DEF CallType, NoCall

LEMMA TriesTyped ==
  ASSUME TypesOK
  PROVE  Tries \subseteq TryType
<1>1. ASSUME NEW c \in Page, page[c].pending # NoSave
      PROVE  [save |-> page[c].pending, session |-> page[c].session] \in TryType
  <2>1. page[c] \in PageType /\ CallOK(c, page[c])
    BY DEF TypesOK, CallsOK
  <2>2. page[c].pending \in SaveType /\ page[c].session \in 1..MaxLogins
    BY <1>1, <2>1 DEF PageType, CallOK, NoToken
  <2>3. QED BY <2>2 DEF TryType
<1>2. ASSUME NEW q \in late, q.kind = "save"
      PROVE  [save |-> q.save, session |-> q.session] \in TryType
  <2>1. q \in [kind : {"save", "retry"}, session : 1..MaxLogins, save : SaveType]
    BY <1>2, CallShapes DEF TypesOK, CallsOK, LateOK
  <2>2. QED BY <2>1 DEF TryType
<1>3. QED BY <1>1, <1>2 DEF Tries

\* The save a page waits for, or gave up on, is a try.
LEMMA TriesOfCalls ==
  ASSUME TypesOK
  PROVE  /\ \A c \in Page : page[c].pending # NoSave =>
              [save |-> page[c].pending, session |-> page[c].session] \in Tries
         /\ \A q \in late : q.kind = "save" =>
              [save |-> q.save, session |-> q.session] \in Tries
         /\ \A c \in Page : page[c].call.kind \in {"save", "retry"} =>
              [save |-> page[c].call.save, session |-> page[c].call.session] \in Tries
<1>1. \A c \in Page : page[c].pending # NoSave =>
        [save |-> page[c].pending, session |-> page[c].session] \in Tries
  BY DEF Tries
<1>2. \A q \in late : q.kind = "save" => [save |-> q.save, session |-> q.session] \in Tries
  BY DEF Tries
<1>3. ASSUME NEW c \in Page, page[c].call.kind \in {"save", "retry"}
      PROVE  [save |-> page[c].call.save, session |-> page[c].call.session] \in Tries
  BY <1>1, <1>3 DEF TypesOK, CallsOK, CallOK
<1>4. QED BY <1>1, <1>2, <1>3

\* A step of one page makes no try, unless it changes its unconfirmed save.
LEMMA TriesOfStep ==
  ASSUME TypesOK, NEW c \in Page, NEW p, page' = [page EXCEPT ![c] = p],
         p.pending = NoSave \/ (p.pending = page[c].pending /\ p.session = page[c].session),
         \A q \in late' : q \in late \/ q = Wire(page[c].call)
  PROVE  Tries' \subseteq Tries
<1>1. \A d \in Page : page'[d] = IF d = c THEN p ELSE page[d]
  BY DEF TypesOK, CallsOK
<1>2. ASSUME NEW d \in Page, page'[d].pending # NoSave
      PROVE  [save |-> page'[d].pending, session |-> page'[d].session] \in Tries
  <2>1. page'[d].pending = page[d].pending /\ page'[d].session = page[d].session
    BY <1>1, <1>2
  <2>2. QED BY <1>2, <2>1, TriesOfCalls
<1>3. ASSUME NEW q \in late', q.kind = "save"
      PROVE  [save |-> q.save, session |-> q.session] \in Tries
  <2>1. CASE q \in late
    BY <1>3, <2>1, TriesOfCalls
  <2>2. CASE q = Wire(page[c].call)
    <3>1. page[c].call \in CallType
      BY DEF TypesOK, CallsOK, PageType
    <3>2. page[c].call.kind \in {"save", "retry"} /\ q.save = page[c].call.save
          /\ q.session = page[c].call.session
      BY <1>3, <2>2, <3>1, CallShapes DEF Wire
    <3>3. QED BY <3>2, TriesOfCalls
  <2>3. QED BY <2>1, <2>2
<1>4. QED BY <1>2, <1>3 DEF Tries

-----------------------------------------------------------------------------
(* What the database does with a call *)

\* Keeping the newest n sessions keeps at most n.
LEMMA NewestFew ==
  ASSUME NEW s \in SUBSET Nat, IsFiniteSet(s), NEW n \in Nat
  PROVE  /\ Newest(s, n) \subseteq s /\ IsFiniteSet(Newest(s, n))
         /\ Cardinality(Newest(s, n)) <= n
<1> DEFINE N == Newest(s, n)
<1>1. N \subseteq s /\ IsFiniteSet(N) /\ Cardinality(N) \in Nat
  <2>1. N \subseteq s
    BY DEF Newest
  <2>2. QED BY <2>1, FS_Subset, FS_CardinalityType
<1>2. CASE N = {}
  BY <1>1, <1>2, FS_EmptySet
<1>3. CASE N # {}
  <2>1. \E m \in N : \A u \in N : m <= u
    <3> DEFINE R == OpToRel(<, Nat)
    <3>1. IsWellFoundedOn(R, Nat)
      BY NatLessThanWellFounded
    <3>2. R = {p \in Nat \X Nat : p[1] < p[2]}
      BY Zenon DEF OpToRel
    <3> HIDE DEF R
    <3>3. N \subseteq Nat
      BY <1>1
    <3> HIDE DEF N
    <3>4. PICK m \in N : \A u \in N : ~(<<u, m>> \in R)
      BY <1>3, <3>1, <3>3, WFMin
    <3>5. ASSUME NEW u \in N PROVE m <= u
      <4>1. m \in Nat /\ u \in Nat
        BY <3>3
      <4>2. <<u, m>> \notin {p \in Nat \X Nat : p[1] < p[2]}
        BY <3>2, <3>4
      <4>3. ~(u < m)
        BY <4>1, <4>2
      <4>4. QED BY <4>1, <4>3
    <3>6. QED BY <3>5
  <2>2. PICK m \in N : \A u \in N : m <= u
    BY <2>1
  <2> DEFINE above == {u \in s : u > m}
  <2>3. IsFiniteSet(above) /\ Cardinality(above) \in Nat /\ Cardinality(above) < n
    <3>1. Cardinality(above) < n
      BY <2>2 DEF Newest
    <3>2. IsFiniteSet(above)
      BY FS_Subset
    <3>3. QED BY <3>1, <3>2, FS_CardinalityType
  <2>4. N \ {m} \subseteq above
    <3>1. ASSUME NEW u \in N, u # m PROVE u \in above
      <4>1. m \in Nat /\ u \in Nat /\ u \in s /\ m <= u
        BY <1>1, <2>2
      <4>2. QED BY <3>1, <4>1
    <3>2. QED BY <3>1
  <2> HIDE DEF above
  <2> HIDE DEF N
  <2>5. Cardinality(N \ {m}) <= Cardinality(above)
    BY <2>3, <2>4, FS_Subset
  <2>6. Cardinality(N \ {m}) = Cardinality(N) - 1
    BY <1>1, <2>2, FS_RemoveElement
  <2>7. Cardinality(N) <= n
    BY <1>1, <2>3, <2>5, <2>6
  <2>8. QED BY <1>1, <2>7 DEF N
<1>4. QED BY <1>2, <1>3

\* A key is stored once, so there are no more saves than keys.
LEMMA SavesNeedKeys ==
  ASSUME NEW h \in Seq(SaveType), NEW k \in Nat,
         \A i \in 1..Len(h) : h[i].key <= k,
         \A i, j \in 1..Len(h) : h[i].key = h[j].key => i = j
  PROVE  Len(h) <= k
<1>1. Len(h) \in Nat
  OBVIOUS
<1>2. IsFiniteSet(1..Len(h)) /\ Cardinality(1..Len(h)) = Len(h)
  <2>1. IsFiniteSet(1..Len(h)) /\ Cardinality(1..Len(h)) = IF 1 > Len(h) THEN 0 ELSE Len(h) - 1 + 1
    BY <1>1, FS_Interval
  <2>2. QED BY <1>1, <2>1
<1>3. IsFiniteSet(1..k) /\ Cardinality(1..k) = k
  <2>1. IsFiniteSet(1..k) /\ Cardinality(1..k) = IF 1 > k THEN 0 ELSE k - 1 + 1
    BY FS_Interval
  <2>2. QED BY <2>1
<1>4. SUFFICES ASSUME k < Len(h) PROVE FALSE
  BY <1>1
<1> DEFINE f == [i \in 1..Len(h) |-> h[i].key]
<1>5. f \in [1..Len(h) -> 1..k]
  <2>1. ASSUME NEW i \in 1..Len(h) PROVE h[i].key \in 1..k
    <3>1. h[i] \in SaveType
      BY ElementOfSeq
    <3>2. QED BY <3>1 DEF SaveType
  <2>2. QED BY <2>1
<1> HIDE DEF f
<1>6. \E x, y \in 1..Len(h) : x # y /\ f[x] = f[y]
  <2>1. Cardinality(1..k) < Cardinality(1..Len(h))
    BY <1>2, <1>3, <1>4
  <2> DEFINE S == 1..Len(h)
             T == 1..k
  <2>2. IsFiniteSet(S) /\ IsFiniteSet(T) /\ Cardinality(T) < Cardinality(S) /\ f \in [S -> T]
    BY <1>2, <1>3, <1>5, <2>1
  <2> HIDE DEF S, T
  <2>3. \E x, y \in S : x # y /\ f[x] = f[y]
    BY <2>2, FS_PigeonHole
  <2>4. QED BY <2>3 DEF S
<1>7. QED BY <1>6 DEF f

\* A call that was made: a page waits for its answer, or has given up on it.
Issued(q) ==
  /\ q \in CallType /\ q # NoCall
  /\ q.kind \in {"save", "retry"} =>
       [save |-> q.save, session |-> q.session] \in Tries

LEMMA LoginTyped ==
  ASSUME DatabaseOK, NEW q, q.right \in BOOLEAN, LoginEffect(q), UNCHANGED <<keys, refused>>
  PROVE  /\ DatabaseOK' /\ UNCHANGED <<history, receipts>>
         /\ logins' \in Nat /\ logins <= logins'
         /\ \A t \in sessions' : t \in sessions \/ t > logins
<1>0. logins \in Nat /\ MaxSessions \in Nat \ {0} /\ MaxFailures \in Nat \ {0} /\ MaxLogins \in Nat
      /\ logins \in 0..MaxLogins
  BY BoardBoundAssumption DEF DatabaseOK
<1>1. CASE pin.locked
  BY <1>0, <1>1 DEF LoginEffect, DatabaseOK
<1>2. CASE ~pin.locked /\ ~q.right
  <2>1. pin' = [failed |-> pin.failed + 1, locked |-> pin.failed + 1 >= MaxFailures]
        /\ UNCHANGED <<sessions, logins, history, receipts, keys, refused>>
    BY <1>2 DEF LoginEffect
  <2>2. pin.failed \in Nat /\ pin.failed < MaxFailures
    BY <1>0, <1>2 DEF DatabaseOK
  <2>3. pin' \in [failed : 0..MaxFailures, locked : BOOLEAN]
        /\ (pin'.locked <=> pin'.failed = MaxFailures)
    <3> DEFINE full == pin.failed + 1 >= MaxFailures
    <3>1. full \in BOOLEAN /\ (full <=> pin.failed + 1 = MaxFailures) /\ pin.failed + 1 \in 0..MaxFailures
      BY <1>0, <2>2
    <3>2. pin' = [failed |-> pin.failed + 1, locked |-> full]
      BY <2>1
    <3> HIDE DEF full
    <3>3. pin'.failed = pin.failed + 1 /\ (pin'.locked <=> full)
      BY <3>2
    <3>4. pin' \in [failed : 0..MaxFailures, locked : BOOLEAN]
      BY <3>1, <3>2
    <3>5. QED BY <3>1, <3>3, <3>4
  <2>4. DatabaseOK'
    BY <2>1, <2>3 DEF DatabaseOK
  <2>5. QED BY <1>0, <2>1, <2>4
<1>3. CASE ~pin.locked /\ q.right
  <2> DEFINE kept == Newest(sessions, MaxSessions - 1)
  <2>1. /\ logins < MaxLogins /\ pin' = [failed |-> 0, locked |-> FALSE]
        /\ sessions' = kept \cup {logins + 1} /\ logins' = logins + 1
        /\ UNCHANGED <<history, receipts, keys, refused>>
    BY <1>3 DEF LoginEffect
  <2>2. kept \subseteq sessions /\ IsFiniteSet(kept) /\ Cardinality(kept) <= MaxSessions - 1
    <3>1. sessions \in SUBSET Nat /\ IsFiniteSet(sessions) /\ MaxSessions - 1 \in Nat
      BY <1>0 DEF DatabaseOK
    <3>2. QED BY <3>1, NewestFew
  <2> HIDE DEF kept
  <2>3. IsFiniteSet(sessions') /\ Cardinality(sessions') <= MaxSessions
    <3>1. IsFiniteSet(sessions') /\ Cardinality(kept) \in Nat
          /\ Cardinality(sessions') = IF logins + 1 \in kept THEN Cardinality(kept)
                                      ELSE Cardinality(kept) + 1
      BY <2>1, <2>2, FS_AddElement, FS_CardinalityType
    <3>2. QED BY <1>0, <2>2, <3>1
  <2>4. sessions' \subseteq 1..logins' /\ logins' \in 0..MaxLogins
    BY <1>0, <2>1, <2>2 DEF DatabaseOK
  <2>5. pin' \in [failed : 0..MaxFailures, locked : BOOLEAN]
        /\ (pin'.locked <=> pin'.failed = MaxFailures)
    BY <1>0, <2>1
  <2>6. DatabaseOK'
    BY <2>1, <2>3, <2>4, <2>5 DEF DatabaseOK
  <2>7. QED BY <1>0, <2>1, <2>2, <2>6
<1>4. QED BY <1>1, <1>2, <1>3

LEMMA LogoutTyped ==
  ASSUME DatabaseOK, NEW q, LogoutEffect(q), UNCHANGED <<keys, refused>>
  PROVE  /\ DatabaseOK' /\ UNCHANGED <<history, receipts, logins>>
         /\ sessions' \subseteq sessions
<1>1. sessions' = sessions \ {q.session} /\ UNCHANGED <<history, receipts, pin, logins, keys, refused>>
  BY DEF LogoutEffect
<1>2. IsFiniteSet(sessions') /\ Cardinality(sessions') <= MaxSessions
  <2>1. MaxSessions \in Nat /\ IsFiniteSet(sessions) /\ Cardinality(sessions) <= MaxSessions
    BY BoardBoundAssumption DEF DatabaseOK
  <2>2. /\ sessions' \in SUBSET sessions
        /\ Cardinality(sessions) \in Nat
    BY <1>1, <2>1, FS_CardinalityType
  <2>3. IsFiniteSet(sessions') /\ Cardinality(sessions') <= Cardinality(sessions)
        /\ Cardinality(sessions') \in Nat
    BY <2>1, <2>2, FS_Subset, FS_CardinalityType
  <2>4. QED BY <2>1, <2>2, <2>3
<1>3. QED BY <1>1, <1>2 DEF DatabaseOK

LEMMA StoreTyped ==
  ASSUME DatabaseOK, CoreOK', NEW q, Commits(q), SaveEffect(q), UNCHANGED <<keys, refused>>,
         q.save \in SaveType, q.session \in 1..MaxLogins
  PROVE  DatabaseOK'
<1> DEFINE r == [key |-> q.save.key, session |-> q.session]
<1>1. /\ history' = Append(history, q.save) /\ receipts' = receipts \cup {r}
      /\ UNCHANGED <<sessions, pin, logins, keys, refused>>
      /\ Cardinality(receipts) < MaxReceipts
  BY DEF SaveEffect, Commits
<1>2. r \in [key : 1..MaxSaves, session : 1..MaxLogins]
  BY DEF SaveType
<1> HIDE DEF r
<1>3. IsFiniteSet(receipts') /\ Cardinality(receipts') <= MaxReceipts
  <2>1. IsFiniteSet(receipts) /\ MaxReceipts \in Nat /\ Cardinality(receipts) \in Nat
    BY BoardBoundAssumption, FS_CardinalityType DEF DatabaseOK
  <2>2. IsFiniteSet(receipts') /\ Cardinality(receipts') =
          IF r \in receipts THEN Cardinality(receipts) ELSE Cardinality(receipts) + 1
    BY <1>1, <2>1, FS_AddElement
  <2>3. QED BY <1>1, <2>1, <2>2
<1>4. history' \in Seq(SaveType)
  BY <1>1, Stored DEF DatabaseOK
<1>5. Len(history') <= keys'
  <2>1. keys' \in Nat
    BY <1>1 DEF DatabaseOK
  <2>2. \A i \in 1..Len(history') : history'[i].key <= keys'
    BY DEF CoreOK, HistoryInOrder
  <2>3. \A i, j \in 1..Len(history') : history'[i].key = history'[j].key => i = j
    BY DEF CoreOK, OneSavePerKey
  <2>4. QED BY <1>4, <2>1, <2>2, <2>3, SavesNeedKeys
<1>6. QED BY <1>1, <1>2, <1>3, <1>4, <1>5 DEF DatabaseOK

\* The drafts of pages whose own save was not the one stored are as good as before,
\* and those of the page whose save it was too.
LEMMA DraftGrows ==
  ASSUME NEW g \in Seq(SaveType), NEW h \in Seq(SaveType), NEW s, Grown(g, h, s),
         s.expected = Len(g),
         NEW c, NEW p \in PageType, DraftOK(g, c, p),
         p.pending # NoSave =>
           p.pending.expected <= Len(g) /\ (p.pending.key = s.key => p.pending = s)
  PROVE  DraftOK(h, c, p)
<1>1. /\ Len(h) = Len(g) + 1 /\ Len(g) \in Nat /\ h # <<>>
      /\ \A n \in 0..Len(g) : Content(h, n) = Content(g, n)
      /\ \A k : Saved(h, k) <=> Saved(g, k) \/ k = s.key
  BY DEF Grown
<1>2. p.revision # Null =>
        p.revision <= Len(h) /\ Others(c, p.draft) = Others(c, Content(h, p.revision))
  <2>1. ASSUME p.revision # Null PROVE p.revision \in 0..Len(g)
    BY <1>1, <2>1 DEF DraftOK, PageType, Null
  <2>2. QED BY <1>1, <2>1 DEF DraftOK
<1>3. p.candidate # NoDraft =>
       /\ p.candidate.revision <= Len(h)
       /\ p.candidate.content = Content(h, p.candidate.revision)
  <2>1. ASSUME p.candidate # NoDraft PROVE p.candidate.revision \in 0..Len(g)
    BY <1>1, <2>1 DEF DraftOK, PageType, CandidateType
  <2>2. QED BY <1>1, <2>1 DEF DraftOK
<1>4. ASSUME p.pending # NoSave, Live(h, p.pending)
      PROVE  Live(g, p.pending)
  <2>1. p.pending \in SaveType
    BY <1>4 DEF PageType
  <2>2. p.pending.expected # Len(h)
    BY <1>1, <1>4, <2>1 DEF SaveType
  <2>3. Saved(g, p.pending.key) \/ p.pending.key = s.key
    BY <1>1, <1>4, <2>2 DEF Live
  <2>4. QED BY <1>4, <2>3 DEF Live
<1>5. QED BY <1>1, <1>2, <1>3, <1>4 DEF DraftOK

\* A call keeps the database in order and the drafts of all pages up to it.
LEMMA EffectKeeps ==
  ASSUME IInv, NEW q, Issued(q), Effect(q) \/ UNCHANGED server, Tries' \subseteq Tries, UNCHANGED <<keys, refused>>
  PROVE  /\ DatabaseOK' /\ CoreOK' /\ logins <= logins' /\ logins' \in Nat
         /\ \A d \in Page : DraftOK(history', d, page[d])
<1>1. TypesOK /\ CoreOK /\ DatabaseOK /\ CallsOK /\ Tries \subseteq TryType /\ logins \in Nat
  BY TriesTyped DEF IInv, TypesOK, DatabaseOK
<1>2. \A d \in Page : DraftOK(history, d, page[d])
  BY DEF IInv, PagesOK
<1>3. CASE UNCHANGED server
  <2>1. UNCHANGED <<history, receipts, sessions, pin, logins>>
    BY <1>3 DEF server
  <2>2. DatabaseOK'
    BY <1>1, <2>1 DEF DatabaseOK
  <2>3. CoreOK'
    BY <1>1, <2>1, CoreKept
  <2>4. QED BY <1>1, <1>2, <2>1, <2>2, <2>3
<1>4. CASE Effect(q) /\ q.kind = "login"
  <2>1. LoginEffect(q) /\ q.right \in BOOLEAN
    BY <1>4, CallShapes DEF Effect, Issued
  <2>2. /\ DatabaseOK' /\ UNCHANGED <<history, receipts>>
        /\ logins' \in Nat /\ logins <= logins'
        /\ \A t \in sessions' : t \in sessions \/ t > logins
    BY <1>1, <2>1, LoginTyped
  <2>3. CoreOK'
    BY <1>1, <2>2, CoreKept
  <2>4. QED BY <1>2, <2>2, <2>3
<1>5. CASE Effect(q) /\ q.kind = "logout"
  <2>1. LogoutEffect(q)
    BY <1>5 DEF Effect
  <2>2. DatabaseOK' /\ UNCHANGED <<history, receipts, logins>> /\ sessions' \subseteq sessions
    BY <1>1, <2>1, LogoutTyped
  <2>3. CoreOK'
    BY <1>1, <2>2, CoreKept
  <2>4. QED BY <1>1, <1>2, <2>2, <2>3
<1>6. CASE Effect(q) /\ q.kind \in {"save", "retry"}
  <2> DEFINE t == [save |-> q.save, session |-> q.session]
  <2>1. SaveEffect(q) /\ t \in Tries
    BY <1>6 DEF Effect, Issued
  <2>2. CASE Commits(q)
    <3>1. CoreOK'
      BY <1>1, <2>1, <2>2, CoreCommits
    <3>2. t.save = q.save /\ t.session = q.session /\ t \in TryType
      BY <1>1, <2>1
    <3> HIDE DEF t
    <3>3. q.save \in SaveType /\ q.session \in 1..MaxLogins
      BY <3>2 DEF TryType
    <3>4. DatabaseOK'
      BY <1>1, <2>1, <2>2, <3>1, <3>3, StoreTyped
    <3>5. /\ history' = Append(history, q.save) /\ UNCHANGED logins
          /\ q.save.expected = Len(history)
      BY <2>1, <2>2 DEF SaveEffect, Commits
    <3>6. Grown(history, history', q.save) /\ history \in Seq(SaveType) /\ history' \in Seq(SaveType)
      BY <1>1, <3>3, <3>5, Stored DEF DatabaseOK
    <3>7. ASSUME NEW d \in Page PROVE DraftOK(history', d, page[d])
      <4>1. page[d] \in PageType
        BY <1>1 DEF CallsOK
      <4>2. ASSUME page[d].pending # NoSave
            PROVE  /\ page[d].pending.expected <= Len(history)
                   /\ page[d].pending.key = q.save.key => page[d].pending = q.save
        <5> DEFINE u == [save |-> page[d].pending, session |-> page[d].session]
        <5>1. u \in Tries /\ u.save = page[d].pending
          BY <1>1, <4>2, TriesOfCalls
        <5> HIDE DEF u
        <5>2. u.save.expected <= Len(history)
          BY <1>1, <5>1 DEF CoreOK, TriesKeepOthers
        <5>3. u.save.key = t.save.key => u = t
          BY <1>1, <2>1, <5>1 DEF CoreOK, OneSavePerKey
        <5>4. QED BY <3>2, <5>1, <5>2, <5>3
      <4>3. DraftOK(history, d, page[d])
        BY <1>2
      <4>4. QED BY <3>5, <3>6, <4>1, <4>2, <4>3, DraftGrows
    <3>8. QED BY <1>1, <3>1, <3>4, <3>5, <3>7
  <2>3. CASE ~Commits(q)
    BY <1>3, <2>1, <2>3 DEF SaveEffect, server
  <2>4. QED BY <2>2, <2>3
<1>7. CASE Effect(q) /\ q.kind \in {"inspect", "load"}
  BY <1>3, <1>7 DEF Effect
<1>8. q.kind \in {"login", "inspect", "load", "logout", "save", "retry"}
  BY CallShapes DEF Issued
<1>9. QED BY <1>3, <1>4, <1>5, <1>6, <1>7, <1>8

-----------------------------------------------------------------------------
(* The steps of a page *)

\* The step of one page keeps the invariant if its new page fits the database.
LEMMA PageStep ==
  ASSUME IInv, NEW c \in Page, NEW p, page' = [page EXCEPT ![c] = p],
         p \in PageType, CallOK(c, p), p.session <= logins',
         logins <= logins', logins' \in Nat, DatabaseOK', CoreOK', LateOK',
         \A d \in Page : DraftOK(history', d, page[d]), DraftOK(history', c, p)
  PROVE  IInv'
<1>1. page \in [Page -> PageType] /\ \A d \in Page : page'[d] = IF d = c THEN p ELSE page[d]
  BY DEF IInv, TypesOK, CallsOK
<1>2. page' \in [Page -> PageType]
  BY <1>1
<1>3. ASSUME NEW d \in Page
      PROVE  CallOK(d, page'[d]) /\ page'[d].session <= logins' /\ DraftOK(history', d, page'[d])
  <2>1. CASE d = c
    BY <1>1, <2>1
  <2>2. CASE d # c
    <3>1. page'[d] = page[d] /\ page[d] \in PageType /\ CallOK(d, page[d])
          /\ page[d].session <= logins /\ logins \in Nat
      BY <1>1, <2>2 DEF IInv, TypesOK, CallsOK, DatabaseOK
    <3>2. page[d].session <= logins'
      BY <3>1 DEF PageType
    <3>3. QED BY <3>1, <3>2
  <2>3. QED BY <2>1, <2>2
<1>4. CallsOK'
  <2>1. \A d \in Page : CallOK(d, page[d])'
    BY <1>3 DEF CallOK
  <2>2. QED BY <1>2, <1>3, <2>1 DEF CallsOK
<1>5. PagesOK'
  BY <1>3 DEF PagesOK, DraftOK
<1>6. QED BY <1>4, <1>5 DEF IInv, TypesOK

\* A step inside a page leaves the database and the calls given up on alone.
LEMMA LocalStep ==
  ASSUME IInv, NEW c \in Page, NEW p, Local(c, p), p \in PageType, CallOK(c, p),
         p.session <= logins, DraftOK(history, c, p),
         p.pending = NoSave \/ (p.pending = page[c].pending /\ p.session = page[c].session)
  PROVE  IInv'
<1>1. /\ page' = [page EXCEPT ![c] = p]
      /\ UNCHANGED <<history, receipts, sessions, pin, logins, keys, late, refused>>
  BY DEF Local, server
<1>2. TypesOK /\ CoreOK /\ DatabaseOK /\ LateOK /\ Tries \subseteq TryType /\ logins \in Nat
  BY TriesTyped DEF IInv, TypesOK, DatabaseOK, CallsOK
<1>3. DatabaseOK' /\ LateOK'
  BY <1>1, <1>2 DEF DatabaseOK, LateOK
<1>4. Tries' \subseteq Tries
  BY <1>1, <1>2, TriesOfStep
<1>5. CoreOK'
  BY <1>1, <1>2, <1>4, CoreKept
<1>6. \A d \in Page : DraftOK(history', d, page[d])
  BY <1>1 DEF IInv, PagesOK
<1>7. p.session <= logins' /\ logins <= logins' /\ logins' \in Nat /\ DraftOK(history', c, p)
  BY <1>1, <1>2
<1>8. page' = [page EXCEPT ![c] = p]
  BY <1>1
<1>9. QED BY <1>3, <1>5, <1>6, <1>7, <1>8, PageStep

\* Dropping the candidate, the unconfirmed save or the revision asks less of a draft.
LEMMA DraftWeaker ==
  ASSUME NEW h, NEW c, NEW o, NEW p, DraftOK(h, c, o),
         Others(c, p.draft) = Others(c, o.draft),
         p.pending = NoSave \/ p.pending = o.pending,
         p.candidate = NoDraft \/ p.candidate = o.candidate,
         p.revision = o.revision \/ (p.revision = Null /\ p.pending = NoSave)
  PROVE  DraftOK(h, c, p)
BY DEF DraftOK

\* What is known of a page.
LEMMA PageFacts ==
  ASSUME IInv, NEW c \in Page
  PROVE  /\ page[c] \in PageType /\ CallOK(c, page[c]) /\ page[c].session <= logins
         /\ DraftOK(history, c, page[c]) /\ logins \in 0..MaxLogins
         /\ page[c].call \in CallType /\ (Idle(c) => page[c].call.kind = "none")
BY DEF IInv, TypesOK, CallsOK, PagesOK, DatabaseOK, PageType, Idle, NoCall

LEMMA EditStep ==
  ASSUME IInv, NEW c \in Page, Edit(c)
  PROVE  IInv'
<1> DEFINE o == page[c]
           p == [o EXCEPT !.edits = @ + 1, !.draft = @ \cup {<<c, o.edits + 1>>}]
<1>1. /\ o \in PageType /\ CallOK(c, o) /\ o.session <= logins /\ DraftOK(history, c, o)
      /\ Local(c, p) /\ o.edits < MaxEdits
  BY PageFacts DEF Edit
<1>2. p \in PageType /\ p.pending = o.pending /\ p.session = o.session /\ p.call = o.call
      /\ p.candidate = o.candidate /\ p.revision = o.revision
      /\ p.draft = o.draft \cup {<<c, o.edits + 1>>}
  <2>1. o.edits + 1 \in 0..MaxEdits /\ o.edits + 1 \in 1..MaxEdits
    BY <1>1, BoardBoundAssumption DEF PageType
  <2>2. o.draft \cup {<<c, o.edits + 1>>} \in Draft
    BY <1>1, <2>1 DEF PageType, Draft
  <2>3. QED BY <1>1, <2>1, <2>2 DEF PageType
<1> HIDE DEF p
<1>3. CallOK(c, p)
  BY <1>1, <1>2 DEF CallOK
<1>4. Others(c, p.draft) = Others(c, o.draft)
  BY <1>2 DEF Others
<1>5. DraftOK(history, c, p)
  BY <1>1, <1>2, <1>4, DraftWeaker
<1>6. QED BY <1>1, <1>2, <1>3, <1>5, LocalStep

\* A page that signs in or out waits for nothing but that call.
LEMMA SignStep ==
  ASSUME IInv, NEW c \in Page,
         (\E right \in Pins : Login(c, right)) \/ Logout(c)
  PROVE  IInv'
<1> DEFINE o == page[c]
<1>1. o \in PageType /\ o.session <= logins /\ DraftOK(history, c, o) /\ logins \in 0..MaxLogins
  BY PageFacts
<1>2. ASSUME NEW q \in CallType, q.kind \in {"login", "logout"},
             Local(c, Call([SignedOut(o) EXCEPT !.candidate = NoDraft], q))
      PROVE  IInv'
  <2> DEFINE p == Call([SignedOut(o) EXCEPT !.candidate = NoDraft], q)
  <2>1. p \in PageType /\ p.pending = NoSave /\ p.session = 0 /\ p.call = q
        /\ p.candidate = NoDraft /\ p.revision = Null /\ p.draft = o.draft
    <3>1. 0 \in 0..MaxLogins /\ Null \in Null..MaxSaves
      BY BoardBoundAssumption DEF Null
    <3>2. p = [o EXCEPT !.session = 0, !.revision = Null, !.pending = NoSave,
                        !.candidate = NoDraft, !.call = q]
      BY <1>1 DEF PageType, Call, SignedOut, NoToken
    <3> HIDE DEF p
    <3>3. QED BY <1>1, <3>1, <3>2 DEF PageType
  <2> HIDE DEF p
  <2>2. CallOK(c, p)
    BY <1>2, <2>1 DEF CallOK
  <2>3. DraftOK(history, c, p)
    BY <1>1, <2>1, DraftWeaker
  <2>4. Local(c, p) /\ p.session <= logins
    BY <1>1, <1>2, <2>1 DEF p
  <2>5. QED BY <2>1, <2>2, <2>3, <2>4, LocalStep
<1>3. ASSUME NEW right \in Pins, Login(c, right) PROVE IInv'
  <2>1. [kind |-> "login", right |-> right] \in CallType
    BY BoardBoundAssumption DEF CallType
  <2>2. QED BY <1>2, <1>3, <2>1 DEF Login
<1>4. ASSUME Logout(c) PROVE IInv'
  <2>1. o.session \in 1..MaxLogins
    BY <1>1, <1>4 DEF Logout, SignedIn, NoToken, PageType
  <2>2. [kind |-> "logout", session |-> o.session] \in CallType
    BY <2>1 DEF CallType
  <2>3. QED BY <1>2, <1>4, <2>2 DEF Logout
<1>5. QED BY <1>3, <1>4

\* Load and CancelLoad drop the candidate; Load reads unless a save is unconfirmed.
LEMMA ReadStep ==
  ASSUME IInv, NEW c \in Page, Load(c) \/ CancelLoad(c)
  PROVE  IInv'
<1> DEFINE o == page[c]
<1>1. /\ o \in PageType /\ o.session <= logins /\ DraftOK(history, c, o) /\ CallOK(c, o)
      /\ o.session \in 1..MaxLogins /\ o.call.kind = "none" /\ o.call \in CallType
  BY PageFacts DEF Load, CancelLoad, SignedIn, NoToken, PageType
<1>2. ASSUME NEW q \in CallType,
             q = o.call \/ (q.kind = "load" /\ o.pending = NoSave),
             Local(c, Call([o EXCEPT !.candidate = NoDraft], q))
      PROVE  IInv'
  <2> DEFINE p == Call([o EXCEPT !.candidate = NoDraft], q)
  <2>1. p \in PageType /\ p.pending = o.pending /\ p.session = o.session /\ p.call = q
        /\ p.candidate = NoDraft /\ p.revision = o.revision /\ p.draft = o.draft
    BY <1>1, <1>2 DEF PageType, Call
  <2> HIDE DEF p
  <2>2. CallOK(c, p)
    BY <1>1, <1>2, <2>1 DEF CallOK
  <2>3. DraftOK(history, c, p)
    BY <1>1, <2>1, DraftWeaker
  <2>4. Local(c, p)
    BY <1>2 DEF p
  <2>5. QED BY <1>1, <2>1, <2>2, <2>3, <2>4, LocalStep
<1>3. [o EXCEPT !.candidate = NoDraft] = Call([o EXCEPT !.candidate = NoDraft], o.call)
  BY <1>1 DEF PageType, Call
<1>4. [kind |-> "load", session |-> o.session] \in CallType
  BY <1>1 DEF CallType
<1>5. CASE CancelLoad(c)
  BY <1>1, <1>2, <1>3, <1>5 DEF CancelLoad
<1>6. CASE Load(c) /\ o.pending # NoSave
  BY <1>1, <1>2, <1>3, <1>6 DEF Load
<1>7. CASE Load(c) /\ o.pending = NoSave
  <2>1. [o EXCEPT !.candidate = NoDraft].pending = NoSave
        /\ [o EXCEPT !.candidate = NoDraft].session = o.session
    BY <1>1, <1>7 DEF PageType
  <2>2. Local(c, Call([o EXCEPT !.candidate = NoDraft], [kind |-> "load", session |-> o.session]))
    BY <1>7, <2>1 DEF Load
  <2>3. QED BY <1>2, <1>4, <1>7, <2>2
<1>8. QED BY <1>5, <1>6, <1>7

\* The loaded draft replaces the edited one, also under an unconfirmed save.
LEMMA ConfirmStep ==
  ASSUME IInv, NEW c \in Page, ConfirmLoad(c)
  PROVE  IInv'
<1> DEFINE o == page[c]
           dropped == [o EXCEPT !.candidate = NoDraft]
           p == IF o.draft # o.candidate.baseline THEN dropped
                ELSE [dropped EXCEPT !.draft = o.candidate.content,
                                     !.revision = o.candidate.revision]
<1>1. /\ o \in PageType /\ o.session <= logins /\ DraftOK(history, c, o) /\ CallOK(c, o)
      /\ Local(c, p) /\ o.candidate # NoDraft
  BY PageFacts DEF ConfirmLoad
<1>2. /\ p \in PageType /\ p.pending = o.pending /\ p.session = o.session /\ p.call = o.call
      /\ p.candidate = NoDraft
      /\ \/ p.draft = o.draft /\ p.revision = o.revision
         \/ p.draft = o.candidate.content /\ p.revision = o.candidate.revision
  <2>1. o.candidate.content \in Draft /\ o.candidate.revision \in Null..MaxSaves
    BY <1>1, BoardBoundAssumption DEF PageType, CandidateType, Null
  <2>2. QED BY <1>1, <2>1 DEF PageType
<1> HIDE DEF p
<1>3. CallOK(c, p)
  BY <1>1, <1>2 DEF CallOK
<1>4. DraftOK(history, c, p)
  <2>1. CASE p.draft = o.draft /\ p.revision = o.revision
    BY <1>1, <1>2, <2>1, DraftWeaker
  <2>2. CASE p.draft = o.candidate.content /\ p.revision = o.candidate.revision
    <3>1. /\ o.candidate.revision \in 1..MaxSaves /\ o.candidate.revision <= Len(history)
          /\ o.candidate.content = Content(history, o.candidate.revision)
      BY <1>1 DEF DraftOK, PageType, CandidateType
    <3>2. history # <<>>
      BY <3>1
    <3>3. ASSUME o.pending # NoSave, Live(history, o.pending)
          PROVE  Others(c, o.pending.content) = Others(c, p.draft)
      <4>1. /\ Others(c, o.pending.content) = Others(c, o.draft)
            /\ o.revision = o.pending.expected
            /\ o.pending.expected >= o.candidate.revision
        BY <1>1, <3>3 DEF DraftOK
      <4>2. o.pending.expected \in Nat
        BY <1>1, <3>3 DEF PageType, SaveType
      <4>3. o.revision # Null /\ o.revision >= o.candidate.revision
        BY <4>1, <4>2 DEF Null
      <4>4. Others(c, o.candidate.content) = Others(c, o.draft)
        BY <1>1, <4>3 DEF DraftOK
      <4>5. QED BY <2>2, <4>1, <4>4
    <3>4. QED BY <1>2, <2>2, <3>1, <3>2, <3>3 DEF DraftOK
  <2>3. QED BY <1>2, <2>1, <2>2
<1>5. QED BY <1>1, <1>2, <1>3, <1>4, LocalStep

-----------------------------------------------------------------------------
(* Saving *)

\* The same save goes out again.
LEMMA SaveAgainStep ==
  ASSUME IInv, NEW c \in Page, NEW kind \in {"save", "retry"}, Idle(c), SignedIn(c),
         page[c].pending # NoSave, Local(c, SaveCall(page[c], kind))
  PROVE  IInv'
<1> DEFINE o == page[c]
           q == [kind |-> kind, session |-> o.session, save |-> o.pending]
           p == Call(o, q)
<1>1. /\ o \in PageType /\ o.session <= logins /\ DraftOK(history, c, o) /\ CallOK(c, o)
      /\ o.session \in 1..MaxLogins /\ o.pending \in SaveType
  BY PageFacts DEF SignedIn, NoToken, PageType
<1>2. q \in CallType /\ q.kind = kind /\ q.session = o.session /\ q.save = o.pending
  BY <1>1 DEF CallType
<1>3. Local(c, p)
  BY DEF SaveCall, Call
<1> HIDE DEF q
<1>4. /\ p \in PageType /\ p.pending = o.pending /\ p.session = o.session /\ p.call = q
      /\ p.candidate = o.candidate /\ p.revision = o.revision /\ p.draft = o.draft
  BY <1>1, <1>2 DEF PageType, Call
<1> HIDE DEF p
<1>5. CallOK(c, p)
  BY <1>1, <1>2, <1>4 DEF CallOK
<1>6. DraftOK(history, c, p)
  BY <1>1, <1>4, DraftWeaker
<1>7. QED BY <1>1, <1>3, <1>4, <1>5, <1>6, LocalStep

LEMMA NewSaveStep ==
  ASSUME IInv, NEW c \in Page, SignedIn(c), page[c].revision # Null, keys < MaxSaves,
         keys' = keys + 1, UNCHANGED <<server, late, refused>>,
         NEW s, s = [key |-> keys + 1, by |-> c, content |-> page[c].draft,
                     expected |-> page[c].revision],
         page' = [page EXCEPT ![c] = SaveCall([@ EXCEPT !.pending = s], "save")]
  PROVE  IInv'
<1> DEFINE o == page[c]
           q == [kind |-> "save", session |-> o.session, save |-> s]
           p == [o EXCEPT !.pending = s, !.call = q]
<1>1. /\ o \in PageType /\ o.session <= logins /\ DraftOK(history, c, o) /\ CallOK(c, o)
      /\ o.session \in 1..MaxLogins
  BY PageFacts DEF SignedIn, NoToken, PageType
<1>2. /\ TypesOK /\ CoreOK /\ DatabaseOK /\ LateOK /\ Tries \subseteq TryType
      /\ logins \in Nat /\ keys \in Nat /\ MaxSaves \in Nat /\ Len(history) \in Nat
      /\ page \in [Page -> PageType]
      /\ UNCHANGED <<history, receipts, sessions, pin, logins, late, refused>>
  <2>1. TypesOK /\ CoreOK
    BY DEF IInv
  <2>2. DatabaseOK /\ LateOK /\ page \in [Page -> PageType]
    BY <2>1 DEF TypesOK, CallsOK
  <2>3. Tries \subseteq TryType
    BY ONLY <2>1, TriesTyped
  <2>4. logins \in Nat /\ keys \in Nat /\ Len(history) \in Nat /\ MaxSaves \in Nat
    BY ONLY <2>2, BoardBoundAssumption DEF DatabaseOK
  <2>5. UNCHANGED <<history, receipts, sessions, pin, logins, late, refused>>
    BY DEF server
  <2>6. QED BY <2>1, <2>2, <2>3, <2>4, <2>5
<1>3. /\ o.revision \in 0..Len(history)
      /\ Others(c, o.draft) = Others(c, Content(history, o.revision))
  BY <1>1 DEF DraftOK, PageType, Null
<1>4. /\ s \in SaveType /\ s.key = keys + 1 /\ s.by = c /\ s.content = o.draft
      /\ s.expected = o.revision /\ s # NoSave
  <2>1. o.revision \in 0..MaxSaves /\ keys + 1 \in 1..MaxSaves
    BY <1>2, <1>3 DEF DatabaseOK
  <2>2. s \in SaveType /\ s.key = keys + 1 /\ s.by = c /\ s.content = o.draft
        /\ s.expected = o.revision
    BY <1>1, <2>1 DEF SaveType, PageType
  <2>3. s # NoSave
    BY <1>2, <2>2 DEF NoSave
  <2>4. QED BY <2>2, <2>3
<1>5. q \in CallType /\ q.kind = "save" /\ q.session = o.session /\ q.save = s
  BY <1>1, <1>4 DEF CallType
<1>6. page' = [page EXCEPT ![c] = p]
  <2>1. SaveCall([o EXCEPT !.pending = s], "save") = p
    BY <1>1 DEF SaveCall, Call, PageType
  <2>2. QED BY <2>1
<1> HIDE DEF q
<1>7. /\ p \in PageType /\ p.pending = s /\ p.session = o.session /\ p.call = q
      /\ p.candidate = o.candidate /\ p.revision = o.revision /\ p.draft = o.draft
  BY <1>1, <1>4, <1>5 DEF PageType
<1> HIDE DEF p
<1>8. CallOK(c, p)
  BY <1>1, <1>4, <1>5, <1>7 DEF CallOK, NoToken
<1>9. DraftOK(history, c, p)
  <2>1. ~Saved(history, s.key)
    <3>1. ASSUME NEW i \in 1..Len(history) PROVE history[i].key # keys + 1
      <4>1. history[i].key <= keys
        BY <1>2 DEF CoreOK, HistoryInOrder
      <4>2. history[i] \in SaveType
        BY <1>2, ElementOfSeq DEF DatabaseOK
      <4>3. QED BY <1>2, <4>1, <4>2 DEF SaveType
    <3>2. QED BY <1>4, <3>1 DEF Saved
  <2>2. ASSUME p.candidate # NoDraft, Live(history, s)
        PROVE  s.expected >= p.candidate.revision
    <3>1. s.expected = Len(history) /\ p.candidate.revision <= Len(history)
      BY <1>1, <1>7, <2>1, <2>2 DEF Live, DraftOK
    <3>2. p.candidate.revision \in Nat
      BY <1>7, <2>2 DEF PageType, CandidateType
    <3>3. QED BY <1>2, <3>1, <3>2
  <2>3. QED BY <1>1, <1>4, <1>7, <2>2 DEF DraftOK
<1>10. Tries' \subseteq Tries \cup {[save |-> s, session |-> o.session]}
  <2>1. \A d \in Page : page'[d] = IF d = c THEN p ELSE page[d]
    BY <1>2, <1>6
  <2>2. ASSUME NEW d \in Page, page'[d].pending # NoSave
        PROVE  [save |-> page'[d].pending, session |-> page'[d].session]
                 \in Tries \cup {[save |-> s, session |-> o.session]}
    <3>1. CASE d = c
      BY <1>7, <2>1, <3>1
    <3>2. CASE d # c
      BY <1>2, <2>1, <2>2, <3>2, TriesOfCalls
    <3>3. QED BY <3>1, <3>2
  <2>3. \A x \in late' : x.kind = "save" => [save |-> x.save, session |-> x.session] \in Tries
    BY <1>2, TriesOfCalls
  <2>4. QED BY <2>2, <2>3 DEF Tries
<1>11. CoreOK'
  <2>1. o.session \in 1..logins
    BY <1>1, <1>2
  <2>2. Others(s.by, Content(history, s.expected)) \subseteq s.content
    BY <1>3, <1>4 DEF Others
  <2>3. s.expected \in 0..Len(history)
    BY <1>3, <1>4
  <2>4. QED BY <1>2, <1>4, <1>10, <2>1, <2>2, <2>3, CoreNewSave
<1>12. DatabaseOK'
  <2>1. Len(history') <= keys' /\ keys' \in 0..MaxSaves
    BY <1>2 DEF DatabaseOK
  <2>2. QED BY <1>2, <2>1 DEF DatabaseOK
<1>13. LateOK' /\ logins <= logins' /\ logins' \in Nat /\ p.session <= logins'
  BY <1>1, <1>2, <1>7 DEF LateOK
<1>14. DraftOK(history', c, p) /\ \A d \in Page : DraftOK(history', d, page[d])
  BY <1>2, <1>9 DEF IInv, PagesOK
<1>15. QED BY <1>6, <1>7, <1>8, <1>11, <1>12, <1>13, <1>14, PageStep

LEMMA SaveStep ==
  ASSUME IInv, NEW c \in Page, Save(c) \/ Retry(c)
  PROVE  IInv'
<1>1. CASE Retry(c)
  BY <1>1, SaveAgainStep DEF Retry
<1>2. CASE Save(c) /\ page[c].pending # NoSave
  BY <1>2, SaveAgainStep DEF Save
<1>3. CASE Save(c) /\ page[c].pending = NoSave
  BY <1>3, NewSaveStep DEF Save
<1>4. QED BY <1>1, <1>2, <1>3

-----------------------------------------------------------------------------
(* Answers *)

ServedPage(p, a) ==
  IF a.status \in {"UNAUTHENTICATED", "PIN_INCORRECT"}
  THEN [SignedOut(p) EXCEPT !.call = NoCall] ELSE Answered(p, a)

\* A new page that fits the call and the database it was served by.
Fits(c, p) ==
  /\ p \in PageType /\ CallOK(c, p) /\ p.session <= logins' /\ DraftOK(history', c, p)

\* Before an answer arrives the page is still good, whatever the call did.
LEMMA Rests ==
  ASSUME IInv, NEW c \in Page, NEW p,
         logins <= logins', logins' \in Nat, DraftOK(history', c, page[c]),
         p = [page[c] EXCEPT !.call = NoCall] \/ p = [SignedOut(page[c]) EXCEPT !.call = NoCall]
         \/ p = Conflicted(page[c])
  PROVE  Fits(c, p)
<1> DEFINE o == page[c]
<1>1. o \in PageType /\ o.session <= logins /\ CallOK(c, o) /\ logins \in Nat
  BY PageFacts
<1>2. /\ 0 \in 0..MaxLogins /\ Null \in Null..MaxSaves /\ NoCall \in CallType
      /\ NoCall.kind = "none"
  BY BoardBoundAssumption DEF Null, CallType, NoCall
<1>3. /\ p \in PageType /\ p.call = NoCall /\ p.draft = o.draft /\ p.candidate = o.candidate
      /\ \/ p.session = o.session /\ p.revision = o.revision /\ p.pending = o.pending
         \/ p.session = 0 /\ p.revision = Null /\ p.pending = NoSave
         \/ p.session = o.session /\ p.revision = Null /\ p.pending = NoSave
  BY <1>1, <1>2 DEF PageType, SignedOut, Conflicted, NoToken
<1>4. CallOK(c, p)
  BY <1>1, <1>2, <1>3 DEF CallOK
<1>5. p.session <= logins'
  <2>1. o.session \in Nat
    BY <1>1 DEF PageType
  <2>2. QED BY <1>1, <1>3, <2>1
<1>6. DraftOK(history', c, p)
  BY <1>3, DraftWeaker
<1>7. QED BY <1>3, <1>4, <1>5, <1>6 DEF Fits

\* The answer to a login.
LEMMA LoginAnswered ==
  ASSUME IInv, NEW c \in Page, page[c].call.kind = "login", LoginEffect(page[c].call),
         logins <= logins', logins' \in 0..MaxLogins, DraftOK(history', c, page[c])
  PROVE  Fits(c, ServedPage(page[c], LoginReply(page[c].call)))
<1> DEFINE o == page[c]
           a == LoginReply(o.call)
<1>1. o \in PageType /\ CallOK(c, o) /\ o.pending = NoSave /\ logins' \in Nat
  BY PageFacts DEF CallOK
<1>2. CASE a.status = "PIN_LOCKED" \/ a.status = "PIN_INCORRECT"
  <2>1. ServedPage(o, a) = [o EXCEPT !.call = NoCall]
        \/ ServedPage(o, a) = [SignedOut(o) EXCEPT !.call = NoCall]
    BY <1>2 DEF ServedPage, Answered
  <2>2. QED BY <1>1, <2>1, Rests
<1>3. CASE a.status = "ok"
  <2>1. ~pin.locked /\ o.call.right /\ a.token = logins + 1
    BY <1>3 DEF LoginReply
  <2>2. logins' = logins + 1
    BY <2>1 DEF LoginEffect
  <2> DEFINE q == [kind |-> "inspect", session |-> logins + 1]
             p == [o EXCEPT !.session = logins + 1, !.call = q]
  <2>3. ServedPage(o, a) = p
    BY <1>1, <1>3, <2>1 DEF ServedPage, Answered, Call, PageType
  <2>4. logins \in Nat /\ logins + 1 \in 1..MaxLogins /\ logins + 1 \in 0..MaxLogins
    BY <2>2, PageFacts
  <2>5. q \in CallType /\ q.kind = "inspect"
    BY <2>4 DEF CallType
  <2> HIDE DEF q
  <2>6. /\ p \in PageType /\ p.call = q /\ p.draft = o.draft /\ p.candidate = o.candidate
        /\ p.session = logins + 1 /\ p.revision = o.revision /\ p.pending = o.pending
    BY <1>1, <2>4, <2>5 DEF PageType
  <2> HIDE DEF p
  <2>7. CallOK(c, p) /\ p.session <= logins'
    BY <1>1, <2>2, <2>4, <2>5, <2>6 DEF CallOK
  <2>8. DraftOK(history', c, p)
    BY <2>6, DraftWeaker
  <2>9. QED BY <2>3, <2>6, <2>7, <2>8 DEF Fits
<1>4. QED BY <1>2, <1>3 DEF LoginReply

-----------------------------------------------------------------------------
\* The answer to a read: the server's last revision, or nothing yet.
LEMMA ReadAnswered ==
  ASSUME IInv, NEW c \in Page, page[c].call.kind \in {"inspect", "load"}, UNCHANGED server
  PROVE  Fits(c, ServedPage(page[c], ReadReply(page[c].call)))
<1> DEFINE o == page[c]
           a == ReadReply(o.call)
<1>1. /\ o \in PageType /\ CallOK(c, o) /\ o.pending = NoSave /\ o.session <= logins
      /\ DraftOK(history, c, o) /\ UNCHANGED <<history, logins>> /\ logins \in Nat
  BY PageFacts DEF CallOK, server
<1>2. DraftOK(history', c, page[c]) /\ logins <= logins' /\ logins' \in Nat
  BY <1>1
<1>3. history \in Seq(SaveType) /\ Len(history) \in 0..MaxSaves
  BY BoardBoundAssumption DEF IInv, TypesOK, DatabaseOK
<1>4. CASE a.status = "UNAUTHENTICATED"
  <2>1. ServedPage(o, a) = [SignedOut(o) EXCEPT !.call = NoCall]
    BY <1>4 DEF ServedPage
  <2>2. QED BY <1>2, <2>1, Rests
<1>5. CASE a.status = "ok"
  <2>1. /\ a.revision = Len(history)
        /\ a.content = IF history = <<>> THEN {} ELSE history[Len(history)].content
    BY <1>5 DEF ReadReply
  <2>2. CASE o.call.kind = "inspect" /\ Len(history) # 0
    <3>1. ServedPage(o, a) = [o EXCEPT !.call = NoCall]
      BY <1>1, <1>5, <2>1, <2>2 DEF ServedPage, Answered, PageType
    <3>2. QED BY <1>2, <3>1, Rests
  <2>3. CASE Len(history) = 0
    <3> DEFINE p == [o EXCEPT !.call = NoCall, !.revision = 0]
    <3>1. ServedPage(o, a) = p
      BY <1>5, <2>1, <2>3 DEF ServedPage, Answered
    <3>2. NoCall \in CallType /\ NoCall.kind = "none" /\ 0 \in Null..MaxSaves
      BY BoardBoundAssumption DEF CallType, NoCall, Null
    <3>3. /\ p \in PageType /\ p.call = NoCall /\ p.draft = o.draft /\ p.candidate = o.candidate
          /\ p.session = o.session /\ p.revision = 0 /\ p.pending = NoSave
      BY <1>1, <3>2 DEF PageType
    <3> HIDE DEF p
    <3>4. CallOK(c, p) /\ p.session <= logins'
      BY <1>1, <3>2, <3>3 DEF CallOK
    <3>5. history = <<>> /\ Others(c, p.draft) = {}
      BY <1>1, <1>3, <2>3, <3>3 DEF DraftOK
    <3>6. p.candidate = NoDraft
      <4>1. p.candidate # NoDraft => p.candidate.revision <= 0 /\ p.candidate.revision \in 1..MaxSaves
        BY <1>1, <2>3, <3>3 DEF DraftOK, PageType, CandidateType
      <4>2. QED BY <4>1
    <3>7. Others(c, Content(history, 0)) = {}
      BY DEF Others, Content
    <3>8. DraftOK(history, c, p)
      BY <2>3, <3>3, <3>5, <3>6, <3>7 DEF DraftOK
    <3>9. QED BY <1>1, <3>1, <3>3, <3>4, <3>8 DEF Fits
  <2>4. CASE o.call.kind = "load" /\ Len(history) # 0
    <3> DEFINE n == Len(history)
               found == [revision |-> n, content |-> history[n].content, baseline |-> o.draft]
               p == [o EXCEPT !.call = NoCall, !.candidate = found]
    <3>1. n \in 1..MaxSaves /\ n \in 1..Len(history) /\ history # <<>>
          /\ Content(history, n) = history[n].content
      BY <1>3, <2>4 DEF Content
    <3>2. ServedPage(o, a) = p
      BY <1>5, <2>1, <2>4, <3>1 DEF ServedPage, Answered
    <3>3. history[n] \in SaveType
      BY <1>3, <3>1, ElementOfSeq
    <3>4. found \in CandidateType /\ found.revision = n /\ found.content = history[n].content
      BY <1>1, <3>1, <3>3 DEF CandidateType, SaveType, PageType
    <3>5. NoCall \in CallType /\ NoCall.kind = "none"
      BY DEF CallType, NoCall
    <3> HIDE DEF found
    <3>6. /\ p \in PageType /\ p.call = NoCall /\ p.draft = o.draft /\ p.candidate = found
          /\ p.session = o.session /\ p.revision = o.revision /\ p.pending = NoSave
      BY <1>1, <3>4, <3>5 DEF PageType
    <3> HIDE DEF p, n
    <3>7. CallOK(c, p) /\ p.session <= logins'
      BY <1>1, <3>5, <3>6 DEF CallOK
    <3>8. ASSUME p.revision # Null, p.revision >= n
          PROVE  Others(c, found.content) = Others(c, p.draft)
      <4>1. p.revision <= n /\ Others(c, p.draft) = Others(c, Content(history, p.revision))
        BY <1>1, <3>6, <3>8 DEF DraftOK, n
      <4>2. p.revision \in Int /\ n \in Int
        BY <3>1, <3>6 DEF PageType, Null
      <4>3. p.revision = n
        BY <3>8, <4>1, <4>2
      <4>4. QED BY <3>1, <3>4, <4>1, <4>3
    <3>9. n <= Len(history)
      BY <3>1
    <3>10. DraftOK(history, c, p)
      BY <1>1, <3>1, <3>4, <3>6, <3>8, <3>9 DEF DraftOK
    <3>11. QED BY <1>1, <3>2, <3>6, <3>7, <3>10 DEF Fits
  <2>5. QED BY <2>2, <2>3, <2>4
<1>6. QED BY <1>4, <1>5 DEF ReadReply

\* A save that is confirmed is in the history, in the place its expected revision names.
LEMMA ConfirmedInHistory ==
  ASSUME IInv, CoreOK', NEW c \in Page, page[c].call.kind \in {"save", "retry"},
         SaveEffect(page[c].call), SaveReply(page[c].call).status = "ok"
  PROVE  \E i \in 1..Len(history') :
           /\ history'[i] = page[c].pending /\ page[c].pending.expected = i - 1
           /\ SaveReply(page[c].call).revision = i
<1> DEFINE q == page[c].call
           t == [save |-> q.save, session |-> q.session]
           a == SaveReply(q)
<1>1. /\ TypesOK /\ CoreOK /\ Tries \subseteq TryType /\ DatabaseOK
      /\ q.save = page[c].pending /\ t \in Tries /\ t.save = q.save /\ t.session = q.session
  BY TriesTyped, TriesOfCalls DEF IInv, TypesOK, CallsOK, CallOK
<1> HIDE DEF t
<1>2. q.save \in SaveType
  BY <1>1 DEF TryType
<1>3. CASE Receipt(q) # {}
  <2>1. a.revision = q.save.expected + 1 /\ ~Commits(q)
    BY <1>3 DEF SaveReply, Commits
  <2>2. UNCHANGED history
    BY <2>1 DEF SaveEffect
  <2>3. PICK r \in receipts : r.key = q.save.key
    BY <1>3 DEF Receipt
  <2>4. PICK i \in 1..Len(history) : history[i].key = t.save.key
    BY <1>1, <2>3 DEF CoreOK, StoredIsKnown, Saved
  <2>5. history[i] = q.save /\ history[i].expected = i - 1
    BY <1>1, <2>4 DEF CoreOK, OneSavePerKey, HistoryInOrder
  <2>6. a.revision = i
    BY <2>1, <2>5
  <2>7. QED BY <1>1, <2>2, <2>5, <2>6
<1>4. CASE Receipt(q) = {}
  <2>1. Commits(q) /\ a.revision = Len(history) + 1
    <3>1. Cardinality(receipts) \in Nat /\ MaxReceipts \in Nat
      BY <1>1, BoardBoundAssumption, FS_CardinalityType DEF DatabaseOK
    <3>2. QED BY <1>4, <3>1 DEF SaveReply, Commits
  <2>2. history' = Append(history, q.save) /\ q.save.expected = Len(history)
    BY <2>1 DEF SaveEffect, Commits
  <2>3. Len(history) \in Nat /\ Len(history') = Len(history) + 1
        /\ history'[Len(history) + 1] = q.save
    BY <1>1, <1>2, <2>2, AppendProperties DEF DatabaseOK
  <2> DEFINE i == Len(history) + 1
  <2>4. i \in 1..Len(history') /\ history'[i] = q.save /\ q.save.expected = i - 1 /\ a.revision = i
    BY <2>1, <2>2, <2>3
  <2>5. QED BY <1>1, <2>4
<1>5. QED BY <1>3, <1>4

\* The answer to a save.
LEMMA SaveAnswered ==
  ASSUME IInv, DatabaseOK', CoreOK', NEW c \in Page, page[c].call.kind \in {"save", "retry"},
         SaveEffect(page[c].call),
         logins <= logins', logins' \in Nat, DraftOK(history', c, page[c])
  PROVE  Fits(c, ServedPage(page[c], SaveReply(page[c].call)))
<1> DEFINE o == page[c]
           a == SaveReply(o.call)
<1>1. o \in PageType /\ CallOK(c, o) /\ o.pending # NoSave /\ o.session <= logins
  BY PageFacts DEF CallOK
<1>2. CASE a.status \in {"UNAUTHENTICATED", "RATE_LIMITED", "VERSION_CONFLICT"}
  <2>1. \/ ServedPage(o, a) = [o EXCEPT !.call = NoCall]
        \/ ServedPage(o, a) = [SignedOut(o) EXCEPT !.call = NoCall]
        \/ ServedPage(o, a) = Conflicted(o)
    BY <1>2 DEF ServedPage, Answered
  <2>2. QED BY <2>1, Rests
<1>3. CASE a.status = "ok"
  <2>1. PICK i \in 1..Len(history') :
          history'[i] = o.pending /\ o.pending.expected = i - 1 /\ a.revision = i
    BY <1>3, ConfirmedInHistory
  <2> DEFINE p == [o EXCEPT !.call = NoCall, !.revision = i, !.pending = NoSave,
                            !.candidate = IF o.call.kind = "save" THEN NoDraft ELSE @]
  <2>2. ServedPage(o, a) = p
    BY <1>3, <2>1 DEF ServedPage, Answered
  <2>3. NoCall \in CallType /\ NoCall.kind = "none" /\ i \in Nat /\ i \in Null..MaxSaves
    <3>1. Len(history') \in 0..MaxSaves
      BY BoardBoundAssumption DEF DatabaseOK
    <3>2. i \in Nat /\ i \in Null..MaxSaves
      BY <3>1, BoardBoundAssumption DEF Null
    <3>3. QED BY <3>2 DEF CallType, NoCall
  <2>4. /\ p \in PageType /\ p.call = NoCall /\ p.draft = o.draft
        /\ p.candidate = NoDraft \/ p.candidate = o.candidate
        /\ p.session = o.session /\ p.revision = i /\ p.pending = NoSave
    BY <1>1, <2>3 DEF PageType
  <2> HIDE DEF p
  <2>5. CallOK(c, p)
    BY <2>3, <2>4 DEF CallOK
  <2>6. p.session <= logins'
    <3>1. o.session \in Nat /\ logins \in Nat
      BY <1>1, PageFacts DEF PageType
    <3>2. QED BY <1>1, <2>4, <3>1
  <2>7. Live(history', o.pending) /\ Content(history', i) = o.pending.content
    BY <2>1 DEF Live, Saved, Content
  <2>8. Others(c, p.draft) = Others(c, Content(history', i))
    BY <1>1, <2>4, <2>7 DEF DraftOK
  <2>9. ASSUME p.candidate # NoDraft PROVE Others(c, p.candidate.content) = Others(c, p.draft)
    <3>1. p.candidate = o.candidate /\ o.revision = i - 1 /\ o.revision >= o.candidate.revision
      BY <1>1, <2>1, <2>4, <2>7, <2>9 DEF DraftOK
    <3>2. o.revision # Null
      BY <2>3, <3>1 DEF Null
    <3>3. QED BY <2>4, <2>9, <3>1, <3>2 DEF DraftOK
  <2>10. i <= Len(history') /\ history' # <<>>
    BY <2>3
  <2>11. DraftOK(history', c, p)
    BY <2>4, <2>8, <2>9, <2>10 DEF DraftOK
  <2>12. QED BY <2>2, <2>4, <2>5, <2>6, <2>11 DEF Fits
<1>4. QED BY <1>2, <1>3 DEF SaveReply

-----------------------------------------------------------------------------
(* The steps that reach the database *)

\* An answer never makes an unconfirmed save: it keeps the page's own, or drops it.
LEMMA ServedPending ==
  ASSUME IInv, NEW c \in Page, ~Idle(c), NEW a,
         NEW p, p = ServedPage(page[c], a)
  PROVE  p.pending = NoSave \/ (p.pending = page[c].pending /\ p.session = page[c].session)
<1> DEFINE o == page[c]
<1>1. o \in PageType /\ CallOK(c, o) /\ o.call \in CallType /\ o.call # NoCall
  BY PageFacts DEF Idle
<1>2. CASE a.status \in {"UNAUTHENTICATED", "PIN_INCORRECT"}
  BY <1>1, <1>2 DEF ServedPage, SignedOut, PageType
<1>3. CASE a.status \notin {"UNAUTHENTICATED", "PIN_INCORRECT"} /\ o.call.kind \in {"save", "retry"}
  BY <1>1, <1>3 DEF ServedPage, Answered, Conflicted, PageType
<1>4. CASE a.status \notin {"UNAUTHENTICATED", "PIN_INCORRECT"} /\ o.call.kind \notin {"save", "retry"}
  <2>1. o.pending = NoSave
    BY <1>1, <1>4, CallShapes DEF CallOK
  <2>2. p.pending = o.pending
    BY <1>1, <1>4 DEF ServedPage, Answered, Call, PageType
  <2>3. QED BY <2>1, <2>2
<1>5. QED BY <1>2, <1>3, <1>4

LEMMA PageCallIssued ==
  ASSUME IInv, NEW c \in Page, ~Idle(c)
  PROVE  Issued(page[c].call)
BY PageFacts, TriesOfCalls DEF IInv, Issued, Idle

LEMMA ServeStep ==
  ASSUME IInv, NEW c \in Page, Serve(c)
  PROVE  IInv'
<1> DEFINE o == page[c]
           q == o.call
           a == Reply(q)
           p == ServedPage(o, a)
<1>1. /\ ~Idle(c) /\ Effect(q) /\ UNCHANGED <<keys, late>> /\ page' = [page EXCEPT ![c] = p]
      /\ refused' = IF a.status = "VERSION_CONFLICT" THEN refused \cup {o.pending.key} ELSE refused
  BY DEF Serve, ServedPage
<1>2. /\ TypesOK /\ CoreOK /\ DatabaseOK /\ LateOK /\ Tries \subseteq TryType /\ CallOK(c, o)
      /\ Issued(q) /\ logins \in Nat
  BY <1>1, TriesTyped, PageCallIssued DEF IInv, TypesOK, CallsOK, DatabaseOK
<1>3. Tries' \subseteq Tries
  <2>1. p.pending = NoSave \/ (p.pending = o.pending /\ p.session = o.session)
    BY <1>1, ServedPending
  <2> HIDE DEF p
  <2>2. QED BY <1>1, <1>2, <2>1, TriesOfStep
<1>4. q.kind \in {"login", "inspect", "load", "logout", "save", "retry"}
  BY <1>2, CallShapes DEF Issued
<1>5. a.status = "VERSION_CONFLICT" => q.kind \in {"save", "retry"} /\ UNCHANGED server
  <2>1. ASSUME a.status = "VERSION_CONFLICT" PROVE q.kind \in {"save", "retry"}
    BY <1>4, <2>1 DEF Reply, LoginReply, ReadReply
  <2>2. ASSUME a.status = "VERSION_CONFLICT" PROVE UNCHANGED server
    <3>1. a = SaveReply(q) /\ SaveEffect(q)
      BY <1>1, <2>1, <2>2 DEF Reply, Effect
    <3>2. ~Commits(q)
      BY <2>2, <3>1 DEF SaveReply, Commits
    <3>3. QED BY <3>1, <3>2 DEF SaveEffect, server
  <2>3. QED BY <2>1, <2>2
<1>6. /\ DatabaseOK' /\ CoreOK' /\ logins <= logins' /\ logins' \in Nat
      /\ \A d \in Page : DraftOK(history', d, page[d])
  <2>1. CASE a.status # "VERSION_CONFLICT"
    BY <1>1, <1>2, <1>3, <2>1, EffectKeeps
  <2>2. CASE a.status = "VERSION_CONFLICT"
    <3> DEFINE t == [save |-> q.save, session |-> q.session]
    <3>1. q.kind \in {"save", "retry"} /\ UNCHANGED server /\ q.save = o.pending
      BY <1>2, <1>5, <2>2 DEF CallOK
    <3>2. t \in Tries /\ t.save = q.save
      BY <1>2, <3>1 DEF Issued
    <3> HIDE DEF t
    <3>3. a = SaveReply(q)
      BY <3>1 DEF Reply
    <3>4. Valid(q.session) /\ Receipt(q) = {} /\ q.save.expected # Len(history)
      BY <2>2, <3>3 DEF SaveReply
    <3>5. refused' = refused \cup {q.save.key} /\ UNCHANGED keys
      BY <1>1, <2>2, <3>1
    <3>6. CoreOK'
      BY <1>2, <1>3, <3>1, <3>2, <3>4, <3>5, CoreRefuses DEF t
    <3>7. UNCHANGED <<history, receipts, sessions, pin, logins, keys>>
      BY <3>1, <3>5 DEF server
    <3>8. q.save.key \in 1..MaxSaves
      BY <1>2, <3>2 DEF TryType, SaveType
    <3>9. DatabaseOK'
      BY <1>2, <3>5, <3>7, <3>8 DEF DatabaseOK
    <3>10. QED BY <1>2, <3>6, <3>7, <3>9 DEF IInv, PagesOK
  <2>3. QED BY <2>1, <2>2
<1>7. Fits(c, p)
  <2>1. DraftOK(history', c, o) /\ logins' \in 0..MaxLogins
    BY <1>6 DEF DatabaseOK
  <2>2. CASE q.kind = "login"
    BY <1>1, <1>6, <2>1, <2>2, LoginAnswered DEF Reply, Effect
  <2>3. CASE q.kind \in {"inspect", "load"}
    <3>1. a = ReadReply(q) /\ UNCHANGED server
      BY <1>1, <2>3 DEF Reply, Effect
    <3>2. QED BY <2>3, <3>1, ReadAnswered
  <2>4. CASE q.kind \in {"save", "retry"}
    <3>1. a = SaveReply(q) /\ SaveEffect(q)
      BY <1>1, <2>4 DEF Reply, Effect
    <3>2. QED BY <1>6, <2>1, <2>4, <3>1, SaveAnswered
  <2>5. CASE q.kind = "logout"
    <3>1. a = [status |-> "ok"]
      BY <2>5 DEF Reply
    <3>2. p = [o EXCEPT !.call = NoCall]
      BY <2>5, <3>1 DEF ServedPage, Answered
    <3>3. QED BY <1>6, <2>1, <3>2, Rests
  <2>6. QED BY <1>4, <2>2, <2>3, <2>4, <2>5
<1>8. LateOK'
  BY <1>1, <1>2 DEF LateOK
<1> HIDE DEF p
<1>9. QED BY <1>1, <1>6, <1>7, <1>8, PageStep DEF Fits

\* A call that is given up on is handled, on its way, or lost.
LEMMA Abandoned ==
  ASSUME LateOK, NEW q \in CallType, q # NoCall, Abandon(q)
  PROVE  /\ LateOK' /\ \A x \in late' : x \in late \/ x = Wire(q)
         /\ Effect(q) \/ UNCHANGED server
<1>1. CASE UNCHANGED late
  BY <1>1 DEF Abandon, LateOK
<1>2. CASE /\ q.kind \notin {"inspect", "load"} /\ late' = late \cup {Wire(q)}
           /\ Cardinality(late') <= MaxLate /\ UNCHANGED server
  <2>1. Wire(q) \in CallType /\ Wire(q).kind \in {"login", "logout", "save"}
    <3>1. CASE q.kind = "login"
      <4>1. Wire(q) = q
        BY <3>1, CallShapes DEF Wire
      <4>2. QED BY <3>1, <4>1
    <3>2. CASE q.kind = "logout"
      <4>1. Wire(q) = q
        BY <3>2, CallShapes DEF Wire
      <4>2. QED BY <3>2, <4>1
    <3>3. CASE q.kind \in {"save", "retry"}
      <4>1. q \in [kind : {"save", "retry"}, session : 1..MaxLogins, save : SaveType]
        BY <3>3, CallShapes
      <4>2. Wire(q) \in [kind : {"save", "retry"}, session : 1..MaxLogins, save : SaveType]
            /\ Wire(q).kind = "save"
        BY <3>3, <4>1 DEF Wire
      <4>3. QED BY <4>2 DEF CallType
    <3>4. QED BY <1>2, <3>1, <3>2, <3>3, CallShapes
  <2>2. IsFiniteSet(late')
    BY <1>2, FS_AddElement DEF LateOK
  <2>3. QED BY <1>2, <2>1, <2>2 DEF LateOK
<1>3. QED BY <1>1, <1>2 DEF Abandon

\* A page that stops waiting for its call, or is reloaded.
LEMMA LeaveStep ==
  ASSUME IInv, NEW c \in Page, NEW p, page' = [page EXCEPT ![c] = p],
         \/ ~Idle(c) /\ Abandon(page[c].call)
         \/ UNCHANGED <<server, late>>,
         UNCHANGED <<keys, refused>>,
         p = [page[c] EXCEPT !.call = NoCall]
         \/ p = [EmptyPage EXCEPT !.draft = page[c].draft, !.edits = page[c].edits]
  PROVE  IInv'
<1> DEFINE o == page[c]
           q == o.call
<1>1. /\ TypesOK /\ CoreOK /\ DatabaseOK /\ LateOK /\ Tries \subseteq TryType /\ logins \in Nat
      /\ o \in PageType /\ CallOK(c, o) /\ o.session <= logins /\ o.call \in CallType
  BY TriesTyped, PageFacts DEF IInv, TypesOK, CallsOK, DatabaseOK
<1>2. /\ 0 \in 0..MaxLogins /\ Null \in Null..MaxSaves /\ NoCall \in CallType
      /\ NoCall.kind = "none"
  BY BoardBoundAssumption DEF Null, CallType, NoCall
<1>3. /\ p \in PageType /\ p.call = NoCall /\ p.draft = o.draft
      /\ \/ /\ p.session = o.session /\ p.revision = o.revision /\ p.pending = o.pending
            /\ p.candidate = o.candidate
         \/ /\ p.session = 0 /\ p.revision = Null /\ p.pending = NoSave
            /\ p.candidate = NoDraft
  BY <1>1, <1>2 DEF PageType, EmptyPage, NoToken
<1>4. CallOK(c, p)
  BY <1>1, <1>2, <1>3 DEF CallOK
<1>5. /\ LateOK' /\ \A x \in late' : x \in late \/ x = Wire(q)
      /\ (~Idle(c) /\ Effect(q)) \/ UNCHANGED server
  <2>1. CASE UNCHANGED <<server, late>>
    BY <1>1, <2>1 DEF LateOK
  <2>2. CASE ~Idle(c) /\ Abandon(q)
    BY <1>1, <2>2, Abandoned DEF Idle
  <2>3. QED BY <2>1, <2>2
<1>6. Tries' \subseteq Tries
  BY <1>1, <1>3, <1>5, TriesOfStep
<1>7. /\ DatabaseOK' /\ CoreOK' /\ logins <= logins' /\ logins' \in Nat
      /\ \A d \in Page : DraftOK(history', d, page[d])
  <2>1. CASE ~Idle(c) /\ Effect(q)
    <3>1. Issued(q)
      BY <2>1, PageCallIssued
    <3>2. QED BY <1>6, <2>1, <3>1, EffectKeeps
  <2>2. CASE UNCHANGED server
    <3>1. UNCHANGED <<history, receipts, sessions, pin, logins>>
      BY <2>2 DEF server
    <3>2. DatabaseOK'
      BY <1>1, <3>1 DEF DatabaseOK
    <3>3. CoreOK'
      BY <1>1, <1>6, <3>1, CoreKept
    <3>4. QED BY <1>1, <3>1, <3>2, <3>3 DEF IInv, PagesOK
  <2>3. QED BY <1>5, <2>1, <2>2
<1>8. DraftOK(history', c, p)
  <2>1. DraftOK(history', c, o)
    BY <1>7
  <2>2. QED BY <1>3, <2>1, DraftWeaker
<1>9. p.session <= logins'
  <2>1. o.session \in Nat
    BY <1>1 DEF PageType
  <2>2. QED BY <1>1, <1>3, <1>7, <2>1
<1>10. QED BY <1>3, <1>4, <1>5, <1>7, <1>8, <1>9, PageStep

\* The steps of the database that leave the pages alone.
LEMMA ServerStep ==
  ASSUME IInv, UNCHANGED <<page>>, LateOK', DatabaseOK', CoreOK',
         logins <= logins', logins' \in Nat,
         \A d \in Page : DraftOK(history', d, page[d])
  PROVE  IInv'
<1>1. CallsOK'
  <2>1. ASSUME NEW c \in Page PROVE CallOK(c, page'[c]) /\ page'[c].session <= logins'
    <3>1. page[c] \in PageType /\ CallOK(c, page[c]) /\ page[c].session <= logins /\ logins \in Nat
      BY PageFacts
    <3>2. page[c].session \in Nat
      BY <3>1 DEF PageType
    <3>3. QED BY <3>1, <3>2
  <2>2. \A c \in Page : CallOK(c, page[c])'
    BY <2>1 DEF CallOK
  <2>3. page' \in [Page -> PageType]
    BY DEF IInv, TypesOK, CallsOK
  <2>4. QED BY <2>1, <2>2, <2>3 DEF CallsOK
<1>2. PagesOK'
  BY DEF PagesOK, DraftOK
<1>3. QED BY <1>1, <1>2 DEF IInv, TypesOK

\* Fewer late calls are fewer tries.
LEMMA LateShrinks ==
  ASSUME IInv, UNCHANGED <<page>>, late' \subseteq late
  PROVE  LateOK' /\ Tries' \subseteq Tries
<1>1. LateOK /\ IsFiniteSet(late) /\ MaxLate \in Nat
  BY BoardBoundAssumption DEF IInv, TypesOK, CallsOK, LateOK
<1>2. IsFiniteSet(late') /\ Cardinality(late') <= Cardinality(late)
      /\ Cardinality(late') \in Nat /\ Cardinality(late) \in Nat
  BY <1>1, FS_Subset, FS_CardinalityType
<1>3. LateOK'
  BY <1>1, <1>2 DEF LateOK
<1>4. Tries' \subseteq Tries
  BY DEF Tries
<1>5. QED BY <1>3, <1>4

LEMMA ServeLateStep ==
  ASSUME IInv, NEW q \in late, ServeLate(q)
  PROVE  IInv'
<1>1. Effect(q) /\ UNCHANGED <<keys, refused, page>> /\ late' \subseteq late
  BY DEF ServeLate
<1>2. LateOK' /\ Tries' \subseteq Tries
  BY <1>1, LateShrinks
<1>3. Issued(q)
  <2>1. q \in CallType /\ q.kind \in {"login", "logout", "save"} /\ TypesOK
    BY DEF IInv, TypesOK, CallsOK, LateOK
  <2>2. q # NoCall
    BY <2>1 DEF NoCall
  <2>3. QED BY <2>1, <2>2, TriesOfCalls DEF Issued
<1>4. QED BY <1>1, <1>2, <1>3, EffectKeeps, ServerStep

LEMMA ExpiryStep ==
  ASSUME IInv, SessionExpires \/ ReceiptExpires \/ Unlock
  PROVE  IInv'
<1>1. /\ TypesOK /\ CoreOK /\ DatabaseOK /\ Tries \subseteq TryType /\ logins \in Nat
      /\ MaxSessions \in Nat /\ MaxReceipts \in Nat /\ MaxFailures \in Nat \ {0}
  BY TriesTyped, BoardBoundAssumption DEF IInv, TypesOK, DatabaseOK
<1>2. UNCHANGED <<history, logins, keys, page, late, refused>>
  BY DEF SessionExpires, ReceiptExpires, Unlock
<1>3. LateOK' /\ Tries' \subseteq Tries
  BY <1>2, LateShrinks
<1>4. \A d \in Page : DraftOK(history', d, page[d])
  BY <1>2 DEF IInv, PagesOK
<1>5. CASE SessionExpires
  <2>1. PICK t \in sessions : sessions' = sessions \ {t} /\ UNCHANGED <<receipts, pin>>
    BY <1>5 DEF SessionExpires
  <2>2. IsFiniteSet(sessions') /\ Cardinality(sessions') <= MaxSessions
    <3>1. IsFiniteSet(sessions) /\ Cardinality(sessions) <= MaxSessions
      BY <1>1 DEF DatabaseOK
    <3>2. QED BY <2>1, <3>1, FewerAfterRemoval, BoardBoundAssumption
  <2>3. DatabaseOK'
    BY <1>1, <1>2, <2>1, <2>2 DEF DatabaseOK
  <2>4. CoreOK'
    BY <1>1, <1>2, <1>3, <2>1, CoreKept
  <2>5. QED BY <1>1, <1>2, <1>3, <1>4, <2>3, <2>4, ServerStep
<1>6. CASE ReceiptExpires
  <2>1. PICK r \in receipts : /\ ~Valid(r.session) /\ receipts' = receipts \ {r}
                              /\ UNCHANGED <<sessions, pin>>
    BY <1>6 DEF ReceiptExpires
  <2>2. IsFiniteSet(receipts') /\ Cardinality(receipts') <= MaxReceipts
    <3>1. IsFiniteSet(receipts) /\ Cardinality(receipts) <= MaxReceipts
      BY <1>1 DEF DatabaseOK
    <3>2. QED BY <2>1, <3>1, FewerAfterRemoval, BoardBoundAssumption
  <2>3. DatabaseOK'
    BY <1>1, <1>2, <2>1, <2>2 DEF DatabaseOK
  <2>4. CoreOK'
    BY <1>1, <1>2, <1>3, <2>1, CoreReceiptExpires
  <2>5. QED BY <1>1, <1>2, <1>3, <1>4, <2>3, <2>4, ServerStep
<1>7. CASE Unlock
  <2>1. pin' = [failed |-> 0, locked |-> FALSE] /\ UNCHANGED <<receipts, sessions>>
    BY <1>7 DEF Unlock
  <2>2. pin' \in [failed : 0..MaxFailures, locked : BOOLEAN]
        /\ (pin'.locked <=> pin'.failed = MaxFailures)
    BY <1>1, <2>1
  <2>3. DatabaseOK'
    BY <1>1, <1>2, <2>1, <2>2 DEF DatabaseOK
  <2>4. CoreOK'
    BY <1>1, <1>2, <1>3, <2>1, CoreKept
  <2>5. QED BY <1>1, <1>2, <1>3, <1>4, <2>3, <2>4, ServerStep
<1>8. QED BY <1>5, <1>6, <1>7

-----------------------------------------------------------------------------
(* The theorems *)

LEMMA InitHolds ==
  ASSUME Init
  PROVE  IInv
<1>1. IsFiniteSet({}) /\ Cardinality({}) = 0
  BY FS_EmptySet
<1>2. DatabaseOK
  <2>1. pin \in [failed : 0..MaxFailures, locked : BOOLEAN] /\ ~pin.locked /\ pin.failed = 0
    BY BoardBoundAssumption DEF Init
  <2>2. history = <<>> /\ Len(history) = 0 /\ history \in Seq(SaveType)
    BY DEF Init
  <2>3. QED BY <1>1, <2>1, <2>2, BoardBoundAssumption DEF Init, DatabaseOK
<1>3. ASSUME NEW c \in Page
      PROVE  page[c] \in PageType /\ CallOK(c, page[c]) /\ page[c].session <= logins
             /\ page[c].pending = NoSave /\ DraftOK(history, c, page[c])
  <2>1. /\ 0 \in 0..MaxLogins /\ Null \in Null..MaxSaves /\ NoCall \in CallType
        /\ NoCall.kind = "none" /\ 0 \in 0..MaxEdits /\ {} \in Draft
    BY BoardBoundAssumption DEF Null, CallType, NoCall, Draft
  <2>2. page[c] = EmptyPage /\ logins = 0 /\ history = <<>>
    BY DEF Init
  <2>3. EmptyPage \in PageType /\ EmptyPage.session = 0 /\ EmptyPage.pending = NoSave
        /\ EmptyPage.call = NoCall /\ EmptyPage.draft = {} /\ EmptyPage.revision = Null
        /\ EmptyPage.candidate = NoDraft
    BY <2>1 DEF EmptyPage, PageType, NoToken
  <2>4. CallOK(c, EmptyPage)
    BY <2>1, <2>3 DEF CallOK
  <2>5. Others(c, {}) = {}
    BY DEF Others
  <2>6. DraftOK(history, c, EmptyPage)
    BY <2>3, <2>5 DEF DraftOK
  <2>7. QED BY <2>2, <2>3, <2>4, <2>6
<1>4. CallsOK
  <2>1. LateOK
    BY <1>1, BoardBoundAssumption DEF Init, LateOK
  <2>2. page \in [Page -> PageType]
    BY <1>3 DEF Init
  <2>3. QED BY <1>3, <2>1, <2>2 DEF CallsOK
<1>5. Tries = {}
  BY <1>3 DEF Tries, Init
<1>6. CoreOK
  <2>1. history = <<>> /\ 1..Len(history) = {} /\ 2..Len(history) = {} /\ refused = {} /\ receipts = {}
    BY DEF Init
  <2>2. TriesKeepOthers /\ HistoryInOrder /\ OneSavePerKey /\ StoredIsKnown /\ RefusedIsBehind
    BY <1>5, <2>1 DEF TriesKeepOthers, HistoryInOrder, OneSavePerKey, StoredIsKnown, RefusedIsBehind
  <2>3. OthersKept
    BY <2>1 DEF OthersKept
  <2>4. QED BY <2>2, <2>3 DEF CoreOK
<1>7. QED BY <1>2, <1>3, <1>4, <1>6 DEF IInv, TypesOK, PagesOK

LEMMA NextHolds ==
  ASSUME IInv, [Next]_vars
  PROVE  IInv'
<1>1. ASSUME NEW c \in Page, Edit(c) PROVE IInv'
  BY <1>1, EditStep
<1>2. ASSUME NEW c \in Page, (\E right \in Pins : Login(c, right)) \/ Logout(c) PROVE IInv'
  BY <1>2, SignStep
<1>3. ASSUME NEW c \in Page, Load(c) \/ CancelLoad(c) PROVE IInv'
  BY <1>3, ReadStep
<1>4. ASSUME NEW c \in Page, ConfirmLoad(c) PROVE IInv'
  BY <1>4, ConfirmStep
<1>5. ASSUME NEW c \in Page, Save(c) \/ Retry(c) PROVE IInv'
  BY <1>5, SaveStep
<1>6. ASSUME NEW c \in Page, Serve(c) PROVE IInv'
  BY <1>6, ServeStep
<1>7. ASSUME NEW c \in Page, GiveUp(c) PROVE IInv'
  <2> DEFINE p == [page[c] EXCEPT !.call = NoCall]
  <2>1. page' = [page EXCEPT ![c] = p]
    BY <1>7 DEF GiveUp
  <2>2. ~Idle(c) /\ Abandon(page[c].call) /\ UNCHANGED <<keys, refused>>
    BY <1>7 DEF GiveUp
  <2>3. QED BY <2>1, <2>2, LeaveStep
<1>8. ASSUME NEW c \in Page, Reload(c) PROVE IInv'
  BY <1>8, LeaveStep DEF Reload
<1>9. ASSUME NEW q \in late, ServeLate(q) PROVE IInv'
  BY <1>9, ServeLateStep
<1>10. ASSUME SessionExpires \/ ReceiptExpires \/ Unlock PROVE IInv'
  BY <1>10, ExpiryStep
<1>11. ASSUME UNCHANGED vars PROVE IInv'
  BY <1>11 DEF vars, server, IInv, TypesOK, DatabaseOK, CallsOK, CallOK, LateOK, PagesOK, DraftOK,
               CoreOK, TriesKeepOthers, HistoryInOrder, OneSavePerKey, StoredIsKnown,
               RefusedIsBehind, OthersKept, Tries, Saved, Content, Others, Live
<1>12. QED
  BY <1>1, <1>2, <1>3, <1>4, <1>5, <1>6, <1>7, <1>8, <1>9, <1>10, <1>11 DEF Next

THEOREM BoardInvariant == Spec => []IInv
<1>1. Init => IInv
  BY InitHolds
<1>2. IInv /\ [Next]_vars => IInv'
  BY NextHolds
<1>3. QED BY <1>1, <1>2, PTL DEF Spec

\* Everything has its shape, and the database stays within its limits.
THEOREM BoardTypeCorrect == Spec => []BoardTypeOK
<1>1. IInv => BoardTypeOK
  <2>1. ASSUME IInv PROVE BoardTypeOK
    <3>1. DatabaseOK /\ CallsOK /\ LateOK
      BY <2>1 DEF IInv, TypesOK, CallsOK
    <3>2. sessions \subseteq 1..MaxLogins
      BY <3>1, BoardBoundAssumption DEF DatabaseOK
    <3>3. ASSUME NEW c \in Page
          PROVE  /\ page[c].session \in 0..MaxLogins /\ page[c].revision \in Null..MaxSaves
                 /\ page[c].pending \in {NoSave} \cup SaveType
                 /\ page[c].draft \in Draft
                 /\ page[c].call \in CallType
      BY <3>1 DEF CallsOK, PageType
    <3>4. QED BY <3>1, <3>2, <3>3 DEF BoardTypeOK, DatabaseOK, LateOK
  <2>2. QED BY <2>1
<1>2. QED BY <1>1, BoardInvariant, PTL

\* A page that was told VERSION_CONFLICT has not saved and never will, however many
\* attempts with its key are still on their way.
THEOREM RefusedStayOut == Spec => []RefusedNeverApplied
<1>1. IInv => RefusedNeverApplied
  BY DEF IInv, CoreOK, RefusedIsBehind, Saved, RefusedNeverApplied
<1>2. QED BY <1>1, BoardInvariant, PTL

\* No save drops what another device had saved.
THEOREM OthersAreKept == Spec => []OthersKept
<1>1. IInv => OthersKept
  BY DEF IInv, CoreOK
<1>2. QED BY <1>1, BoardInvariant, PTL
=============================================================================
