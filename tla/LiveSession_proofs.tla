------------------------- MODULE LiveSession_proofs -------------------------
(***************************************************************************)
(* Theorems about LiveSession for any stocks, any number of nested         *)
(* handlers, of recoveries and of faults.                                  *)
(*                                                                         *)
(* A step of the event loop concerns the innermost handler: it is resumed, *)
(* asks and waits again, or is through and leaves the stack.  In between   *)
(* it belongs to no loop.  The parts of the invariant therefore speak of   *)
(* the outermost n handlers: of all of them between two steps, of all but  *)
(* the innermost within one.                                               *)
(*                                                                         *)
(* Only the start, while it is booting, and the one recovery wait for a    *)
(* login or a query; so two such waits never meet, the latest loop of      *)
(* their kind is theirs, and every change of the stack is a step of        *)
(* SessionLife or none.                                                    *)
(***************************************************************************)
EXTENDS LiveSession, FiniteSetTheorems, SequenceTheorems, TLAPS

Loops == {"login", "tr", "condition"}
Asked == {"login"} \cup Query \cup Search
Talk == {"login"} \cup Query

AppType ==
  [fate : {"down", "up", "done", "killed", "crashed"},
   booting : BOOLEAN, recovering : BOOLEAN, started : BOOLEAN, connected : BOOLEAN,
   loaded : BOOLEAN, blocked : BOOLEAN, stale : 0..MaxRecoveries, done : BOOLEAN,
   stack : Seq(Frame), loop : [Loops -> Nat],
   got : [rows : SUBSET Code, whole : BOOLEAN],
   snapshot : SUBSET Code, condition : SUBSET Code, owned : SUBSET Code,
   registered : SUBSET Code]

FileType == [st : {"unreadable", "old", "current"}, rows : SUBSET Code]

WorldType == [a : AppType, p : SUBSET Asked, r : SUBSET Asked, f : FileType]

\* A waiting handler: what it may wait for, and that its loop is the latest when it
\* waits for a login or a query.
WaitOK(a, d) ==
  LET h == a.stack[d]
  IN  /\ h.proc = "boot" => (a.booting <=> h.wait \in Talk)
      /\ h.proc = "recover" => h.wait # "app"
      /\ h.proc = "search" => h.wait \in Search
      /\ h.wait = "app" => h.st = "wait"
      /\ h.st = "wait" /\ h.wait \in Talk => a.loop[Kind(h.wait)] = d

\* A loop that is named belongs to a handler that waits in a loop of its kind.
LoopOK(a, k) ==
  LET h == a.stack[a.loop[k]]
  IN  a.loop[k] # 0 => h.st = "wait" /\ h.wait # "app" /\ Kind(h.wait) = k

\* The start is outermost, and alone while it boots; recovering says that the one
\* recovery is under way.
ProcsOK(a) ==
  /\ a.fate = "up" => a.stack # <<>>
  /\ \A d \in DOMAIN a.stack : a.stack[d].proc = "boot" <=> d = 1
  /\ a.booting => Len(a.stack) <= 1
  /\ a.recovering <=> \E d \in DOMAIN a.stack : a.stack[d].proc = "recover"
  /\ \A d, e \in DOMAIN a.stack :
       a.stack[d].proc = "recover" /\ a.stack[e].proc = "recover" => d = e

StackOK(a, n) ==
  /\ ProcsOK(a)
  /\ \A d \in 1..n : WaitOK(a, d)
  /\ \A k \in Loops : a.loop[k] \in 0..n /\ LoopOK(a, k)

\* As long as no wait timed out and no page was refused, an answer that is owed is
\* the one a handler waits for, and a query that ended has all its pages.
AnswersOK(a, p, n) ==
  /\ \A q \in p \cap Query : \E d \in 1..n : a.stack[d].wait = q /\ a.stack[d].st = "wait"
  /\ \A d \in 1..n : a.stack[d].st = "quit" /\ a.stack[d].wait \in Query => a.got.whole

\* Subscriptions are complete once a start, or a recovery, has come to its condition
\* search, unless the last recovery failed.
CodesOK(a, n) ==
  /\ ~a.booting /\ (a.done \/ a.recovering)
  /\ \A d \in 1..n : a.stack[d].proc = "recover" => a.stack[d].wait \in Search
  => WatchCodes(a) \subseteq a.registered

\* The memory and the answers owed, up to the innermost n handlers.
HandlersOK(a, p, n) ==
  /\ StackOK(a, n)
  /\ env.torn \/ AnswersOK(a, p, n)

EnvOK ==
  /\ enabled \in BOOLEAN
  /\ clock \in {"holiday"} \cup ToSet(Phases) /\ dog \in {"off", "armed", "grace"}
  /\ env \in [faults : 0..MaxFaults[enabled], stuck : BOOLEAN, torn : BOOLEAN]

SessionInv ==
  /\ EnvOK
  /\ app \in AppType /\ pending \subseteq Asked
  /\ Len(app.stack) <= MaxDepth
  /\ app.fate = "up" => clock # "holiday"
  /\ app.fate = "down" => app = NewApp /\ pending = {}
  /\ HandlersOK(app, pending, Len(app.stack))
  /\ app.fate = "up" => CodesOK(app, Len(app.stack))
-----------------------------------------------------------------------------
(* The innermost handler *)

Fields == {"fate", "booting", "recovering", "started", "connected", "blocked", "stale",
           "done", "snapshot", "condition", "owned", "registered"}

\* The two memories differ in the loops, the rows and the condition list only.
SameCodes(a, b) ==
  /\ b.fate = a.fate /\ b.booting = a.booting /\ b.recovering = a.recovering
  /\ b.done = a.done /\ b.snapshot = a.snapshot /\ b.condition = a.condition
  /\ b.owned = a.owned /\ b.registered = a.registered

LEMMA AskEffect ==
  ASSUME NEW w \in WorldType, Len(w.a.stack) > 0, NEW q \in Asked
  PROVE  LET v == Ask(w, q)
             n == Len(w.a.stack)
         IN  /\ v \in WorldType /\ v.p = w.p \cup {q} /\ v.r = w.r /\ v.f = w.f
             /\ SameCodes(w.a, v.a)
             /\ Len(v.a.stack) = n
             /\ v.a.stack[n] = [proc |-> w.a.stack[n].proc, wait |-> q, st |-> "wait"]
             /\ \A d \in 1..(n - 1) : v.a.stack[d] = w.a.stack[d]
             /\ v.a.loop = [w.a.loop EXCEPT ![Kind(q)] = n]
             /\ v.a.got = IF q \in Query THEN NoRows ELSE w.a.got
<1> DEFINE n == Len(w.a.stack)
           h == [proc |-> w.a.stack[n].proc, wait |-> q, st |-> "wait"]
           t == [w.a.stack EXCEPT ![n] = h]
           l == [w.a.loop EXCEPT ![Kind(q)] = n]
           g == IF q \in Query THEN NoRows ELSE w.a.got
           b == [w.a EXCEPT !.stack = t, !.loop = l, !.got = g, !.loaded = @ /\ q # "load"]
           v == [w EXCEPT !.a = b, !.p = @ \cup {q}]
<1>1. w.a \in AppType /\ w.p \subseteq Asked
  BY DEF WorldType
<1>2. w.a.stack \in Seq(Frame) /\ w.a.loop \in [Loops -> Nat] /\ n \in Nat
      /\ w.a.got \in [rows : SUBSET Code, whole : BOOLEAN]
  BY <1>1 DEF AppType
<1>3. h \in Frame
  <2>1. n \in 1..Len(w.a.stack) /\ w.a.stack[n] \in Frame
    BY <1>2
  <2>2. QED BY <2>1 DEF Frame, Asked, Query, Search
<1> HIDE DEF h
<1>3b. /\ t \in Seq(Frame) /\ Len(t) = n /\ t[n] = h
       /\ \A d \in 1..(n - 1) : t[d] = w.a.stack[d]
  BY <1>2, <1>3
<1>4. Kind(q) \in Loops /\ l \in [Loops -> Nat]
  BY <1>2 DEF Kind, Loops
<1>5. g \in [rows : SUBSET Code, whole : BOOLEAN]
  BY <1>2 DEF NoRows
<1>6. Ask(w, q) = v
  <2>1. [w EXCEPT !.a.stack[n] = h, !.a.loop[Kind(q)] = n, !.a.got = g,
                  !.a.loaded = @ /\ q # "load"] = [w EXCEPT !.a = b]
    OBVIOUS
  <2>2. Ask(w, q) = [[w EXCEPT !.a.stack[n] = h, !.a.loop[Kind(q)] = n, !.a.got = g,
                               !.a.loaded = @ /\ q # "load"] EXCEPT !.p = @ \cup {q}]
    BY <1>1 DEF Ask, h, WorldType
  <2>3. QED BY <2>1, <2>2, <1>1 DEF WorldType
<1> HIDE DEF t, l, g
<1>7. b \in AppType
  BY <1>1, <1>3b, <1>4, <1>5 DEF AppType
<1>8. b.stack = t /\ b.loop = l /\ b.got = g /\ SameCodes(w.a, b)
  BY <1>1 DEF AppType, SameCodes
<1> HIDE DEF b
<1>9. v \in WorldType /\ v.a = b /\ v.p = w.p \cup {q} /\ v.r = w.r /\ v.f = w.f
  BY <1>1, <1>7 DEF WorldType
<1>10. QED BY <1>3b, <1>6, <1>8, <1>9 DEF l, g, h

\* The innermost handler of w is being resumed, or has just been called.
Hand(w) ==
  /\ w \in WorldType /\ w.a.fate = "up" /\ Len(w.a.stack) > 0
  /\ HandlersOK(w.a, w.p, Len(w.a.stack) - 1)

Owner(w) == w.a.stack[Len(w.a.stack)].proc

\* What a handler leaves behind when it waits, returns or ends the program.
Leaves(w, v) ==
  /\ v \in WorldType /\ v.a.fate # "down"
  /\ HandlersOK(v.a, v.p, Len(v.a.stack))
  /\ v.a.fate = "up" => /\ CodesOK(v.a, Len(v.a.stack))
                        /\ v.a.booting => w.a.booting
                        /\ v.a.recovering => w.a.recovering

\* Nothing else waits for a login or a query beside a start that boots or a recovery.
LEMMA OneTalks ==
  ASSUME NEW a \in AppType, ProcsOK(a),
         NEW d \in DOMAIN a.stack, WaitOK(a, d), a.stack[d].wait \in Talk,
         NEW e \in DOMAIN a.stack, a.booting \/ a.stack[e].proc = "recover"
  PROVE  d = e
<1>1. a.stack[d] \in Frame /\ a.stack[d].wait \notin Search /\ Len(a.stack) \in Nat
      /\ DOMAIN a.stack = 1..Len(a.stack)
  BY DEF AppType, Talk, Query, Search
<1>2. a.stack[d].proc # "search"
  BY <1>1 DEF WaitOK
<1>3. CASE a.booting
  BY <1>1, <1>3 DEF ProcsOK
<1>4. CASE ~a.booting
  <2>1. a.stack[d].proc # "boot"
    BY <1>4 DEF WaitOK
  <2>2. a.stack[d].proc = "recover"
    BY <1>1, <1>2, <2>1 DEF Frame
  <2>3. QED BY <1>4, <2>2 DEF ProcsOK
<1>5. QED BY <1>3, <1>4

\* Asking keeps the handlers in order, if it is the start or the recovery that asks
\* for a login or a query.
LEMMA AskKeeps ==
  ASSUME NEW w, Hand(w), NEW q \in Asked,
         Owner(w) = "boot" => (w.a.booting <=> q \in Talk),
         Owner(w) = "search" => q \in Search
  PROVE  HandlersOK(Ask(w, q).a, Ask(w, q).p, Len(w.a.stack))
<1> DEFINE v == Ask(w, q)
           n == Len(w.a.stack)
           a == w.a
           b == v.a
<1>1. /\ w \in WorldType /\ a \in AppType /\ a.stack \in Seq(Frame) /\ n \in Nat /\ n > 0
      /\ DOMAIN a.stack = 1..n /\ a.loop \in [Loops -> Nat]
      /\ ProcsOK(a) /\ (\A d \in 1..(n - 1) : WaitOK(a, d))
      /\ \A k \in Loops : a.loop[k] \in 0..(n - 1) /\ LoopOK(a, k)
  BY DEF Hand, HandlersOK, StackOK, WorldType, AppType
<1>2. /\ v \in WorldType /\ v.p = w.p \cup {q}
      /\ SameCodes(a, b) /\ Len(b.stack) = n
      /\ b.stack[n] = [proc |-> a.stack[n].proc, wait |-> q, st |-> "wait"]
      /\ \A d \in 1..(n - 1) : b.stack[d] = a.stack[d]
      /\ b.loop = [a.loop EXCEPT ![Kind(q)] = n]
      /\ b.got = IF q \in Query THEN NoRows ELSE a.got
  BY <1>1, AskEffect
<1>3. b \in AppType /\ b.stack \in Seq(Frame) /\ DOMAIN b.stack = 1..n
  BY <1>2 DEF WorldType, AppType
<1>4. Kind(q) \in Loops /\ (q \in Talk <=> Kind(q) \in {"login", "tr"})
      /\ (q \in Talk <=> q \notin Search) /\ q # "app" /\ Query \subseteq Talk
  BY DEF Asked, Kind, Talk, Search, Query, Loops
<1>5. a.stack[n] \in Frame
  BY <1>1
<1>6. q \in Talk => a.booting \/ a.stack[n].proc = "recover"
  BY <1>4, <1>5 DEF Owner, Frame
<1> HIDE DEF v, a, b, n
<1>7. ASSUME NEW d \in 1..(n - 1), a.stack[d].wait \in Talk
      PROVE  q \notin Talk
  <2>1. d \in DOMAIN a.stack /\ n \in DOMAIN a.stack /\ d # n
    BY <1>1
  <2>2. QED BY <1>1, <1>6, <1>7, <2>1, OneTalks
<1>8. \A d \in 1..n : b.stack[d].proc = a.stack[d].proc
  BY <1>1, <1>2
<1>9. ProcsOK(b)
  BY <1>1, <1>2, <1>3, <1>8 DEF ProcsOK, SameCodes
<1>10. \A d \in 1..n : WaitOK(b, d)
  <2>1. ASSUME NEW d \in 1..(n - 1) PROVE WaitOK(b, d)
    <3>1. a.stack[d].wait \in Talk => Kind(a.stack[d].wait) # Kind(q)
          /\ Kind(a.stack[d].wait) \in Loops
      BY <1>4, <1>7 DEF Kind, Talk, Query, Loops
    <3>2. b.booting = a.booting /\ b.stack[d] = a.stack[d] /\ WaitOK(a, d)
      BY <1>1, <1>2 DEF SameCodes
    <3>3. QED BY <1>1, <1>2, <3>1, <3>2 DEF WaitOK
  <2>2. WaitOK(b, n)
    <3>1. b.loop[Kind(q)] = n
      BY <1>1, <1>2, <1>4
    <3>2. b.booting = a.booting
      BY <1>2 DEF SameCodes
    <3>3. QED BY <1>2, <1>4, <3>1, <3>2 DEF WaitOK, Owner, a, n
  <2>3. QED BY <1>1, <2>1, <2>2
<1>11. ASSUME NEW k \in Loops PROVE b.loop[k] \in 0..n /\ LoopOK(b, k)
  <2>1. CASE k = Kind(q)
    <3>1. b.loop[k] = n
      BY <1>1, <1>2, <1>4, <2>1
    <3>2. QED BY <1>1, <1>2, <1>4, <2>1, <3>1 DEF LoopOK
  <2>2. CASE k # Kind(q)
    <3>1. b.loop[k] = a.loop[k] /\ a.loop[k] \in 0..(n - 1) /\ LoopOK(a, k)
      BY <1>1, <1>2, <1>4, <2>2
    <3>2. a.loop[k] # 0 => b.stack[a.loop[k]] = a.stack[a.loop[k]]
      BY <1>1, <1>2, <3>1
    <3>3. QED BY <1>1, <3>1, <3>2 DEF LoopOK
  <2>3. QED BY <2>1, <2>2
<1>12. ASSUME AnswersOK(a, w.p, n - 1) PROVE AnswersOK(b, v.p, n)
  <2>1. ASSUME NEW x \in v.p \cap Query
        PROVE  \E d \in 1..n : b.stack[d].wait = x /\ b.stack[d].st = "wait"
    <3>1. CASE x = q
      BY <1>1, <1>2, <3>1
    <3>2. CASE x # q
      <4>1. PICK d \in 1..(n - 1) : a.stack[d].wait = x /\ a.stack[d].st = "wait"
        BY <1>2, <1>12, <2>1, <3>2 DEF AnswersOK
      <4>2. d \in 1..n /\ b.stack[d] = a.stack[d]
        BY <1>1, <1>2
      <4>3. QED BY <4>1, <4>2
    <3>3. QED BY <3>1, <3>2
  <2>2. ASSUME NEW d \in 1..n, b.stack[d].st = "quit", b.stack[d].wait \in Query
        PROVE  b.got.whole
    <3>1. d \in 1..(n - 1) /\ b.stack[d] = a.stack[d]
      BY <1>1, <1>2, <2>2
    <3>2. q \notin Query
      BY <1>4, <1>7, <2>2, <3>1
    <3>3. QED BY <1>2, <1>12, <2>2, <3>1, <3>2 DEF AnswersOK
  <2>3. QED BY <2>1, <2>2 DEF AnswersOK
<1>13. StackOK(b, n)
  BY <1>9, <1>10, <1>11 DEF StackOK
<1>14. env.torn \/ AnswersOK(a, w.p, n - 1)
  BY DEF Hand, HandlersOK, a, n
<1>15. QED BY <1>12, <1>13, <1>14 DEF HandlersOK, v, b, n

\* The two memories have the same handlers and mode.
SameHandlers(a, b) ==
  /\ b.stack = a.stack /\ b.loop = a.loop /\ b.got = a.got /\ b.fate = a.fate
  /\ b.booting = a.booting /\ b.recovering = a.recovering /\ b.done = a.done

LEMMA MemoryKeeps ==
  ASSUME NEW a, NEW b, b.stack = a.stack, b.loop = a.loop, b.got = a.got,
         b.fate = a.fate, b.booting = a.booting, b.recovering = a.recovering,
         NEW p, NEW n, HandlersOK(a, p, n)
  PROVE  HandlersOK(b, p, n)
<1>1. ProcsOK(b)
  BY DEF HandlersOK, StackOK, ProcsOK
<1>2. \A d \in 1..n : WaitOK(b, d)
  BY DEF HandlersOK, StackOK, WaitOK
<1>3. \A k \in Loops : b.loop[k] \in 0..n /\ LoopOK(b, k)
  BY DEF HandlersOK, StackOK, LoopOK
<1>4. env.torn \/ AnswersOK(b, p, n)
  BY DEF HandlersOK, AnswersOK
<1>5. QED BY <1>1, <1>2, <1>3, <1>4 DEF HandlersOK, StackOK

\* A handler other than the start returns.
LEMMA PopKeeps ==
  ASSUME NEW w, Hand(w), Owner(w) # "boot", NEW b \in AppType,
         b.stack = Front(w.a.stack), b.loop = w.a.loop, b.got = w.a.got,
         b.fate = w.a.fate, b.booting = w.a.booting,
         b.recovering = (w.a.recovering /\ Owner(w) # "recover")
  PROVE  HandlersOK(b, w.p, Len(b.stack)) /\ Len(b.stack) = Len(w.a.stack) - 1
<1> DEFINE n == Len(w.a.stack)
           a == w.a
<1>1. /\ a.stack \in Seq(Frame) /\ n \in Nat /\ n > 0 /\ DOMAIN a.stack = 1..n
      /\ ProcsOK(a) /\ a.loop \in [Loops -> Nat]
      /\ a.recovering \in BOOLEAN
  BY DEF Hand, HandlersOK, StackOK, WorldType, AppType
<1>2. n > 1
  BY <1>1 DEF ProcsOK, Owner
<1>3. /\ b.stack \in Seq(Frame) /\ Len(b.stack) = n - 1 /\ DOMAIN b.stack = 1..(n - 1)
      /\ \A d \in 1..(n - 1) : b.stack[d] = a.stack[d]
  BY <1>1 DEF Front
<1> HIDE DEF n
<1>4. ProcsOK(b)
  <2>1. /\ b.fate = "up" => b.stack # <<>>
        /\ b.booting => Len(b.stack) <= 1
    BY <1>1, <1>2, <1>3 DEF ProcsOK, n
  <2>2. \A d \in DOMAIN b.stack : b.stack[d].proc = "boot" <=> d = 1
    BY <1>1, <1>3 DEF ProcsOK
  <2>3. b.recovering <=> \E d \in DOMAIN b.stack : b.stack[d].proc = "recover"
    <3>1. CASE Owner(w) = "recover"
      <4>1. n \in DOMAIN a.stack /\ a.stack[n].proc = "recover"
        BY <1>1, <3>1 DEF Owner, n
      <4>2. \A d \in 1..(n - 1) : a.stack[d].proc # "recover"
        BY <1>1, <4>1 DEF ProcsOK
      <4>3. QED BY <1>3, <3>1, <4>2
    <3>2. CASE Owner(w) # "recover"
      <4>1. b.recovering = a.recovering
        BY <1>1, <3>2
      <4>2. a.recovering <=> \E d \in 1..n : a.stack[d].proc = "recover"
        BY <1>1 DEF ProcsOK
      <4>3. a.stack[n].proc # "recover"
        BY <3>2 DEF Owner, n
      <4>4. a.recovering <=> \E d \in 1..(n - 1) : a.stack[d].proc = "recover"
        <5>1. n \in Nat /\ \A d \in 1..n : d \in 1..(n - 1) \/ d = n
          BY <1>1, <1>2
        <5>2. \A d \in 1..(n - 1) : d \in 1..n
          BY <5>1
        <5>3. QED BY ONLY <4>2, <4>3, <5>1, <5>2
      <4>5. QED BY <1>3, <4>1, <4>4
    <3>3. QED BY <3>1, <3>2
  <2>4. \A d, e \in DOMAIN b.stack :
          b.stack[d].proc = "recover" /\ b.stack[e].proc = "recover" => d = e
    <3>1. \A d \in 1..(n - 1) : d \in DOMAIN a.stack /\ b.stack[d].proc = a.stack[d].proc
      BY <1>1, <1>3
    <3>2. \A d, e \in DOMAIN a.stack :
            a.stack[d].proc = "recover" /\ a.stack[e].proc = "recover" => d = e
      BY <1>1 DEF ProcsOK
    <3>3. DOMAIN b.stack = 1..(n - 1)
      BY <1>3
    <3>4. QED BY ONLY <3>1, <3>2, <3>3
  <2>5. QED BY <2>1, <2>2, <2>3, <2>4 DEF ProcsOK
<1>5. \A d \in 1..(n - 1) : WaitOK(b, d)
  <2> SUFFICES ASSUME NEW d \in 1..(n - 1) PROVE WaitOK(b, d)
    OBVIOUS
  <2>1. WaitOK(a, d) /\ b.stack[d] = a.stack[d]
    BY <1>3 DEF Hand, HandlersOK, StackOK, n
  <2>2. QED BY <2>1 DEF WaitOK
<1>6. \A k \in Loops : b.loop[k] \in 0..(n - 1) /\ LoopOK(b, k)
  <2> SUFFICES ASSUME NEW k \in Loops PROVE b.loop[k] \in 0..(n - 1) /\ LoopOK(b, k)
    OBVIOUS
  <2>1. a.loop[k] \in 0..(n - 1) /\ LoopOK(a, k)
    BY DEF Hand, HandlersOK, StackOK, n
  <2>2. a.loop[k] # 0 => b.stack[a.loop[k]] = a.stack[a.loop[k]]
    BY <1>1, <1>3, <2>1
  <2>3. QED BY <2>1, <2>2 DEF LoopOK
<1>7. env.torn \/ AnswersOK(b, w.p, n - 1)
  <2> SUFFICES ASSUME ~env.torn PROVE AnswersOK(b, w.p, n - 1)
    OBVIOUS
  <2>1. AnswersOK(a, w.p, n - 1)
    BY DEF Hand, HandlersOK, n
  <2>2. QED BY <1>3, <2>1 DEF AnswersOK
<1>8. QED BY <1>3, <1>4, <1>5, <1>6, <1>7 DEF HandlersOK, StackOK, n

\* Asking.
LEMMA AskLeaves ==
  ASSUME NEW w, Hand(w), NEW q \in Asked,
         Owner(w) = "boot" => (w.a.booting <=> q \in Talk),
         Owner(w) = "search" => q \in Search,
         q \in Search => CodesOK(w.a, Len(w.a.stack) - 1)
  PROVE  Leaves(w, Ask(w, q))
<1> DEFINE v == Ask(w, q)
           n == Len(w.a.stack)
           a == w.a
           b == v.a
<1>1. /\ w \in WorldType /\ a.stack \in Seq(Frame) /\ n \in Nat /\ n > 0 /\ a.fate = "up"
      /\ DOMAIN a.stack = 1..n /\ ProcsOK(a)
  BY DEF Hand, HandlersOK, StackOK, WorldType, AppType
<1>2. /\ v \in WorldType /\ SameCodes(a, b) /\ Len(b.stack) = n
      /\ b.stack[n] = [proc |-> a.stack[n].proc, wait |-> q, st |-> "wait"]
      /\ \A d \in 1..(n - 1) : b.stack[d] = a.stack[d]
  BY <1>1, AskEffect
<1>3. HandlersOK(b, v.p, n)
  BY AskKeeps
<1>4. q \in Talk <=> q \notin Search
  BY DEF Asked, Talk, Search, Query
<1>5. a.stack[n] \in Frame
  BY <1>1
<1> HIDE DEF v, b, n
<1>6. CodesOK(b, n)
  <2>1. CASE q \in Search
    <3>1. CodesOK(a, n - 1)
      BY <2>1 DEF n
    <3>2. WatchCodes(b) = WatchCodes(a)
      BY <1>2 DEF SameCodes, WatchCodes, Universe
    <3>3. \A d \in 1..(n - 1) : d \in 1..n /\ b.stack[d] = a.stack[d]
      BY <1>1, <1>2
    <3>4. QED BY <1>2, <3>1, <3>2, <3>3 DEF CodesOK, SameCodes
  <2>2. CASE q \in Talk
    <3>1. CASE a.booting
      BY <1>2, <3>1 DEF CodesOK, SameCodes
    <3>2. CASE a.stack[n].proc = "recover"
      <4>1. n \in 1..n /\ b.stack[n].proc = "recover" /\ b.stack[n].wait \notin Search
        BY <1>1, <1>2, <1>4, <2>2, <3>2
      <4>2. QED BY <4>1 DEF CodesOK
    <3>3. QED BY <1>4, <1>5, <2>2, <3>1, <3>2 DEF Frame, Owner, n
  <2>3. QED BY <1>4, <2>1, <2>2
<1>7. QED BY <1>1, <1>2, <1>3, <1>6 DEF Leaves, SameCodes, v, b

\* A step within a handler changes the memory only.
LEMMA HandKept ==
  ASSUME NEW w, Hand(w), NEW b \in AppType, SameHandlers(w.a, b)
  PROVE  LET u == [w EXCEPT !.a = b]
         IN  /\ Hand(u) /\ Owner(u) = Owner(w) /\ u.a = b
             /\ u.p = w.p /\ u.r = w.r /\ u.f = w.f
             /\ \A v : Leaves(u, v) => Leaves(w, v)
<1> DEFINE u == [w EXCEPT !.a = b]
<1>1. u \in WorldType /\ u.a = b /\ u.p = w.p /\ u.r = w.r /\ u.f = w.f
  BY DEF Hand, WorldType
<1> HIDE DEF u
<1>2. HandlersOK(u.a, u.p, Len(u.a.stack) - 1)
  BY <1>1, MemoryKeeps DEF Hand, SameHandlers
<1>3. Hand(u)
  BY <1>1, <1>2 DEF Hand, SameHandlers
<1>4. Owner(u) = Owner(w)
  BY <1>1 DEF Owner, SameHandlers
<1>5. \A v : Leaves(u, v) => Leaves(w, v)
  BY <1>1 DEF Leaves, SameHandlers
<1>6. QED BY <1>1, <1>3, <1>4, <1>5 DEF u

LEMMA HandStack ==
  ASSUME NEW w, Hand(w)
  PROVE  /\ w \in WorldType /\ w.a \in AppType /\ w.a.stack \in Seq(Frame)
         /\ Len(w.a.stack) \in Nat /\ Len(w.a.stack) > 0
         /\ DOMAIN w.a.stack = 1..Len(w.a.stack)
         /\ ProcsOK(w.a) /\ w.a.fate = "up"
         /\ Last(w.a.stack) \in Frame /\ Last(w.a.stack).proc = Owner(w)
         /\ Owner(w) \in {"boot", "recover", "search"}
<1>1. /\ w \in WorldType /\ w.a \in AppType /\ w.a.stack \in Seq(Frame)
      /\ Len(w.a.stack) > 0 /\ ProcsOK(w.a) /\ w.a.fate = "up"
  BY DEF Hand, HandlersOK, StackOK, WorldType, AppType
<1>2. w.a.stack[Len(w.a.stack)] \in Frame
  BY <1>1
<1>3. QED BY <1>1, <1>2 DEF Last, Owner, Frame

LEMMA EndedLeaves ==
  ASSUME NEW w, w \in WorldType, NEW how \in {"done", "crashed"}
  PROVE  Leaves(w, [w EXCEPT !.a = Ended(how), !.p = {}])
<1> DEFINE b == Ended(how)
           v == [w EXCEPT !.a = b, !.p = {}]
<1>1. b \in AppType /\ b.fate = how /\ b.stack = <<>> /\ b.loop = NoLoops /\ ~b.recovering
  <2>1. NewApp \in AppType
    <3>1. NoLoops \in [Loops -> Nat] /\ NoRows \in [rows : SUBSET Code, whole : BOOLEAN]
      BY DEF NoLoops, NoRows, Loops
    <3>2. 0 \in 0..MaxRecoveries /\ <<>> \in Seq(Frame)
      BY SessionAssumption
    <3>3. QED BY <3>1, <3>2 DEF NewApp, AppType
  <2>2. b = [NewApp EXCEPT !.fate = how] /\ b.fate = how
    BY <2>1 DEF Ended, AppType
  <2>3. b \in AppType
    BY <2>1, <2>2 DEF AppType
  <2>4. b.stack = <<>> /\ b.loop = NoLoops /\ ~b.recovering
    BY <2>2 DEF NewApp
  <2>5. QED BY <2>2, <2>3, <2>4
<1> HIDE DEF b
<1>2. v \in WorldType /\ v.a = b /\ v.p = {}
  BY <1>1 DEF WorldType
<1> HIDE DEF v
<1>3. ProcsOK(b) /\ Len(b.stack) = 0
  BY <1>1 DEF ProcsOK
<1>4. \A k \in Loops : b.loop[k] \in 0..0 /\ LoopOK(b, k)
  BY <1>1 DEF NoLoops, LoopOK, Loops
<1>5. AnswersOK(b, {}, 0) /\ StackOK(b, 0)
  BY <1>3, <1>4 DEF AnswersOK, StackOK
<1>6. QED BY <1>1, <1>2, <1>3, <1>5 DEF Leaves, HandlersOK, v, b

\* A handler is through.
LEMMA FinishLeaves ==
  ASSUME NEW w, Hand(w), ~w.a.booting, CodesOK(w.a, Len(w.a.stack) - 1)
  PROVE  Leaves(w, Finish(w))
<1> DEFINE n == Len(w.a.stack)
           a == w.a
<1>1. /\ w \in WorldType /\ a \in AppType /\ a.stack \in Seq(Frame)
      /\ n \in Nat /\ n > 0 /\ DOMAIN a.stack = 1..n /\ ProcsOK(a) /\ a.fate = "up"
      /\ Top(a).proc = Owner(w) /\ Owner(w) \in {"boot", "recover", "search"}
  BY HandStack DEF Top
<1>2. CASE Owner(w) = "boot"
  <2> DEFINE h == [proc |-> "boot", wait |-> "app", st |-> "wait"]
             t == [a.stack EXCEPT ![1] = h]
             b == [a EXCEPT !.stack = t]
             v == [w EXCEPT !.a = b]
  <2>1. n = 1
    <3>1. n \in DOMAIN a.stack /\ a.stack[n].proc = "boot"
      BY <1>1, <1>2 DEF Owner
    <3>2. QED BY <1>1, <3>1 DEF ProcsOK
  <2>2. h \in Frame
    BY DEF Frame
  <2> HIDE DEF h
  <2>3. t \in Seq(Frame) /\ Len(t) = 1 /\ t[1] = h /\ DOMAIN t = {1}
    BY <1>1, <2>1, <2>2
  <2> HIDE DEF t
  <2>4. Finish(w) = v
    BY <1>1, <1>2 DEF Finish, h, t
  <2>5. b \in AppType /\ b.stack = t
    BY <1>1, <2>3 DEF AppType
  <2>6. SameCodes(a, b) /\ b.loop = a.loop /\ b.got = a.got
    BY <1>1 DEF SameCodes, AppType
  <2> HIDE DEF b
  <2>7. v \in WorldType /\ v.a = b /\ v.p = w.p
    BY <1>1, <2>5 DEF WorldType
  <2>8. /\ HandlersOK(a, w.p, 0) /\ CodesOK(a, 0)
        /\ a.stack[1].proc = "boot"
    BY <1>2, <2>1 DEF Hand, Owner
  <2>9. a.recovering = FALSE
    <3>1. \A d \in DOMAIN a.stack : a.stack[d].proc # "recover"
      BY <1>1, <2>1, <2>8
    <3>2. QED BY <1>1, <3>1 DEF ProcsOK, AppType
  <2>10. ProcsOK(b)
    <3>1. DOMAIN b.stack = {1} /\ Len(b.stack) = 1 /\ b.stack[1].proc = "boot"
      BY <2>3, <2>5 DEF h
    <3>2. ~b.recovering
      BY <2>6, <2>9 DEF SameCodes
    <3>3. b.stack # <<>>
      <4>1. Len(<<>>) = 0
        OBVIOUS
      <4>2. QED BY <3>1, <4>1
    <3>4. QED BY <3>1, <3>2, <3>3 DEF ProcsOK
  <2>11. WaitOK(b, 1)
    BY <2>3, <2>5, <2>6 DEF WaitOK, SameCodes, h, Talk, Query
  <2>12. \A k \in Loops : b.loop[k] \in 0..1 /\ LoopOK(b, k)
    BY <2>6, <2>8 DEF HandlersOK, StackOK, LoopOK
  <2>13. env.torn \/ AnswersOK(b, w.p, 1)
    BY <2>3, <2>5, <2>8 DEF HandlersOK, AnswersOK, h
  <2>14. HandlersOK(b, w.p, 1)
    BY <2>10, <2>11, <2>12, <2>13 DEF HandlersOK, StackOK
  <2>15. CodesOK(b, 1)
    BY <2>6, <2>8 DEF CodesOK, SameCodes, WatchCodes, Universe
  <2>16. b.fate = "up" /\ b.booting = a.booting /\ b.recovering = a.recovering
    BY <1>1, <2>6 DEF SameCodes
  <2>17. QED BY <2>3, <2>4, <2>5, <2>7, <2>14, <2>15, <2>16 DEF Leaves
<1>3. CASE Owner(w) = "recover"
  <2> DEFINE b == [a EXCEPT !.recovering = FALSE, !.done = TRUE, !.stack = Front(@)]
             v == [w EXCEPT !.a = b]
  <2>1. Finish(w) = v
    BY <1>1, <1>3 DEF Finish, Pop, WorldType, AppType
  <2>2. Front(a.stack) \in Seq(Frame)
    BY <1>1 DEF Front
  <2>3. b \in AppType /\ b.stack = Front(a.stack) /\ b.loop = a.loop /\ b.got = a.got
        /\ b.fate = "up" /\ b.booting = a.booting /\ b.recovering = FALSE
        /\ b.snapshot = a.snapshot /\ b.condition = a.condition /\ b.owned = a.owned
        /\ b.registered = a.registered
    BY <1>1, <2>2 DEF AppType
  <2> HIDE DEF b
  <2>4. v \in WorldType /\ v.a = b /\ v.p = w.p
    BY <1>1, <2>3 DEF WorldType
  <2>5. HandlersOK(b, w.p, Len(b.stack)) /\ Len(b.stack) = n - 1
    BY <1>1, <1>3, <2>3, PopKeeps
  <2>6. WatchCodes(a) \subseteq a.registered
    <3>1. n \in DOMAIN a.stack /\ a.stack[n].proc = "recover"
      BY <1>1, <1>3 DEF Owner
    <3>2. a.recovering /\ \A d \in 1..(n - 1) : a.stack[d].proc # "recover"
      BY <1>1, <3>1 DEF ProcsOK
    <3>3. QED BY <3>2 DEF CodesOK
  <2>7. CodesOK(b, n - 1)
    BY <2>3, <2>6 DEF CodesOK, WatchCodes, Universe
  <2>8. QED BY <1>1, <2>1, <2>3, <2>4, <2>5, <2>7 DEF Leaves
<1>4. CASE Owner(w) = "search"
  <2> DEFINE b == [a EXCEPT !.stack = Front(@)]
             v == [w EXCEPT !.a = b]
  <2>1. Finish(w) = v
    BY <1>1, <1>4 DEF Finish, Pop, WorldType, AppType
  <2>2. /\ Front(a.stack) \in Seq(Frame)
        /\ \A d \in 1..(n - 1) : Front(a.stack)[d] = a.stack[d]
    BY <1>1 DEF Front
  <2>3. b \in AppType /\ b.stack = Front(a.stack) /\ b.loop = a.loop /\ b.got = a.got
        /\ SameCodes(a, b)
    BY <1>1, <2>2 DEF AppType, SameCodes
  <2> HIDE DEF b
  <2>4. v \in WorldType /\ v.a = b /\ v.p = w.p
    BY <1>1, <2>3 DEF WorldType
  <2>5. HandlersOK(b, w.p, Len(b.stack)) /\ Len(b.stack) = n - 1
    BY <1>1, <1>4, <2>3, PopKeeps DEF SameCodes, AppType
  <2>6. CodesOK(b, n - 1)
    BY <2>2, <2>3 DEF CodesOK, SameCodes, WatchCodes, Universe
  <2>7. QED BY <1>1, <2>1, <2>3, <2>4, <2>5, <2>6 DEF Leaves, SameCodes
<1>5. QED BY <1>1, <1>2, <1>3, <1>4

\* The condition search, when start or recovery come to it.
LEMMA SearchLeaves ==
  ASSUME NEW w, Hand(w), ~w.a.booting, CodesOK(w.a, Len(w.a.stack) - 1)
  PROVE  Leaves(w, StartConditionSearch(w))
<1>1. w \in WorldType /\ w.a \in AppType
  BY HandStack
<1>2. CASE ~enabled
  <2> DEFINE b == [w.a EXCEPT !.started = TRUE]
             u == [w EXCEPT !.a = b]
  <2>1. b \in AppType /\ SameHandlers(w.a, b) /\ SameCodes(w.a, b)
    BY <1>1 DEF AppType, SameHandlers, SameCodes
  <2>2. StartConditionSearch(w) = Finish(u)
    BY <1>2 DEF StartConditionSearch
  <2> HIDE DEF b
  <2>3. Hand(u) /\ u.a = b /\ \A v : Leaves(u, v) => Leaves(w, v)
    BY <2>1, HandKept
  <2> HIDE DEF u
  <2>4. ~u.a.booting /\ CodesOK(u.a, Len(u.a.stack) - 1)
    BY <2>1, <2>3 DEF CodesOK, SameCodes, SameHandlers, WatchCodes, Universe
  <2>5. QED BY <2>2, <2>3, <2>4, FinishLeaves
<1>3. CASE enabled /\ "load" \in w.r
  <2> DEFINE b == [w.a EXCEPT !.loaded = FALSE]
             u == [w EXCEPT !.a = b]
  <2>1. b \in AppType /\ SameHandlers(w.a, b) /\ SameCodes(w.a, b)
    BY <1>1 DEF AppType, SameHandlers, SameCodes
  <2>2. StartConditionSearch(w) = Finish(u)
    BY <1>3 DEF StartConditionSearch
  <2> HIDE DEF b
  <2>3. Hand(u) /\ u.a = b /\ \A v : Leaves(u, v) => Leaves(w, v)
    BY <2>1, HandKept
  <2> HIDE DEF u
  <2>4. ~u.a.booting /\ CodesOK(u.a, Len(u.a.stack) - 1)
    BY <2>1, <2>3 DEF CodesOK, SameCodes, SameHandlers, WatchCodes, Universe
  <2>5. QED BY <2>2, <2>3, <2>4, FinishLeaves
<1>4. CASE enabled /\ "load" \notin w.r
  <2>1. StartConditionSearch(w) = Ask(w, "load")
    BY <1>4 DEF StartConditionSearch
  <2>2. "load" \in Asked /\ "load" \in Search /\ "load" \notin Talk
    BY DEF Asked, Search, Talk, Query
  <2>3. QED BY <2>1, <2>2, AskLeaves
<1>5. QED BY <1>2, <1>3, <1>4
-----------------------------------------------------------------------------
(* A handler goes on after its loop *)

LEMMA PhaseSet == ToSet(Phases) = {"wait", "session", "late", "after"}
<1>1. DOMAIN Phases = 1..4 /\ Phases[1] = "wait" /\ Phases[2] = "session"
      /\ Phases[3] = "late" /\ Phases[4] = "after"
  BY DEF Phases
<1>2. QED BY <1>1 DEF ToSet

LEMMA RefreshOK ==
  ASSUME NEW a \in AppType
  PROVE  LET b == RefreshRealRegistration(a)
         IN  b \in AppType /\ SameHandlers(a, b) /\ WatchCodes(b) \subseteq b.registered
<1> DEFINE c == WatchCodes(a)
           b == [a EXCEPT !.registered = c]
<1>1. c \in SUBSET Code
  BY DEF WatchCodes, Universe, AppType
<1> HIDE DEF c
<1>2. b \in AppType /\ SameHandlers(a, b) /\ b.registered = c
      /\ b.snapshot = a.snapshot /\ b.condition = a.condition /\ b.owned = a.owned
  BY <1>1 DEF AppType, SameHandlers
<1>3. RefreshRealRegistration(a) = b
  BY DEF RefreshRealRegistration, c
<1> HIDE DEF b
<1>4. WatchCodes(b) = c
  BY <1>2 DEF WatchCodes, Universe, c
<1>5. QED BY <1>2, <1>3, <1>4

LEMMA SnapshotOK ==
  ASSUME NEW a \in AppType, NEW file \in FileType
  PROVE  LET b == LoadSnapshot(a, file)
         IN  /\ b \in AppType /\ SameHandlers(a, b)
             /\ WatchCodes(a) \subseteq a.registered => WatchCodes(b) \subseteq b.registered
<1>1. ASSUME NEW c \in SUBSET Code
      PROVE  /\ ReplaceSnapshot(a, c) \in AppType /\ SameHandlers(a, ReplaceSnapshot(a, c))
             /\ ReplaceSnapshot(a, c).condition = a.condition
             /\ ReplaceSnapshot(a, c).owned = a.owned
             /\ ReplaceSnapshot(a, c).snapshot = c
             /\ ReplaceSnapshot(a, c).registered = a.registered
  BY DEF ReplaceSnapshot, AppType, SameHandlers
<1>2. {} \in SUBSET Code /\ file.rows \in SUBSET Code
  BY DEF FileType
<1>3. \A c \in SUBSET Code :
        LET b == RefreshRealRegistration(ReplaceSnapshot(a, c))
        IN  b \in AppType /\ SameHandlers(a, b) /\ WatchCodes(b) \subseteq b.registered
  <2> TAKE c \in SUBSET Code
  <2> DEFINE x == ReplaceSnapshot(a, c)
  <2>1. x \in AppType /\ SameHandlers(a, x)
    BY <1>1
  <2> HIDE DEF x
  <2>2. LET b == RefreshRealRegistration(x)
        IN  b \in AppType /\ SameHandlers(x, b) /\ WatchCodes(b) \subseteq b.registered
    BY <2>1, RefreshOK
  <2>3. QED BY <2>1, <2>2 DEF SameHandlers, x
<1>4. CASE file.st = "unreadable"
  BY <1>4 DEF LoadSnapshot, SameHandlers
<1>5. CASE file.st = "old"
  BY <1>2, <1>3, <1>5 DEF LoadSnapshot
<1>6. CASE file.st = "current" /\ file.rows = {}
  <2> DEFINE b == ReplaceSnapshot(a, {})
  <2>1. LoadSnapshot(a, file) = b
    BY <1>6 DEF LoadSnapshot
  <2>2. b \in AppType /\ SameHandlers(a, b) /\ b.condition = a.condition
        /\ b.owned = a.owned /\ b.snapshot = {} /\ b.registered = a.registered
    BY <1>1, <1>2
  <2> HIDE DEF b
  <2>3. WatchCodes(b) \subseteq WatchCodes(a)
    BY <2>2 DEF WatchCodes, Universe
  <2>4. QED BY <2>1, <2>2, <2>3
<1>7. CASE file.st = "current" /\ file.rows # {}
  BY <1>2, <1>3, <1>7 DEF LoadSnapshot
<1>8. QED BY <1>4, <1>5, <1>6, <1>7 DEF FileType

\* The start, while it boots, or a recovery goes on.
Asks(w) ==
  /\ Hand(w) /\ clock \in ToSet(Phases)
  /\ Owner(w) \in {"boot", "recover"}
  /\ Owner(w) = "boot" => w.a.booting

LEMMA AsksKept ==
  ASSUME NEW w, Asks(w), NEW b \in AppType, SameHandlers(w.a, b)
  PROVE  LET u == [w EXCEPT !.a = b]
         IN  /\ Asks(u) /\ Owner(u) = Owner(w) /\ u.a = b
             /\ u.p = w.p /\ u.r = w.r /\ u.f = w.f
             /\ \A v : Leaves(u, v) => Leaves(w, v)
BY HandKept DEF Asks, SameHandlers

\* Nothing boots under a recovery or a search.
LEMMA BootedBelow ==
  ASSUME NEW w, Hand(w), Owner(w) # "boot"
  PROVE  ~w.a.booting
<1> DEFINE n == Len(w.a.stack)
<1>1. n \in Nat /\ n > 0 /\ n \in DOMAIN w.a.stack /\ ProcsOK(w.a)
  BY HandStack
<1>2. n # 1
  BY <1>1 DEF ProcsOK, Owner
<1>3. w.a.booting => n <= 1
  BY <1>1 DEF ProcsOK
<1> HIDE DEF n
<1>4. QED BY <1>1, <1>2, <1>3

\* The start is no longer booting.
LEMMA BootDone ==
  ASSUME NEW w, Hand(w), Owner(w) = "boot", NEW c \in AppType, SameHandlers(w.a, c),
         WatchCodes(c) \subseteq c.registered
  PROVE  LET u == [w EXCEPT !.a = [c EXCEPT !.booting = FALSE]]
         IN  /\ Hand(u) /\ ~u.a.booting /\ CodesOK(u.a, Len(u.a.stack) - 1)
             /\ \A v : Leaves(u, v) => Leaves(w, v)
<1> DEFINE n == Len(w.a.stack)
           b == [c EXCEPT !.booting = FALSE]
           u == [w EXCEPT !.a = b]
<1>1. n \in Nat /\ n > 0 /\ n \in DOMAIN w.a.stack /\ ProcsOK(w.a)
      /\ w \in WorldType /\ w.a.fate = "up"
  BY HandStack
<1>2. n = 1
  BY <1>1 DEF ProcsOK, Owner
<1>3. b \in AppType /\ ~b.booting /\ b.stack = w.a.stack /\ b.loop = w.a.loop
      /\ b.got = w.a.got /\ b.fate = w.a.fate /\ b.recovering = w.a.recovering
      /\ b.snapshot = c.snapshot /\ b.condition = c.condition /\ b.owned = c.owned
      /\ b.registered = c.registered
  BY DEF AppType, SameHandlers
<1> HIDE DEF b
<1>4. u \in WorldType /\ u.a = b /\ u.p = w.p
  BY <1>1, <1>3 DEF WorldType
<1> HIDE DEF u
<1>5. HandlersOK(w.a, w.p, 0)
  BY <1>2 DEF Hand
<1>6. HandlersOK(b, w.p, 0)
  <2>1. ProcsOK(b)
    BY <1>1, <1>3 DEF ProcsOK
  <2>2. \A k \in Loops : b.loop[k] \in 0..0 /\ LoopOK(b, k)
    BY <1>3, <1>5 DEF HandlersOK, StackOK, LoopOK
  <2>3. env.torn \/ AnswersOK(b, w.p, 0)
    BY <1>5 DEF HandlersOK, AnswersOK
  <2>4. QED BY <2>1, <2>2, <2>3 DEF HandlersOK, StackOK
<1>7. Hand(u)
  <2>1. Len(b.stack) = 1
    BY <1>2, <1>3
  <2>2. Len(u.a.stack) - 1 = 0 /\ u.a.fate = "up" /\ Len(u.a.stack) > 0
    BY <1>1, <1>3, <1>4, <2>1
  <2>3. QED BY <1>4, <1>6, <2>2 DEF Hand
<1>8. WatchCodes(b) = WatchCodes(c)
  BY <1>3 DEF WatchCodes, Universe
<1>9. CodesOK(b, n - 1)
  BY <1>3, <1>8 DEF CodesOK
<1>10. \A v : Leaves(u, v) => Leaves(w, v)
  BY <1>3, <1>4 DEF Leaves
<1>11. QED BY <1>3, <1>4, <1>7, <1>9, <1>10 DEF u, b

LEMMA AfterPendingLeaves ==
  ASSUME NEW w, Asks(w)
  PROVE  Leaves(w, AfterPending(w))
<1>1. /\ Hand(w) /\ w \in WorldType /\ w.a \in AppType /\ w.f \in FileType
      /\ Top(w.a).proc = Owner(w) /\ Owner(w) \in {"boot", "recover"}
      /\ clock \in {"wait", "session", "late", "after"}
  BY HandStack, PhaseSet DEF Asks, WorldType, Top
<1>2. CASE Owner(w) = "boot"
  <2> DEFINE x == RefreshRealRegistration(w.a)
             c == LoadSnapshot(x, w.f)
             u == [w EXCEPT !.a = [c EXCEPT !.booting = FALSE]]
  <2>1. x \in AppType /\ SameHandlers(w.a, x) /\ WatchCodes(x) \subseteq x.registered
    BY <1>1, RefreshOK
  <2> HIDE DEF x
  <2>2. c \in AppType /\ SameHandlers(x, c) /\ WatchCodes(c) \subseteq c.registered
    BY <1>1, <2>1, SnapshotOK
  <2>3. SameHandlers(w.a, c)
    BY <2>1, <2>2 DEF SameHandlers
  <2>4. AfterPending(w) =
          CASE clock = "after" -> [w EXCEPT !.a = Ended("done"), !.p = {}]
            [] clock = "wait" -> Finish(u)
            [] OTHER -> StartConditionSearch(u)
    BY <1>1, <1>2 DEF AfterPending, Session, x
  <2> HIDE DEF c
  <2>5. /\ Hand(u) /\ ~u.a.booting /\ CodesOK(u.a, Len(u.a.stack) - 1)
        /\ \A v : Leaves(u, v) => Leaves(w, v)
    BY <1>1, <1>2, <2>2, <2>3, BootDone
  <2> HIDE DEF u
  <2>6. Leaves(u, Finish(u)) /\ Leaves(u, StartConditionSearch(u))
    BY <2>5, FinishLeaves, SearchLeaves
  <2>7. Leaves(w, [w EXCEPT !.a = Ended("done"), !.p = {}])
    BY <1>1, EndedLeaves
  <2>8. QED BY <2>4, <2>5, <2>6, <2>7
<1>3. CASE Owner(w) = "recover"
  <2> DEFINE x == LoadSnapshot(w.a, w.f)
             y == RefreshRealRegistration(x)
             c == [y EXCEPT !.started = FALSE]
             u == [w EXCEPT !.a = c]
  <2>1. x \in AppType /\ SameHandlers(w.a, x)
    BY <1>1, SnapshotOK
  <2> HIDE DEF x
  <2>2. y \in AppType /\ SameHandlers(x, y) /\ WatchCodes(y) \subseteq y.registered
    BY <2>1, RefreshOK
  <2>3. AfterPending(w) = IF clock \in Session THEN StartConditionSearch(u) ELSE Finish(u)
    BY <1>1, <1>3 DEF AfterPending, x
  <2> HIDE DEF y
  <2>4. c \in AppType /\ SameHandlers(y, c) /\ WatchCodes(c) \subseteq c.registered
    BY <2>2 DEF AppType, SameHandlers, WatchCodes, Universe
  <2> HIDE DEF c
  <2>5. SameHandlers(w.a, c)
    BY <2>1, <2>2, <2>4 DEF SameHandlers
  <2>6. /\ Hand(u) /\ u.a = c /\ \A v : Leaves(u, v) => Leaves(w, v)
    BY <1>1, <2>4, <2>5, HandKept
  <2> HIDE DEF u
  <2>7. ~u.a.booting /\ CodesOK(u.a, Len(u.a.stack) - 1)
    BY <1>1, <1>3, <2>4, <2>5, <2>6, BootedBelow DEF CodesOK, SameHandlers
  <2>8. Leaves(u, Finish(u)) /\ Leaves(u, StartConditionSearch(u))
    BY <2>6, <2>7, FinishLeaves, SearchLeaves
  <2>9. QED BY <2>3, <2>6, <2>8
<1>4. QED BY <1>1, <1>2, <1>3

LEMMA AskTalkLeaves ==
  ASSUME NEW w, Asks(w), NEW q \in Talk
  PROVE  Leaves(w, Ask(w, q))
<1>1. q \in Asked /\ q \notin Search
  BY DEF Talk, Asked, Query, Search
<1>2. QED BY <1>1, AskLeaves DEF Asks

LEMMA AskPendingLeaves ==
  ASSUME NEW w, Asks(w)
  PROVE  Leaves(w, AskPending(w))
<1>1. "pending" \in Talk
  BY DEF Talk, Query
<1>2. QED BY <1>1, AskTalkLeaves, AfterPendingLeaves DEF AskPending

LEMMA AfterAccountLeaves ==
  ASSUME NEW w, Asks(w)
  PROVE  Leaves(w, AfterAccount(w))
<1> DEFINE b == RefreshRealRegistration(w.a)
           u == [w EXCEPT !.a = b]
<1>1. b \in AppType /\ SameHandlers(w.a, b)
  BY HandStack, RefreshOK DEF Asks
<1>2. Top(w.a).proc = Owner(w)
  BY HandStack DEF Asks, Top
<1>3. AfterAccount(w) = AskPending(u) \/ AfterAccount(w) = AskPending(w)
  BY DEF AfterAccount
<1> HIDE DEF b
<1>4. Asks(u) /\ \A v : Leaves(u, v) => Leaves(w, v)
  BY <1>1, AsksKept
<1> HIDE DEF u
<1>5. QED BY <1>3, <1>4, AskPendingLeaves

LEMMA AskAccountLeaves ==
  ASSUME NEW w, Asks(w)
  PROVE  Leaves(w, AskPositions(w)) /\ Leaves(w, AskDeposit(w))
<1>1. "positions" \in Talk /\ "deposit" \in Talk
  BY DEF Talk, Query
<1>2. QED BY <1>1, AskTalkLeaves, AfterAccountLeaves DEF AskPositions, AskDeposit

LEMMA LoginFailedLeaves ==
  ASSUME NEW w, Asks(w)
  PROVE  Leaves(w, LoginFailed(w))
<1>1. /\ Hand(w) /\ w \in WorldType /\ w.a \in AppType /\ Top(w.a).proc = Owner(w)
      /\ w.a.stack \in Seq(Frame) /\ Len(w.a.stack) > 0 /\ w.a.fate = "up"
      /\ Owner(w) \in {"boot", "recover"}
  BY HandStack DEF Asks, Top
<1>2. CASE Owner(w) = "boot"
  BY <1>1, <1>2, EndedLeaves DEF LoginFailed
<1>3. CASE Owner(w) = "recover"
  <2> DEFINE b == [w.a EXCEPT !.recovering = FALSE, !.blocked = TRUE, !.done = FALSE,
                              !.stack = Front(@)]
             v == [w EXCEPT !.a = b]
  <2>1. LoginFailed(w) = v
    BY <1>1, <1>3 DEF LoginFailed, Pop, WorldType, AppType
  <2>2. Front(w.a.stack) \in Seq(Frame)
    BY <1>1 DEF Front
  <2>3. b \in AppType /\ b.stack = Front(w.a.stack) /\ b.loop = w.a.loop
        /\ b.got = w.a.got /\ b.fate = "up" /\ b.booting = w.a.booting
        /\ b.recovering = FALSE /\ b.done = FALSE
    BY <1>1, <2>2 DEF AppType
  <2> HIDE DEF b
  <2>4. v \in WorldType /\ v.a = b /\ v.p = w.p
    BY <1>1, <2>3 DEF WorldType
  <2>5. HandlersOK(b, w.p, Len(b.stack))
    BY <1>1, <1>3, <2>3, PopKeeps
  <2>6. CodesOK(b, Len(b.stack))
    BY <2>3 DEF CodesOK
  <2>7. QED BY <1>1, <2>1, <2>3, <2>4, <2>5, <2>6 DEF Leaves
<1>4. QED BY <1>1, <1>2, <1>3

\* The innermost handler of a memory whose handlers are in order is ready to go on
\* when its loop has ended.
LEMMA HandReturns ==
  ASSUME NEW w \in WorldType, w.a.fate = "up", HandlersOK(w.a, w.p, Len(w.a.stack)),
         Top(w.a).st # "wait"
  PROVE  /\ Hand(w) /\ WaitOK(w.a, Len(w.a.stack))
         /\ Top(w.a) = w.a.stack[Len(w.a.stack)]
<1> DEFINE n == Len(w.a.stack)
           a == w.a
<1>1. /\ a.stack \in Seq(Frame) /\ n \in Nat /\ a.loop \in [Loops -> Nat] /\ ProcsOK(a)
      /\ Top(a) = a.stack[n]
  BY DEF HandlersOK, StackOK, WorldType, AppType, Top, Last
<1>2. n > 0
  <2>1. a.stack # <<>>
    BY <1>1 DEF ProcsOK
  <2>2. QED BY <1>1, <2>1, EmptySeq
<1> HIDE DEF n
<1>3. \A d \in 1..(n - 1) : WaitOK(a, d)
  BY <1>1, <1>2 DEF HandlersOK, StackOK, n
<1>4. WaitOK(a, n)
  BY <1>1, <1>2 DEF HandlersOK, StackOK, n
<1>5. \A k \in Loops : a.loop[k] \in 0..(n - 1) /\ LoopOK(a, k)
  <2> SUFFICES ASSUME NEW k \in Loops PROVE a.loop[k] \in 0..(n - 1) /\ LoopOK(a, k)
    OBVIOUS
  <2>1. a.loop[k] \in 0..n /\ LoopOK(a, k)
    BY DEF HandlersOK, StackOK, n
  <2>2. a.loop[k] # n
    BY <1>1, <1>2, <2>1 DEF LoopOK
  <2>3. QED BY <1>1, <2>1, <2>2
<1>6. env.torn \/ AnswersOK(a, w.p, n - 1)
  <2> SUFFICES ASSUME ~env.torn PROVE AnswersOK(a, w.p, n - 1)
    OBVIOUS
  <2>1. AnswersOK(a, w.p, n)
    BY DEF HandlersOK, n
  <2>2. ASSUME NEW q \in w.p \cap Query
        PROVE  \E d \in 1..(n - 1) : a.stack[d].wait = q /\ a.stack[d].st = "wait"
    <3>1. PICK d \in 1..n : a.stack[d].wait = q /\ a.stack[d].st = "wait"
      BY <2>1 DEF AnswersOK
    <3>2. d # n
      BY <1>1, <3>1
    <3>3. d \in 1..(n - 1)
      BY <1>1, <3>2
    <3>4. QED BY <3>1, <3>3
  <2>3. \A d \in 1..(n - 1) : a.stack[d].st = "quit" /\ a.stack[d].wait \in Query => a.got.whole
    BY <1>1, <2>1 DEF AnswersOK
  <2>4. QED BY <2>2, <2>3 DEF AnswersOK
<1>7. QED BY <1>1, <1>2, <1>3, <1>4, <1>5, <1>6 DEF Hand, HandlersOK, StackOK, n

\* The innermost handler goes on.
LEMMA ResumeLeaves ==
  ASSUME NEW w \in WorldType, w.a.fate = "up", HandlersOK(w.a, w.p, Len(w.a.stack)),
         CodesOK(w.a, Len(w.a.stack)), Top(w.a).st # "wait", clock \in ToSet(Phases)
  PROVE  Leaves(w, Resume(w))
<1> DEFINE n == Len(w.a.stack)
           a == w.a
           f == Top(a)
<1>1. Hand(w) /\ WaitOK(a, n) /\ f = a.stack[n] /\ f.st # "wait"
  BY HandReturns
<1>2. /\ a \in AppType /\ n \in Nat /\ n > 0 /\ f \in Frame /\ f.proc = Owner(w)
      /\ Owner(w) \in {"boot", "recover", "search"}
  BY <1>1, HandStack DEF Top
<1>3. /\ f.wait # "app"
      /\ Owner(w) = "boot" => (a.booting <=> f.wait \in Talk)
      /\ Owner(w) = "search" => f.wait \in Search
  BY <1>1, <1>2 DEF WaitOK
<1>4. f.wait \in Talk \/ f.wait \in Search
  BY <1>2, <1>3 DEF Frame, Talk, Search, Query
<1>5. CASE f.wait \in Talk
  <2>1. Asks(w)
    BY <1>1, <1>2, <1>3, <1>5 DEF Asks, Talk, Search, Query
  <2> DEFINE b == [a EXCEPT !.owned = @ \cup a.got.rows]
             u == [w EXCEPT !.a = b]
  <2>2. b \in AppType /\ SameHandlers(a, b)
    BY <1>2 DEF AppType, SameHandlers
  <2>3. u = [w EXCEPT !.a.owned = @ \cup a.got.rows]
    BY <1>2 DEF AppType, WorldType
  <2> HIDE DEF b
  <2>4. Asks(u) /\ \A v : Leaves(u, v) => Leaves(w, v)
    BY <2>1, <2>2, AsksKept
  <2>5. f.wait \in {"login", "deposit", "positions", "pending"}
    BY <1>5 DEF Talk, Query
  <2> HIDE DEF u, f
  <2>6. CASE f.wait = "login"
    <3>1. Resume(w) = IF a.connected THEN AskDeposit(w) ELSE LoginFailed(w)
      BY <2>6 DEF Resume, f
    <3>2. QED BY <2>1, <3>1, AskAccountLeaves, LoginFailedLeaves
  <2>7. CASE f.wait = "deposit"
    <3>1. Resume(w) = IF f.st = "quit" THEN AskPositions(w) ELSE AfterAccount(w)
      BY <2>7 DEF Resume, f
    <3>2. QED BY <2>1, <3>1, AskAccountLeaves, AfterAccountLeaves
  <2>8. CASE f.wait = "positions"
    <3>1. Resume(w) = AfterAccount(IF f.st = "quit" THEN u ELSE w)
      BY <2>3, <2>8 DEF Resume, f
    <3>2. QED BY <2>1, <2>4, <3>1, AfterAccountLeaves
  <2>9. CASE f.wait = "pending"
    <3>1. Resume(w) = AfterPending(IF f.st = "quit" THEN u ELSE w)
      BY <2>3, <2>9 DEF Resume, f
    <3>2. QED BY <2>1, <2>4, <3>1, AfterPendingLeaves
  <2>10. QED BY <2>5, <2>6, <2>7, <2>8, <2>9
<1>6. CASE f.wait \in Search
  <2>1. ~a.booting
    BY <1>1, <1>3, <1>6, BootedBelow DEF Talk, Search, Query
  <2>2. CodesOK(a, n - 1)
    <3>1. \A d \in 1..n : d \in 1..(n - 1) \/ d = n
      BY <1>2
    <3>2. QED BY <1>1, <1>6, <3>1 DEF CodesOK
  <2>3. /\ Leaves(w, Finish(w))
        /\ Leaves(w, Ask(w, "send"))
    <3>1. "send" \in Asked /\ "send" \in Search /\ "send" \notin Talk
      BY DEF Asked, Search, Talk, Query
    <3>2. QED BY <1>1, <2>1, <2>2, <3>1, FinishLeaves, AskLeaves
  <2>4. Leaves(w, Finish([w EXCEPT !.a.started = TRUE]))
    <3> DEFINE b == [a EXCEPT !.started = TRUE]
               u == [w EXCEPT !.a = b]
    <3>1. b \in AppType /\ SameHandlers(a, b) /\ SameCodes(a, b)
      BY <1>2 DEF AppType, SameHandlers, SameCodes
    <3>2. [w EXCEPT !.a.started = TRUE] = u
      OBVIOUS
    <3> HIDE DEF b
    <3>3. Hand(u) /\ u.a = b /\ \A v : Leaves(u, v) => Leaves(w, v)
      BY <1>1, <3>1, HandKept
    <3> HIDE DEF u
    <3>4. ~u.a.booting /\ CodesOK(u.a, Len(u.a.stack) - 1)
      BY <2>1, <2>2, <3>1, <3>3 DEF CodesOK, SameCodes, SameHandlers, WatchCodes, Universe
    <3>5. QED BY <3>2, <3>3, <3>4, FinishLeaves
  <2>5. CASE f.wait = "load"
    BY <2>3, <2>5 DEF Resume
  <2>6. CASE f.wait = "send"
    BY <2>3, <2>4, <2>6 DEF Resume
  <2>7. QED BY <1>6, <2>5, <2>6 DEF Search
<1>7. QED BY <1>4, <1>5, <1>6

\* A handler is called.
LEMMA PushHand ==
  ASSUME NEW a \in AppType, NEW p, HandlersOK(a, p, Len(a.stack)),
         NEW h \in Frame, NEW b \in AppType, b.stack = Append(a.stack, h),
         b.loop = a.loop, b.got = a.got, b.booting = a.booting, b.fate = "up",
         h.proc = "boot" => a.stack = <<>>,
         h.proc # "boot" => a.stack # <<>> /\ ~a.booting,
         h.proc = "recover" => ~a.recovering /\ b.recovering = TRUE,
         h.proc # "recover" => b.recovering = a.recovering
  PROVE  /\ HandlersOK(b, p, Len(a.stack)) /\ Len(b.stack) = Len(a.stack) + 1
         /\ b.stack[Len(b.stack)] = h
         /\ \A d \in 1..Len(a.stack) : b.stack[d] = a.stack[d]
<1> DEFINE n == Len(a.stack)
<1>1. /\ a.stack \in Seq(Frame) /\ n \in Nat /\ DOMAIN a.stack = 1..n /\ ProcsOK(a)
      /\ a.loop \in [Loops -> Nat] /\ a.recovering \in BOOLEAN /\ a.booting \in BOOLEAN
  BY DEF HandlersOK, StackOK, AppType
<1>2. /\ Len(b.stack) = n + 1 /\ DOMAIN b.stack = 1..(n + 1) /\ b.stack[n + 1] = h
      /\ \A d \in 1..n : b.stack[d] = a.stack[d]
  BY <1>1
<1>3. n = 0 <=> a.stack = <<>>
  BY <1>1, EmptySeq
<1> HIDE DEF n
<1>4. ProcsOK(b)
  <2>1. /\ b.fate = "up" => b.stack # <<>>
        /\ b.booting => Len(b.stack) <= 1
    <3>1. b.stack # <<>>
      BY <1>1, <1>2, EmptySeq
    <3>2. h.proc = "boot" => n = 0
      BY <1>3
    <3>3. QED BY <1>1, <1>2, <3>1, <3>2
  <2>2. \A d \in DOMAIN b.stack : b.stack[d].proc = "boot" <=> d = 1
    <3> SUFFICES ASSUME NEW d \in 1..(n + 1) PROVE b.stack[d].proc = "boot" <=> d = 1
      BY <1>2
    <3>1. CASE d \in 1..n
      BY <1>1, <1>2, <3>1 DEF ProcsOK
    <3>2. CASE d = n + 1
      BY <1>1, <1>2, <1>3, <3>2
    <3>3. QED BY <1>1, <3>1, <3>2
  <2>3. b.recovering <=> \E d \in DOMAIN b.stack : b.stack[d].proc = "recover"
    <3>1. \A d \in DOMAIN b.stack : d \in 1..n \/ d = n + 1
      BY <1>1, <1>2
    <3>2. a.recovering <=> \E d \in 1..n : a.stack[d].proc = "recover"
      BY <1>1 DEF ProcsOK
    <3>3. n + 1 \in DOMAIN b.stack /\ \A d \in 1..n : d \in DOMAIN b.stack
      BY <1>1, <1>2
    <3>4. QED BY <1>2, <3>1, <3>2, <3>3
  <2>4. ASSUME NEW d \in DOMAIN b.stack, NEW e \in DOMAIN b.stack,
               b.stack[d].proc = "recover", b.stack[e].proc = "recover"
        PROVE  d = e
    <3>1. \A x \in DOMAIN b.stack : x \in 1..n \/ x = n + 1
      BY <1>1, <1>2
    <3>2. \A x \in 1..n : b.stack[x].proc = "recover" => a.recovering
      BY <1>1, <1>2 DEF ProcsOK
    <3>3. \A x, y \in 1..n :
            b.stack[x].proc = "recover" /\ b.stack[y].proc = "recover" => x = y
      <4>1. \A x, y \in DOMAIN a.stack :
              a.stack[x].proc = "recover" /\ a.stack[y].proc = "recover" => x = y
        BY <1>1 DEF ProcsOK
      <4>2. \A x \in 1..n : x \in DOMAIN a.stack /\ b.stack[x].proc = a.stack[x].proc
        BY <1>1, <1>2
      <4>3. QED BY ONLY <4>1, <4>2
    <3>4. QED BY <1>2, <2>4, <3>1, <3>2, <3>3
  <2>5. QED BY <2>1, <2>2, <2>3, <2>4 DEF ProcsOK
<1>5. \A d \in 1..n : WaitOK(b, d)
  <2> SUFFICES ASSUME NEW d \in 1..n PROVE WaitOK(b, d)
    OBVIOUS
  <2>1. WaitOK(a, d) /\ b.stack[d] = a.stack[d]
    BY <1>2 DEF HandlersOK, StackOK, n
  <2>2. QED BY <2>1 DEF WaitOK
<1>6. \A k \in Loops : b.loop[k] \in 0..n /\ LoopOK(b, k)
  <2> SUFFICES ASSUME NEW k \in Loops PROVE b.loop[k] \in 0..n /\ LoopOK(b, k)
    OBVIOUS
  <2>1. a.loop[k] \in 0..n /\ LoopOK(a, k)
    BY DEF HandlersOK, StackOK, n
  <2>2. a.loop[k] # 0 => b.stack[a.loop[k]] = a.stack[a.loop[k]]
    BY <1>1, <1>2, <2>1
  <2>3. QED BY <2>1, <2>2 DEF LoopOK
<1>7. env.torn \/ AnswersOK(b, p, n)
  <2> SUFFICES ASSUME ~env.torn PROVE AnswersOK(b, p, n)
    OBVIOUS
  <2>1. AnswersOK(a, p, n)
    BY DEF HandlersOK, n
  <2>2. b.got = a.got /\ \A d \in 1..n : b.stack[d] = a.stack[d]
    BY <1>2
  <2>3. QED BY ONLY <2>1, <2>2 DEF AnswersOK
<1>8. QED BY <1>1, <1>2, <1>4, <1>5, <1>6, <1>7 DEF HandlersOK, StackOK, n

\* A loop is told to end.
LEMMA QuitOK ==
  ASSUME NEW a \in AppType, StackOK(a, Len(a.stack)), NEW k \in Loops,
         NEW st \in {"quit", "timeout"}
  PROVE  LET b == Quit(a, k, st)
         IN  /\ b \in AppType /\ SameCodes(a, b) /\ b.got = a.got
             /\ StackOK(b, Len(b.stack)) /\ Len(b.stack) = Len(a.stack)
             /\ \A d \in 1..Len(a.stack) :
                  /\ b.stack[d].wait = a.stack[d].wait /\ b.stack[d].proc = a.stack[d].proc
                  /\ d = a.loop[k] => b.stack[d].st = st
                  /\ d # a.loop[k] => b.stack[d].st = a.stack[d].st
<1> DEFINE n == Len(a.stack)
           d0 == a.loop[k]
           b == Quit(a, k, st)
<1>1. /\ a.stack \in Seq(Frame) /\ n \in Nat /\ DOMAIN a.stack = 1..n /\ ProcsOK(a)
      /\ a.loop \in [Loops -> Nat] /\ d0 \in 0..n /\ LoopOK(a, k)
  BY DEF StackOK, AppType
<1>2. CASE d0 = 0
  <2>1. b = a
    BY <1>2 DEF Quit
  <2>2. QED BY <1>1, <1>2, <2>1 DEF SameCodes
<1>3. CASE d0 # 0
  <2> DEFINE h == [a.stack[d0] EXCEPT !.st = st]
             t == [a.stack EXCEPT ![d0] = h]
             l == [a.loop EXCEPT ![k] = 0]
             c == [a EXCEPT !.stack = t, !.loop = l]
  <2>1. d0 \in 1..n /\ a.stack[d0] \in Frame
    BY <1>1, <1>3
  <2> HIDE DEF d0
  <2>2. h \in Frame /\ h.proc = a.stack[d0].proc /\ h.wait = a.stack[d0].wait /\ h.st = st
    BY <2>1 DEF Frame
  <2>3. b = c
    BY <1>3 DEF Quit, d0
  <2> HIDE DEF h, b
  <2>4. /\ t \in Seq(Frame) /\ Len(t) = n /\ t[d0] = h /\ DOMAIN t = 1..n
        /\ \A d \in 1..n : d # d0 => t[d] = a.stack[d]
    BY <1>1, <2>1, <2>2
  <2>5. l \in [Loops -> Nat] /\ l[k] = 0 /\ \A x \in Loops : x # k => l[x] = a.loop[x]
    BY <1>1
  <2> HIDE DEF t, l
  <2>6. b \in AppType /\ b.stack = t /\ b.loop = l /\ b.got = a.got /\ SameCodes(a, b)
    BY <2>3, <2>4, <2>5 DEF AppType, SameCodes
  <2> HIDE DEF c
  <2>7. \A d \in 1..n : /\ b.stack[d].wait = a.stack[d].wait
                        /\ b.stack[d].proc = a.stack[d].proc
                        /\ d = d0 => b.stack[d].st = st
                        /\ d # d0 => b.stack[d].st = a.stack[d].st
    BY <2>2, <2>4, <2>6
  <2>8. ProcsOK(b)
    <3>1. DOMAIN b.stack = 1..n /\ Len(b.stack) = n /\ (a.stack = <<>> <=> b.stack = <<>>)
      BY <1>1, <2>1, <2>4, <2>6, EmptySeq
    <3>2. QED BY <1>1, <2>6, <2>7, <3>1 DEF ProcsOK, SameCodes
  <2>9. ASSUME NEW d \in 1..n PROVE WaitOK(b, d)
    <3>1. WaitOK(a, d)
      BY DEF StackOK
    <3>2. b.booting = a.booting
      BY <2>6 DEF SameCodes
    <3>3. a.stack[d] \in Frame
      BY <1>1
    <3>4. ASSUME b.stack[d].st = "wait", b.stack[d].wait \in Talk
          PROVE  b.loop[Kind(b.stack[d].wait)] = d
      <4>1. d # d0
        BY <2>7, <3>4
      <4>2. a.loop[Kind(a.stack[d].wait)] = d
        BY <2>7, <3>1, <3>4, <4>1 DEF WaitOK
      <4>3. Kind(a.stack[d].wait) # k /\ Kind(a.stack[d].wait) \in Loops
        BY <4>1, <4>2 DEF Kind, Loops, d0
      <4>4. QED BY <2>5, <2>6, <2>7, <4>2, <4>3
    <3>5. b.stack[d].wait = "app" => b.stack[d].st = "wait"
      <4>1. d = d0 => a.stack[d].wait # "app"
        BY <1>1, <1>3 DEF LoopOK, d0
      <4>2. QED BY <2>7, <3>1, <4>1 DEF WaitOK
    <3>6. QED BY <2>7, <3>1, <3>2, <3>4, <3>5 DEF WaitOK
  <2>10. ASSUME NEW x \in Loops PROVE b.loop[x] \in 0..n /\ LoopOK(b, x)
    <3>1. CASE x = k
      BY <1>1, <2>5, <2>6, <3>1 DEF LoopOK
    <3>2. CASE x # k
      <4>1. b.loop[x] = a.loop[x] /\ a.loop[x] \in 0..n /\ LoopOK(a, x)
        BY <2>5, <2>6, <3>2 DEF StackOK
      <4>2. a.loop[x] # 0 => a.loop[x] # d0
        BY <1>1, <1>3, <3>2, <4>1 DEF LoopOK, d0
      <4>3. a.loop[x] # 0 => b.stack[a.loop[x]] = a.stack[a.loop[x]]
        BY <1>1, <2>4, <2>6, <4>1, <4>2
      <4>4. QED BY <4>1, <4>3 DEF LoopOK
    <3>3. QED BY <3>1, <3>2
  <2>11. Len(b.stack) = n
    BY <2>4, <2>6
  <2>12. StackOK(b, n)
    BY <2>8, <2>9, <2>10 DEF StackOK
  <2>13. QED BY <2>6, <2>7, <2>11, <2>12 DEF b, d0
<1>4. QED BY <1>2, <1>3

\* The end of a login or of a condition search leaves the queries alone.
LEMMA QuitAnswers ==
  ASSUME NEW a \in AppType, StackOK(a, Len(a.stack)), NEW k \in {"login", "condition"},
         NEW st \in {"quit", "timeout"}, NEW p, AnswersOK(a, p, Len(a.stack)),
         NEW r \in SUBSET p
  PROVE  AnswersOK(Quit(a, k, st), r, Len(a.stack))
<1> DEFINE n == Len(a.stack)
           b == Quit(a, k, st)
<1>0. k \in Loops
  BY DEF Loops
<1>1. /\ b.got = a.got
      /\ \A d \in 1..n :
           /\ b.stack[d].wait = a.stack[d].wait
           /\ d # a.loop[k] => b.stack[d].st = a.stack[d].st
  BY <1>0, QuitOK
<1>2. /\ n \in Nat /\ a.loop[k] \in 0..n /\ LoopOK(a, k)
  BY DEF StackOK, AppType, Loops
<1>3. \A d \in 1..n : a.stack[d].wait \in Query => d # a.loop[k]
  BY <1>2 DEF LoopOK, Kind, Query
<1> HIDE DEF b, n
<1>4. AnswersOK(a, p, n)
  BY DEF n
<1>5. AnswersOK(b, r, n)
  BY <1>1, <1>3, <1>4 DEF AnswersOK
<1>6. QED BY <1>5 DEF b, n

\* Whether everything is subscribed depends on the handlers' places only.
LEMMA CodesKept ==
  ASSUME NEW a, NEW b, NEW n, CodesOK(a, n), SameCodes(a, b),
         \A d \in 1..n : /\ b.stack[d].wait = a.stack[d].wait
                         /\ b.stack[d].proc = a.stack[d].proc
  PROVE  CodesOK(b, n)
<1>1. WatchCodes(b) = WatchCodes(a)
  BY DEF SameCodes, WatchCodes, Universe
<1>2. QED BY <1>1 DEF CodesOK, SameCodes
-----------------------------------------------------------------------------
(* Steps *)

\* What a step does to the life of the session: nothing, it starts, ends, goes on or
\* to an end of its start or recovery, or a recovery begins.
LifeStep ==
  \/ UNCHANGED app
  \/ /\ app.fate = "down" /\ app'.fate = "up"
     /\ app'.booting /\ Talking'
  \/ /\ app.fate \in {"down", "up"} /\ app'.fate \in {"done", "killed", "crashed"}
  \/ /\ app.fate = "up" /\ app'.fate = "up"
     /\ app'.booting => app.booting
     /\ app'.recovering => app.recovering
  \/ /\ app.fate = "up" /\ app'.fate = "up"
     /\ ~app.booting /\ ~app.recovering
     /\ app'.recovering /\ Talking'

LEMMA InvAfter ==
  ASSUME EnvOK', enabled' = enabled, app' \in AppType, pending' \subseteq Asked,
         Len(app'.stack) <= MaxDepth, app'.fate # "down",
         app'.fate = "up" => clock' # "holiday" /\ CodesOK(app', Len(app'.stack)),
         StackOK(app', Len(app'.stack)),
         env'.torn \/ AnswersOK(app', pending', Len(app'.stack))
  PROVE  SessionInv'
<1>1. HandlersOK(app, pending, Len(app.stack))'
  BY DEF HandlersOK
<1>2. app'.fate = "up" => CodesOK(app, Len(app.stack))'
  BY DEF CodesOK, WatchCodes, Universe
<1>3. QED BY <1>1, <1>2 DEF SessionInv

\* The state before a step of the running program.
LEMMA Before ==
  ASSUME SessionInv, app.fate = "up"
  PROVE  /\ app \in AppType /\ app.stack \in Seq(Frame) /\ Len(app.stack) \in Nat
         /\ Len(app.stack) > 0 /\ Len(app.stack) <= MaxDepth
         /\ DOMAIN app.stack = 1..Len(app.stack)
         /\ clock \in ToSet(Phases) /\ pending \subseteq Asked
         /\ StackOK(app, Len(app.stack)) /\ ProcsOK(app)
         /\ env.torn \/ AnswersOK(app, pending, Len(app.stack))
         /\ HandlersOK(app, pending, Len(app.stack))
         /\ CodesOK(app, Len(app.stack))
<1>1. /\ app \in AppType /\ app.stack \in Seq(Frame) /\ Len(app.stack) \in Nat
      /\ DOMAIN app.stack = 1..Len(app.stack) /\ ProcsOK(app)
  BY DEF SessionInv, HandlersOK, StackOK, AppType
<1>2. Len(app.stack) > 0
  <2>1. app.stack # <<>>
    BY <1>1 DEF ProcsOK
  <2>2. QED BY <1>1, <2>1, EmptySeq
<1>3. QED BY <1>1, <1>2 DEF SessionInv, HandlersOK, EnvOK

\* A fault that is still allowed.
LEMMA FaultOK ==
  ASSUME EnvOK, NEW n \in Nat, Fault(n)
  PROVE  env.faults + n \in 0..MaxFaults[enabled]
<1>1. env.faults \in Nat /\ MaxFaults[enabled] \in Nat
  BY SessionAssumption DEF EnvOK
<1>2. QED BY <1>1 DEF Fault

LEMMA EnvAfter ==
  ASSUME EnvOK, NEW n \in Nat, Fault(n), NEW s \in BOOLEAN, NEW t \in BOOLEAN,
         env' = [env EXCEPT !.faults = @ + n, !.stuck = s, !.torn = t],
         UNCHANGED <<enabled, clock>>, dog' \in {"off", "armed", "grace"}
  PROVE  EnvOK' /\ env'.torn = t
<1>1. env.faults + n \in 0..MaxFaults[enabled]
  BY FaultOK
<1>2. ASSUME NEW m \in 0..MaxFaults[enabled],
             NEW r \in [faults : 0..MaxFaults[enabled], stuck : BOOLEAN, torn : BOOLEAN]
      PROVE  /\ [r EXCEPT !.faults = m, !.stuck = s, !.torn = t]
                  \in [faults : 0..MaxFaults[enabled], stuck : BOOLEAN, torn : BOOLEAN]
             /\ [r EXCEPT !.faults = m, !.stuck = s, !.torn = t].torn = t
  OBVIOUS
<1>3. env' = [env EXCEPT !.faults = env.faults + n, !.stuck = s, !.torn = t]
  BY DEF EnvOK
<1>4. QED BY <1>1, <1>2, <1>3 DEF EnvOK

\* A step that leaves the handlers alone.
LEMMA MemoryStep ==
  ASSUME SessionInv, app.fate = "up", NEW b \in AppType, app' = b,
         b.stack = app.stack, b.loop = app.loop, b.got = app.got, b.fate = app.fate,
         b.booting = app.booting, b.recovering = app.recovering,
         pending' \subseteq pending, EnvOK', env'.torn = env.torn,
         enabled' = enabled, clock' = clock, CodesOK(b, Len(b.stack))
  PROVE  SessionInv' /\ LifeStep
<1> DEFINE n == Len(app.stack)
<1>1. /\ app \in AppType /\ clock \in ToSet(Phases) /\ pending \subseteq Asked
      /\ HandlersOK(app, pending, n) /\ n <= MaxDepth
  BY Before
<1>2. HandlersOK(b, pending, n)
  BY <1>1, MemoryKeeps
<1>3. env.torn \/ AnswersOK(b, pending', n)
  BY <1>2 DEF HandlersOK, AnswersOK
<1>4. clock' # "holiday"
  BY <1>1, PhaseSet
<1>5. SessionInv'
  BY <1>1, <1>2, <1>3, <1>4, InvAfter DEF HandlersOK
<1>6. LifeStep
  BY DEF LifeStep
<1>7. QED BY <1>5, <1>6

\* A step that ends a loop: of a login or a condition search, or by a timeout.
LEMMA QuitStep ==
  ASSUME SessionInv, app.fate = "up", NEW a \in AppType,
         a.stack = app.stack, a.loop = app.loop, a.got = app.got, a.fate = app.fate,
         a.booting = app.booting, a.recovering = app.recovering,
         CodesOK(a, Len(a.stack)),
         NEW k \in Loops, NEW st \in {"quit", "timeout"}, app' = Quit(a, k, st),
         pending' \subseteq pending, EnvOK', env.torn => env'.torn,
         env'.torn \/ k # "tr", enabled' = enabled, clock' = clock
  PROVE  SessionInv' /\ LifeStep
<1> DEFINE n == Len(app.stack)
           b == Quit(a, k, st)
<1>1. /\ app \in AppType /\ clock \in ToSet(Phases) /\ pending \subseteq Asked
      /\ HandlersOK(app, pending, n) /\ n <= MaxDepth /\ n \in Nat
  BY Before
<1>2. HandlersOK(a, pending, n) /\ Len(a.stack) = n
  BY <1>1, MemoryKeeps
<1>3. /\ b \in AppType /\ SameCodes(a, b) /\ StackOK(b, Len(b.stack)) /\ Len(b.stack) = n
      /\ \A d \in 1..n : /\ b.stack[d].wait = a.stack[d].wait
                         /\ b.stack[d].proc = a.stack[d].proc
  BY <1>2, QuitOK DEF HandlersOK
<1>4. env'.torn \/ AnswersOK(b, pending', n)
  <2>1. CASE env'.torn
    BY <2>1
  <2>2. CASE ~env'.torn
    <3>1. k \in {"login", "condition"} /\ AnswersOK(a, pending, n)
      BY <1>2, <2>2 DEF Loops, HandlersOK
    <3>2. AnswersOK(b, pending', n)
      BY <1>2, <3>1, QuitAnswers DEF HandlersOK
    <3>3. QED BY <3>2
  <2>3. QED BY <2>1, <2>2
<1>5. CodesOK(b, n)
  BY <1>2, <1>3, CodesKept
<1> HIDE DEF b, n
<1>6. app' = b
  BY DEF b
<1>7. clock' # "holiday"
  BY <1>1, PhaseSet
<1>8. b.fate = "up" /\ b.booting = app.booting /\ b.recovering = app.recovering
  BY <1>3 DEF SameCodes
<1>9. SessionInv'
  BY <1>1, <1>3, <1>4, <1>5, <1>6, <1>7, <1>8, InvAfter
<1>10. LifeStep
  BY <1>6, <1>8 DEF LifeStep
<1>11. QED BY <1>9, <1>10

\* A step that ends with what a handler leaves behind.
LEMMA ApplyStep ==
  ASSUME SessionInv, NEW w, NEW v, Leaves(w, v), Apply(v), EnvOK', env'.torn = env.torn,
         enabled' = enabled, clock' = clock, clock # "holiday"
  PROVE  /\ SessionInv'
         /\ app'.fate = v.a.fate /\ app'.booting = v.a.booting
         /\ app'.recovering = v.a.recovering /\ app'.stack = v.a.stack
<1> DEFINE l == v.a.loaded /\ \E d \in DOMAIN v.a.stack : v.a.stack[d].wait = "load"
           b == [v.a EXCEPT !.loaded = l]
           n == Len(v.a.stack)
<1>1. /\ v.a \in AppType /\ v.p \subseteq Asked /\ v.a.fate # "down"
      /\ HandlersOK(v.a, v.p, n) /\ (v.a.fate = "up" => CodesOK(v.a, n))
  BY DEF Leaves, WorldType
<1>2. l \in BOOLEAN
  BY <1>1 DEF AppType
<1>3. app' = b /\ pending' = v.p /\ n <= MaxDepth
  BY <1>1 DEF Apply, AppType
<1> HIDE DEF l
<1>4. b \in AppType /\ SameHandlers(v.a, b) /\ SameCodes(v.a, b)
  BY <1>1, <1>2 DEF AppType, SameHandlers, SameCodes
<1> HIDE DEF b
<1>5. HandlersOK(b, v.p, n)
  BY <1>1, <1>4, MemoryKeeps DEF SameHandlers
<1>6. b.fate = "up" => CodesOK(b, n)
  BY <1>1, <1>4, CodesKept DEF SameHandlers
<1>7. SessionInv'
  BY <1>1, <1>3, <1>4, <1>5, <1>6, InvAfter DEF HandlersOK, SameHandlers
<1>8. QED BY <1>3, <1>4, <1>7 DEF SameHandlers

LEMMA StepBoot == SessionInv /\ Boot => SessionInv' /\ LifeStep
<1> SUFFICES ASSUME SessionInv, Boot PROVE SessionInv' /\ LifeStep
  OBVIOUS
<1>1. /\ app = NewApp /\ pending = {} /\ app.fate = "down" /\ EnvOK /\ app \in AppType
      /\ HandlersOK(app, pending, Len(app.stack))
      /\ UNCHANGED <<enabled, clock, env>>
  BY DEF Boot, SessionInv
<1>2. dog' \in {"off", "armed", "grace"}
  BY <1>1 DEF Boot, EnvOK
<1>3. EnvOK' /\ env'.torn = env.torn
  BY <1>1, <1>2 DEF EnvOK
<1> DEFINE w == World({}, Unread)
<1>4. w \in WorldType /\ w.a = app /\ w.p = {}
  BY <1>1 DEF World, WorldType, FileType, Unread
<1>5. CASE clock \in {"holiday", "after"}
  <2>1. app' = Ended("done") /\ pending' = {}
    BY <1>1, <1>5 DEF Boot
  <2> DEFINE v == [w EXCEPT !.a = Ended("done"), !.p = {}]
  <2>2. Leaves(w, v) /\ v.a = Ended("done") /\ v.p = {}
    BY <1>4, EndedLeaves DEF WorldType
  <2> HIDE DEF v
  <2>3. Ended("done").fate = "done" /\ Len(Ended("done").stack) = 0
    BY DEF Ended, NewApp
  <2>4. SessionInv'
    BY <1>3, <1>1, <2>1, <2>2, <2>3, InvAfter, SessionAssumption
       DEF Leaves, HandlersOK, WorldType
  <2>5. LifeStep
    BY <1>1, <2>1, <2>3 DEF LifeStep
  <2>6. QED BY <2>4, <2>5
<1>6. CASE clock \notin {"holiday", "after"}
  <2> DEFINE h == [proc |-> "boot", wait |-> "login", st |-> "wait"]
             x == [w EXCEPT !.a.fate = "up"]
             b == [app EXCEPT !.fate = "up", !.stack = Append(@, h)]
             u == [w EXCEPT !.a = b]
             v == Ask(u, "login")
  <2>1. Apply(Push(x, "boot", "login"))
    BY <1>6 DEF Boot
  <2>2. Push(x, "boot", "login") = v
    <3>1. [x EXCEPT !.a.stack = Append(@, h)] = u
      BY <1>1, <1>4 DEF WorldType, AppType
    <3>2. QED BY <3>1 DEF Push
  <2>3. h \in Frame
    BY DEF Frame
  <2>4. app.stack = <<>> /\ Len(app.stack) = 0 /\ app.booting
    BY <1>1 DEF NewApp
  <2>5. /\ b \in AppType /\ b.stack = Append(app.stack, h) /\ b.loop = app.loop
        /\ b.got = app.got /\ b.booting = app.booting /\ b.fate = "up"
        /\ b.recovering = app.recovering
    <3>1. h.proc = "boot"
      OBVIOUS
    <3> HIDE DEF h
    <3>2. Append(app.stack, h) \in Seq(Frame)
      BY <1>1, <2>3 DEF AppType
    <3>3. QED BY <1>1, <3>2 DEF AppType
  <2>6. app.recovering \in BOOLEAN /\ h.proc = "boot"
    BY <1>1 DEF AppType
  <2> HIDE DEF b, h
  <2>7. /\ HandlersOK(b, {}, 0) /\ Len(b.stack) = 1 /\ b.stack[1] = h
    <3>1. HandlersOK(app, pending, Len(app.stack)) /\ app \in AppType
      BY <1>1
    <3>2. /\ h.proc = "boot" => app.stack = <<>>
          /\ h.proc # "boot" => app.stack # <<>> /\ ~app.booting
          /\ h.proc = "recover" => ~app.recovering /\ b.recovering = TRUE
          /\ h.proc # "recover" => b.recovering = app.recovering
      BY <2>4, <2>5, <2>6
    <3>3. HandlersOK(b, pending, Len(app.stack))
      BY ONLY <2>3, <2>5, <3>1, <3>2, PushHand
    <3>4. Len(b.stack) = 1 /\ b.stack[1] = h
      BY <2>3, <2>4, <2>5
    <3>5. QED BY <1>1, <2>4, <3>3, <3>4
  <2>8. u \in WorldType /\ u.a = b /\ u.p = {}
    BY <1>4, <2>5 DEF WorldType
  <2> HIDE DEF u, x
  <2>9. Hand(u) /\ Owner(u) = "boot"
    BY <2>5, <2>6, <2>7, <2>8 DEF Hand, Owner
  <2>10. "login" \in Asked /\ "login" \in Talk /\ "login" \notin Search
    BY DEF Asked, Talk, Search
  <2>11. Leaves(u, v)
    BY <2>4, <2>5, <2>8, <2>9, <2>10, AskLeaves
  <2>12. /\ SameCodes(b, v.a) /\ Len(v.a.stack) = 1
         /\ v.a.stack[1] = [proc |-> b.stack[1].proc, wait |-> "login", st |-> "wait"]
    <3>1. Len(u.a.stack) = 1 /\ Len(u.a.stack) > 0
      BY <2>7, <2>8
    <3>2. /\ SameCodes(u.a, v.a) /\ Len(v.a.stack) = Len(u.a.stack)
          /\ v.a.stack[Len(u.a.stack)]
               = [proc |-> u.a.stack[Len(u.a.stack)].proc, wait |-> "login", st |-> "wait"]
      BY <2>8, <2>10, <3>1, AskEffect
    <3>3. QED BY <2>8, <3>1, <3>2
  <2> HIDE DEF v
  <2>13. /\ SessionInv' /\ app'.fate = v.a.fate /\ app'.booting = v.a.booting
         /\ app'.stack = v.a.stack
    BY <1>1, <1>3, <1>6, <2>1, <2>2, <2>11, ApplyStep
  <2>14. app'.fate = "up" /\ app'.booting
    BY <2>4, <2>5, <2>12, <2>13 DEF SameCodes
  <2>15. Talking'
    <3>1. 1 \in DOMAIN app'.stack
      BY <2>12, <2>13, <2>14 DEF SessionInv, AppType
    <3>2. QED BY <2>12, <2>13, <2>14, <3>1 DEF Talking
  <2>16. QED BY <1>1, <2>13, <2>14, <2>15 DEF LifeStep
<1>7. QED BY <1>5, <1>6

\* The requests that may be refused when a handler goes on.
LEMMA RefusalSet ==
  ASSUME NEW r \in Refusals
  PROVE  r \subseteq Asked /\ Cardinality(r) \in Nat
<1> DEFINE S == {"deposit", "positions", "pending", "load", "send"}
<1>1. r \subseteq S
  BY DEF Refusals
<1>2. IsFiniteSet(S)
  <2>1. IsFiniteSet({"deposit"}) /\ IsFiniteSet({"positions"}) /\ IsFiniteSet({"pending"})
        /\ IsFiniteSet({"load"}) /\ IsFiniteSet({"send"})
    BY FS_Singleton
  <2>2. IsFiniteSet({"deposit"} \cup {"positions"})
    BY <2>1, FS_Union
  <2>3. IsFiniteSet({"pending"} \cup ({"deposit"} \cup {"positions"}))
    BY <2>1, <2>2, FS_Union
  <2>4. IsFiniteSet({"load"} \cup {"send"})
    BY <2>1, FS_Union
  <2>5. IsFiniteSet(({"pending"} \cup ({"deposit"} \cup {"positions"}))
                      \cup ({"load"} \cup {"send"}))
    BY <2>3, <2>4, FS_Union
  <2>6. S = ({"pending"} \cup ({"deposit"} \cup {"positions"})) \cup ({"load"} \cup {"send"})
    OBVIOUS
  <2>7. QED BY <2>5, <2>6
<1>3. IsFiniteSet(r)
  BY <1>1, <1>2, FS_Subset
<1>4. Cardinality(r) \in Nat
  BY <1>3, FS_CardinalityType
<1>5. S \subseteq Asked
  BY DEF Asked, Query, Search
<1>6. QED BY <1>1, <1>4, <1>5

LEMMA StepReturn == SessionInv /\ Return => SessionInv' /\ LifeStep
<1> SUFFICES ASSUME SessionInv, Return PROVE SessionInv' /\ LifeStep
  OBVIOUS
<1>1. /\ app.fate = "up" /\ Top(app).st # "wait" /\ UNCHANGED <<enabled, clock, dog>>
      /\ EnvOK
  BY DEF Return, SessionInv
<1>2. PICK r \in Refusals :
        /\ Fault(Cardinality(r))
        /\ \E f \in IF Top(app).wait = "pending" \/ "pending" \in r THEN Files ELSE {Unread} :
             Apply(Resume(World(r, f)))
        /\ env' = [env EXCEPT !.faults = @ + Cardinality(r)]
  BY DEF Return
<1>3. PICK f \in Files \cup {Unread} : Apply(Resume(World(r, f)))
  BY <1>2
<1>4. r \subseteq Asked /\ Cardinality(r) \in Nat
  BY RefusalSet
<1>5. f \in FileType
  BY DEF Files, Unread, FileType
<1> DEFINE w == World(r, f)
           v == Resume(w)
<1>6. /\ app \in AppType /\ pending \subseteq Asked /\ clock \in ToSet(Phases)
      /\ HandlersOK(app, pending, Len(app.stack)) /\ CodesOK(app, Len(app.stack))
  BY <1>1, Before
<1>7. w \in WorldType /\ w.a = app /\ w.p = pending
  BY <1>4, <1>5, <1>6 DEF World, WorldType
<1> HIDE DEF w
<1>8. Leaves(w, v)
  BY <1>1, <1>6, <1>7, ResumeLeaves
<1>9. EnvOK' /\ env'.torn = env.torn
  <2>1. env.stuck \in BOOLEAN /\ env.torn \in BOOLEAN
        /\ env' = [env EXCEPT !.faults = @ + Cardinality(r), !.stuck = env.stuck,
                              !.torn = env.torn]
    BY <1>1, <1>2 DEF EnvOK
  <2>2. dog' \in {"off", "armed", "grace"}
    BY <1>1 DEF EnvOK
  <2>3. QED BY <1>1, <1>2, <1>4, <2>1, <2>2, EnvAfter
<1>10. clock # "holiday"
  BY <1>6, PhaseSet
<1> HIDE DEF v
<1>11. Apply(v)
  BY <1>3 DEF v, w
<1>12. /\ SessionInv' /\ app'.fate = v.a.fate /\ app'.booting = v.a.booting
       /\ app'.recovering = v.a.recovering
  BY <1>1, <1>8, <1>9, <1>10, <1>11, ApplyStep
<1>13. app'.fate \in {"up", "done", "killed", "crashed"}
  BY <1>8, <1>12 DEF Leaves, WorldType, AppType
<1>14. LifeStep
  BY <1>1, <1>7, <1>8, <1>12, <1>13 DEF LifeStep, Leaves
<1>15. QED BY <1>12, <1>14

LEMMA FaultsAfter ==
  ASSUME EnvOK, NEW n \in Nat, n = 0 \/ Fault(n), env' = [env EXCEPT !.faults = @ + n],
         UNCHANGED <<enabled, clock>>, dog' \in {"off", "armed", "grace"}
  PROVE  EnvOK' /\ env'.torn = env.torn
<1>1. Fault(n)
  BY SessionAssumption DEF Fault, EnvOK
<1>2. env.stuck \in BOOLEAN /\ env.torn \in BOOLEAN
      /\ env' = [env EXCEPT !.faults = @ + n, !.stuck = env.stuck, !.torn = env.torn]
  BY DEF EnvOK
<1>3. QED BY <1>1, <1>2, EnvAfter

LEMMA SameEnv ==
  ASSUME EnvOK, UNCHANGED <<enabled, clock, env>>, dog' \in {"off", "armed", "grace"}
  PROVE  EnvOK' /\ env'.torn = env.torn
BY DEF EnvOK

\* What is watched does not grow beyond what is subscribed.
LEMMA CodesNarrow ==
  ASSUME NEW a, NEW b, NEW n, CodesOK(a, n), b.stack = a.stack, b.booting = a.booting,
         b.recovering = a.recovering, b.done = a.done, b.registered = a.registered,
         WatchCodes(b) \subseteq WatchCodes(a) \cup a.registered
  PROVE  CodesOK(b, n)
BY DEF CodesOK

LEMMA StepOnEventConnect ==
  ASSUME SessionInv, NEW ok \in BOOLEAN, OnEventConnect(ok)
  PROVE  SessionInv' /\ LifeStep
<1>1. /\ app.fate = "up" /\ EnvOK /\ UNCHANGED <<enabled, clock, dog>> /\ app \in AppType
      /\ CodesOK(app, Len(app.stack)) /\ pending' \subseteq pending
  BY Before DEF OnEventConnect, Dispatching, SessionInv
<1>2. EnvOK' /\ env'.torn = env.torn
  <2>1. /\ (IF ok THEN 0 ELSE 1) \in Nat
        /\ (IF ok THEN 0 ELSE 1) = 0 \/ Fault(IF ok THEN 0 ELSE 1)
        /\ env' = [env EXCEPT !.faults = @ + IF ok THEN 0 ELSE 1]
    BY DEF OnEventConnect
  <2>2. dog' \in {"off", "armed", "grace"}
    BY <1>1 DEF EnvOK
  <2>3. QED BY <1>1, <2>1, <2>2, FaultsAfter
<1> DEFINE a == [app EXCEPT !.connected = ok]
<1>3. /\ a \in AppType /\ a.stack = app.stack /\ a.loop = app.loop /\ a.got = app.got
      /\ a.fate = app.fate /\ a.booting = app.booting /\ a.recovering = app.recovering
      /\ SameCodes(app, a)
  BY <1>1 DEF AppType, SameCodes
<1>4. app' = Quit(a, "login", "quit")
  BY DEF OnEventConnect
<1> HIDE DEF a
<1>5. CodesOK(a, Len(a.stack))
  BY <1>1, <1>3, CodesKept
<1>6. "login" \in Loops
  BY DEF Loops
<1>7. QED BY <1>1, <1>2, <1>3, <1>4, <1>5, <1>6, QuitStep

LEMMA StepConnectionLost == SessionInv /\ ConnectionLost => SessionInv' /\ LifeStep
<1> SUFFICES ASSUME SessionInv, ConnectionLost PROVE SessionInv' /\ LifeStep
  OBVIOUS
<1>1. /\ app.fate = "up" /\ EnvOK /\ UNCHANGED <<enabled, clock, dog>> /\ app \in AppType
      /\ CodesOK(app, Len(app.stack)) /\ pending' = pending
  BY Before DEF ConnectionLost, Dispatching, SessionInv
<1>2. EnvOK' /\ env'.torn = env.torn
  <2>1. dog' \in {"off", "armed", "grace"}
    BY <1>1 DEF EnvOK
  <2>2. QED BY <1>1, <2>1, FaultsAfter DEF ConnectionLost
<1> DEFINE a == [app EXCEPT !.connected = FALSE]
<1>3. /\ a \in AppType /\ a.stack = app.stack /\ a.loop = app.loop /\ a.got = app.got
      /\ a.fate = app.fate /\ a.booting = app.booting /\ a.recovering = app.recovering
      /\ SameCodes(app, a)
  BY <1>1 DEF AppType, SameCodes
<1>4. app' = Quit(a, "login", "quit")
  BY DEF ConnectionLost
<1> HIDE DEF a
<1>5. CodesOK(a, Len(a.stack))
  BY <1>1, <1>3, CodesKept
<1>6. "login" \in Loops
  BY DEF Loops
<1>7. QED BY <1>1, <1>2, <1>3, <1>4, <1>5, <1>6, QuitStep

LEMMA StepConditionVer ==
  ASSUME SessionInv, NEW ok \in BOOLEAN, OnReceiveConditionVer(ok)
  PROVE  SessionInv' /\ LifeStep
<1>1. /\ app.fate = "up" /\ EnvOK /\ UNCHANGED <<enabled, clock, dog>> /\ app \in AppType
      /\ CodesOK(app, Len(app.stack)) /\ pending' \subseteq pending
  BY Before DEF OnReceiveConditionVer, Dispatching, SessionInv
<1>2. EnvOK' /\ env'.torn = env.torn
  <2>1. /\ (IF ok THEN 0 ELSE 1) \in Nat
        /\ (IF ok THEN 0 ELSE 1) = 0 \/ Fault(IF ok THEN 0 ELSE 1)
        /\ env' = [env EXCEPT !.faults = @ + IF ok THEN 0 ELSE 1]
    BY DEF OnReceiveConditionVer
  <2>2. dog' \in {"off", "armed", "grace"}
    BY <1>1 DEF EnvOK
  <2>3. QED BY <1>1, <2>1, <2>2, FaultsAfter
<1> DEFINE a == [app EXCEPT !.loaded = ok]
<1>3. /\ a \in AppType /\ a.stack = app.stack /\ a.loop = app.loop /\ a.got = app.got
      /\ a.fate = app.fate /\ a.booting = app.booting /\ a.recovering = app.recovering
      /\ SameCodes(app, a)
  BY <1>1 DEF AppType, SameCodes
<1>4. app' = Quit(a, "condition", "quit")
  BY DEF OnReceiveConditionVer
<1> HIDE DEF a
<1>5. CodesOK(a, Len(a.stack))
  BY <1>1, <1>3, CodesKept
<1>6. "condition" \in Loops /\ "condition" # "tr"
  BY DEF Loops
<1>7. QED BY <1>1, <1>2, <1>3, <1>4, <1>5, <1>6, QuitStep

LEMMA StepTrCondition ==
  ASSUME SessionInv, NEW codes \in SUBSET Code, OnReceiveTrCondition(codes)
  PROVE  SessionInv' /\ LifeStep
<1>1. /\ app.fate = "up" /\ EnvOK /\ UNCHANGED <<enabled, clock, dog, env>>
      /\ app \in AppType /\ pending' \subseteq pending
  BY Before DEF OnReceiveTrCondition, Dispatching, SessionInv
<1>2. EnvOK' /\ env'.torn = env.torn
  BY <1>1, SameEnv DEF EnvOK
<1> DEFINE x == ReplaceCondition(app, codes)
           a == RefreshRealRegistration(x)
<1>3. x \in AppType /\ SameHandlers(app, x)
  BY <1>1 DEF ReplaceCondition, AppType, SameHandlers
<1>4. app' = Quit(a, "condition", "quit")
  BY DEF OnReceiveTrCondition, SubscribeInitial
<1> HIDE DEF x
<1>5. a \in AppType /\ SameHandlers(x, a) /\ WatchCodes(a) \subseteq a.registered
  BY <1>3, RefreshOK
<1> HIDE DEF a
<1>6. CodesOK(a, Len(a.stack))
  BY <1>5 DEF CodesOK
<1>7. "condition" \in Loops /\ "condition" # "tr"
  BY DEF Loops
<1>8. QED BY <1>1, <1>2, <1>3, <1>4, <1>5, <1>6, <1>7, QuitStep DEF SameHandlers

LEMMA StepTimeout ==
  ASSUME SessionInv, NEW d \in DOMAIN app.stack, Timeout(d)
  PROVE  SessionInv' /\ LifeStep
<1>1. /\ app.fate = "up" /\ EnvOK /\ UNCHANGED <<enabled, clock, dog, pending>>
      /\ app \in AppType /\ CodesOK(app, Len(app.stack)) /\ Fault(1)
      /\ env' = [env EXCEPT !.faults = @ + 1, !.torn = TRUE]
  BY Before DEF Timeout, Dispatching, SessionInv
<1>2. EnvOK' /\ env'.torn
  <2>1. env.stuck \in BOOLEAN
        /\ env' = [env EXCEPT !.faults = @ + 1, !.stuck = env.stuck, !.torn = TRUE]
    BY <1>1 DEF EnvOK
  <2>2. dog' \in {"off", "armed", "grace"}
    BY <1>1 DEF EnvOK
  <2>3. QED BY <1>1, <2>1, <2>2, EnvAfter
<1>3. Kind(app.stack[d].wait) \in Loops
  BY DEF Kind, Loops
<1>4. app' = Quit(app, Kind(app.stack[d].wait), "timeout")
  BY DEF Timeout
<1>5. QED BY <1>1, <1>2, <1>3, <1>4, QuitStep

\* Two waits for a login or a query are one.
LEMMA TalkersEqual ==
  ASSUME NEW a \in AppType, StackOK(a, Len(a.stack)),
         NEW d \in DOMAIN a.stack, a.stack[d].wait \in Talk,
         NEW e \in DOMAIN a.stack, a.stack[e].wait \in Talk
  PROVE  d = e
<1>1. ProcsOK(a) /\ WaitOK(a, d) /\ WaitOK(a, e) /\ a.stack[e] \in Frame
  BY DEF StackOK, AppType
<1>2. a.booting \/ a.stack[e].proc = "recover"
  BY <1>1 DEF WaitOK, Frame, Talk, Search, Query
<1>3. QED BY <1>1, <1>2, OneTalks

LEMMA StepTrData ==
  ASSUME SessionInv, NEW q \in Query, NEW rows \in SUBSET Code, NEW more \in BOOLEAN,
         NEW ok \in BOOLEAN, OnReceiveTrData(q, rows, more, ok)
  PROVE  SessionInv' /\ LifeStep
<1> DEFINE n == Len(app.stack)
           a == IF app.loop.tr = 0 THEN app
                ELSE IF app.stack[app.loop.tr].wait # q THEN app
                ELSE [app EXCEPT !.got = [rows |-> @.rows \cup rows, whole |-> ~more]]
<1>1. /\ app.fate = "up" /\ EnvOK /\ UNCHANGED <<enabled, clock, dog>>
      /\ app \in AppType /\ n \in Nat /\ n <= MaxDepth /\ DOMAIN app.stack = 1..n
      /\ clock \in ToSet(Phases) /\ pending \subseteq Asked
      /\ StackOK(app, n) /\ HandlersOK(app, pending, n) /\ CodesOK(app, n)
      /\ env.torn \/ AnswersOK(app, pending, n)
      /\ q \in pending
  BY Before DEF OnReceiveTrData, Dispatching, SessionInv
<1>2. /\ EnvOK' /\ env'.torn = (env.torn \/ ~ok)
  <2>1. /\ (IF ok THEN 0 ELSE 1) \in Nat
        /\ Fault(IF ok THEN 0 ELSE 1)
    BY <1>1, SessionAssumption DEF OnReceiveTrData, Fault, EnvOK
  <2>2. /\ env.stuck \in BOOLEAN /\ (env.torn \/ ~ok) \in BOOLEAN
        /\ env' = [env EXCEPT !.faults = @ + (IF ok THEN 0 ELSE 1), !.stuck = env.stuck,
                              !.torn = env.torn \/ ~ok]
    BY <1>1 DEF OnReceiveTrData, EnvOK
  <2>3. dog' \in {"off", "armed", "grace"}
    BY <1>1 DEF EnvOK
  <2>4. QED BY <1>1, <2>1, <2>2, <2>3, EnvAfter
<1>3. /\ a \in AppType /\ SameCodes(app, a) /\ a.stack = app.stack /\ a.loop = app.loop
      /\ app.loop.tr = 0 => a = app
      /\ app.loop.tr # 0 /\ app.stack[app.loop.tr].wait = q => a.got.whole = ~more
      /\ app.loop.tr # 0 /\ app.stack[app.loop.tr].wait # q => a = app
  <2> DEFINE g == [rows |-> app.got.rows \cup rows, whole |-> ~more]
             b == [app EXCEPT !.got = g]
  <2>1. g \in [rows : SUBSET Code, whole : BOOLEAN] /\ g.whole = ~more
    BY <1>1 DEF AppType
  <2>2. [app EXCEPT !.got = [rows |-> @.rows \cup rows, whole |-> ~more]] = b
    BY <1>1 DEF AppType
  <2> HIDE DEF g
  <2>3. /\ b \in AppType /\ SameCodes(app, b) /\ b.stack = app.stack /\ b.loop = app.loop
        /\ b.got = g
    BY <1>1, <2>1 DEF AppType, SameCodes
  <2> HIDE DEF b
  <2>4. SameCodes(app, app)
    BY DEF SameCodes
  <2>5. QED BY <1>1, <2>1, <2>2, <2>3, <2>4
<1>4. TrAnswer(q, rows, more, ok)
        = IF more /\ ok THEN [a |-> a, p |-> pending]
          ELSE [a |-> Quit(a, "tr", "quit"), p |-> pending \ {q}]
  BY DEF TrAnswer
<1>5. app' = TrAnswer(q, rows, more, ok).a /\ pending' = TrAnswer(q, rows, more, ok).p
  BY DEF OnReceiveTrData
<1> HIDE DEF a, n
<1>6. StackOK(a, n)
  <2>1. ProcsOK(a)
    BY <1>1, <1>3 DEF StackOK, ProcsOK, SameCodes
  <2>2. \A d \in 1..n : WaitOK(a, d)
    BY <1>1, <1>3 DEF StackOK, WaitOK, SameCodes
  <2>3. \A k \in Loops : a.loop[k] \in 0..n /\ LoopOK(a, k)
    BY <1>1, <1>3 DEF StackOK, LoopOK
  <2>4. QED BY <2>1, <2>2, <2>3 DEF StackOK
<1>7. CodesOK(a, n)
  BY <1>1, <1>3, CodesKept
<1>8. clock' # "holiday"
  BY <1>1, PhaseSet
<1>9. /\ app.loop.tr \in 0..n
      /\ app.loop.tr # 0 => /\ app.stack[app.loop.tr].st = "wait"
                            /\ app.stack[app.loop.tr].wait \in Query
  <2>1. "tr" \in Loops /\ app.loop["tr"] \in 0..n /\ LoopOK(app, "tr")
    BY <1>1 DEF Loops, StackOK
  <2>2. QED BY <2>1 DEF LoopOK, Kind
<1>10. \A d, e \in 1..n : app.stack[d].wait \in Query /\ app.stack[e].wait \in Query => d = e
  BY <1>1, TalkersEqual DEF n, Talk
<1>11. CASE more /\ ok
  <2>1. app' = a /\ pending' = pending
    BY <1>4, <1>5, <1>11
  <2>2. env'.torn \/ AnswersOK(a, pending, n)
    <3> SUFFICES ASSUME ~env'.torn PROVE AnswersOK(a, pending, n)
      OBVIOUS
    <3>1. AnswersOK(app, pending, n)
      BY <1>1, <1>2
    <3>2. ASSUME NEW d \in 1..n, a.stack[d].st = "quit", a.stack[d].wait \in Query
          PROVE  a.got.whole
      <4>1. app.loop.tr # d
        BY <1>3, <1>9, <3>2
      <4>2. app.loop.tr = 0
        BY <1>3, <1>9, <1>10, <3>2, <4>1
      <4>3. QED BY <1>3, <3>1, <3>2, <4>2 DEF AnswersOK
    <3>3. QED BY <1>3, <3>1, <3>2 DEF AnswersOK
  <2>3. a.fate = "up" /\ a.booting = app.booting /\ a.recovering = app.recovering
        /\ Len(a.stack) = n
    BY <1>1, <1>3 DEF SameCodes, n
  <2>4. SessionInv'
    BY <1>1, <1>2, <1>3, <1>6, <1>7, <1>8, <2>1, <2>2, <2>3, InvAfter
  <2>5. LifeStep
    BY <1>1, <2>1, <2>3 DEF LifeStep
  <2>6. QED BY <2>4, <2>5
<1>12. CASE ~(more /\ ok)
  <2> DEFINE b == Quit(a, "tr", "quit")
  <2>1. app' = b /\ pending' = pending \ {q}
    BY <1>4, <1>5, <1>12
  <2>2. Len(a.stack) = n /\ "tr" \in Loops
    BY <1>3 DEF n, Loops
  <2>3. /\ b \in AppType /\ SameCodes(a, b) /\ b.got = a.got
        /\ StackOK(b, Len(b.stack)) /\ Len(b.stack) = n
        /\ \A d \in 1..n :
             /\ b.stack[d].wait = a.stack[d].wait /\ b.stack[d].proc = a.stack[d].proc
             /\ d = a.loop["tr"] => b.stack[d].st = "quit"
             /\ d # a.loop["tr"] => b.stack[d].st = a.stack[d].st
    BY <1>3, <1>6, <2>2, QuitOK
  <2> HIDE DEF b
  <2>4. CodesOK(b, n)
    BY <1>7, <2>3, CodesKept
  <2>5. env'.torn \/ AnswersOK(b, pending \ {q}, n)
    <3> SUFFICES ASSUME ~env'.torn PROVE AnswersOK(b, pending \ {q}, n)
      OBVIOUS
    <3>1. AnswersOK(app, pending, n) /\ ~more
      BY <1>1, <1>2, <1>12
    <3>2. PICK d \in 1..n : app.stack[d].wait = q /\ app.stack[d].st = "wait"
      BY <1>1, <3>1 DEF AnswersOK
    <3>3. app.loop.tr = d
      <4>1. WaitOK(app, d)
        BY <1>1 DEF StackOK
      <4>2. q \in Talk /\ Kind(q) = "tr"
        BY DEF Talk, Kind, Query
      <4>3. QED BY <3>2, <4>1, <4>2 DEF WaitOK
    <3>4. a.got.whole
      <4>1. app.loop.tr # 0
        BY <1>1, <3>3
      <4>2. QED BY <1>3, <3>1, <3>2, <3>3, <4>1
    <3>5. (pending \ {q}) \cap Query = {}
      <4> SUFFICES ASSUME NEW x \in pending \cap Query PROVE x = q
        OBVIOUS
      <4>1. PICK e \in 1..n : app.stack[e].wait = x /\ app.stack[e].st = "wait"
        BY <3>1 DEF AnswersOK
      <4>2. QED BY <1>10, <3>2, <4>1
    <3>6. QED BY <2>3, <3>4, <3>5 DEF AnswersOK
  <2>6. b.fate = "up" /\ b.booting = app.booting /\ b.recovering = app.recovering
    BY <1>1, <1>3, <2>3 DEF SameCodes
  <2>7. SessionInv'
    BY <1>1, <1>2, <1>8, <2>1, <2>3, <2>4, <2>5, <2>6, InvAfter
  <2>8. LifeStep
    BY <1>1, <2>1, <2>6 DEF LifeStep
  <2>9. QED BY <2>7, <2>8
<1>13. QED BY <1>11, <1>12

\* The process ends.
LEMMA EndStep ==
  ASSUME SessionInv, app.fate = "up", NEW how \in {"done", "killed"},
         app' = Ended(how), pending' = {}, EnvOK', enabled' = enabled
  PROVE  SessionInv' /\ LifeStep
<1> DEFINE b == Ended(how)
<1>1. NewApp \in AppType
  BY SessionAssumption, EmptySeq
     DEF NewApp, AppType, NoLoops, NoRows, Loops
<1>2. b \in AppType /\ b.fate = how /\ b.stack = <<>> /\ b.loop = NoLoops /\ ~b.recovering
      /\ b.booting
  BY <1>1 DEF Ended, AppType, NewApp
<1> HIDE DEF b
<1>3. ProcsOK(b) /\ Len(b.stack) = 0
  BY <1>2 DEF ProcsOK
<1>4. \A k \in Loops : b.loop[k] \in 0..0 /\ LoopOK(b, k)
  BY <1>2 DEF NoLoops, LoopOK, Loops
<1>5. AnswersOK(b, {}, 0) /\ StackOK(b, 0)
  BY <1>3, <1>4 DEF AnswersOK, StackOK
<1>6. app' = b
  BY DEF b
<1>7. SessionInv'
  BY <1>2, <1>3, <1>5, <1>6, InvAfter, SessionAssumption
<1>8. LifeStep
  BY <1>2, <1>6 DEF LifeStep
<1>9. QED BY <1>7, <1>8

LEMMA StepAutoShutdown == SessionInv /\ AutoShutdown => SessionInv' /\ LifeStep
<1> SUFFICES ASSUME SessionInv, AutoShutdown PROVE SessionInv' /\ LifeStep
  OBVIOUS
<1>1. /\ app.fate = "up" /\ EnvOK /\ UNCHANGED <<enabled, clock, dog, env>>
      /\ app' = Ended("done") /\ pending' = {}
  BY DEF AutoShutdown, Dispatching, SessionInv
<1>2. EnvOK'
  BY <1>1, SameEnv DEF EnvOK
<1>3. QED BY <1>1, <1>2, EndStep

LEMMA StepWatchdog == SessionInv /\ Watchdog => SessionInv' /\ LifeStep
<1> SUFFICES ASSUME SessionInv, Watchdog PROVE SessionInv' /\ LifeStep
  OBVIOUS
<1>1. app.fate = "up" /\ EnvOK /\ UNCHANGED <<enabled, clock, env>>
  BY DEF Watchdog, SessionInv
<1>2. \/ dog' = "grace" /\ UNCHANGED <<app, pending>>
      \/ dog' = "off" /\ app' = Ended("killed") /\ pending' = {}
  BY DEF Watchdog
<1>3. EnvOK' /\ env'.torn = env.torn
  BY <1>1, <1>2, SameEnv
<1>4. CASE dog' = "grace" /\ UNCHANGED <<app, pending>>
  BY <1>1, <1>3, <1>4, Before, MemoryStep
<1>5. CASE dog' = "off" /\ app' = Ended("killed") /\ pending' = {}
  BY <1>1, <1>3, <1>5, EndStep
<1>6. QED BY <1>2, <1>4, <1>5

\* A handler that is called only changes the memory: no loop, no wait.
LEMMA CalledLeaves ==
  ASSUME SessionInv, app.fate = "up", NEW r \in SUBSET Asked, NEW f \in FileType,
         NEW b \in AppType, SameHandlers(app, b), SameCodes(app, b)
  PROVE  LET w == World(r, f)
         IN  /\ w \in WorldType /\ w.a = app /\ w.p = pending /\ w.r = r
             /\ Leaves(w, [w EXCEPT !.a = b])
<1> DEFINE w == World(r, f)
           v == [w EXCEPT !.a = b]
<1>1. /\ app \in AppType /\ pending \subseteq Asked
      /\ HandlersOK(app, pending, Len(app.stack)) /\ CodesOK(app, Len(app.stack))
  BY Before
<1>2. w \in WorldType /\ w.a = app /\ w.p = pending /\ w.r = r
  BY <1>1 DEF World, WorldType
<1> HIDE DEF w
<1>3. v \in WorldType /\ v.a = b /\ v.p = pending
  BY <1>2 DEF WorldType
<1> HIDE DEF v
<1>4. HandlersOK(b, pending, Len(b.stack))
  BY <1>1, MemoryKeeps DEF SameHandlers
<1>5. CodesOK(b, Len(b.stack))
  BY <1>1, CodesKept DEF SameHandlers
<1>6. Leaves(w, v)
  BY <1>2, <1>3, <1>4, <1>5 DEF Leaves, SameHandlers
<1>7. QED BY <1>2, <1>6 DEF w, v

\* A step that ends with what a handler leaves behind, when it began with the memory.
LEMMA LifeKept ==
  ASSUME app.fate = "up", NEW w, w.a = app, NEW v, Leaves(w, v),
         app'.fate = v.a.fate, app'.booting = v.a.booting,
         app'.recovering = v.a.recovering
  PROVE  LifeStep
<1>1. app'.fate \in {"up", "done", "killed", "crashed"}
  BY DEF Leaves, WorldType, AppType
<1>2. QED BY <1>1 DEF LifeStep, Leaves

\* A recovery begins.
RecoveringApp(n) ==
  [app EXCEPT !.recovering = TRUE, !.registered = {}, !.stale = n,
              !.stack = Append(@, [proc |-> "recover", wait |-> "login", st |-> "wait"])]

LEMMA RecoveryLeaves ==
  ASSUME SessionInv, app.fate = "up", ~app.booting, ~app.recovering,
         NEW n \in 0..MaxRecoveries
  PROVE  LET u == [World({}, Unread) EXCEPT !.a = RecoveringApp(n)]
             v == Ask(u, "login")
         IN  /\ Leaves(u, v) /\ v.a.fate = "up" /\ v.a.recovering
             /\ \E d \in DOMAIN v.a.stack :
                  v.a.stack[d] = [proc |-> "recover", wait |-> "login", st |-> "wait"]
<1> DEFINE h == [proc |-> "recover", wait |-> "login", st |-> "wait"]
           w == World({}, Unread)
           b == RecoveringApp(n)
           u == [w EXCEPT !.a = b]
           v == Ask(u, "login")
           m == Len(app.stack)
<1>1. /\ app \in AppType /\ app.stack \in Seq(Frame) /\ m \in Nat /\ m > 0
      /\ pending \subseteq Asked /\ HandlersOK(app, pending, m)
  BY Before
<1>2. w \in WorldType /\ w.a = app /\ w.p = pending
  BY <1>1 DEF World, WorldType, FileType, Unread
<1>3. h \in Frame /\ h.proc = "recover"
  BY DEF Frame
<1>4. /\ b \in AppType /\ b.stack = Append(app.stack, h) /\ b.loop = app.loop
      /\ b.got = app.got /\ b.booting = app.booting /\ b.fate = "up"
      /\ b.recovering = TRUE
  <2> HIDE DEF h
  <2>1. Append(app.stack, h) \in Seq(Frame)
    BY <1>1, <1>3
  <2>2. b = [app EXCEPT !.recovering = TRUE, !.registered = {}, !.stale = n,
                        !.stack = Append(app.stack, h)]
    BY <1>1 DEF RecoveringApp, AppType, h
  <2> HIDE DEF b
  <2>3. QED BY <1>1, <2>1, <2>2 DEF AppType
<1> HIDE DEF b, h, w
<1>5. app.stack # <<>>
  BY <1>1, EmptySeq
<1>6. HandlersOK(b, pending, m)
  BY <1>1, <1>3, <1>4, <1>5, PushHand
<1>7. Len(b.stack) = m + 1 /\ b.stack[m + 1] = h
  BY <1>1, <1>3, <1>4
<1>8. u \in WorldType /\ u.a = b /\ u.p = pending
  BY <1>2, <1>4 DEF WorldType
<1> HIDE DEF u
<1>9. Hand(u) /\ Owner(u) = "recover"
  BY <1>1, <1>3, <1>4, <1>6, <1>7, <1>8 DEF Hand, Owner
<1>10. "login" \in Asked /\ "login" \notin Search
  BY DEF Asked, Search
<1>11. Leaves(u, v)
  BY <1>9, <1>10, AskLeaves
<1>12. /\ SameCodes(u.a, v.a) /\ Len(v.a.stack) = Len(u.a.stack)
       /\ v.a.stack[Len(u.a.stack)]
            = [proc |-> u.a.stack[Len(u.a.stack)].proc, wait |-> "login", st |-> "wait"]
  <2>1. Len(u.a.stack) > 0
    BY <1>1, <1>7, <1>8
  <2>2. QED BY <1>8, <1>10, <2>1, AskEffect
<1> HIDE DEF v
<1>13. v.a.fate = "up" /\ v.a.recovering
  BY <1>4, <1>8, <1>12 DEF SameCodes
<1>14. m + 1 \in DOMAIN v.a.stack
  BY <1>1, <1>7, <1>8, <1>11, <1>12 DEF Leaves, WorldType, AppType
<1>15. v.a.stack[m + 1] = [proc |-> "recover", wait |-> "login", st |-> "wait"]
  BY <1>3, <1>7, <1>8, <1>12
<1>16. QED BY <1>11, <1>13, <1>14, <1>15 DEF u, v, b, w

LEMMA StepOnHeartbeat ==
  ASSUME SessionInv, NEW why, OnHeartbeat(why)
  PROVE  SessionInv' /\ LifeStep
<1>1. /\ app.fate = "up" /\ EnvOK /\ UNCHANGED <<enabled, clock, dog, env>>
      /\ app \in AppType /\ ~app.booting /\ clock \in Session /\ clock # "holiday"
      /\ Apply(Recover(why))
  BY Before DEF OnHeartbeat, Dispatching, CallsRecover, SessionInv, Session
<1>2. EnvOK' /\ env'.torn = env.torn
  BY <1>1, SameEnv DEF EnvOK
<1> DEFINE w == World({}, Unread)
<1>3. {} \in SUBSET Asked /\ Unread \in FileType
  BY DEF Unread, FileType
<1>4. ASSUME NEW b \in AppType, SameHandlers(app, b), SameCodes(app, b),
             Apply([w EXCEPT !.a = b])
      PROVE  SessionInv' /\ LifeStep
  <2> DEFINE v == [w EXCEPT !.a = b]
  <2>1. Leaves(w, v) /\ w.a = app
    BY <1>1, <1>3, <1>4, CalledLeaves
  <2>2. Apply(v)
    BY <1>4
  <2> HIDE DEF v, w
  <2>3. /\ SessionInv' /\ app'.fate = v.a.fate /\ app'.booting = v.a.booting
        /\ app'.recovering = v.a.recovering
    BY <1>1, <1>2, <2>1, <2>2, ApplyStep
  <2>4. QED BY <1>1, <2>1, <2>3, LifeKept
<1>5. CASE app.recovering
  <2>1. Recover(why) = w
    BY <1>5 DEF Recover
  <2>2. w = [w EXCEPT !.a = app]
    BY DEF World
  <2>3. SameHandlers(app, app) /\ SameCodes(app, app)
    BY DEF SameHandlers, SameCodes
  <2> HIDE DEF w
  <2>4. QED BY <1>1, <1>4, <2>1, <2>2, <2>3
<1>6. CASE Recover(why) = [w EXCEPT !.a.blocked = TRUE]
  <2> DEFINE b == [app EXCEPT !.blocked = TRUE]
  <2>1. [w EXCEPT !.a.blocked = TRUE] = [w EXCEPT !.a = b]
    BY DEF World
  <2>2. b \in AppType /\ SameHandlers(app, b) /\ SameCodes(app, b)
    BY <1>1 DEF AppType, SameHandlers, SameCodes
  <2> HIDE DEF b, w
  <2>3. QED BY <1>1, <1>4, <1>6, <2>1, <2>2
<1>7. CASE ~app.recovering /\ Recover(why) # [w EXCEPT !.a.blocked = TRUE]
  <2> DEFINE k == app.stale + IF why = "stale" THEN 1 ELSE 0
             u == [w EXCEPT !.a = RecoveringApp(k)]
             v == Ask(u, "login")
  <2>1. k \in 0..MaxRecoveries
    <3>1. ~(clock = "session" /\ why = "stale" /\ app.stale >= MaxRecoveries)
          /\ clock # "late"
      BY <1>1, <1>7 DEF Recover, Session
    <3>2. why = "stale" => app.stale < MaxRecoveries
      BY <1>1, <3>1, SessionAssumption DEF Session, AppType
    <3>3. QED BY <1>1, <3>2, SessionAssumption DEF AppType
  <2>2. Recover(why) = v
    <3>1. Recover(why)
            = Push([w EXCEPT !.a.recovering = TRUE, !.a.registered = {},
                             !.a.stale = @ + IF why = "stale" THEN 1 ELSE 0],
                   "recover", "login")
      BY <1>7 DEF Recover
    <3>2. [[w EXCEPT !.a.recovering = TRUE, !.a.registered = {},
                     !.a.stale = @ + IF why = "stale" THEN 1 ELSE 0]
             EXCEPT !.a.stack = Append(@, [proc |-> "recover", wait |-> "login",
                                           st |-> "wait"])] = u
      BY <1>1 DEF World, RecoveringApp, AppType
    <3>3. QED BY <3>1, <3>2 DEF Push
  <2> HIDE DEF k
  <2>3. /\ Leaves(u, v) /\ v.a.fate = "up" /\ v.a.recovering
        /\ \E d \in DOMAIN v.a.stack :
             v.a.stack[d] = [proc |-> "recover", wait |-> "login", st |-> "wait"]
    BY <1>1, <1>7, <2>1, RecoveryLeaves
  <2> HIDE DEF u, v
  <2>4. /\ SessionInv' /\ app'.fate = v.a.fate /\ app'.stack = v.a.stack
        /\ app'.recovering = v.a.recovering
    BY <1>1, <1>2, <2>2, <2>3, ApplyStep
  <2>5. Talking'
    BY <2>3, <2>4 DEF Talking
  <2>6. QED BY <1>1, <1>7, <2>3, <2>4, <2>5 DEF LifeStep
<1>8. QED BY <1>5, <1>6, <1>7

\* A condition search begins.
SearchingApp ==
  [app EXCEPT !.stack = Append(@, [proc |-> "search", wait |-> "load", st |-> "wait"])]

LEMMA SearchPushed ==
  ASSUME SessionInv, app.fate = "up", ~app.booting
  PROVE  LET u == [World({}, Unread) EXCEPT !.a = SearchingApp]
         IN  /\ Leaves(u, Ask(u, "load"))
             /\ \A v : Leaves(u, v) => Leaves(World({}, Unread), v)
             /\ World({}, Unread).a = app
<1> DEFINE h == [proc |-> "search", wait |-> "load", st |-> "wait"]
           w == World({}, Unread)
           b == SearchingApp
           u == [w EXCEPT !.a = b]
           m == Len(app.stack)
<1>1. /\ app \in AppType /\ app.stack \in Seq(Frame) /\ m \in Nat /\ m > 0
      /\ pending \subseteq Asked /\ HandlersOK(app, pending, m) /\ CodesOK(app, m)
  BY Before
<1>2. w \in WorldType /\ w.a = app /\ w.p = pending
  BY <1>1 DEF World, WorldType, FileType, Unread
<1>3. h \in Frame /\ h.proc = "search"
  BY DEF Frame, Search
<1>4. /\ b \in AppType /\ b.stack = Append(app.stack, h) /\ b.loop = app.loop
      /\ b.got = app.got /\ b.booting = app.booting /\ b.fate = "up"
      /\ b.recovering = app.recovering /\ SameCodes(app, b)
  <2> HIDE DEF h
  <2>1. Append(app.stack, h) \in Seq(Frame)
    BY <1>1, <1>3
  <2>2. b = [app EXCEPT !.stack = Append(app.stack, h)]
    BY <1>1 DEF SearchingApp, AppType, h
  <2> HIDE DEF b
  <2>3. QED BY <1>1, <2>1, <2>2 DEF AppType, SameCodes
<1> HIDE DEF b, h, w
<1>5. app.stack # <<>>
  BY <1>1, EmptySeq
<1>6. HandlersOK(b, pending, m)
  BY <1>1, <1>3, <1>4, <1>5, PushHand
<1>7. Len(b.stack) = m + 1 /\ b.stack[m + 1] = h
      /\ \A d \in 1..m : b.stack[d] = app.stack[d]
  BY <1>1, <1>3, <1>4
<1>8. u \in WorldType /\ u.a = b /\ u.p = pending
  BY <1>2, <1>4 DEF WorldType
<1> HIDE DEF u
<1>9. Hand(u) /\ Owner(u) = "search"
  BY <1>1, <1>3, <1>4, <1>6, <1>7, <1>8 DEF Hand, Owner
<1>10. "load" \in Asked /\ "load" \in Search
  BY DEF Asked, Search
<1>11. CodesOK(b, m)
  BY <1>1, <1>4, <1>7, CodesKept
<1>12. Leaves(u, Ask(u, "load"))
  <2>1. Len(u.a.stack) - 1 = m
    BY <1>1, <1>7, <1>8
  <2>2. QED BY <1>8, <1>9, <1>10, <1>11, <2>1, AskLeaves
<1>13. \A v : Leaves(u, v) => Leaves(w, v)
  BY <1>2, <1>4, <1>8 DEF Leaves
<1>14. QED BY <1>2, <1>12, <1>13 DEF u, b, w

LEMMA StepMaybeSearch ==
  ASSUME SessionInv, NEW r, MaybeStartConditionSearch(r)
  PROVE  SessionInv' /\ LifeStep
<1>1. /\ app.fate = "up" /\ EnvOK /\ UNCHANGED <<enabled, clock, dog>>
      /\ app \in AppType /\ ~app.booting /\ clock # "holiday" /\ r \subseteq {"load"}
      /\ Fault(Cardinality(r)) /\ env' = [env EXCEPT !.faults = @ + Cardinality(r)]
  BY Before DEF MaybeStartConditionSearch, Dispatching, SessionInv
<1>2. EnvOK' /\ env'.torn = env.torn
  <2>1. Cardinality(r) \in Nat
    BY <1>1, FS_Singleton, FS_Subset, FS_CardinalityType
  <2>2. dog' \in {"off", "armed", "grace"}
    BY <1>1 DEF EnvOK
  <2>3. QED BY <1>1, <2>1, <2>2, FaultsAfter
<1>3. r \in SUBSET Asked /\ Unread \in FileType
  BY <1>1 DEF Unread, FileType, Asked, Search
<1> DEFINE w == World(r, Unread)
<1>4. Apply(IF ~enabled THEN [w EXCEPT !.a.started = TRUE]
            ELSE IF r # {} THEN [w EXCEPT !.a.loaded = FALSE]
            ELSE Push(w, "search", "load"))
  BY DEF MaybeStartConditionSearch
<1>5. ASSUME NEW b \in AppType, SameHandlers(app, b), SameCodes(app, b),
             Apply([w EXCEPT !.a = b])
      PROVE  SessionInv' /\ LifeStep
  <2> DEFINE v == [w EXCEPT !.a = b]
  <2>1. Leaves(w, v) /\ w.a = app
    BY <1>1, <1>3, <1>5, CalledLeaves
  <2>2. Apply(v)
    BY <1>5
  <2> HIDE DEF v, w
  <2>3. /\ SessionInv' /\ app'.fate = v.a.fate /\ app'.booting = v.a.booting
        /\ app'.recovering = v.a.recovering
    BY <1>1, <1>2, <2>1, <2>2, ApplyStep
  <2>4. QED BY <1>1, <2>1, <2>3, LifeKept
<1>6. CASE ~enabled
  <2> DEFINE b == [app EXCEPT !.started = TRUE]
  <2>1. [w EXCEPT !.a.started = TRUE] = [w EXCEPT !.a = b]
    BY DEF World
  <2>2. b \in AppType /\ SameHandlers(app, b) /\ SameCodes(app, b)
    BY <1>1 DEF AppType, SameHandlers, SameCodes
  <2> HIDE DEF b, w
  <2>3. QED BY <1>4, <1>5, <1>6, <2>1, <2>2
<1>7. CASE enabled /\ r # {}
  <2> DEFINE b == [app EXCEPT !.loaded = FALSE]
  <2>1. [w EXCEPT !.a.loaded = FALSE] = [w EXCEPT !.a = b]
    BY DEF World
  <2>2. b \in AppType /\ SameHandlers(app, b) /\ SameCodes(app, b)
    BY <1>1 DEF AppType, SameHandlers, SameCodes
  <2> HIDE DEF b, w
  <2>3. QED BY <1>4, <1>5, <1>7, <2>1, <2>2
<1>8. CASE enabled /\ r = {}
  <2> DEFINE u == [w EXCEPT !.a = SearchingApp]
             v == Ask(u, "load")
  <2>1. Apply(Push(w, "search", "load"))
    BY <1>4, <1>8
  <2>2. Push(w, "search", "load") = v
    <3>1. [w EXCEPT !.a.stack = Append(@, [proc |-> "search", wait |-> "load",
                                           st |-> "wait"])] = u
      BY <1>1 DEF World, SearchingApp, AppType
    <3>2. QED BY <3>1 DEF Push
  <2>3. Leaves(w, v) /\ w.a = app
    BY <1>1, <1>8, SearchPushed
  <2> HIDE DEF u, v, w
  <2>4. /\ SessionInv' /\ app'.fate = v.a.fate /\ app'.booting = v.a.booting
        /\ app'.recovering = v.a.recovering
    BY <1>1, <1>2, <2>1, <2>2, <2>3, ApplyStep
  <2>5. QED BY <1>1, <2>3, <2>4, LifeKept
<1>9. QED BY <1>6, <1>7, <1>8, <1>1 DEF SessionInv, EnvOK

LEMMA StepRealtime ==
  ASSUME SessionInv, NEW s \in Code, NEW event \in {"I", "D"}, OnConditionRealtime(s, event)
  PROVE  SessionInv' /\ LifeStep
<1>1. /\ app.fate = "up" /\ EnvOK /\ UNCHANGED <<enabled, pending, clock, dog, env>>
      /\ app \in AppType /\ CodesOK(app, Len(app.stack))
      /\ app' = ConditionChanged(app, s, event)
  BY Before DEF OnConditionRealtime, Dispatching, SessionInv
<1>2. EnvOK' /\ env'.torn = env.torn
  BY <1>1, SameEnv DEF EnvOK
<1>3. ASSUME NEW b \in AppType, SameHandlers(app, b), app' = b, CodesOK(b, Len(b.stack))
      PROVE  SessionInv' /\ LifeStep
  BY <1>1, <1>2, <1>3, MemoryStep DEF SameHandlers
<1>4. ASSUME NEW b \in AppType, SameHandlers(app, b), app' = RefreshRealRegistration(b)
      PROVE  SessionInv' /\ LifeStep
  <2> DEFINE c == RefreshRealRegistration(b)
  <2>1. c \in AppType /\ SameHandlers(b, c) /\ WatchCodes(c) \subseteq c.registered
    BY RefreshOK
  <2> HIDE DEF c
  <2>2. CodesOK(c, Len(c.stack)) /\ SameHandlers(app, c) /\ app' = c
    BY <1>4, <2>1 DEF CodesOK, SameHandlers, c
  <2>3. QED BY <1>3, <2>1, <2>2
<1> DEFINE i == AddCondition(app, s)
           o == RemoveCondition(app, s)
<1>5. i \in AppType /\ SameHandlers(app, i)
  BY <1>1 DEF AddCondition, AppType, SameHandlers
<1>6. /\ o \in AppType /\ SameHandlers(app, o) /\ o.registered = app.registered
      /\ o.snapshot = app.snapshot /\ o.owned = app.owned
      /\ o.condition = app.condition \ {s}
  BY <1>1 DEF RemoveCondition, AppType, SameHandlers
<1> HIDE DEF i, o
<1>7. CodesOK(o, Len(o.stack))
  <2>1. WatchCodes(o) \subseteq WatchCodes(app)
    BY <1>6 DEF WatchCodes, Universe
  <2>2. QED BY <1>1, <1>6, <2>1, CodesNarrow DEF SameHandlers
<1>8. \/ app' = app
      \/ app' = RefreshRealRegistration(i)
      \/ app' = o
      \/ app' = RefreshRealRegistration(o)
  BY <1>1 DEF ConditionChanged, i, o
<1>9. SameHandlers(app, app)
  BY DEF SameHandlers
<1>10. QED BY <1>1, <1>3, <1>4, <1>5, <1>6, <1>7, <1>8, <1>9

LEMMA StepOnTick ==
  ASSUME SessionInv, NEW s \in Code, OnTick(s)
  PROVE  SessionInv' /\ LifeStep
<1>1. /\ app.fate = "up" /\ EnvOK /\ UNCHANGED <<enabled, pending, clock, dog, env>>
      /\ app \in AppType /\ CodesOK(app, Len(app.stack)) /\ s \in app.registered
  BY Before DEF OnTick, Dispatching, SessionInv
<1>2. EnvOK' /\ env'.torn = env.torn
  BY <1>1, SameEnv DEF EnvOK
<1> DEFINE b == [app EXCEPT !.owned = @ \cup {s}]
<1>3. app' = b
  BY DEF OnTick
<1>4. /\ b \in AppType /\ SameHandlers(app, b) /\ b.registered = app.registered
      /\ b.snapshot = app.snapshot /\ b.condition = app.condition
      /\ b.owned = app.owned \cup {s}
  BY <1>1 DEF AppType, SameHandlers
<1> HIDE DEF b
<1>5. WatchCodes(b) \subseteq WatchCodes(app) \cup app.registered
  BY <1>1, <1>4 DEF WatchCodes, Universe
<1>6. CodesOK(b, Len(b.stack))
  BY <1>1, <1>4, <1>5, CodesNarrow DEF SameHandlers
<1>7. QED BY <1>1, <1>2, <1>3, <1>4, <1>6, MemoryStep DEF SameHandlers

LEMMA StepOnFill ==
  ASSUME SessionInv, NEW s \in Code, OnFill(s)
  PROVE  SessionInv' /\ LifeStep
<1>1. /\ app.fate = "up" /\ EnvOK /\ UNCHANGED <<enabled, pending, clock, dog, env>>
      /\ app \in AppType /\ CodesOK(app, Len(app.stack))
  BY Before DEF OnFill, Dispatching, SessionInv
<1>2. EnvOK' /\ env'.torn = env.torn
  BY <1>1, SameEnv DEF EnvOK
<1> DEFINE b == [app EXCEPT !.owned = @ \ {s}]
<1>3. app' = b
  BY DEF OnFill
<1>4. /\ b \in AppType /\ SameHandlers(app, b) /\ b.registered = app.registered
      /\ b.snapshot = app.snapshot /\ b.condition = app.condition
      /\ b.owned = app.owned \ {s}
  BY <1>1 DEF AppType, SameHandlers
<1> HIDE DEF b
<1>5. WatchCodes(b) \subseteq WatchCodes(app) \cup app.registered
  BY <1>4 DEF WatchCodes, Universe
<1>6. CodesOK(b, Len(b.stack))
  BY <1>1, <1>4, <1>5, CodesNarrow DEF SameHandlers
<1>7. QED BY <1>1, <1>2, <1>3, <1>4, <1>6, MemoryStep DEF SameHandlers

LEMMA StepUnblock == SessionInv /\ Unblock => SessionInv' /\ LifeStep
<1> SUFFICES ASSUME SessionInv, Unblock PROVE SessionInv' /\ LifeStep
  OBVIOUS
<1>1. /\ app.fate = "up" /\ EnvOK /\ UNCHANGED <<enabled, pending, clock, dog, env>>
      /\ app \in AppType /\ CodesOK(app, Len(app.stack))
  BY Before DEF Unblock, SessionInv
<1>2. EnvOK' /\ env'.torn = env.torn
  BY <1>1, SameEnv DEF EnvOK
<1> DEFINE b == [app EXCEPT !.blocked = FALSE]
<1>3. app' = b
  BY DEF Unblock
<1>4. b \in AppType /\ SameHandlers(app, b) /\ SameCodes(app, b)
  BY <1>1 DEF AppType, SameHandlers, SameCodes
<1> HIDE DEF b
<1>5. CodesOK(b, Len(b.stack))
  BY <1>1, <1>4, CodesKept DEF SameHandlers
<1>6. QED BY <1>1, <1>2, <1>3, <1>4, <1>5, MemoryStep DEF SameHandlers

LEMMA StepHang == SessionInv /\ Hang => SessionInv' /\ LifeStep
<1> SUFFICES ASSUME SessionInv, Hang PROVE SessionInv' /\ LifeStep
  OBVIOUS
<1>1. /\ app.fate = "up" /\ EnvOK /\ UNCHANGED <<enabled, app, pending, clock, dog>>
      /\ app \in AppType /\ CodesOK(app, Len(app.stack)) /\ Fault(1)
      /\ env' = [env EXCEPT !.stuck = TRUE, !.faults = @ + 1]
  BY Before DEF Hang, Dispatching, SessionInv
<1>2. EnvOK' /\ env'.torn = env.torn
  <2>1. env.torn \in BOOLEAN
        /\ env' = [env EXCEPT !.faults = @ + 1, !.stuck = TRUE, !.torn = env.torn]
    BY <1>1 DEF EnvOK
  <2>2. dog' \in {"off", "armed", "grace"}
    BY <1>1 DEF EnvOK
  <2>3. QED BY <1>1, <2>1, <2>2, EnvAfter
<1>3. QED BY <1>1, <1>2, MemoryStep

LEMMA StepAdvance == SessionInv /\ Advance => SessionInv' /\ LifeStep
<1> SUFFICES ASSUME SessionInv, Advance PROVE SessionInv' /\ LifeStep
  OBVIOUS
<1>1. UNCHANGED <<enabled, app, pending, dog, env>>
  BY DEF Advance
<1>2. clock' \in {"wait", "session", "late", "after"}
  <2>1. PICK i \in DOMAIN Phases : Phases[i] = clock /\ clock' = Phases[i + 1]
    BY DEF Advance
  <2>2. clock \in ToSet(Front(Phases))
    BY DEF Advance
  <2>3. Phases \in Seq({"wait", "session", "late", "after"}) /\ Len(Phases) = 4
    BY DEF Phases
  <2>4. /\ Front(Phases) \in Seq({"wait", "session", "late", "after"})
        /\ Len(Front(Phases)) = 3 /\ \A j \in 1..3 : Front(Phases)[j] = Phases[j]
    BY <2>3 DEF Front
  <2>5. \E j \in 1..3 : clock = Phases[j]
    BY <2>2, <2>4 DEF ToSet
  <2>6. DOMAIN Phases = 1..4 /\ Phases[1] = "wait" /\ Phases[2] = "session"
        /\ Phases[3] = "late" /\ Phases[4] = "after"
    BY DEF Phases
  <2>7. i \in {1, 2, 3, 4}
    BY <2>1, <2>6
  <2>8. i \in {1, 2, 3}
    <3>1. clock # "after"
      BY <2>5, <2>6
    <3>2. QED BY <2>1, <2>6, <2>7, <3>1
  <2>9. QED BY <2>1, <2>6, <2>8
<1>3. SessionInv'
  BY <1>1, <1>2, PhaseSet
     DEF SessionInv, EnvOK, HandlersOK, CodesOK, WatchCodes, Universe
<1>4. QED BY <1>1, <1>3 DEF LifeStep
-----------------------------------------------------------------------------
(* The invariant. *)

LEMMA SessionInit == Init => SessionInv
<1> SUFFICES ASSUME Init PROVE SessionInv
  OBVIOUS
<1>1. app = NewApp /\ pending = {} /\ app.fate = "down" /\ app.stack = <<>>
  BY DEF Init, NewApp
<1>2. EnvOK
  <2>1. MaxFaults[enabled] \in Nat
    BY SessionAssumption DEF Init
  <2>2. QED BY <2>1 DEF Init, EnvOK
<1>3. app \in AppType /\ Len(app.stack) = 0 /\ 0 <= MaxDepth
  BY <1>1, SessionAssumption DEF NewApp, AppType, NoLoops, NoRows, Loops
<1>4. ProcsOK(app)
  BY <1>1 DEF ProcsOK, NewApp
<1>5. \A k \in Loops : app.loop[k] = 0
  BY <1>1 DEF NewApp, NoLoops, Loops
<1>6. StackOK(app, 0)
  BY <1>4, <1>5 DEF StackOK, LoopOK
<1>7. AnswersOK(app, pending, 0)
  BY <1>1 DEF AnswersOK
<1>8. QED BY <1>1, <1>2, <1>3, <1>6, <1>7 DEF SessionInv, HandlersOK

LEMMA SessionStep == SessionInv /\ [Next]_vars => SessionInv' /\ LifeStep
<1> SUFFICES ASSUME SessionInv, [Next]_vars PROVE SessionInv' /\ LifeStep
  OBVIOUS
<1>1. CASE Boot
  BY <1>1, StepBoot
<1>2. CASE Handler
  <2>1. CASE Return
    BY <2>1, StepReturn
  <2>2. CASE AutoShutdown
    BY <2>2, StepAutoShutdown
  <2>3. ASSUME NEW why \in {"inactive", "disconnected", "stale"}, OnHeartbeat(why)
        PROVE  SessionInv' /\ LifeStep
    BY <2>3, StepOnHeartbeat
  <2>4. ASSUME NEW r \in SUBSET {"load"}, MaybeStartConditionSearch(r)
        PROVE  SessionInv' /\ LifeStep
    BY <2>4, StepMaybeSearch
  <2>5. QED BY <1>2, <2>1, <2>2, <2>3, <2>4 DEF Handler
<1>3. CASE Answer
  <2>1. ASSUME NEW ok \in BOOLEAN, OnEventConnect(ok)
        PROVE  SessionInv' /\ LifeStep
    BY <2>1, StepOnEventConnect
  <2>2. ASSUME NEW ok \in BOOLEAN, OnReceiveConditionVer(ok)
        PROVE  SessionInv' /\ LifeStep
    BY <2>2, StepConditionVer
  <2>3. ASSUME NEW q \in Query, NEW rows \in SUBSET Code, NEW more \in BOOLEAN,
               NEW ok \in BOOLEAN, OnReceiveTrData(q, rows, more, ok)
        PROVE  SessionInv' /\ LifeStep
    BY <2>3, StepTrData
  <2>4. ASSUME NEW codes \in SUBSET Code, OnReceiveTrCondition(codes)
        PROVE  SessionInv' /\ LifeStep
    BY <2>4, StepTrCondition
  <2>5. QED BY <1>3, <2>1, <2>2, <2>3, <2>4 DEF Answer
<1>4. CASE ConnectionLost
  BY <1>4, StepConnectionLost
<1>5. ASSUME NEW s \in Code, NEW event \in {"I", "D"}, OnConditionRealtime(s, event)
      PROVE  SessionInv' /\ LifeStep
  BY <1>5, StepRealtime
<1>6. ASSUME NEW d \in DOMAIN app.stack, Timeout(d)
      PROVE  SessionInv' /\ LifeStep
  BY <1>6, StepTimeout
<1>7. ASSUME NEW s \in Code, OnTick(s)
      PROVE  SessionInv' /\ LifeStep
  BY <1>7, StepOnTick
<1>8. ASSUME NEW s \in Code, OnFill(s)
      PROVE  SessionInv' /\ LifeStep
  BY <1>8, StepOnFill
<1>9. CASE Watchdog
  BY <1>9, StepWatchdog
<1>10. CASE Advance
  BY <1>10, StepAdvance
<1>11. CASE Unblock
  BY <1>11, StepUnblock
<1>12. CASE Hang
  BY <1>12, StepHang
<1>13. CASE UNCHANGED vars
  <2>1. UNCHANGED <<enabled, app, pending, clock, dog, env>>
    BY <1>13 DEF vars
  <2>2. SessionInv'
    BY <2>1 DEF SessionInv, EnvOK, HandlersOK, CodesOK, WatchCodes, Universe
  <2>3. QED BY <2>1, <2>2 DEF LifeStep
<1>14. QED
  BY <1>1, <1>2, <1>3, <1>4, <1>5, <1>6, <1>7, <1>8, <1>9, <1>10, <1>11, <1>12, <1>13
  DEF Next

\* The memory of the process and the variables around it have their shapes, and the
\* stack, the recoveries and the faults stay in their bounds.
THEOREM SessionTypeCorrect == Spec => []SessionTypeOK
<1>1. SessionInv => SessionTypeOK
  <2> SUFFICES ASSUME SessionInv PROVE SessionTypeOK
    OBVIOUS
  <2>1. /\ app \in AppType /\ app.stack \in Seq(Frame) /\ Len(app.stack) <= MaxDepth
        /\ StackOK(app, Len(app.stack))
    BY DEF SessionInv, HandlersOK, AppType
  <2>2. app.loop \in [Loops -> 0..Len(app.stack)]
    BY <2>1 DEF StackOK, AppType
  <2>3. /\ app.stale \in 0..MaxRecoveries /\ app.got.rows \subseteq Code
        /\ UNION {app.snapshot, app.condition, app.owned, app.registered} \subseteq Code
        /\ app.fate \in {"down", "up", "done", "killed", "crashed"}
    BY <2>1 DEF AppType
  <2>4. env.faults \in 0..MaxFaults[enabled]
    BY DEF SessionInv, EnvOK
  <2>5. QED BY <2>1, <2>2, <2>3, <2>4 DEF SessionInv, EnvOK, Loops, Asked, SessionTypeOK
<1>2. QED BY <1>1, SessionInit, SessionStep, PTL DEF Spec

\* _exec_loop_with_timeout: a handler that waits for a login or a query waits in the
\* latest loop of that kind, however deep the handlers nest and in whatever order
\* answers, timers and timeouts come, so that its answer can end it.
THEOREM WaitsStayCurrent == Spec => []WaitsCurrent
<1>1. SessionInv => WaitsCurrent
  <2> SUFFICES ASSUME SessionInv,
                      NEW d \in DOMAIN app.stack, app.stack[d].st = "wait",
                      Kind(app.stack[d].wait) \in {"login", "tr"}, app.stack[d].wait # "app"
               PROVE  app.loop[Kind(app.stack[d].wait)] = d
    BY DEF WaitsCurrent
  <2>1. app.stack \in Seq(Frame) /\ StackOK(app, Len(app.stack))
    BY DEF SessionInv, HandlersOK, AppType
  <2>2. d \in 1..Len(app.stack) /\ app.stack[d] \in Frame
    BY <2>1
  <2>3. app.stack[d].wait \in Talk
    BY <2>2 DEF Frame, Kind, Talk, Query, Search
  <2>4. WaitOK(app, d)
    BY <2>1, <2>2 DEF StackOK
  <2>5. QED BY <2>3, <2>4 DEF WaitOK
<1>2. QED BY <1>1, SessionInit, SessionStep, PTL DEF Spec

\* _recover_broker_session, load_snapshot_and_subscribe: a connected session whose last
\* start or recovery went through is subscribed to every candidate, holding and open
\* order, for any stocks and after any number of recoveries.
THEOREM SubscribedToAll == Spec => []Subscribed
<1>1. SessionInv => Subscribed
  <2> SUFFICES ASSUME SessionInv, app.fate = "up", ~app.booting, ~app.recovering, app.done
               PROVE  WatchCodes(app) \subseteq app.registered
    BY DEF Subscribed
  <2>1. ProcsOK(app) /\ CodesOK(app, Len(app.stack)) /\ DOMAIN app.stack = 1..Len(app.stack)
    BY Before
  <2>2. \A d \in 1..Len(app.stack) : app.stack[d].proc # "recover"
    BY <2>1 DEF ProcsOK
  <2>3. QED BY <2>1, <2>2 DEF CodesOK
<1>2. QED BY <1>1, SessionInit, SessionStep, PTL DEF Spec

\* _handle_opw00018, _handle_opt10075: as long as no wait timed out and no page was
\* refused, a query that ended has all its pages, for any number of rows and pages and
\* whatever other handlers were dispatched in between.
THEOREM WholeAnswers == Spec => []AnswersWhole
<1>1. SessionInv => AnswersWhole
  <2> SUFFICES ASSUME SessionInv, NEW d \in DOMAIN app.stack, app.stack[d].st = "quit",
                      app.stack[d].wait \in Query, ~env.torn
               PROVE  app.got.whole
    BY DEF AnswersWhole
  <2>1. app.stack \in Seq(Frame) /\ AnswersOK(app, pending, Len(app.stack))
    BY DEF SessionInv, HandlersOK, AppType
  <2>2. d \in 1..Len(app.stack)
    BY <2>1
  <2>3. QED BY <2>1, <2>2 DEF AnswersOK
<1>2. QED BY <1>1, SessionInit, SessionStep, PTL DEF Spec
-----------------------------------------------------------------------------
(* The life of a session. *)

\* The flags of the program say what its handlers amount to.
LifeFlags ==
  /\ app.fate \in {"down", "up", "done", "killed", "crashed"}
  /\ app.booting \in BOOLEAN /\ app.recovering \in BOOLEAN
  /\ app.fate = "up" => ~(app.booting /\ app.recovering)
  /\ LifeOf = CASE app.fate = "down" -> "down"
                [] app.fate \notin {"down", "up"} -> "ended"
                [] app.fate = "up" /\ app.recovering -> "recovering"
                [] OTHER -> IF app.booting THEN "starting" ELSE "running"
  /\ Talking \in BOOLEAN
  /\ Talking => app.fate = "up" /\ (app.booting \/ app.recovering)

LEMMA LifeState == SessionInv => LifeFlags
<1> SUFFICES ASSUME SessionInv PROVE LifeFlags
  OBVIOUS
<1>1. /\ app \in AppType /\ app.stack \in Seq(Frame) /\ DOMAIN app.stack = 1..Len(app.stack)
      /\ Len(app.stack) \in Nat /\ ProcsOK(app)
      /\ \A d \in DOMAIN app.stack : app.stack[d] \in Frame /\ WaitOK(app, d)
  BY DEF SessionInv, HandlersOK, StackOK, AppType
<1>2. /\ app.fate \in {"down", "up", "done", "killed", "crashed"}
      /\ app.booting \in BOOLEAN /\ app.recovering \in BOOLEAN
  BY <1>1 DEF AppType
<1>3. ~(app.booting /\ app.recovering)
  <2> SUFFICES ASSUME app.booting, app.recovering PROVE FALSE
    OBVIOUS
  <2>1. PICK d \in DOMAIN app.stack : app.stack[d].proc = "recover"
    BY <1>1 DEF ProcsOK
  <2>2. d = 1
    BY <1>1, <2>1 DEF ProcsOK
  <2>3. QED BY <1>1, <2>1, <2>2 DEF ProcsOK
<1>4. app.recovering <=> \E d \in DOMAIN app.stack : app.stack[d].proc = "recover"
  BY <1>1 DEF ProcsOK
<1>5. Talking => app.fate = "up" /\ (app.booting \/ app.recovering)
  <2> SUFFICES ASSUME Talking PROVE app.fate = "up" /\ (app.booting \/ app.recovering)
    OBVIOUS
  <2>1. app.fate = "up"
    BY DEF Talking
  <2>2. PICK d \in DOMAIN app.stack : app.stack[d].wait \in Talk
    BY DEF Talking, Talk
  <2>3. app.stack[d].proc \in {"boot", "recover", "search"} /\ WaitOK(app, d)
    BY <1>1 DEF Frame
  <2>4. app.stack[d].proc # "search"
    BY <2>2, <2>3 DEF WaitOK, Talk, Query, Search
  <2>5. QED BY <1>4, <2>1, <2>2, <2>3, <2>4 DEF WaitOK
<1>6. Talking \in BOOLEAN
  BY DEF Talking
<1>7. LifeOf = CASE app.fate = "down" -> "down"
                 [] app.fate \notin {"down", "up"} -> "ended"
                 [] app.fate = "up" /\ app.recovering -> "recovering"
                 [] OTHER -> IF app.booting THEN "starting" ELSE "running"
  BY <1>4 DEF LifeOf
<1>8. QED BY <1>2, <1>3, <1>5, <1>6, <1>7 DEF LifeFlags

LEMMA LifeStepped ==
  ASSUME SessionInv, SessionInv', LifeStep
  PROVE  [Life!Next]_(Life!lifeVars)
<1>1. LifeFlags /\ LifeFlags'
  BY LifeState, PTL
<1>2. CASE UNCHANGED app
  BY <1>2 DEF Life!lifeVars, LifeOf, Talking
<1>3. CASE /\ app.fate = "down" /\ app'.fate = "up"
           /\ app'.booting /\ Talking'
  <2>1. LifeOf = "down" /\ LifeOf' = "starting" /\ Talking' = TRUE
    BY <1>1, <1>3 DEF LifeFlags
  <2>2. QED BY <2>1 DEF Life!Next, Life!Start
<1>4. CASE app.fate \in {"down", "up"} /\ app'.fate \in {"done", "killed", "crashed"}
  <2>1. LifeOf # "ended" /\ LifeOf' = "ended" /\ Talking' = FALSE
    BY <1>1, <1>4 DEF LifeFlags
  <2>2. QED BY <2>1 DEF Life!Next, Life!End
<1>5. CASE /\ app.fate = "up" /\ app'.fate = "up"
           /\ app'.booting => app.booting
           /\ app'.recovering => app.recovering
  <2>1. CASE app'.booting \/ app'.recovering
    <3>1. LifeOf \in {"starting", "recovering"} /\ LifeOf' = LifeOf /\ Talking' \in BOOLEAN
      BY <1>1, <1>5, <2>1 DEF LifeFlags
    <3>2. QED BY <3>1 DEF Life!Next, Life!Talk
  <2>2. CASE ~app'.booting /\ ~app'.recovering
    <3>1. LifeOf' = "running" /\ Talking' = FALSE
      BY <1>1, <1>5, <2>2 DEF LifeFlags
    <3>2. CASE app.booting
      <4>1. LifeOf = "starting"
        BY <1>1, <1>5, <3>2 DEF LifeFlags
      <4>2. QED BY <3>1, <4>1 DEF Life!Next, Life!Ready
    <3>3. CASE app.recovering
      <4>1. LifeOf = "recovering"
        BY <1>1, <1>5, <3>3 DEF LifeFlags
      <4>2. QED BY <3>1, <4>1 DEF Life!Next, Life!Recovered
    <3>4. CASE ~app.booting /\ ~app.recovering
      <4>1. LifeOf = "running" /\ Talking = FALSE
        BY <1>1, <1>5, <3>4 DEF LifeFlags
      <4>2. QED BY <3>1, <4>1 DEF Life!lifeVars
    <3>5. QED BY <3>2, <3>3, <3>4
  <2>3. QED BY <2>1, <2>2
<1>6. CASE /\ app.fate = "up" /\ app'.fate = "up"
           /\ ~app.booting /\ ~app.recovering
           /\ app'.recovering /\ Talking'
  <2>1. LifeOf = "running" /\ ~Talking /\ LifeOf' = "recovering" /\ Talking' = TRUE
    BY <1>1, <1>6 DEF LifeFlags
  <2>2. QED BY <2>1 DEF Life!Next, Life!Recover
<1>7. QED BY <1>2, <1>3, <1>4, <1>5, <1>6 DEF LifeStep

\* on_heartbeat, _recover_broker_session: whatever handlers nest, the program starts
\* once, recovers only while it runs and one recovery at a time, and only a start or a
\* recovery waits for a login or a query: every step of the event loop is a step of
\* SessionLife or none.
THEOREM LifeRefined == Spec => LifeImplemented
<1>1. Init => Life!Init
  <2> SUFFICES ASSUME Init PROVE Life!Init
    OBVIOUS
  <2>1. app.fate = "down"
    BY DEF Init, NewApp
  <2>2. LifeOf = "down" /\ Talking = FALSE
    BY <2>1 DEF LifeOf, Talking
  <2>3. QED BY <2>2 DEF Life!Init
<1>2. SessionInv /\ [Next]_vars => SessionInv' /\ [Life!Next]_(Life!lifeVars)
  BY SessionStep, LifeStepped
<1>3. QED BY <1>1, <1>2, SessionInit, PTL DEF Spec, LifeImplemented, Life!Spec
=============================================================================
