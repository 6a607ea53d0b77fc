----------------------------- MODULE AccountRead -----------------------------
(***************************************************************************)
(* The account queries of the operator tools: tools/probe_kiwoom_rest.py   *)
(* and tools/verify_paper_linkage.py over capture_query                    *)
(* (adapters/kiwoom_rest_readonly.py) and its transport.  A tool asks its  *)
(* queries one after the other, page by page, and ends at the first query  *)
(* that is not complete.                                                   *)
(*                                                                         *)
(* A page is its number; the key with which the server continues names the *)
(* page it came with.  Rows, and the reasons why a query ended, are left   *)
(* out.                                                                    *)
(***************************************************************************)
EXTENDS Integers, Sequences

CONSTANT PageLimit    \* --max-pages

ASSUME ReadAssumption == PageLimit \in Nat \ {0}

VARIABLE
  read    \* the tool that reads: how far it is, the queries it still has to ask and the
          \* pages of the present one; history: every query that was complete had
          \* all its pages, each once

ProbeQueries == <<"kt00018", "ka10075", "kt00007", "kt00009", "ka10076">>
LinkageQueries == <<"kt00007", "kt00009", "ka10076", "ka10075">>

NoRead == [st |-> "idle", todo |-> <<>>, pages |-> <<>>, whole |-> TRUE]

ReadInit == read = NoRead

\* A tool starts; without credentials it ends at once.
StartRead(queries) ==
  \E st \in {"fetch", "failed"} : read' = [NoRead EXCEPT !.st = st, !.todo = queries]

ReadEnded == read.st \in {"ok", "failed"}

\* External: the page the server answers with: the first, the one after the key it
\* was sent, or that one once more. A page that was not sent before may be the last.
Served(r) ==
  LET n == IF r.pages = <<>> THEN 0 ELSE r.pages[Len(r.pages)]
  IN  [page : {n} \ {0}, last : {FALSE}] \cup [page : {n + 1}, last : BOOLEAN]

\* Defect: a key that was seen before is followed.
CursorFollowed(r, n) == FALSE

\* The key of page n was seen before.
CursorRepeated(r, n) == \E i \in DOMAIN r.pages : r.pages[i] = n

\* The next query after a complete one; the last one ends the tool.
NextQuery(r) ==
  [r EXCEPT !.st = IF Len(r.todo) = 1 THEN "ok" ELSE "fetch", !.todo = Tail(@), !.pages = <<>>]

\* A valid page has come: it is the last, or it has a key to go on with that is new
\* and may be followed, or the query is not complete.
TakePage(r, s) ==
  LET pages == Append(r.pages, s.page)
  IN  IF s.last
      THEN NextQuery([r EXCEPT !.whole = @ /\ pages = [i \in 1..s.page |-> i]])
      ELSE IF ~CursorRepeated(r, s.page) /\ Len(pages) < PageLimit
           THEN [r EXCEPT !.pages = pages]
           ELSE [r EXCEPT !.st = "failed", !.pages = <<>>]

\* One request of capture_query. No answer, or one that is not a valid page, ends the
\* query, and so the tool.
FetchPage ==
  /\ read.st = "fetch"
  /\ read' \in {[read EXCEPT !.st = "failed", !.pages = <<>>]} \cup {TakePage(read, s) : s \in Served(read)}

EndRead == read' = NoRead

-----------------------------------------------------------------------------
(* Properties *)

ReadTypeOK ==
  /\ read.st \in {"idle", "fetch", "ok", "failed"}
  /\ Len(read.pages) < PageLimit
  /\ read.whole \in BOOLEAN
=============================================================================
