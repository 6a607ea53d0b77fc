----------------------------- MODULE SessionLife ----------------------------
(* What the archived live program promises about its session with the broker: it
   starts once, recovers only while it runs, one recovery at a time, and only a
   start or a recovery waits for an answer to a login or a query. *)

VARIABLES
  life, \* down, starting, running, recovering or ended
  talk  \* an answer to a login or a query is being waited for

lifeVars == <<life, talk>>

Init == life = "down" /\ talk = FALSE

Start == life = "down" /\ life' = "starting" /\ talk' = TRUE
Talk == life \in {"starting", "recovering"} /\ life' = life /\ talk' \in BOOLEAN
Ready == life = "starting" /\ life' = "running" /\ talk' = FALSE
Recover == life = "running" /\ ~talk /\ life' = "recovering" /\ talk' = TRUE
Recovered == life = "recovering" /\ life' = "running" /\ talk' = FALSE
End == life # "ended" /\ life' = "ended" /\ talk' = FALSE

Next == Start \/ Talk \/ Ready \/ Recover \/ Recovered \/ End

Spec == Init /\ [][Next]_lifeVars
=============================================================================
