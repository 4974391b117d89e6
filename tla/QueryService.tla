---------------------------- MODULE QueryService -----------------------------
(***************************************************************************)
(* What the ComputationServer promises to its users, without ids, queues,  *)
(* handlers or threads: a query is refused, or accepted and then computed  *)
(* once, and its result leaves the server once, to the user that sent it.  *)
(* A user that goes away loses its reply, never somebody else's.           *)
(***************************************************************************)
EXTENDS Integers

CONSTANTS
  User,
  MaxSubmits   \* bound: queries a user sends

VARIABLES
  stage,    \* stage[u][n]: where the n-th query of user u is
  answer,   \* what user u knows of its last query
  ended     \* the server's process has ended

vars == <<stage, answer, ended>>

Stage == {"unsent", "received", "queued", "computing", "done", "taken", "gone"}
Answer == {"none", "accepted", "refused"}

TypeOK ==
  /\ stage \in [User -> [1 .. MaxSubmits -> Stage]]
  /\ answer \in [User -> Answer]
  /\ ended \in BOOLEAN

Init ==
  /\ stage = [u \in User |-> [n \in 1 .. MaxSubmits |-> "unsent"]]
  /\ answer = [u \in User |-> "none"]
  /\ ended = FALSE

Last(u, n) == \A m \in n + 1 .. MaxSubmits : stage[u][m] = "unsent"

Move(u, n, from, to) ==
  /\ ~ended /\ UNCHANGED ended
  /\ stage[u][n] = from
  /\ stage' = [stage EXCEPT ![u][n] = to]

\* The user is told, unless it is no longer there or has gone on to its next
\* query.
Tell(u, n, a) ==
  \/ UNCHANGED answer
  \/ Last(u, n) /\ answer' = [answer EXCEPT ![u] = a]

Submit(u, n) ==
  /\ Move(u, n, "unsent", "received")
  /\ \A m \in 1 .. n - 1 : stage[u][m] # "unsent"
  /\ answer' = [answer EXCEPT ![u] = "none"]

Refuse(u, n) == Move(u, n, "received", "gone") /\ Tell(u, n, "refused")

Accept(u, n) == Move(u, n, "received", "queued") /\ Tell(u, n, "accepted")

Start(u, n) == Move(u, n, "queued", "computing") /\ UNCHANGED answer

Finish(u, n) == Move(u, n, "computing", "done") /\ UNCHANGED answer

\* Only a user that knows of its acceptance can have asked for the result.
Take(u, n) == Move(u, n, "done", "taken") /\ UNCHANGED answer

Deliver(u, n) ==
  /\ Move(u, n, "taken", "gone")
  /\ \/ UNCHANGED answer
     \/ Last(u, n) /\ answer[u] = "accepted" /\ answer' = [answer EXCEPT ![u] = "none"]

End == ~ended /\ ended' = TRUE /\ UNCHANGED <<stage, answer>>

Next ==
  \/ \E u \in User, n \in 1 .. MaxSubmits :
       \/ Submit(u, n) \/ Refuse(u, n) \/ Accept(u, n)
       \/ Start(u, n) \/ Finish(u, n) \/ Take(u, n) \/ Deliver(u, n)
  \/ End

Spec == Init /\ [][Next]_vars
=============================================================================
