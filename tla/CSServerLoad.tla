---------------------------- MODULE CSServerLoad ----------------------------
(***************************************************************************)
(* CSServer in use without end: a user process of the demo sends one query *)
(* and ends, and new ones are started.  The users of CSServer stand for the *)
(* processes that run at one time.                                         *)
(***************************************************************************)
EXTENDS CSServer

\* A process that was refused, or has shown its result, ends, and another takes
\* its place.
NewProcess(u) ==
  /\ sent[u] = MaxSubmits /\ held[u] \in {None, -1} /\ ~Connected(u)
  /\ sent' = [sent EXCEPT ![u] = 0]
  /\ held' = [held EXCEPT ![u] = None]
  /\ UNCHANGED <<idVars, qque, rque, handlerVars, threadVars, proc>>

LoadNext == Next \/ \E u \in User : NewProcess(u)

\* Nobody is obliged to send a query: the fairness is that of CSServer.
LoadSpec == Init /\ [][LoadNext]_vars /\ Fairness
-----------------------------------------------------------------------------
\* A query waits in the queue, and one with a smaller id is about to join it.
Overtaken(u) ==
  /\ held[u] \in Keys(qque)
  /\ \E h \in Handler : hpc[h] = "emplace" /\ hid[h] < held[u]

\* When nothing fails outside, an accepted query is answered unless smaller ids
\* keep arriving while it waits: with the last that overtakes it, its turn
\* comes, and what is once popped is computed, stored and sent, however many
\* queries come after it.
AcceptedIsAnswered ==
  \A u \in User :
    held[u] \in Key ~> (held[u] \notin Key \/ collided \/ Overtaken(u))

\* Documented flow (doc/spec-ja/source/03_system_detail.md:361): a query that was
\* pushed into the QueryQueue is popped, and its computation starts.
PushedIsPopped ==
  \A u \in User :
    held[u] \in Keys(qque) ~> (held[u] \notin Keys(qque) \/ collided)
=============================================================================
