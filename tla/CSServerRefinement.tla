------------------------- MODULE CSServerRefinement -------------------------
(***************************************************************************)
(* CSServer implements QueryService for as long as gen_uuid repeats no id: *)
(* the stage of a query is the place the server keeps it in.  That it has  *)
(* one place only does not depend on the ids.                              *)
(***************************************************************************)
EXTENDS CSServer

Is(q, u, n) == q.user = u /\ q.seq = n

Receiving(u, n) ==
  \E h \in PastQueryCheck \cup {g \in Handler : hpc[g] = "checkQ"} : Is(hqry[h], u, n)
Queued(u, n) == \E id \in Keys(qque) : Is(qque[id], u, n)
Computing(u, n) == \E t \in Busy : Is(job[t].query, u, n)
Stored(u, n) == \E id \in Keys(rque) : Is(rque[id].query, u, n)
Sending(u, n) == \E h \in Handler : hpc[h] = "send" /\ Is(hres[h].query, u, n)

StageOf(u, n) ==
  CASE n > sent[u] -> "unsent"
    [] n <= sent[u] /\ Receiving(u, n) -> "received"
    [] n <= sent[u] /\ Queued(u, n) -> "queued"
    [] n <= sent[u] /\ Computing(u, n) -> "computing"
    [] n <= sent[u] /\ Stored(u, n) -> "done"
    [] n <= sent[u] /\ Sending(u, n) -> "taken"
    [] OTHER -> "gone"

AnswerTo(u) ==
  CASE held[u] = None -> "none" [] held[u] = -1 -> "refused" [] OTHER -> "accepted"

\* Who holds a query, and at which stage: a handler, an entry of a queue or a
\* calculation thread.
Hands(u, n) ==
  {<<"received", h>> : h \in {g \in Handler :
      hpc[g] \in {"checkQ", "checkR", "seed", "draw", "find", "emplace"} /\ Is(hqry[g], u, n)}}
  \cup {<<"queued", id>> : id \in {k \in Keys(qque) : Is(qque[k], u, n)}}
  \cup {<<"computing", t>> : t \in {r \in Busy : Is(job[r].query, u, n)}}
  \cup {<<"done", id>> : id \in {k \in Keys(rque) : Is(rque[k].query, u, n)}}
  \cup {<<"taken", h>> : h \in {g \in Handler : hpc[g] = "send" /\ Is(hres[g].query, u, n)}}

\* A query is in one hand at a time, not even in two when gen_uuid repeats an
\* id: push drops the second of two queries with one id, so what is dropped
\* is not computed, and nothing is computed or sent twice.
OneCopy ==
  \A u \in User, n \in 1 .. MaxSubmits :
    \A p \in Hands(u, n) : n <= sent[u] /\ \A q \in Hands(u, n) : p = q

Service == INSTANCE QueryService WITH
  stage <- [u \in User |-> [n \in 1 .. MaxSubmits |-> StageOf(u, n)]],
  answer <- [u \in User |-> AnswerTo(u)],
  ended <- proc # "running"

\* Whatever the threads interleave and whoever drops a connection, each step
\* of the server is a step of the service or changes nothing in it: a query
\* moves through push, pop, push and pop one place at a time, and only the
\* user that sent it is told anything about it.
ImplementsQueryService ==
  Service!Init /\ [][collided' \/ UNCHANGED Service!vars \/ Service!Next]_vars
=============================================================================
