--------------------------- MODULE CSServerProofs ---------------------------
(***************************************************************************)
(* Proofs about CSServer for any users, handlers, threads and limits:      *)
(* TypeOK, the two bounds on what check-then-push admits, and, as long as  *)
(* gen_uuid repeats no id, where a query is and whose result it gets.      *)
(***************************************************************************)
EXTENDS CSServer, ConcurrentMapQueueProofs

USE DEF At, ThreadAt, Goto, ThreadGoto

\* The initial state is well typed.
LEMMA InitTypeOK == Init => TypeOK
<1>1. (CHOOSE r \in Rng : TRUE) \in Rng
  <2>1. PICK s \in Seconds : TRUE
    BY ServerAssumption
  <2>2. SRand[s] \in Rng
    BY RandAssumption
  <2>3. QED
    BY <2>2
<1>2. Init => force_finish \in [CalcThread -> BOOLEAN] /\ collided \in BOOLEAN
  BY DEF Init
<1>3. Init => qque \in Maps(Query) /\ rque \in Maps(Result)
  BY DEF Init, EmptyMap, Maps
<1>4. Init => sent \in [User -> 0 .. MaxSubmits]
  BY ServerAssumption DEF Init
<1>5. QED
  BY <1>1, <1>2, <1>3, <1>4 DEF Init, TypeOK, HandlerPc, ThreadPc

\* The end of a callback: the user holds the reply, the handler is free.
LEMMA ReplyTypeOK ==
  ASSUME TypeOK, NEW h \in Handler, NEW id \in QueryId \cup {None}, Reply(h, id)
  PROVE  /\ hpc' \in [Handler -> HandlerPc]
         /\ conn' \in [Handler -> User \cup {None}]
         /\ hqry' \in [Handler -> Query \cup {None}]
         /\ hid' \in [Handler -> QueryId \cup {None}]
         /\ hres' \in [Handler -> Result \cup {None}]
         /\ held' \in [User -> QueryId \cup {None}]
         /\ hpc'[h] = "free"
         /\ \A g \in Handler \ {h} : /\ hpc'[g] = hpc[g] /\ hqry'[g] = hqry[g]
                                     /\ hid'[g] = hid[g] /\ hres'[g] = hres[g]
BY DEF TypeOK, Reply, Free, HandlerPc

-----------------------------------------------------------------------------
(***************************************************************************)
(* TypeOK is inductive: one lemma per group of actions.                    *)
(***************************************************************************)

\* What the steps on the way of a query do to the handler's variables.
LEMMA QueryPathTypeOK ==
  ASSUME TypeOK, NEW h \in Handler,
         \/ CheckQueries(h) \/ CheckResults(h) \/ SeedRandom(h) \/ DrawId(h)
         \/ FindQueryId(h) \/ PushQuery(h)
  PROVE  TypeOK'
<1> USE DEF TypeOK, HandlerPc, ThreadPc, threadVars, userVars, idVars
<1>1. ASSUME Refuse(h), UNCHANGED <<idVars, qque, rque, threadVars, proc>>
      PROVE  TypeOK'
  <2>1. -1 \in QueryId \cup {None} /\ Reply(h, -1) /\ UNCHANGED sent
    BY <1>1 DEF QueryId, Refuse
  <2>2. QED
    BY <1>1, <2>1, ReplyTypeOK
<1>2. CASE CheckQueries(h)
  BY <1>1, <1>2 DEF CheckQueries, Proceed
<1>3. CASE CheckResults(h)
  BY <1>1, <1>3 DEF CheckResults, Proceed
<1>4. CASE SeedRandom(h)
  <2>1. rng' \in Rng
    BY <1>4, RandAssumption DEF SeedRandom
  <2>2. QED
    BY <1>4, <2>1 DEF SeedRandom
<1>5. CASE DrawId(h)
  <2>1. Rand[rng].value \in Key /\ rng' \in Rng
    BY <1>5, RandAssumption DEF DrawId
  <2>2. collided' \in BOOLEAN
    BY <1>5, ZenonT(30) DEF DrawId
  <2>3. QED
    BY <1>5, <2>1, <2>2 DEF DrawId, QueryId
<1>6. CASE FindQueryId(h)
  <2>1. CASE Refuse(h)
    BY <1>1, <1>6, <2>1 DEF FindQueryId
  <2>2. CASE Proceed(h, "emplace")
    BY <1>6, <2>2 DEF FindQueryId, Proceed
  <2>3. QED
    BY <1>6, <2>1, <2>2 DEF FindQueryId
<1>7. CASE PushQuery(h)
  <2>1. qque' \in Maps(Query)
    BY <1>7, EmplaceType DEF PushQuery
  <2>2. hid[h] \in QueryId \cup {None} /\ Reply(h, hid[h])
    BY <1>7 DEF PushQuery
  <2>3. QED
    BY <1>7, <2>1, <2>2, ReplyTypeOK DEF PushQuery
<1>8. QED
  BY <1>2, <1>3, <1>4, <1>5, <1>6, <1>7

\* The steps on the way of a result, and the loss of a connection.
LEMMA ResultPathTypeOK ==
  ASSUME TypeOK, NEW h \in Handler,
         PopResult(h) \/ SendResult(h) \/ DropConnection(h)
  PROVE  TypeOK'
<1> USE DEF TypeOK, HandlerPc, ThreadPc, threadVars, userVars, idVars
<1>1. CASE PopResult(h)
  <2>1. hid[h] \in Key /\ rque[hid[h]] \in Result
    BY <1>1 DEF PopResult, Keys, Maps
  <2>2. rque' \in Maps(Result)
    BY <1>1, <2>1, EraseType DEF PopResult
  <2>3. QED
    BY <1>1, <2>1, <2>2 DEF PopResult
<1>2. CASE SendResult(h)
  BY <1>2, ReplyTypeOK DEF SendResult
<1>3. CASE DropConnection(h)
  BY <1>3 DEF DropConnection
<1>4. QED
  BY <1>1, <1>2, <1>3

\* A user that sends a query or asks for a result.
LEMMA UserTypeOK ==
  ASSUME TypeOK, NEW u \in User, UserStep(u)
  PROVE  TypeOK'
<1> USE DEF TypeOK, HandlerPc, ThreadPc, threadVars, userVars, idVars
<1>1. ASSUME NEW h \in Handler, NEW s \in Shapes, ReceiveQuery(u, h, s)
      PROVE  TypeOK'
  <2>1. sent[u] + 1 \in 1 .. MaxSubmits
    BY <1>1, ServerAssumption DEF ReceiveQuery
  <2>2. [user |-> u, seq |-> sent[u] + 1, shape |-> s] \in Query
    BY <2>1 DEF Query
  <2>3. sent' \in [User -> 0 .. MaxSubmits]
    BY <1>1, <2>1, ServerAssumption DEF ReceiveQuery
  <2>4. QED
    BY <1>1, <2>2, <2>3 DEF ReceiveQuery
<1>2. ASSUME NEW h \in Handler, ReceiveResultRequest(u, h)
      PROVE  TypeOK'
  BY <1>2 DEF ReceiveResultRequest
<1>3. QED
  BY <1>1, <1>2 DEF UserStep

\* A calculation thread, from the pop to the push.
LEMMA ThreadTypeOK ==
  ASSUME TypeOK, NEW t \in CalcThread, ThreadStep(t) \/ Stop(t)
  PROVE  TypeOK'
<1> USE DEF TypeOK, HandlerPc, ThreadPc, handlerVars, userVars, idVars
<1>1. CASE PopQuery(t)
  <2>1. front(qque) \in Key /\ qque[front(qque)] \in Query
    BY <1>1, FrontIsSmallest DEF PopQuery, Keys, Maps
  <2>2. qque' \in Maps(Query)
    BY <1>1, <2>1, EraseType DEF PopQuery
  <2>3. [id |-> front(qque), query |-> qque[front(qque)], status |-> FALSE] \in Job
    BY <2>1 DEF Job
  <2>4. QED
    BY <1>1, <2>2, <2>3 DEF PopQuery
<1>2. CASE Compute(t)
  <2>1. job[t] \in Job /\ job[t].query.shape.member \in BOOLEAN
    BY <1>2, ServerAssumption DEF Compute, Job, Query, Shape
  <2>2. [job[t] EXCEPT !.status = job[t].query.shape.member] \in Job
    BY <2>1 DEF Job
  <2>3. QED
    BY <1>2, <2>2 DEF Compute
<1>3. CASE FindResultId(t)
  BY <1>3 DEF FindResultId
<1>4. CASE PushResult(t)
  <2>1. /\ job[t].id \in Key
        /\ [query |-> job[t].query, status |-> job[t].status] \in Result
    BY <1>4 DEF PushResult, Job, Result
  <2>2. rque' \in Maps(Result)
    BY <1>4, <2>1, EmplaceType DEF PushResult
  <2>3. QED
    BY <1>4, <2>2 DEF PushResult
<1>5. CASE Stop(t)
  <2>1. force_finish' \in [CalcThread -> BOOLEAN]
    BY <1>5 DEF Stop
  <2>2. QED
    BY <1>5, <2>1 DEF Stop
<1>6. QED
  BY <1>1, <1>2, <1>3, <1>4, <1>5 DEF ThreadStep

\* Every state of the server is well typed: each thread finds what the code
\* at its point reads, whatever the others did in between.
THEOREM TypeCorrect == Spec => []TypeOK
<1>1. TypeOK /\ [Next]_vars => TypeOK'
  <2>1. SUFFICES ASSUME TypeOK, [Next]_vars PROVE TypeOK'
    OBVIOUS
  <2>2. CASE Next
    BY <2>1, <2>2, QueryPathTypeOK, ResultPathTypeOK, UserTypeOK, ThreadTypeOK
       DEF Next, HandlerStep
  <2>3. CASE UNCHANGED vars
    BY <2>1, <2>3 DEF vars, TypeOK
  <2>4. QED
    BY <2>1, <2>2, <2>3
<1>2. QED
  BY <1>1, InitTypeOK, PTL DEF Spec
-----------------------------------------------------------------------------
(***************************************************************************)
(* The bounds.  QueueBound is inductive with TypeOK alone: a handler joins *)
(* PastQueryCheck only while the queue has a free place, and from there on *)
(* a place in the queue is exchanged for a place among the handlers.       *)
(* BacklogBound is not: at the test of rque_.size() the queries waiting    *)
(* and admitted are bounded by QueueBound.                                 *)
(***************************************************************************)
Bounds == QueueBound /\ BacklogBound

\* The sets of handlers and threads that the bounds count are finite, and no
\* larger than Handler and CalcThread.
LEMMA Counted ==
  /\ \A S \in SUBSET Handler : IsFiniteSet(S) /\ Cardinality(S) \in Nat
                                /\ Cardinality(S) <= Cardinality(Handler)
  /\ \A S \in SUBSET CalcThread : IsFiniteSet(S) /\ Cardinality(S) \in Nat
                                   /\ Cardinality(S) <= Cardinality(CalcThread)
  /\ Cardinality(Handler) \in Nat /\ Cardinality(CalcThread) \in Nat
  /\ MaxConcurrentQueries \in Nat \ {0} /\ MaxResults \in Nat \ {0}
BY ServerAssumption, FS_Subset, FS_CardinalityType

\* The counts that the bounds are made of are numbers.
LEMMA CountsAreNumbers ==
  /\ Cardinality(PastQueryCheck) \in Nat /\ Cardinality(Admitted) \in Nat
  /\ Cardinality(Busy) \in Nat /\ size(qque) \in Nat /\ size(rque) \in Nat
  /\ Cardinality(PastQueryCheck') \in Nat /\ Cardinality(Admitted') \in Nat
  /\ Cardinality(Busy') \in Nat /\ size(qque') \in Nat /\ size(rque') \in Nat
  /\ Cardinality(PastQueryCheck') <= Cardinality(Handler)
  /\ Cardinality(Busy) <= Cardinality(CalcThread)
BY Counted, KeysFinite DEF PastQueryCheck, Admitted, Busy

\* A step that increases no count keeps the bounds.
LEMMA NoIncrease ==
  ASSUME Bounds,
         PastQueryCheck' \subseteq PastQueryCheck, Admitted' \subseteq Admitted,
         Busy' \subseteq Busy, size(qque') <= size(qque), size(rque') <= size(rque)
  PROVE  Bounds'
<1>1. /\ Cardinality(PastQueryCheck') <= Cardinality(PastQueryCheck)
      /\ Cardinality(Admitted') <= Cardinality(Admitted)
      /\ Cardinality(Busy') <= Cardinality(Busy)
  BY Counted, FS_Subset DEF PastQueryCheck, Admitted, Busy
<1>2. QED
  BY <1>1, CountsAreNumbers, Counted DEF Bounds, QueueBound, BacklogBound

\* The two tests: each handler that passes adds one to a count.
LEMMA CheckQueriesBounds ==
  ASSUME TypeOK, Bounds, NEW h \in Handler, CheckQueries(h)
  PROVE  Bounds'
<1>1. CASE Proceed(h, "checkR") /\ size(qque) < MaxConcurrentQueries
  <2>1. Admitted' = Admitted /\ Busy' = Busy
    BY <1>1 DEF CheckQueries, Proceed, Admitted, Busy, threadVars, TypeOK
  <2>2. size(qque') = size(qque) /\ size(rque') = size(rque)
    BY DEF CheckQueries
  <2>3. QED
    BY <1>1, <2>1, <2>2, CountsAreNumbers, Counted DEF Bounds, QueueBound, BacklogBound
<1>2. CASE Refuse(h)
  BY <1>2, NoIncrease, CountsAreNumbers
     DEF CheckQueries, Refuse, Reply, Free, PastQueryCheck, Admitted, Busy, threadVars, TypeOK
<1>3. QED
  BY <1>1, <1>2 DEF CheckQueries

\* The second test: what waits then is bounded by QueueBound.
LEMMA CheckResultsBounds ==
  ASSUME TypeOK, Bounds, NEW h \in Handler, CheckResults(h)
  PROVE  Bounds'
<1>1. CASE Proceed(h, "seed") /\ size(rque) < MaxResults
  <2>1. PastQueryCheck' = PastQueryCheck /\ Busy' = Busy
    BY <1>1 DEF CheckResults, Proceed, PastQueryCheck, Busy, threadVars, TypeOK
  <2>2. Admitted' \subseteq PastQueryCheck
    BY <1>1 DEF CheckResults, Proceed, Admitted, PastQueryCheck, TypeOK
  <2>3. Cardinality(Admitted') <= Cardinality(PastQueryCheck)
    BY <2>2, Counted, FS_Subset DEF PastQueryCheck
  <2>4. size(qque') = size(qque) /\ size(rque') = size(rque)
    BY DEF CheckResults
  <2>5. QED
    BY <1>1, <2>1, <2>3, <2>4, CountsAreNumbers, Counted DEF Bounds, QueueBound, BacklogBound
<1>2. CASE Refuse(h)
  BY <1>2, NoIncrease, CountsAreNumbers
     DEF CheckResults, Refuse, Reply, Free, PastQueryCheck, Admitted, Busy, threadVars, TypeOK
<1>3. QED
  BY <1>1, <1>2 DEF CheckResults

\* The transfers: a query moves from one count to another.
LEMMA PushQueryBounds ==
  ASSUME TypeOK, Bounds, NEW h \in Handler, PushQuery(h)
  PROVE  Bounds'
<1>1. /\ PastQueryCheck' = PastQueryCheck \ {h} /\ h \in PastQueryCheck
      /\ Admitted' = Admitted \ {h} /\ h \in Admitted
      /\ Busy' = Busy
  BY DEF PushQuery, Reply, Free, PastQueryCheck, Admitted, Busy, threadVars, TypeOK
<1>2. size(qque') <= size(qque) + 1 /\ size(rque') = size(rque)
  BY EmplaceSize DEF PushQuery, TypeOK
<1>3. /\ Cardinality(PastQueryCheck') = Cardinality(PastQueryCheck) - 1
      /\ Cardinality(Admitted') = Cardinality(Admitted) - 1
  <2>1. PastQueryCheck \in SUBSET Handler /\ Admitted \in SUBSET Handler
    BY DEF PastQueryCheck, Admitted
  <2>2. IsFiniteSet(PastQueryCheck) /\ IsFiniteSet(Admitted)
    BY <2>1, Counted
  <2>3. QED
    BY <1>1, <2>2, FS_RemoveElement
<1>4. QED
  BY <1>1, <1>2, <1>3, CountsAreNumbers, Counted DEF Bounds, QueueBound, BacklogBound

\* From the queue to a thread.
LEMMA PopQueryBounds ==
  ASSUME TypeOK, Bounds, NEW t \in CalcThread, PopQuery(t)
  PROVE  Bounds'
<1>1. /\ PastQueryCheck' = PastQueryCheck /\ Admitted' = Admitted
      /\ Busy' = Busy \cup {t} /\ t \notin Busy
  BY DEF PopQuery, PastQueryCheck, Admitted, Busy, handlerVars, TypeOK
<1>2. size(qque') = size(qque) - 1 /\ size(rque') = size(rque)
  BY EraseSize, FrontIsSmallest DEF PopQuery, TypeOK
<1>3. Cardinality(Busy') = Cardinality(Busy) + 1
  BY <1>1, Counted, FS_AddElement DEF Busy
<1>4. QED
  BY <1>1, <1>2, <1>3, CountsAreNumbers, Counted DEF Bounds, QueueBound, BacklogBound

\* From a thread to the results.
LEMMA PushResultBounds ==
  ASSUME TypeOK, Bounds, NEW t \in CalcThread, PushResult(t)
  PROVE  Bounds'
<1>1. /\ PastQueryCheck' = PastQueryCheck /\ Admitted' = Admitted
      /\ Busy' = Busy \ {t} /\ t \in Busy
  BY DEF PushResult, PastQueryCheck, Admitted, Busy, handlerVars, TypeOK
<1>2. size(qque') = size(qque) /\ size(rque') <= size(rque) + 1
  BY EmplaceSize DEF PushResult, TypeOK, Job
<1>3. Cardinality(Busy') = Cardinality(Busy) - 1
  BY <1>1, Counted, FS_RemoveElement DEF Busy
<1>4. QED
  BY <1>1, <1>2, <1>3, CountsAreNumbers, Counted DEF Bounds, QueueBound, BacklogBound

\* Every other step moves nothing the bounds count, or takes it away.
LEMMA OtherBounds ==
  ASSUME TypeOK, Bounds,
         \/ \E h \in Handler : \/ SeedRandom(h) \/ DrawId(h) \/ FindQueryId(h)
                               \/ PopResult(h) \/ SendResult(h) \/ DropConnection(h)
         \/ \E t \in CalcThread : Compute(t) \/ FindResultId(t) \/ Stop(t)
         \/ \E u \in User : UserStep(u)
  PROVE  Bounds'
<1> USE DEF PastQueryCheck, Admitted, Busy, TypeOK, threadVars, handlerVars
<1>1. ASSUME NEW h \in Handler, SeedRandom(h) \/ DrawId(h) PROVE Bounds'
  BY <1>1, NoIncrease, CountsAreNumbers DEF SeedRandom, DrawId
<1>2. ASSUME NEW h \in Handler, FindQueryId(h) PROVE Bounds'
  BY <1>2, NoIncrease, CountsAreNumbers DEF FindQueryId, Proceed, Refuse, Reply, Free
<1>3. ASSUME NEW h \in Handler, PopResult(h) PROVE Bounds'
  <2>1. size(rque') = size(rque) - 1
    BY <1>3, EraseSize DEF PopResult
  <2>2. QED
    BY <1>3, <2>1, NoIncrease, CountsAreNumbers DEF PopResult
<1>4. ASSUME NEW h \in Handler, SendResult(h) \/ DropConnection(h) PROVE Bounds'
  BY <1>4, NoIncrease, CountsAreNumbers DEF SendResult, DropConnection, Reply, Free
<1>5. ASSUME NEW t \in CalcThread, Compute(t) \/ FindResultId(t) \/ Stop(t) PROVE Bounds'
  BY <1>5, NoIncrease, CountsAreNumbers DEF Compute, FindResultId, Stop
<1>6. ASSUME NEW u \in User, UserStep(u) PROVE Bounds'
  BY <1>6, NoIncrease, CountsAreNumbers DEF UserStep, ReceiveQuery, ReceiveResultRequest
<1>7. QED
  BY <1>1, <1>2, <1>3, <1>4, <1>5, <1>6

\* At first nothing is counted.
LEMMA InitBounds == Init => Bounds
<1>1. SUFFICES ASSUME Init PROVE Bounds
  OBVIOUS
<1>2. PastQueryCheck = {} /\ Admitted = {} /\ Busy = {} /\ Keys(qque) = {} /\ Keys(rque) = {}
  BY <1>1 DEF Init, PastQueryCheck, Admitted, Busy, Keys, EmptyMap
<1>3. /\ size(qque) = 0 /\ size(rque) = 0
      /\ Cardinality(PastQueryCheck) = 0 /\ Cardinality(Admitted) = 0
      /\ Cardinality(Busy) = 0
  BY <1>2, FS_EmptySet DEF size
<1>4. QED
  BY <1>3, Counted DEF Bounds, QueueBound, BacklogBound

\* However many handlers race between the test of a size and the push, the
\* queue holds at most max_concurrent_queries_ + |Handler| - 1 queries, and
\* the queries in the server stay below the sum of the two limits, the
\* handlers and the threads.
THEOREM AdmissionIsBounded == Spec => [](QueueBound /\ BacklogBound)
<1>1. TypeOK /\ Bounds /\ [Next]_vars => Bounds'
  <2>1. SUFFICES ASSUME TypeOK, Bounds, [Next]_vars PROVE Bounds'
    OBVIOUS
  <2>2. CASE Next
    BY <2>1, <2>2, CheckQueriesBounds, CheckResultsBounds, PushQueryBounds,
       PopQueryBounds, PushResultBounds, OtherBounds
       DEF Next, HandlerStep, ThreadStep
  <2>3. CASE UNCHANGED vars
    BY <2>1, <2>3, NoIncrease, CountsAreNumbers DEF vars, PastQueryCheck, Admitted, Busy
  <2>4. QED
    BY <2>1, <2>2, <2>3
<1>2. QED
  BY <1>1, InitBounds, TypeCorrect, PTL DEF Spec, Bounds
-----------------------------------------------------------------------------
(***************************************************************************)
(* Who is told what: connections.                                          *)
(***************************************************************************)
QueryPc == {"checkQ", "checkR", "seed", "draw", "find", "emplace"}

\* A handler serves the one connection of a user; as long as the user is
\* there, the id whose result it fetches is the one the user holds, and the
\* query it takes in is the user's last.
Connections ==
  /\ \A g, h \in Handler : conn[g] = conn[h] /\ conn[g] # None => g = h
  /\ \A h \in Handler :
       /\ hpc[h] = "free" => conn[h] = None
       /\ conn[h] # None /\ hpc[h] \in {"poll", "send"} => held[conn[h]] = hid[h]
       /\ conn[h] # None /\ hpc[h] \in QueryPc =>
            hqry[h].user = conn[h] /\ hqry[h].seq = sent[conn[h]]

\* No step gives a handler another's user, or a user another's reply.
LEMMA ConnectionsKept ==
  ASSUME TypeOK, Connections, Next
  PROVE  Connections'
<1> USE DEF Connections, QueryPc, HandlerPc, TypeOK, threadVars, handlerVars, userVars, idVars
<1>1. ASSUME NEW h \in Handler, NEW id, Reply(h, id), UNCHANGED sent
      PROVE  Connections'
  BY <1>1 DEF Reply, Free
<1>2. ASSUME NEW h \in Handler, NEW to \in QueryPc, hpc[h] \in QueryPc, Proceed(h, to)
      PROVE  Connections'
  BY <1>2 DEF Proceed
<1>3. ASSUME NEW h \in Handler, HandlerStep(h)
      PROVE  Connections'
  <2>1. CASE CheckQueries(h) \/ CheckResults(h) \/ FindQueryId(h)
    BY <1>1, <1>2, <2>1 DEF CheckQueries, CheckResults, FindQueryId, Refuse
  <2>2. CASE SeedRandom(h) \/ DrawId(h)
    BY <2>2 DEF SeedRandom, DrawId
  <2>3. CASE PushQuery(h) \/ SendResult(h)
    BY <1>1, <2>3 DEF PushQuery, SendResult
  <2>4. CASE PopResult(h)
    BY <2>4 DEF PopResult
  <2>5. QED
    BY <1>3, <2>1, <2>2, <2>3, <2>4 DEF HandlerStep
<1>4. ASSUME NEW h \in Handler, DropConnection(h)
      PROVE  Connections'
  BY <1>4 DEF DropConnection
<1>5. ASSUME NEW t \in CalcThread, ThreadStep(t) \/ Stop(t)
      PROVE  Connections'
  BY <1>5 DEF ThreadStep, PopQuery, Compute, FindResultId, PushResult, Stop
<1>6. ASSUME NEW u \in User, NEW h \in Handler, NEW s \in Shapes, ReceiveQuery(u, h, s)
      PROVE  Connections'
  <2>1. u # None
    BY ServerAssumption
  <2>2. \A g \in Handler : conn[g] # u
    BY <1>6 DEF ReceiveQuery, Connected
  <2>3. QED
    BY <1>6, <2>1, <2>2 DEF ReceiveQuery
<1>7. ASSUME NEW u \in User, NEW h \in Handler, ReceiveResultRequest(u, h)
      PROVE  Connections'
  <2>1. u # None
    BY ServerAssumption
  <2>2. \A g \in Handler : conn[g] # u
    BY <1>7 DEF ReceiveResultRequest, Connected
  <2>3. QED
    BY <1>7, <2>1, <2>2 DEF ReceiveResultRequest
<1>8. QED
  BY <1>3, <1>4, <1>5, <1>6, <1>7 DEF Next, UserStep
-----------------------------------------------------------------------------
(***************************************************************************)
(* Where a query is, by its id.                                            *)
(***************************************************************************)
Computes(t, id) == t \in Busy /\ job[t].id = id
Sends(h, id) == hpc[h] = "send" /\ hid[h] = id

Somewhere(id) ==
  \/ id \in Keys(qque) \cup Keys(rque)
  \/ \E t \in CalcThread : Computes(t, id)
  \/ \E h \in Handler : Sends(h, id)

\* An id is in one place at most.
Separate ==
  \A id \in Key :
    /\ id \in Keys(qque) => id \notin Keys(rque)
    /\ id \in Keys(qque) \cup Keys(rque) =>
         /\ \A t \in CalcThread : ~Computes(t, id)
         /\ \A h \in Handler : ~Sends(h, id)
    /\ \A t \in CalcThread : Computes(t, id) =>
         /\ \A r \in CalcThread \ {t} : ~Computes(r, id)
         /\ \A h \in Handler : ~Sends(h, id)
    /\ \A h \in Handler : Sends(h, id) => \A g \in Handler \ {h} : ~Sends(g, id)

\* Nobody knows an id that has been drawn and not yet pushed.
Fresh ==
  \A h \in Handler : hpc[h] \in {"find", "emplace"} =>
    /\ ~Somewhere(hid[h])
    /\ \A g \in Handler \ {h} : hid[g] # hid[h]
    /\ \A u \in User : held[u] # hid[h]

OneHolder == \A u, v \in User : held[u] \in Key /\ held[u] = held[v] => u = v

\* A query of which a user holds the id is the last that the user sent.
OwnedBy(id, q) == \A u \in User : held[u] = id => q.user = u /\ q.seq = sent[u]

Computed(r) == r.status = r.query.shape.member

Owned ==
  /\ \A id \in Keys(qque) : OwnedBy(id, qque[id])
  /\ \A id \in Keys(rque) : OwnedBy(id, rque[id].query) /\ Computed(rque[id])
  /\ \A t \in Busy : /\ OwnedBy(job[t].id, job[t].query)
                     /\ tpc[t] # "compute" => Computed(job[t])
  /\ \A h \in Handler : hpc[h] = "send" =>
       hid[h] \in Key /\ OwnedBy(hid[h], hres[h].query) /\ Computed(hres[h])

Orderly == Separate /\ Fresh /\ OneHolder /\ Owned /\ proc # "duplicate_result"

\* Neither of what a user holds without an id is an id.
LEMMA NoIds == None \notin Key /\ -1 \notin Key /\ None # -1
<1>1. \A k \in Key : k \in Int /\ k # -1
  BY KeyAssumption
<1>2. QED
  BY <1>1, ServerAssumption

\* A step that moves no query from one place to another.
Still ==
  /\ UNCHANGED <<qque, rque>>
  /\ Busy' = Busy
  /\ \A t \in Busy : job'[t].id = job[t].id /\ job'[t].query = job[t].query
  /\ \A h \in Handler : /\ hpc'[h] = "send" <=> hpc[h] = "send"
                        /\ hpc[h] = "send" => hid'[h] = hid[h] /\ hres'[h] = hres[h]

\* A step that moves no query leaves every id where it is.
LEMMA StillSeparate ==
  ASSUME Still
  PROVE  /\ Separate => Separate'
         /\ \A id : Somewhere(id)' <=> Somewhere(id)
<1>1. \A id : \A t \in CalcThread : Computes(t, id)' <=> Computes(t, id)
  BY DEF Still, Computes, Busy
<1>2. \A id : \A h \in Handler : Sends(h, id)' <=> Sends(h, id)
  BY DEF Still, Sends
<1>3. QED
  BY <1>1, <1>2 DEF Still, Separate, Somewhere

\* Nor does it disturb the rest, if it does not give away a drawn id.
LEMMA StillOrderly ==
  ASSUME TypeOK, Orderly, Still, Fresh', proc' # "duplicate_result",
         \A u \in User : held'[u] \in Key => held'[u] = held[u] /\ sent'[u] = sent[u],
         \A t \in Busy : tpc'[t] # "compute" => job'[t].status = job'[t].query.shape.member
  PROVE  Orderly'
<1>1. Separate'
  BY StillSeparate DEF Orderly
<1>2. OneHolder'
  BY DEF Orderly, OneHolder
<1>3. ASSUME NEW id \in Key, NEW q, OwnedBy(id, q)
      PROVE  \A u \in User : held'[u] = id => q.user = u /\ q.seq = sent'[u]
  BY <1>3 DEF OwnedBy
<1>4. Owned'
  <2> USE DEF Owned, OwnedBy
  <2>1. ASSUME NEW id \in Keys(qque)'
        PROVE  OwnedBy(id, qque[id])'
    <3>1. id \in Keys(qque) /\ id \in Key /\ qque' = qque
      BY <2>1 DEF Still, Keys
    <3>2. QED
      BY <1>3, <3>1 DEF Orderly
  <2>2. ASSUME NEW id \in Keys(rque)'
        PROVE  OwnedBy(id, rque[id].query)' /\ Computed(rque[id])'
    <3>1. id \in Keys(rque) /\ id \in Key /\ rque' = rque
      BY <2>2 DEF Still, Keys
    <3>2. QED
      BY <1>3, <3>1 DEF Orderly, Computed
  <2>3. ASSUME NEW t \in Busy'
        PROVE  /\ OwnedBy(job[t].id, job[t].query)'
               /\ tpc'[t] # "compute" => Computed(job[t])'
    <3>1. t \in Busy /\ job[t].id \in Key
      BY <2>3 DEF Still, Busy, TypeOK, Job
    <3>2. job'[t].id = job[t].id /\ job'[t].query = job[t].query /\ OwnedBy(job[t].id, job[t].query)
      BY <3>1 DEF Still, Orderly
    <3>3. \A u \in User : held'[u] = job[t].id => job[t].query.user = u /\ job[t].query.seq = sent'[u]
      BY <1>3, <3>1, <3>2
    <3>4. QED
      BY <3>1, <3>2, <3>3 DEF Computed
  <2>4. ASSUME NEW h \in Handler, hpc'[h] = "send"
        PROVE  hid'[h] \in Key /\ OwnedBy(hid[h], hres[h].query)' /\ Computed(hres[h])'
    <3>1. hpc[h] = "send" /\ hid'[h] = hid[h] /\ hres'[h] = hres[h]
      BY <2>4 DEF Still
    <3>2. QED
      BY <1>3, <3>1 DEF Orderly, Computed
  <2>5. QED
    BY <2>1, <2>2, <2>3, <2>4, Zenon
<1>5. QED
  BY <1>1, <1>2, <1>4 DEF Orderly

\* A refusal: the id that was drawn is forgotten, the user holds -1.
LEMMA RefuseOrderly ==
  ASSUME TypeOK, Orderly, NEW h \in Handler, hpc[h] \in QueryPc,
         Refuse(h), UNCHANGED <<idVars, qque, rque, threadVars, proc>>
  PROVE  Orderly'
<1> USE DEF TypeOK, QueryPc, threadVars, idVars, Refuse, Reply, Free
<1>1. Still
  BY DEF Still, Busy
<1>2. None \notin Key /\ -1 \notin Key
  BY NoIds
<1>3. Fresh'
  BY <1>1, <1>2, StillSeparate DEF Orderly, Fresh
<1>4. \A u \in User : held'[u] \in Key => held'[u] = held[u] /\ sent'[u] = sent[u]
  BY <1>2
<1>5. \A t \in Busy : tpc'[t] # "compute" => job'[t].status = job'[t].query.shape.member
  BY DEF Orderly, Owned, Computed
<1>6. QED
  BY <1>1, <1>3, <1>4, <1>5, StillOrderly DEF Orderly

\* The steps of a handler up to the push, and those of users and connections.
LEMMA HandlerOrderly ==
  ASSUME TypeOK, Connections, Orderly, ~collided', NEW h \in Handler,
         \/ CheckQueries(h) \/ CheckResults(h) \/ SeedRandom(h) \/ DrawId(h)
         \/ FindQueryId(h) \/ DropConnection(h)
         \/ \E u \in User : ReceiveResultRequest(u, h)
         \/ \E u \in User, s \in Shapes : ReceiveQuery(u, h, s)
  PROVE  Orderly'
<1> USE DEF TypeOK, QueryPc, threadVars, idVars, userVars
<1>1. None \notin Key /\ -1 \notin Key
  BY NoIds
<1>2. ASSUME \/ \E to \in QueryPc : hpc[h] \in QueryPc /\ Proceed(h, to)
             \/ SeedRandom(h) \/ DrawId(h) \/ DropConnection(h)
             \/ \E u \in User : ReceiveResultRequest(u, h)
             \/ \E u \in User, s \in Shapes : ReceiveQuery(u, h, s),
             UNCHANGED <<qque, rque, threadVars, proc>>
      PROVE  Fresh' => Orderly'
  <2>1. Still
    BY <1>2 DEF Still, Busy, Proceed, SeedRandom, DrawId, DropConnection,
                ReceiveResultRequest, ReceiveQuery
  <2>2. \A u \in User : held'[u] \in Key => held'[u] = held[u] /\ sent'[u] = sent[u]
    BY <1>1, <1>2 DEF Proceed, SeedRandom, DrawId, DropConnection,
                      ReceiveResultRequest, ReceiveQuery
  <2>3. \A t \in Busy : tpc'[t] # "compute" => job'[t].status = job'[t].query.shape.member
    BY <1>2 DEF Orderly, Owned, Computed
  <2>4. QED
    BY <1>2, <2>1, <2>2, <2>3, StillOrderly DEF Orderly
<1>3. CASE Refuse(h) /\ (CheckQueries(h) \/ CheckResults(h) \/ FindQueryId(h))
  BY <1>3, RefuseOrderly DEF CheckQueries, CheckResults, FindQueryId
<1>4. CASE (CheckQueries(h) /\ Proceed(h, "checkR")) \/ (CheckResults(h) /\ Proceed(h, "seed"))
           \/ (FindQueryId(h) /\ Proceed(h, "emplace"))
  <2>1. Still
    BY <1>4 DEF Still, Busy, Proceed, CheckQueries, CheckResults, FindQueryId
  <2>2. Fresh'
    BY <1>4, <2>1, StillSeparate DEF Fresh, Orderly, Proceed, CheckQueries, CheckResults, FindQueryId
  <2>3. QED
    BY <1>2, <1>4, <2>2 DEF CheckQueries, CheckResults, FindQueryId
<1>5. CASE SeedRandom(h)
  <2>1. Still
    BY <1>5 DEF Still, Busy, SeedRandom
  <2>2. Fresh'
    BY <1>5, <2>1, StillSeparate DEF Fresh, Orderly, SeedRandom
  <2>3. QED
    BY <1>2, <1>5, <2>2 DEF SeedRandom
<1>6. CASE DrawId(h)
  <2>1. Still
    BY <1>6 DEF Still, Busy, DrawId
  <2>2. ~InUse(hid'[h])
    BY <1>6 DEF DrawId
  <2>3. Fresh'
    <3>1. ~Somewhere(hid'[h]) /\ \A g \in Handler : hid[g] # hid'[h]
      BY <2>2 DEF InUse, Somewhere, Computes, Sends, Busy
    <3>2. QED
      BY <1>6, <2>1, <2>2, <3>1, StillSeparate DEF Fresh, Orderly, DrawId, InUse
  <2>4. QED
    BY <1>2, <1>6, <2>3 DEF DrawId
<1>7. CASE DropConnection(h)
  <2>1. Still
    BY <1>7 DEF Still, Busy, DropConnection
  <2>2. Fresh'
    BY <1>7, <2>1, StillSeparate DEF Fresh, Orderly, DropConnection
  <2>3. QED
    BY <1>2, <1>7, <2>2 DEF DropConnection
<1>8. CASE \E u \in User : ReceiveResultRequest(u, h)
  <2>1. Still
    BY <1>8 DEF Still, Busy, ReceiveResultRequest
  <2>2. Fresh'
    BY <1>8, <2>1, StillSeparate DEF Fresh, Orderly, ReceiveResultRequest
  <2>3. QED
    BY <1>2, <1>8, <2>2 DEF ReceiveResultRequest
<1>9. CASE \E u \in User, s \in Shapes : ReceiveQuery(u, h, s)
  <2>1. Still
    BY <1>9 DEF Still, Busy, ReceiveQuery
  <2>2. Fresh'
    BY <1>1, <1>9, <2>1, StillSeparate DEF Fresh, Orderly, ReceiveQuery
  <2>3. QED
    BY <1>2, <1>9, <2>2 DEF ReceiveQuery
<1>10. QED
  BY <1>3, <1>4, <1>5, <1>6, <1>7, <1>8, <1>9 DEF CheckQueries, CheckResults, FindQueryId

\* The thread computes; it never finds its id among the results.
LEMMA ThreadStillOrderly ==
  ASSUME TypeOK, Orderly, NEW t \in CalcThread,
         Compute(t) \/ FindResultId(t) \/ Stop(t)
  PROVE  Orderly'
<1> USE DEF TypeOK, handlerVars, idVars, userVars
<1>1. Still
  BY DEF Still, Busy, Compute, FindResultId, Stop, Job
<1>2. Fresh'
  BY <1>1, StillSeparate DEF Fresh, Orderly, Compute, FindResultId, Stop
<1>3. \A u \in User : held'[u] = held[u] /\ sent'[u] = sent[u]
  BY DEF Compute, FindResultId, Stop
<1>4. \A r \in Busy : tpc'[r] # "compute" => job'[r].status = job'[r].query.shape.member
  BY DEF Compute, FindResultId, Stop, Orderly, Owned, Computed, Busy, Job
<1>5. proc' # "duplicate_result"
  <2>1. CASE FindResultId(t)
    <3>1. job[t].id \in Key /\ Computes(t, job[t].id)
      BY <2>1 DEF FindResultId, Job, Computes, Busy
    <3>2. job[t].id \notin Keys(rque)
      BY <3>1 DEF Orderly, Separate
    <3>3. QED
      BY <2>1, <3>2 DEF FindResultId, count, Orderly
  <2>2. QED
    BY <2>1 DEF Compute, Stop, Orderly
<1>6. QED
  BY <1>1, <1>2, <1>3, <1>4, <1>5, StillOrderly
-----------------------------------------------------------------------------
(***************************************************************************)
(* The steps that move a query to its next place.                          *)
(***************************************************************************)
\* From the handler into the queue, where the fresh id is new.
LEMMA PushQueryOrderly ==
  ASSUME TypeOK, Connections, Orderly, NEW h \in Handler, PushQuery(h)
  PROVE  Orderly' /\ \A id : Somewhere(id)' <=> Somewhere(id) \/ id = hid[h]
<1> DEFINE i == hid[h]
<1>1. /\ hpc[h] = "emplace" /\ i \in Key /\ hqry[h] \in Query /\ ~Somewhere(i)
      /\ \A g \in Handler \ {h} : hid[g] # i
      /\ \A u \in User : held[u] # i
  BY DEF PushQuery, TypeOK, Orderly, Fresh
<1>2. /\ Keys(qque') = Keys(qque) \cup {i} /\ qque'[i] = hqry[h]
      /\ \A id \in Keys(qque) : qque'[id] = qque[id]
  <2>1. i \in Key \ Keys(qque) /\ qque \in Maps(Query) /\ NoEntry \notin Query
    BY <1>1, NoEntryAssumption DEF Somewhere, TypeOK
  <2>2. QED
    BY <1>1, <2>1, EmplaceNew DEF PushQuery
<1>3. /\ rque' = rque /\ tpc' = tpc /\ job' = job /\ Busy' = Busy /\ proc' = proc /\ sent' = sent
      /\ \A g \in Handler \ {h} : hpc'[g] = hpc[g] /\ hid'[g] = hid[g] /\ hres'[g] = hres[g]
      /\ hpc'[h] = "free" /\ hid'[h] = None
      /\ \A u \in User : held'[u] = IF u = conn[h] THEN i ELSE held[u]
  BY DEF PushQuery, Reply, Free, TypeOK, threadVars, Busy
<1>4. /\ \A id : \A t \in CalcThread : Computes(t, id)' <=> Computes(t, id)
      /\ \A id : \A g \in Handler : Sends(g, id)' <=> Sends(g, id)
  BY <1>1, <1>3 DEF Computes, Sends
<1>5. \A id : Somewhere(id)' <=> Somewhere(id) \/ id = i
  BY <1>2, <1>3, <1>4 DEF Somewhere
<1>6. Separate'
  BY <1>1, <1>2, <1>3, <1>4 DEF Orderly, Separate, Somewhere
<1>7. Fresh'
  BY <1>1, <1>3, <1>5, NoIds DEF Orderly, Fresh, TypeOK
<1>8. OneHolder'
  BY <1>1, <1>3 DEF Orderly, OneHolder
<1>9. Owned'
  <2>1. ASSUME NEW id \in Key, id # i, NEW q, OwnedBy(id, q)
        PROVE  \A u \in User : held'[u] = id => q.user = u /\ q.seq = sent'[u]
    BY <1>3, <2>1 DEF OwnedBy
  <2>2. \A u \in User : held'[u] = i => hqry[h].user = u /\ hqry[h].seq = sent'[u]
    BY <1>1, <1>3, ServerAssumption DEF Connections, QueryPc
  <2> USE DEF Owned, OwnedBy
  <2>3. ASSUME NEW id \in Keys(qque')
        PROVE  \A u \in User : held'[u] = id => qque'[id].user = u /\ qque'[id].seq = sent'[u]
    <3>1. CASE id = i
      BY <1>2, <2>2, <3>1
    <3>2. CASE id # i
      BY <1>2, <2>1, <2>3, <3>2 DEF Orderly, Keys
    <3>3. QED
      BY <3>1, <3>2
  <2>4. ASSUME NEW id \in Keys(rque')
        PROVE  /\ \A u \in User : held'[u] = id => rque[id].query.user = u /\ rque[id].query.seq = sent'[u]
               /\ Computed(rque[id])
    <3>1. id \in Keys(rque) /\ id \in Key /\ id # i
      BY <1>1, <1>3, <2>4 DEF Keys, Somewhere
    <3>2. QED
      BY <2>1, <3>1 DEF Orderly
  <2>5. ASSUME NEW t \in Busy
        PROVE  /\ \A u \in User : held'[u] = job[t].id => job[t].query.user = u /\ job[t].query.seq = sent'[u]
               /\ tpc[t] # "compute" => Computed(job[t])
    <3>1. job[t].id \in Key /\ job[t].id # i
      BY <1>1 DEF Busy, TypeOK, Job, Somewhere, Computes
    <3>2. QED
      BY <2>1, <3>1 DEF Orderly
  <2>6. ASSUME NEW g \in Handler, hpc'[g] = "send"
        PROVE  /\ hid'[g] \in Key
               /\ \A u \in User : held'[u] = hid'[g] => hres'[g].query.user = u /\ hres'[g].query.seq = sent'[u]
               /\ Computed(hres[g]) /\ hres'[g] = hres[g]
    <3>1. g # h /\ hid'[g] = hid[g] /\ hid[g] # i /\ hpc[g] = "send" /\ hres'[g] = hres[g]
      BY <1>1, <1>3, <2>6
    <3>2. QED
      BY <2>1, <3>1 DEF Orderly
  <2>7. QED
    BY <1>3, <2>3, <2>4, <2>5, <2>6 DEF Computed
<1>10. QED
  BY <1>3, <1>5, <1>6, <1>7, <1>8, <1>9 DEF Orderly

\* From the queue to the thread.
LEMMA PopQueryOrderly ==
  ASSUME TypeOK, Orderly, NEW t \in CalcThread, PopQuery(t)
  PROVE  Orderly' /\ \A id : Somewhere(id)' <=> Somewhere(id)
<1> DEFINE i == front(qque)
<1>1. i \in Keys(qque) /\ i \in Key /\ qque[i] \in Query /\ t \notin Busy
  BY FrontIsSmallest DEF PopQuery, TypeOK, Keys, Maps, Busy
<1>2. /\ Keys(qque') = Keys(qque) \ {i}
      /\ \A id \in Keys(qque) \ {i} : qque'[id] = qque[id]
  BY <1>1, EraseOne DEF PopQuery, TypeOK
<1>3. /\ rque' = rque /\ proc' = proc /\ sent' = sent /\ held' = held
      /\ UNCHANGED handlerVars
      /\ tpc'[t] = "compute" /\ job'[t].id = i /\ job'[t].query = qque[i]
      /\ \A r \in CalcThread \ {t} : tpc'[r] = tpc[r] /\ job'[r] = job[r]
      /\ Busy' = Busy \cup {t}
  BY DEF PopQuery, TypeOK, userVars, Busy
<1>4. /\ \A id : \A r \in CalcThread : Computes(r, id)' <=> Computes(r, id) \/ (r = t /\ id = i)
      /\ \A id : \A g \in Handler : Sends(g, id)' <=> Sends(g, id)
  BY <1>1, <1>3 DEF Computes, Sends, handlerVars
<1>5. \A id : Somewhere(id)' <=> Somewhere(id)
  BY <1>1, <1>2, <1>3, <1>4 DEF Somewhere
<1>6. Separate'
  BY <1>1, <1>2, <1>3, <1>4 DEF Orderly, Separate
<1>7. Fresh'
  BY <1>3, <1>5 DEF Orderly, Fresh, handlerVars
<1>8. OneHolder'
  BY <1>3 DEF Orderly, OneHolder
<1>9. Owned'
  <2> USE DEF Owned, OwnedBy
  <2>1. OwnedBy(i, qque[i])
    BY <1>1 DEF Orderly
  <2>2. \A id \in Keys(qque') : OwnedBy(id, qque[id]) /\ qque'[id] = qque[id]
    BY <1>2 DEF Orderly
  <2>3. \A s \in Busy \cup {t} :
          /\ \A u \in User : held[u] = job'[s].id =>
               job'[s].query.user = u /\ job'[s].query.seq = sent[u]
          /\ tpc'[s] # "compute" => s # t /\ Computed(job[s]) /\ job'[s] = job[s]
    BY <1>1, <1>3, <2>1 DEF Orderly, Busy
  <2>4. \A g \in Handler : hpc[g] = "send" =>
          hid[g] \in Key /\ OwnedBy(hid[g], hres[g].query) /\ Computed(hres[g])
    BY DEF Orderly
  <2>5. QED
    BY <1>3, <2>2, <2>3, <2>4 DEF Orderly, Computed, handlerVars
<1>10. QED
  BY <1>3, <1>5, <1>6, <1>7, <1>8, <1>9 DEF Orderly

\* From the thread to the results.
LEMMA PushResultOrderly ==
  ASSUME TypeOK, Orderly, NEW t \in CalcThread, PushResult(t)
  PROVE  Orderly' /\ \A id : Somewhere(id)' <=> Somewhere(id)
<1> DEFINE i == job[t].id
           r == [query |-> job[t].query, status |-> job[t].status]
<1>1. i \in Key /\ r \in Result /\ t \in Busy /\ Computes(t, i)
  BY DEF PushResult, TypeOK, Job, Result, Busy, Computes
<1>2. /\ Keys(rque') = Keys(rque) \cup {i} /\ rque'[i] = r
      /\ \A id \in Keys(rque) : rque'[id] = rque[id]
  <2>1. i \in Key \ Keys(rque) /\ rque \in Maps(Result) /\ NoEntry \notin Result
    BY <1>1, NoEntryAssumption DEF Orderly, Separate, TypeOK
  <2>2. QED
    BY <1>1, <2>1, EmplaceNew DEF PushResult
<1>3. /\ qque' = qque /\ proc' = proc /\ sent' = sent /\ held' = held
      /\ UNCHANGED handlerVars
      /\ \A s \in CalcThread \ {t} : tpc'[s] = tpc[s] /\ job'[s] = job[s]
      /\ Busy' = Busy \ {t}
  BY DEF PushResult, TypeOK, userVars, Busy
<1>4. /\ \A id : \A s \in CalcThread : Computes(s, id)' <=> Computes(s, id) /\ s # t
      /\ \A id : \A g \in Handler : Sends(g, id)' <=> Sends(g, id)
  BY <1>1, <1>3 DEF Computes, Sends, handlerVars
<1>5. \A id : Somewhere(id)' <=> Somewhere(id)
  BY <1>1, <1>2, <1>3, <1>4 DEF Somewhere, Computes
<1>6. Separate'
  BY <1>1, <1>2, <1>3, <1>4 DEF Orderly, Separate
<1>7. Fresh'
  BY <1>3, <1>5 DEF Orderly, Fresh, handlerVars
<1>8. OneHolder'
  BY <1>3 DEF Orderly, OneHolder
<1>9. Owned'
  <2>1. tpc[t] = "emplace" /\ Computed(job[t]) /\ OwnedBy(i, job[t].query)
    BY <1>1 DEF PushResult, Orderly, Owned
  <2> USE DEF Owned, OwnedBy
  <2>2. \A id \in Keys(rque') :
          /\ \A u \in User : held[u] = id =>
               rque'[id].query.user = u /\ rque'[id].query.seq = sent[u]
          /\ rque'[id].status = rque'[id].query.shape.member
    <3>1. OwnedBy(i, r.query) /\ Computed(r)
      BY <2>1 DEF Computed
    <3>2. \A id \in Keys(rque) : OwnedBy(id, rque[id].query) /\ Computed(rque[id])
      BY DEF Orderly
    <3>3. QED
      BY <1>2, <3>1, <3>2 DEF Computed
  <2>3. \A s \in Busy \ {t} : /\ OwnedBy(job[s].id, job[s].query)
                              /\ tpc[s] # "compute" => Computed(job[s])
                              /\ tpc'[s] = tpc[s] /\ job'[s] = job[s]
    BY <1>3 DEF Orderly, Busy
  <2>4. \A g \in Handler : hpc[g] = "send" =>
          hid[g] \in Key /\ OwnedBy(hid[g], hres[g].query) /\ Computed(hres[g])
    BY DEF Orderly
  <2>5. QED
    BY <1>3, <2>2, <2>3, <2>4 DEF Orderly, Computed, handlerVars
<1>10. QED
  BY <1>3, <1>5, <1>6, <1>7, <1>8, <1>9 DEF Orderly

\* From the results to the handler that polled for it.
LEMMA PopResultOrderly ==
  ASSUME TypeOK, Orderly, NEW h \in Handler, PopResult(h)
  PROVE  Orderly' /\ \A id : Somewhere(id)' <=> Somewhere(id)
<1> DEFINE i == hid[h]
<1>1. i \in Keys(rque) /\ i \in Key /\ rque[i] \in Result /\ hpc[h] = "poll"
  BY DEF PopResult, TypeOK, Keys, Maps
<1>2. /\ Keys(rque') = Keys(rque) \ {i}
      /\ \A id \in Keys(rque) \ {i} : rque'[id] = rque[id]
  BY <1>1, EraseOne DEF PopResult, TypeOK
<1>3. /\ qque' = qque /\ proc' = proc /\ sent' = sent /\ held' = held /\ hid' = hid
      /\ tpc' = tpc /\ job' = job /\ Busy' = Busy
      /\ \A g \in Handler \ {h} : hpc'[g] = hpc[g] /\ hres'[g] = hres[g]
      /\ hpc'[h] = "send" /\ hres'[h] = rque[i]
  BY DEF PopResult, TypeOK, userVars, threadVars, Busy
<1>4. /\ \A id : \A s \in CalcThread : Computes(s, id)' <=> Computes(s, id)
      /\ \A id : \A g \in Handler : Sends(g, id)' <=> Sends(g, id) \/ (g = h /\ id = i)
  BY <1>1, <1>3 DEF Computes, Sends
<1>5. \A id : Somewhere(id)' <=> Somewhere(id)
  BY <1>1, <1>2, <1>3, <1>4 DEF Somewhere
<1>6. Separate'
  BY <1>1, <1>2, <1>3, <1>4 DEF Orderly, Separate
<1>7. Fresh'
  BY <1>1, <1>3, <1>5 DEF Orderly, Fresh
<1>8. OneHolder'
  BY <1>3 DEF Orderly, OneHolder
<1>9. Owned'
  BY <1>1, <1>2, <1>3 DEF Orderly, Owned, OwnedBy, Computed
<1>10. QED
  BY <1>3, <1>5, <1>6, <1>7, <1>8, <1>9 DEF Orderly

\* Out of the server: its user no longer holds the id.
LEMMA SendResultOrderly ==
  ASSUME TypeOK, Connections, Orderly, NEW h \in Handler, SendResult(h)
  PROVE  Orderly' /\ \A id : Somewhere(id) /\ id # hid[h] => Somewhere(id)'
<1> DEFINE i == hid[h]
<1>1. hpc[h] = "send" /\ i \in Key /\ Sends(h, i)
  BY DEF SendResult, Orderly, Owned, Sends
<1>2. /\ qque' = qque /\ rque' = rque /\ proc' = proc /\ sent' = sent
      /\ tpc' = tpc /\ job' = job /\ Busy' = Busy
      /\ \A g \in Handler \ {h} : hpc'[g] = hpc[g] /\ hres'[g] = hres[g] /\ hid'[g] = hid[g]
      /\ hpc'[h] = "free" /\ hid'[h] = None
      /\ \A u \in User : held'[u] = IF u = conn[h] THEN None ELSE held[u]
  BY DEF SendResult, Reply, Free, TypeOK, threadVars, Busy
<1>3. /\ \A id : \A s \in CalcThread : Computes(s, id)' <=> Computes(s, id)
      /\ \A id : \A g \in Handler : Sends(g, id)' <=> Sends(g, id) /\ g # h
  BY <1>1, <1>2 DEF Computes, Sends
<1>4. \A id : /\ Somewhere(id)' => Somewhere(id)
              /\ Somewhere(id) /\ id # i => Somewhere(id)'
  BY <1>2, <1>3 DEF Somewhere, Sends
<1>5. Separate'
  BY <1>1, <1>2, <1>3 DEF Orderly, Separate
<1>6. Fresh'
  BY <1>2, <1>4, NoIds DEF Orderly, Fresh, TypeOK
<1>7. OneHolder'
  BY <1>2, NoIds DEF Orderly, OneHolder
<1>8. Owned'
  BY <1>2, NoIds DEF Orderly, Owned, OwnedBy, Computed, TypeOK, Keys, Busy, Job
<1>9. QED
  BY <1>2, <1>4, <1>5, <1>6, <1>7, <1>8 DEF Orderly
-----------------------------------------------------------------------------
(***************************************************************************)
(* The invariant, and what follows from it.                                *)
(***************************************************************************)
\* What holds of connections always, and of ids until one is repeated.
IdsInv == Connections /\ (~collided => Orderly)

\* Nothing is anywhere at first.
LEMMA InitIds == Init => Connections /\ Orderly
<1>1. SUFFICES ASSUME Init PROVE Connections /\ Orderly
  OBVIOUS
<1>2. /\ Busy = {} /\ Keys(qque) = {} /\ Keys(rque) = {}
      /\ \A h \in Handler : hpc[h] = "free" /\ conn[h] = None
      /\ \A u \in User : held[u] \notin Key
  BY <1>1, NoIds DEF Init, Busy, Keys, EmptyMap
<1>3. \A id : ~Somewhere(id)
  BY <1>2 DEF Somewhere, Computes, Sends
<1>4. Separate /\ Owned
  BY <1>2 DEF Separate, Owned, Computes, Sends
<1>5. Fresh /\ OneHolder
  BY <1>2 DEF Fresh, OneHolder
<1>6. Connections
  BY <1>2 DEF Connections, QueryPc
<1>7. QED
  BY <1>1, <1>4, <1>5, <1>6 DEF Orderly, Init

\* No step takes back that an id has been repeated.
LEMMA CollidedStays == Next /\ collided => collided'
<1>1. SUFFICES ASSUME Next, collided PROVE collided'
  OBVIOUS
<1> USE DEF idVars
<1>2. ASSUME NEW h \in Handler, HandlerStep(h) \/ DropConnection(h) PROVE collided'
  <2>1. CASE DrawId(h)
    BY <1>1, <2>1 DEF DrawId
  <2>2. CASE UNCHANGED collided
    BY <1>1, <2>2
  <2>3. QED
    BY <1>2, <2>1, <2>2 DEF HandlerStep, DropConnection, CheckQueries, CheckResults, SeedRandom,
       FindQueryId, PushQuery, PopResult, SendResult
<1>3. UNCHANGED collided => collided'
  BY <1>1
<1>4. ASSUME NEW t \in CalcThread, ThreadStep(t) \/ Stop(t) PROVE UNCHANGED collided
  BY <1>4 DEF ThreadStep, Stop, PopQuery, Compute, FindResultId, PushResult
<1>5. ASSUME NEW u \in User, UserStep(u) PROVE UNCHANGED collided
  BY <1>5 DEF UserStep, ReceiveQuery, ReceiveResultRequest
<1>6. QED
  BY <1>1, <1>2, <1>3, <1>4, <1>5 DEF Next

\* Until gen_uuid repeats an id, every id is in one place, known to nobody
\* before it is pushed, and held by the user whose last query it stands for.
THEOREM IdsStayInOrder == Spec => []IdsInv
<1>1. Init => IdsInv
  BY InitIds DEF IdsInv
<1>2. TypeOK /\ IdsInv /\ [Next]_vars => IdsInv'
  <2>1. SUFFICES ASSUME TypeOK, IdsInv, [Next]_vars PROVE IdsInv'
    OBVIOUS
  <2>2. CASE Next
    <3>1. Connections'
      BY <2>1, <2>2, ConnectionsKept DEF IdsInv
    <3>2. ASSUME ~collided' PROVE Orderly'
      <4>1. Connections /\ Orderly
        BY <2>1, <2>2, <3>2, CollidedStays DEF IdsInv
      <4>2. ASSUME NEW h \in Handler, HandlerStep(h) \/ DropConnection(h) PROVE Orderly'
        BY <2>1, <3>2, <4>1, <4>2, HandlerOrderly, PushQueryOrderly, PopResultOrderly,
           SendResultOrderly DEF HandlerStep
      <4>3. ASSUME NEW t \in CalcThread, ThreadStep(t) \/ Stop(t) PROVE Orderly'
        BY <2>1, <4>1, <4>3, ThreadStillOrderly, PopQueryOrderly, PushResultOrderly DEF ThreadStep
      <4>4. ASSUME NEW u \in User, UserStep(u) PROVE Orderly'
        BY <2>1, <3>2, <4>1, <4>4, HandlerOrderly DEF UserStep
      <4>5. QED
        BY <2>2, <4>2, <4>3, <4>4 DEF Next
    <3>3. QED
      BY <3>1, <3>2 DEF IdsInv
  <2>3. CASE UNCHANGED vars
    <3>1. Connections'
      BY <2>1, <2>3 DEF IdsInv, vars, Connections
    <3>2. ASSUME ~collided' PROVE Orderly'
      <4>1. Orderly /\ Still
        BY <2>1, <2>3, <3>2 DEF IdsInv, vars, Still, Busy
      <4>2. Fresh'
        BY <2>3, <4>1, StillSeparate DEF vars, Orderly, Fresh
      <4>3. \A t \in Busy : tpc'[t] # "compute" => job'[t].status = job'[t].query.shape.member
        BY <2>3, <4>1 DEF vars, Orderly, Owned, Computed
      <4>4. QED
        BY <2>1, <2>3, <4>1, <4>2, <4>3, StillOrderly DEF vars, Orderly
    <3>3. QED
      BY <3>1, <3>2 DEF IdsInv
  <2>4. QED
    BY <2>1, <2>2, <2>3
<1>3. QED
  BY <1>1, <1>2, TypeCorrect, PTL DEF Spec
-----------------------------------------------------------------------------
\* A set without two different elements.
LEMMA AtMostOne ==
  ASSUME NEW S, \A x, y \in S : x = y
  PROVE  /\ Cardinality(S) \in {0, 1}
         /\ Cardinality(S) = 0 <=> S = {}
<1>1. CASE S = {}
  BY <1>1, FS_EmptySet
<1>2. CASE S # {}
  <2>1. PICK x \in S : TRUE
    BY <1>2
  <2>2. S = {x}
    BY <2>1
  <2>3. Cardinality({x}) = 1
    BY FS_Singleton
  <2>4. QED
    BY <1>2, <2>2, <2>3
<1>3. QED
  BY <1>1, <1>2

\* The counts of Places, from the places themselves.
LEMMA PlacesOfOneId ==
  ASSUME Separate, NEW id \in Key
  PROVE  /\ Places(id) \in {0, 1}
         /\ Somewhere(id) <=> Places(id) # 0
<1> DEFINE M == {m \in {"query", "result"} : id \in Keys(IF m = "query" THEN qque ELSE rque)}
           T == {t \in Busy : job[t].id = id}
           H == {h \in Handler : hpc[h] = "send" /\ hid[h] = id}
<1>1. /\ M = {} <=> id \notin Keys(qque) \cup Keys(rque)
      /\ T = {} <=> \A t \in CalcThread : ~Computes(t, id)
      /\ H = {} <=> \A h \in Handler : ~Sends(h, id)
  BY DEF Computes, Sends, Busy
<1>2. /\ \A x, y \in M : x = y
      /\ \A x, y \in T : x = y
      /\ \A x, y \in H : x = y
  BY DEF Separate, Computes, Sends, Busy
<1>3. M # {} => T = {} /\ H = {}
  BY <1>1 DEF Separate
<1>4. T # {} => H = {}
  BY <1>1 DEF Separate
<1>5. Somewhere(id) <=> M # {} \/ T # {} \/ H # {}
  BY <1>1 DEF Somewhere
<1>6. /\ Cardinality(M) \in {0, 1} /\ (Cardinality(M) = 0 <=> M = {})
      /\ Cardinality(T) \in {0, 1} /\ (Cardinality(T) = 0 <=> T = {})
      /\ Cardinality(H) \in {0, 1} /\ (Cardinality(H) = 0 <=> H = {})
  BY <1>2, AtMostOne
<1>7. Places(id) = Cardinality(M) + Cardinality(T) + Cardinality(H)
  BY DEF Places
<1> HIDE DEF M, T, H
<1>8. QED
  BY <1>3, <1>4, <1>5, <1>6, <1>7

\* Whatever the handlers, the calculation threads and the users interleave, a
\* query is never in two places, and no thread dies of a duplicate result,
\* unless gen_uuid has repeated an id.
THEOREM NoQueryIsDuplicated == Spec => [](InOnePlace /\ DuplicateOnlyByCollision)
<1>1. IdsInv => InOnePlace
  BY PlacesOfOneId DEF IdsInv, Orderly, InOnePlace
<1>2. IdsInv => DuplicateOnlyByCollision
  BY DEF IdsInv, Orderly, DuplicateOnlyByCollision
<1>3. QED
  BY <1>1, <1>2, IdsStayInOrder, PTL
-----------------------------------------------------------------------------
(***************************************************************************)
(* What takes a query out of the server.                                   *)
(***************************************************************************)
Leaves(id) == proc = "running" /\ Somewhere(id) /\ ~(proc' = "running" /\ Somewhere(id)')

\* AcceptedNotLost of one step, with the places of a query one by one.
StepLosesNothing ==
  /\ \A u \in User : held'[u] \in Key /\ held'[u] # held[u] =>
       proc' = "running" /\ \A id \in Key : id = held'[u] => Somewhere(id)'
  /\ \A id \in Key : Leaves(id) => Answering(id) \/ Ending

\* The steps that move no query give no id to a user, and end the process for
\* the two reasons only.
LEMMA StillLosesNothing ==
  ASSUME Still, proc' = proc \/ Ending,
         \A u \in User : held'[u] \in Key => held'[u] = held[u]
  PROVE  StepLosesNothing
BY StillSeparate DEF StepLosesNothing, Leaves

\* No step of a handler or a user loses a query.
LEMMA HandlerLosesNothing ==
  ASSUME TypeOK, Connections, Orderly, NEW h \in Handler,
         \/ HandlerStep(h) \/ DropConnection(h)
         \/ \E u \in User : ReceiveResultRequest(u, h)
         \/ \E u \in User, s \in Shapes : ReceiveQuery(u, h, s)
  PROVE  StepLosesNothing
<1> USE DEF TypeOK, QueryPc, threadVars, idVars, userVars
<1>1. None \notin Key /\ -1 \notin Key
  BY NoIds
<1>2. CASE CheckQueries(h) \/ CheckResults(h) \/ FindQueryId(h)
  <2>1. Still
    BY <1>2 DEF Still, Busy, CheckQueries, CheckResults, FindQueryId, Proceed, Refuse, Reply, Free
  <2>2. proc' = proc /\ \A u \in User : held'[u] \in Key => held'[u] = held[u]
    BY <1>1, <1>2 DEF CheckQueries, CheckResults, FindQueryId, Proceed, Refuse, Reply
  <2> QED  BY <2>1, <2>2, StillLosesNothing
<1>3. CASE \/ SeedRandom(h) \/ DrawId(h) \/ DropConnection(h)
           \/ \E u \in User : ReceiveResultRequest(u, h)
           \/ \E u \in User, s \in Shapes : ReceiveQuery(u, h, s)
  <2>1. Still
    BY <1>3 DEF Still, Busy, SeedRandom, DrawId, DropConnection, ReceiveResultRequest, ReceiveQuery
  <2>2. proc' = proc /\ \A u \in User : held'[u] \in Key => held'[u] = held[u]
    BY <1>1, <1>3 DEF SeedRandom, DrawId, DropConnection, ReceiveResultRequest, ReceiveQuery
  <2> QED  BY <2>1, <2>2, StillLosesNothing
<1>4. CASE PushQuery(h)
  <2>1. \A id : Somewhere(id)' <=> Somewhere(id) \/ id = hid[h]
    BY <1>4, PushQueryOrderly
  <2>2. /\ proc = "running" /\ proc' = proc
        /\ \A u \in User : held'[u] # held[u] => held'[u] = hid[h]
    BY <1>4 DEF PushQuery, Reply
  <2> QED  BY <2>1, <2>2 DEF StepLosesNothing, Leaves
<1>5. CASE PopResult(h)
  <2>1. \A id : Somewhere(id)' <=> Somewhere(id)
    BY <1>5, PopResultOrderly
  <2>2. proc' = proc /\ held' = held
    BY <1>5 DEF PopResult
  <2> QED  BY <2>1, <2>2 DEF StepLosesNothing, Leaves
<1>6. CASE SendResult(h)
  <2>1. \A id : Somewhere(id) /\ id # hid[h] => Somewhere(id)'
    BY <1>6, SendResultOrderly
  <2>2. /\ proc' = proc /\ hpc[h] = "send" /\ hpc'[h] = "free"
        /\ \A u \in User : held'[u] = IF u = conn[h] THEN None ELSE held[u]
    BY <1>6 DEF SendResult, Reply, Free
  <2>3. conn[h] # None => conn[h] \in User /\ held[conn[h]] = hid[h]
    BY <2>2 DEF Connections
  <2>4. Answering(hid[h])
    BY <2>2, <2>3 DEF Answering
  <2> QED  BY <1>1, <2>1, <2>2, <2>4 DEF StepLosesNothing, Leaves
<1> QED  BY <1>2, <1>3, <1>4, <1>5, <1>6 DEF HandlerStep

\* A calculation thread moves its query on, or ends the process; that it finds
\* a duplicate is what Orderly excludes.
LEMMA ThreadLosesNothing ==
  ASSUME TypeOK, Orderly, NEW t \in CalcThread, ThreadStep(t) \/ Stop(t)
  PROVE  StepLosesNothing
<1> USE DEF TypeOK, handlerVars, userVars
<1>1. held' = held
  BY DEF ThreadStep, PopQuery, Compute, FindResultId, PushResult, Stop
<1>2. CASE PopQuery(t) \/ PushResult(t)
  <2>1. \A id : Somewhere(id)' <=> Somewhere(id)
    BY <1>2, PopQueryOrderly, PushResultOrderly
  <2>2. proc' = proc
    BY <1>2 DEF PopQuery, PushResult
  <2> QED  BY <1>1, <2>1, <2>2 DEF StepLosesNothing, Leaves
<1>3. CASE Compute(t) \/ FindResultId(t) \/ Stop(t)
  <2>1. Still
    BY <1>3 DEF Still, Busy, Compute, FindResultId, Stop, Job
  <2>2. proc' = proc \/ Ending
    <3>1. CASE Compute(t)  BY <3>1 DEF Compute, Ending
    <3>2. CASE Stop(t)  BY <3>2 DEF Stop
    <3>3. CASE FindResultId(t)
      <4>1. proc' # "duplicate_result"
        BY <1>3, ThreadStillOrderly DEF Orderly
      <4> QED  BY <3>3, <4>1 DEF FindResultId
    <3> QED  BY <1>3, <3>1, <3>2, <3>3
  <2> QED  BY <1>1, <2>1, <2>2, StillLosesNothing
<1> QED  BY <1>2, <1>3 DEF ThreadStep

\* A query whose id was returned leaves the server with the reply to its user,
\* or with the process when a computation throws, unless gen_uuid repeats an id.
THEOREM AcceptedQueriesAreNotLost == Spec => AcceptedNotLost
<1> DEFINE InPlaces == \A id \in Key : Somewhere(id) <=> Places(id) # 0
<1>1. IdsInv /\ ~collided => InPlaces
  BY PlacesOfOneId DEF IdsInv, Orderly
<1>2. ASSUME TypeOK, IdsInv, ~collided', [Next]_vars
      PROVE  StepLosesNothing \/ UNCHANGED vars
  <2>1. CASE Next
    <3>1. Connections /\ Orderly
      BY <1>2, <2>1, CollidedStays DEF IdsInv
    <3>2. ASSUME NEW h \in Handler, HandlerStep(h) \/ DropConnection(h)
          PROVE  StepLosesNothing
      BY <1>2, <3>1, <3>2, HandlerLosesNothing
    <3>3. ASSUME NEW t \in CalcThread, ThreadStep(t) \/ Stop(t)
          PROVE  StepLosesNothing
      BY <1>2, <3>1, <3>3, ThreadLosesNothing
    <3>4. ASSUME NEW u \in User, UserStep(u)
          PROVE  StepLosesNothing
      BY <1>2, <3>1, <3>4, HandlerLosesNothing DEF UserStep
    <3> QED  BY <2>1, <3>2, <3>3, <3>4 DEF Next
  <2> QED  BY <1>2, <2>1
<1>3. ASSUME TypeOK, IdsInv, ~collided => InPlaces, (~collided => InPlaces)', [Next]_vars
      PROVE  [~collided' =>
                /\ \A u \in User : held'[u] \in Key /\ held'[u] # held[u] => HasQuery(held[u])'
                /\ \A id \in Key : HasQuery(id) /\ ~HasQuery(id)' => Answering(id) \/ Ending]_vars
  <2> SUFFICES ASSUME Next, ~collided', ~UNCHANGED vars
               PROVE  /\ \A u \in User : held'[u] \in Key /\ held'[u] # held[u] => HasQuery(held[u])'
                      /\ \A id \in Key : HasQuery(id) /\ ~HasQuery(id)' => Answering(id) \/ Ending
    BY <1>3
  <2>1. ~collided
    BY CollidedStays
  <2>2. /\ \A id \in Key : HasQuery(id) <=> proc = "running" /\ Somewhere(id)
        /\ \A id \in Key : HasQuery(id)' <=> proc' = "running" /\ Somewhere(id)'
    BY <1>3, <2>1 DEF HasQuery
  <2>3. StepLosesNothing
    BY <1>2, <1>3
  <2>4. ASSUME NEW u \in User, held'[u] \in Key, held'[u] # held[u]
        PROVE  HasQuery(held[u])'
    <3>1. proc' = "running" /\ Somewhere(held[u])'
      BY <2>3, <2>4 DEF StepLosesNothing
    <3> QED  BY <1>3, <2>4, <3>1 DEF HasQuery
  <2>5. \A id \in Key : HasQuery(id) /\ ~HasQuery(id)' => Answering(id) \/ Ending
    BY <2>2, <2>3 DEF StepLosesNothing, Leaves
  <2> QED  BY <2>4, <2>5
<1>4. IdsInv => (~collided => InPlaces)
  BY <1>1
<1> QED  BY <1>3, <1>4, TypeCorrect, IdsStayInOrder, PTL DEF Spec, AcceptedNotLost

\* The result that is sent to a connected user is that of its last query, with
\* the status of its computation, unless gen_uuid has repeated an id.
THEOREM ResultsReachTheirUsers == Spec => []OwnResult
<1>1. TypeOK /\ IdsInv => OwnResult
  BY DEF IdsInv, Orderly, Owned, OwnedBy, Computed, Connections, OwnResult, TypeOK
<1>2. QED
  BY <1>1, TypeCorrect, IdsStayInOrder, PTL
=============================================================================
