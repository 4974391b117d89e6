------------------------------ MODULE CSServer ------------------------------
(***************************************************************************)
(* The query and result path of the ComputationServer: the two callback    *)
(* functions run by one handler thread per connection, CalcManager with    *)
(* its QueryQueue and ResultQueue, and the CalcThreads between them.       *)
(*                                                                         *)
(* One action is one access to state that threads share; what a thread     *)
(* does between two such accesses is part of the action before it.         *)
(***************************************************************************)
EXTENDS ConcurrentMapQueue

CONSTANTS
  User,                  \* clients of the server
  Handler,               \* connections with a request in progress, at most
  CalcThread,            \* the calculation threads
  MaxConcurrentQueries,  \* max_concurrent_queries_
  MaxResults,            \* max_results_
  Seconds,               \* bound: the values of time(nullptr)
  Rng,                   \* states of the C library's generator
  SRand,                 \* SRand[s]: the state that srand(s) sets
  Rand,                  \* Rand[r]: what rand() returns in r, and the next state
  MaxSubmits,            \* bound: queries a user sends
  Shapes,                \* the queries users send: see Shape
  Faults,                \* what may go wrong outside: see Fault
  None

Shape == [func : {0, 1, 2},     \* func_no: Nil, One or Two
          inputs : {1, 2},      \* number of ciphertexts in the query
          member : BOOLEAN]     \* does the LUT have these inputs?

Fault == {"dec",          \* Decryptor unreachable, or does not know the key
          "abandon",      \* users drop connections and forget queries
          "askRejected",  \* users ask for the result of id -1
          "stop"}         \* CalcThread::stop is called

ASSUME ServerAssumption ==
  /\ IsFiniteSet(Handler) /\ IsFiniteSet(CalcThread)
  /\ MaxConcurrentQueries \in Nat \ {0} /\ MaxResults \in Nat \ {0}
  /\ MaxSubmits \in Nat
  /\ Seconds # {} /\ Shapes \subseteq Shape /\ Faults \subseteq Fault
  /\ None \notin User /\ None \notin Int

ASSUME RandAssumption ==
  /\ SRand \in [Seconds -> Rng]
  /\ Rand \in [Rng -> [value : Key, next : Rng]]

VARIABLES
  rng,           \* the state of srand and rand, one per process
  qque,          \* CalcManager::qque_
  rque,          \* CalcManager::rque_
  hpc,           \* where each handler is
  conn,          \* the user still connected to a handler
  hqry,          \* the query a handler received
  hid,           \* the query id it received or generated
  hres,          \* the result it popped
  tpc,           \* where each calculation thread is
  job,           \* the query a thread popped, with its id and status
  force_finish,  \* CalcThreadParam::force_finish of each thread
  proc,          \* "running", or the exception that ended the process
  held,          \* the query id a user holds
  sent,          \* queries a user has sent
  collided       \* history: gen_uuid has returned an id that was in use

handlerVars == <<hpc, conn, hqry, hid, hres>>
threadVars == <<tpc, job, force_finish>>
userVars == <<held, sent>>
idVars == <<rng, collided>>
vars == <<rng, qque, rque, hpc, conn, hqry, hid, hres, tpc, job,
          force_finish, proc, held, sent, collided>>

Query == [user : User, seq : 1 .. MaxSubmits, shape : Shapes]
Result == [query : Query, status : BOOLEAN]
Job == [id : Key, query : Query, status : BOOLEAN]
QueryId == Key \cup {-1}

\* What marks an absent key is no entry.
ASSUME NoEntryAssumption == NoEntry \notin Query \cup Result

Init ==
  /\ rng = (CHOOSE r \in Rng : TRUE) /\ collided = FALSE
  /\ qque = EmptyMap /\ rque = EmptyMap
  /\ hpc = [h \in Handler |-> "free"]
  /\ conn = [h \in Handler |-> None]
  /\ hqry = [h \in Handler |-> None]
  /\ hid = [h \in Handler |-> None]
  /\ hres = [h \in Handler |-> None]
  /\ tpc = [t \in CalcThread |-> "pop"]
  /\ job = [t \in CalcThread |-> None]
  /\ force_finish = [t \in CalcThread |-> FALSE]
  /\ proc = "running"
  /\ held = [u \in User |-> None] /\ sent = [u \in User |-> 0]

Connected(u) == \E h \in Handler : conn[h] = u

InUse(id) ==
  \/ id \in Keys(qque) \cup Keys(rque)
  \/ \E t \in CalcThread : tpc[t] \in {"compute", "find", "emplace"} /\ job[t].id = id
  \/ \E h \in Handler : hid[h] = id
  \/ \E u \in User : held[u] = id
-----------------------------------------------------------------------------
(***************************************************************************)
(* CallbackFunctionQuery and CalcManager::push_query.                      *)
(***************************************************************************)
At(h, from) == proc = "running" /\ hpc[h] = from
Goto(h, to) == hpc' = [hpc EXCEPT ![h] = to]

Free(h) ==
  /\ Goto(h, "free")
  /\ conn' = [conn EXCEPT ![h] = None]
  /\ hqry' = [hqry EXCEPT ![h] = None]
  /\ hid' = [hid EXCEPT ![h] = None]
  /\ hres' = [hres EXCEPT ![h] = None]

\* The callback receives a query.  Nothing checks its inputs against func_no.
ReceiveQuery(u, h, s) ==
  /\ At(h, "free") /\ ~Connected(u)
  /\ sent[u] < MaxSubmits
  /\ held[u] \in {None, -1} \/ "abandon" \in Faults
  /\ Goto(h, "checkQ")
  /\ conn' = [conn EXCEPT ![h] = u]
  /\ hqry' = [hqry EXCEPT ![h] = [user |-> u, seq |-> sent[u] + 1, shape |-> s]]
  /\ sent' = [sent EXCEPT ![u] = @ + 1]
  /\ held' = [held EXCEPT ![u] = None]
  /\ UNCHANGED <<idVars, qque, rque, hid, hres, threadVars, proc>>

\* The answer to the query, if the user is still there, and the end of the
\* callback.
Reply(h, id) ==
  /\ held' = [u \in User |-> IF u = conn[h] THEN id ELSE held[u]]
  /\ Free(h)

Refuse(h) == Reply(h, -1) /\ UNCHANGED sent

Proceed(h, to) == Goto(h, to) /\ UNCHANGED <<conn, hqry, hid, hres, userVars>>

\* Mutant: the limit is tested with <=.
CheckQueriesOffByOne(h) ==
  /\ At(h, "checkQ")
  /\ IF size(qque) <= MaxConcurrentQueries
       THEN Proceed(h, "checkR")
       ELSE Refuse(h)
  /\ UNCHANGED <<idVars, qque, rque, threadVars, proc>>

\* qque_.size() < max_concurrent_queries_, read without the lock.
CheckQueries(h) ==
  /\ At(h, "checkQ")
  /\ IF size(qque) < MaxConcurrentQueries
       THEN Proceed(h, "checkR")
       ELSE Refuse(h)
  /\ UNCHANGED <<idVars, qque, rque, threadVars, proc>>

\* Mutant: the results are not counted.
CheckResultsDropped(h) ==
  /\ At(h, "checkR")
  /\ Proceed(h, "seed")
  /\ UNCHANGED <<idVars, qque, rque, threadVars, proc>>

\* rque_.size() < max_results_, read without the lock.
CheckResults(h) ==
  /\ At(h, "checkR")
  /\ IF size(rque) < MaxResults
       THEN Proceed(h, "seed")
       ELSE Refuse(h)
  /\ UNCHANGED <<idVars, qque, rque, threadVars, proc>>

\* gen_uuid: srand(time(nullptr)), then rand(), on one state per process.  Two
\* calls may read the same second.
SeedRandom(h) ==
  /\ At(h, "seed")
  /\ Goto(h, "draw")
  /\ \E second \in Seconds : rng' = SRand[second]
  /\ UNCHANGED <<collided, qque, rque, conn, hqry, hid, hres, threadVars,
                 proc, userVars>>

DrawId(h) ==
  /\ At(h, "draw")
  /\ Goto(h, "find")
  /\ LET id == Rand[rng].value
     IN  /\ hid' = [hid EXCEPT ![h] = id]
         /\ collided' = (collided \/ InUse(id))
  /\ rng' = Rand[rng].next
  /\ UNCHANGED <<qque, rque, conn, hqry, hres, threadVars, proc, userVars>>

QueriesRacing(h) ==
  \/ \E g \in Handler \ {h} : hpc[g] = "emplace"
  \/ \E t \in CalcThread : tpc[t] = "pop"

\* The unlocked count() of ConcurrentMapQueue::push: InvParam is thrown when
\* the key is there, and push_query turns it into -1.
FindQueryId(h) ==
  /\ At(h, "find")
  /\ \E found \in count(qque, hid[h], QueriesRacing(h)) :
       IF found THEN Refuse(h) ELSE Proceed(h, "emplace")
  /\ UNCHANGED <<idVars, qque, rque, threadVars, proc>>

\* The locked emplace of push.  The id is returned whether or not it inserted.
PushQuery(h) ==
  /\ At(h, "emplace")
  /\ qque' = emplace(qque, hid[h], hqry[h])
  /\ Reply(h, hid[h])
  /\ UNCHANGED <<idVars, rque, threadVars, proc, sent>>
-----------------------------------------------------------------------------
(***************************************************************************)
(* CallbackFunctionResultRequest and CalcManager::pop_result.              *)
(***************************************************************************)
ReceiveResultRequest(u, h) ==
  /\ At(h, "free") /\ ~Connected(u)
  /\ held[u] # None
  /\ held[u] # -1 \/ "askRejected" \in Faults
  /\ Goto(h, "poll")
  /\ conn' = [conn EXCEPT ![h] = u]
  /\ hid' = [hid EXCEPT ![h] = held[u]]
  /\ UNCHANGED <<idVars, qque, rque, hqry, hres, threadVars, proc, userVars>>

\* Mutant: the retry loop is gone, a failed pop leaves the result unset.
PopResultOnce(h) ==
  /\ At(h, "poll")
  /\ Goto(h, "send")
  /\ hres' = [hres EXCEPT ![h] = IF hid[h] \in Key THEN rque[hid[h]] ELSE NoEntry]
  /\ rque' = [k \in Key |-> IF k = hid[h] THEN NoEntry ELSE rque[k]]
  /\ UNCHANGED <<idVars, qque, conn, hqry, hid, threadVars, proc, userVars>>

\* Mutant: the overload of pop that takes the first entry.
PopAnyResult(h) ==
  /\ At(h, "poll")
  /\ Keys(rque) # {}
  /\ Goto(h, "send")
  /\ hres' = [hres EXCEPT ![h] = rque[front(rque)]]
  /\ rque' = erase(rque, front(rque))
  /\ UNCHANGED <<idVars, qque, conn, hqry, hid, threadVars, proc, userVars>>

\* Mutant: get in place of pop.
GetResult(h) ==
  /\ At(h, "poll")
  /\ hid[h] \in Keys(rque)
  /\ Goto(h, "send")
  /\ hres' = [hres EXCEPT ![h] = rque[hid[h]]]
  /\ UNCHANGED <<idVars, qque, rque, conn, hqry, hid, threadVars, proc, userVars>>

\* pop_result polls until the pop succeeds: it has no other way out.
PopResult(h) ==
  /\ At(h, "poll")
  /\ hid[h] \in Keys(rque)
  /\ Goto(h, "send")
  /\ hres' = [hres EXCEPT ![h] = rque[hid[h]]]
  /\ rque' = erase(rque, hid[h])
  /\ UNCHANGED <<idVars, qque, conn, hqry, hid, threadVars, proc, userVars>>

\* The result is gone from rque_ whether or not anybody receives it.
SendResult(h) ==
  /\ At(h, "send")
  /\ Reply(h, None)
  /\ UNCHANGED <<idVars, qque, rque, threadVars, proc, sent>>

\* The user's end closes (a timeout, the client destroyed).  The handler
\* thread does not notice: it goes on with what it was doing.
DropConnection(h) ==
  /\ "abandon" \in Faults
  /\ proc = "running" /\ conn[h] # None
  /\ conn' = [conn EXCEPT ![h] = None]
  /\ UNCHANGED <<idVars, qque, rque, hpc, hqry, hid, hres, threadVars, proc,
                 userVars>>
-----------------------------------------------------------------------------
(***************************************************************************)
(* CalcThread::Impl::exec.  Nothing catches what it throws: an exception   *)
(* ends the process.                                                       *)
(***************************************************************************)
ThreadAt(t, from) == proc = "running" /\ tpc[t] = from
ThreadGoto(t, to) == tpc' = [tpc EXCEPT ![t] = to]

\* Mutant: get in place of pop.
GetQuery(t) ==
  /\ ThreadAt(t, "pop")
  /\ Keys(qque) # {}
  /\ LET id == front(qque)
     IN  job' = [job EXCEPT ![t] = [id |-> id, query |-> qque[id], status |-> FALSE]]
  /\ ThreadGoto(t, "compute")
  /\ UNCHANGED <<idVars, qque, rque, handlerVars, force_finish, proc, userVars>>

\* Mutant: the entry at the other end of the map.
PopLastQuery(t) ==
  /\ ThreadAt(t, "pop")
  /\ Keys(qque) # {}
  /\ LET id == CHOOSE k \in Keys(qque) : \A j \in Keys(qque) : j <= k
     IN  /\ job' = [job EXCEPT ![t] = [id |-> id, query |-> qque[id], status |-> FALSE]]
         /\ qque' = erase(qque, id)
  /\ ThreadGoto(t, "compute")
  /\ UNCHANGED <<idVars, rque, handlerVars, force_finish, proc, userVars>>

\* in_queue_.pop: the smallest id first.  The loop around it does not look
\* at force_finish.
PopQuery(t) ==
  /\ ThreadAt(t, "pop")
  /\ Keys(qque) # {}
  /\ LET id == front(qque)
     IN  /\ job' = [job EXCEPT ![t] = [id |-> id, query |-> qque[id], status |-> FALSE]]
         /\ qque' = erase(qque, id)
  /\ ThreadGoto(t, "compute")
  /\ UNCHANGED <<idVars, rque, handlerVars, force_finish, proc, userVars>>

TooFewInputs(q) == q.shape.func = 2 /\ q.shape.inputs < 2

\* preprocess, computeA and, when the Decryptor found the inputs, computeB.
Compute(t) ==
  /\ ThreadAt(t, "compute")
  /\ \/ /\ ~TooFewInputs(job[t].query)
        /\ job' = [job EXCEPT ![t].status = job[t].query.shape.member]
        /\ ThreadGoto(t, "find")
        /\ UNCHANGED proc
     \/ /\ TooFewInputs(job[t].query)
        /\ proc' = "bad_inputs"
        /\ UNCHANGED <<tpc, job>>
     \/ /\ "dec" \in Faults
        /\ proc' = "dec_failed"
        /\ UNCHANGED <<tpc, job>>
  /\ UNCHANGED <<idVars, qque, rque, handlerVars, force_finish, userVars>>

ResultsRacing(t) ==
  \/ \E r \in CalcThread \ {t} : tpc[r] = "emplace"
  \/ \E h \in Handler : hpc[h] = "poll" /\ hid[h] \in Keys(rque)

\* The unlocked count() of out_queue_.push: its InvParam is not caught.
FindResultId(t) ==
  /\ ThreadAt(t, "find")
  /\ \E found \in count(rque, job[t].id, ResultsRacing(t)) :
       IF found THEN proc' = "duplicate_result" /\ UNCHANGED tpc
                ELSE ThreadGoto(t, "emplace") /\ UNCHANGED proc
  /\ UNCHANGED <<idVars, qque, rque, handlerVars, job, force_finish, userVars>>

\* Mutant: only successful results are pushed.
PushGoodResult(t) ==
  /\ ThreadAt(t, "emplace")
  /\ rque' = IF job[t].status
               THEN emplace(rque, job[t].id, [query |-> job[t].query, status |-> TRUE])
               ELSE rque
  /\ job' = [job EXCEPT ![t] = None]
  /\ ThreadGoto(t, IF force_finish[t] THEN "done" ELSE "pop")
  /\ UNCHANGED <<idVars, qque, handlerVars, force_finish, proc, userVars>>

\* The locked emplace of out_queue_.push, and the test of the outer loop.
PushResult(t) ==
  /\ ThreadAt(t, "emplace")
  /\ rque' = emplace(rque, job[t].id,
                     [query |-> job[t].query, status |-> job[t].status])
  /\ job' = [job EXCEPT ![t] = None]
  /\ ThreadGoto(t, IF force_finish[t] THEN "done" ELSE "pop")
  /\ UNCHANGED <<idVars, qque, handlerVars, force_finish, proc, userVars>>

\* CalcThread::stop.  CalcManager::stop_threads only writes a log line.
Stop(t) ==
  /\ "stop" \in Faults
  /\ proc = "running"
  /\ force_finish' = [force_finish EXCEPT ![t] = TRUE]
  /\ UNCHANGED <<idVars, qque, rque, handlerVars, tpc, job, proc, userVars>>

-----------------------------------------------------------------------------
HandlerStep(h) ==
  \/ CheckQueries(h) \/ CheckResults(h) \/ SeedRandom(h) \/ DrawId(h)
  \/ FindQueryId(h) \/ PushQuery(h)
  \/ PopResult(h) \/ SendResult(h)

ThreadStep(t) == PopQuery(t) \/ Compute(t) \/ FindResultId(t) \/ PushResult(t)

UserStep(u) ==
  \E h \in Handler :
    \/ \E s \in Shapes : ReceiveQuery(u, h, s)
    \/ ReceiveResultRequest(u, h)

Next ==
  \/ \E h \in Handler : HandlerStep(h) \/ DropConnection(h)
  \/ \E t \in CalcThread : ThreadStep(t) \/ Stop(t)
  \/ \E u \in User : UserStep(u)

Spec == Init /\ [][Next]_vars

\* The operating system schedules every thread, and a user that holds an id
\* asks for its result (set_callback starts a ResultThread at once).
Fairness ==
  /\ \A h \in Handler : WF_vars(HandlerStep(h))
  /\ \A t \in CalcThread : WF_vars(ThreadStep(t))
  /\ \A u \in User : WF_vars(\E h \in Handler : ReceiveResultRequest(u, h))

FairSpec == Spec /\ Fairness
-----------------------------------------------------------------------------
(***************************************************************************)
(* What is checked.                                                        *)
(***************************************************************************)
HandlerPc == {"free", "checkQ", "checkR", "seed", "draw", "find", "emplace",
              "poll", "send"}
ThreadPc == {"pop", "compute", "find", "emplace", "done"}

\* Every variable has its type, and each thread has, at each point, what the
\* code after that point reads: an id once one is drawn, a query to push, a
\* result to send, a job to compute.
TypeOK ==
  /\ rng \in Rng /\ collided \in BOOLEAN
  /\ qque \in Maps(Query) /\ rque \in Maps(Result)
  /\ hpc \in [Handler -> HandlerPc]
  /\ conn \in [Handler -> User \cup {None}]
  /\ hqry \in [Handler -> Query \cup {None}]
  /\ hid \in [Handler -> QueryId \cup {None}]
  /\ hres \in [Handler -> Result \cup {None}]
  /\ \A h \in Handler :
       /\ hpc[h] \in {"checkQ", "checkR", "seed", "draw", "find", "emplace"}
            => hqry[h] \in Query
       /\ hpc[h] \in {"find", "emplace"} => hid[h] \in Key
       /\ hpc[h] \in {"poll", "send"} => hid[h] \in QueryId
       /\ hpc[h] = "send" => hres[h] \in Result
  /\ tpc \in [CalcThread -> ThreadPc]
  /\ job \in [CalcThread -> Job \cup {None}]
  /\ \A t \in CalcThread : tpc[t] \in {"compute", "find", "emplace"} => job[t] \in Job
  /\ force_finish \in [CalcThread -> BOOLEAN]
  /\ proc \in {"running", "dec_failed", "bad_inputs", "duplicate_result"}
  /\ held \in [User -> QueryId \cup {None}]
  /\ sent \in [User -> 0 .. MaxSubmits]

\* Handlers whose query the queue will yet receive: past the test of
\* qque_.size(), and past both tests.
PastQueryCheck == {h \in Handler : hpc[h] \in {"checkR", "seed", "draw", "find", "emplace"}}
Admitted == {h \in Handler : hpc[h] \in {"seed", "draw", "find", "emplace"}}
Busy == {t \in CalcThread : tpc[t] \in {"compute", "find", "emplace"}}

\* How far check-then-push may overshoot max_concurrent_queries_: every
\* handler may have seen the last free place, and no more than that.
QueueBound ==
  size(qque) + Cardinality(PastQueryCheck)
    <= MaxConcurrentQueries - 1 + Cardinality(Handler)

\* The queries in the server, waiting, computed or answered but not fetched.
\* max_results_ alone does not bound the results: a query is admitted by the
\* results stored at that moment, not by those on their way.
BacklogBound ==
  size(qque) + size(rque) + Cardinality(Admitted) + Cardinality(Busy)
    <= MaxConcurrentQueries + MaxResults + Cardinality(Handler)
         + Cardinality(CalcThread) - 2

\* A connected user is sent the result of the query it asked about, its last,
\* with the status the computation had, unless gen_uuid repeated an id.
OwnResult ==
  ~collided =>
    \A h \in Handler : hpc[h] = "send" /\ conn[h] # None =>
      /\ hres[h].query.user = conn[h]
      /\ hres[h].query.seq = sent[conn[h]]
      /\ hres[h].status = hres[h].query.shape.member

Places(id) ==
  Cardinality({m \in {"query", "result"} : id \in Keys(IF m = "query" THEN qque ELSE rque)})
  + Cardinality({t \in Busy : job[t].id = id})
  + Cardinality({h \in Handler : hpc[h] = "send" /\ hid[h] = id})

\* A query is in one place at a time on its way through the queue, a thread,
\* the results and the reply: no two threads compute it, no two requests get
\* its result.
InOnePlace == ~collided => \A id \in Key : Places(id) <= 1

\* The server has the query of this id, or its result, and still runs.
HasQuery(id) == proc = "running" /\ Places(id) # 0

\* The result is sent; a user that is still there asked for it and gets it.
Answering(id) ==
  \E h \in Handler :
    /\ hpc[h] = "send" /\ hid[h] = id /\ hpc'[h] = "free"
    /\ conn[h] # None => held[conn[h]] = id /\ held'[conn[h]] = None

\* The process ends by one of the two exceptions of a thread that computes.
Ending ==
  \E t \in CalcThread : tpc[t] = "compute" /\
    \/ proc' = "dec_failed" /\ "dec" \in Faults
    \/ proc' = "bad_inputs" /\ TooFewInputs(job[t].query)

\* A user is given an id only with its query in the server, and from there on
\* nothing but the reply to its user takes the query out of the running server:
\* a failed computation, a stopped thread or a lost connection does not.  What
\* does is the end of the process, with every query in it: the Decryptor has
\* failed a thread, or the thread computes a query with too few inputs.
AcceptedNotLost ==
  [][~collided' =>
       /\ \A u \in User : held'[u] \in Key /\ held'[u] # held[u] => HasQuery(held[u])'
       /\ \A id \in Key : HasQuery(id) /\ ~HasQuery(id)' => Answering(id) \/ Ending]_vars

\* The InvParam that no thread catches needs a repeated id.
DuplicateOnlyByCollision == proc = "duplicate_result" => collided

\* Documented reply (doc/spec-ja/source/03_system_detail.md:373): a result
\* request is answered even if the result does not exist.
ResultRequestAnswered ==
  \A h \in Handler : (hpc[h] = "poll") ~> (hpc[h] # "poll" \/ collided)

\* Documented role of the id (doc/spec-ja/source/02_system_overview.md:42): it
\* identifies the query, so two users never hold the same one.
QueryIdIdentifies ==
  \A u, v \in User : held[u] \in Key /\ held[u] = held[v] => u = v
=============================================================================
