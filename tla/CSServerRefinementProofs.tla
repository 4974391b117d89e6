---------------------- MODULE CSServerRefinementProofs ----------------------
(***************************************************************************)
(* Proofs that a query is never in two hands, whatever ids gen_uuid        *)
(* returns, and that CSServer implements QueryService until it repeats     *)
(* one, for any users, handlers, threads and limits.                       *)
(***************************************************************************)
EXTENDS CSServerRefinement, CSServerProofs

USE DEF At, ThreadAt, Goto, ThreadGoto

\* The n-th query of user u is at stage k, in the hand x.
Keeps(k, x, u, n) ==
  \/ k = "received" /\ x \in Handler /\ hpc[x] \in QueryPc /\ Is(hqry[x], u, n)
  \/ k = "queued" /\ x \in Keys(qque) /\ Is(qque[x], u, n)
  \/ k = "computing" /\ x \in Busy /\ Is(job[x].query, u, n)
  \/ k = "done" /\ x \in Keys(rque) /\ Is(rque[x].query, u, n)
  \/ k = "taken" /\ x \in Handler /\ hpc[x] = "send" /\ Is(hres[x].query, u, n)

\* Keeps says of one hand what Hands collects.
LEMMA HandsKeep ==
  ASSUME NEW u, NEW n
  PROVE  /\ \A k, x : <<k, x>> \in Hands(u, n) <=> Keeps(k, x, u, n)
         /\ \A p \in Hands(u, n) : \E k, x : p = <<k, x>>
BY DEF Hands, Keeps, QueryPc

\* OneCopy, without the pairs.
OneKeeper ==
  \A u \in User, n \in 1 .. MaxSubmits : \A k, x, l, y :
    Keeps(k, x, u, n) /\ Keeps(l, y, u, n) => n <= sent[u] /\ k = l /\ x = y

\* The two forms agree.
LEMMA OneKeeperIsOneCopy == OneKeeper => OneCopy
<1>1. SUFFICES ASSUME OneKeeper, NEW u \in User, NEW n \in 1 .. MaxSubmits,
                      NEW p \in Hands(u, n), NEW q \in Hands(u, n)
               PROVE  n <= sent[u] /\ p = q
  BY DEF OneCopy
<1>2. PICK k, x : p = <<k, x>>
  BY HandsKeep
<1>3. PICK l, y : q = <<l, y>>
  BY HandsKeep
<1>4. Keeps(k, x, u, n) /\ Keeps(l, y, u, n)
  BY <1>2, <1>3, HandsKeep
<1>5. n <= sent[u] /\ k = l /\ x = y
  BY <1>1, <1>4 DEF OneKeeper
<1>6. QED
  BY <1>2, <1>3, <1>5
-----------------------------------------------------------------------------
(***************************************************************************)
(* What a step does to the queries: all stay where they are, or one passes *)
(* from a hand to the next, or leaves, or enters.                          *)
(***************************************************************************)
Rest ==
  \A v \in User, m \in 1 .. MaxSubmits : \A j, z : Keeps(j, z, v, m)' <=> Keeps(j, z, v, m)

Pass(k, x, l, y, u, n) ==
  \A v \in User, m \in 1 .. MaxSubmits : \A j, z :
    Keeps(j, z, v, m)' <=> \/ Keeps(j, z, v, m) /\ ~(j = k /\ z = x)
                           \/ j = l /\ z = y /\ v = u /\ m = n

Leave(k, x) ==
  \A v \in User, m \in 1 .. MaxSubmits : \A j, z :
    Keeps(j, z, v, m)' <=> Keeps(j, z, v, m) /\ ~(j = k /\ z = x)

Enter(x, u, n) ==
  \A v \in User, m \in 1 .. MaxSubmits : \A j, z :
    Keeps(j, z, v, m)' <=> \/ Keeps(j, z, v, m)
                           \/ j = "received" /\ z = x /\ v = u /\ m = n

\* The query that a handler, a thread or an entry has, by its user and number.
LEMMA QueriesHaveUsers ==
  ASSUME NEW q \in Query
  PROVE  q.user \in User /\ q.seq \in 1 .. MaxSubmits /\ \A u, n : Is(q, u, n) <=> u = q.user /\ n = q.seq
BY DEF Query, Is
-----------------------------------------------------------------------------
(***************************************************************************)
(* One lemma per group of actions.                                         *)
(***************************************************************************)
\* A step that changes nothing that Keeps reads but the place of a handler on
\* the way of a query or a job's status.
LEMMA NobodyMoves ==
  ASSUME UNCHANGED <<qque, rque>>, Busy' = Busy,
         \A t \in Busy : job'[t].query = job[t].query,
         \A g \in Handler :
           /\ hpc'[g] \in QueryPc <=> hpc[g] \in QueryPc
           /\ hpc[g] \in QueryPc => hqry'[g] = hqry[g]
           /\ hpc'[g] = "send" <=> hpc[g] = "send"
           /\ hpc[g] = "send" => hres'[g] = hres[g]
  PROVE  Rest
BY DEF Rest, Keeps

\* A handler that ends its callback lets go of the query it has.
LEMMA HandlerLeaves ==
  ASSUME TypeOK, NEW h \in Handler, NEW id, Reply(h, id),
         UNCHANGED <<qque, rque, threadVars>>
  PROVE  /\ hpc[h] \in QueryPc => Leave("received", h)
         /\ hpc[h] = "send" => Leave("taken", h)
<1>1. /\ qque' = qque /\ rque' = rque /\ Busy' = Busy /\ job' = job
      /\ hpc'[h] = "free"
      /\ \A g \in Handler \ {h} : hpc'[g] = hpc[g] /\ hqry'[g] = hqry[g] /\ hres'[g] = hres[g]
  BY DEF Reply, Free, TypeOK, threadVars, Busy
<1>2. "free" \notin QueryPc /\ "send" \notin QueryPc
  BY DEF QueryPc
<1>3. QED
  BY <1>1, <1>2 DEF Leave, Keeps

\* The steps of a handler on the way of a query, but for the push.
LEMMA QueryPathKeepers ==
  ASSUME TypeOK, NEW h \in Handler,
         \/ CheckQueries(h) \/ CheckResults(h) \/ SeedRandom(h) \/ DrawId(h)
         \/ FindQueryId(h)
  PROVE  /\ hpc[h] \in QueryPc
         /\ \/ Refuse(h) /\ Leave("received", h)
            \/ Rest /\ UNCHANGED userVars
<1> USE DEF QueryPc, CheckQueries, CheckResults, SeedRandom, DrawId, FindQueryId
<1>1. CASE Refuse(h)
  BY <1>1, HandlerLeaves DEF Refuse
<1>2. CASE ~Refuse(h)
  <2>1. /\ UNCHANGED <<qque, rque, threadVars, hqry, hres, userVars>>
        /\ \E to \in QueryPc : hpc' = [hpc EXCEPT ![h] = to]
    BY <1>2 DEF Proceed
  <2>2. Rest
    BY <2>1, NobodyMoves DEF TypeOK, threadVars, Busy
  <2>3. QED
    BY <2>1, <2>2
<1>3. QED
  BY <1>1, <1>2

\* push: the query passes to the queue, or is dropped when its id is there.
LEMMA PushQueryKeepers ==
  ASSUME TypeOK, NEW h \in Handler, PushQuery(h)
  PROVE  /\ hpc[h] = "emplace" /\ hqry[h] \in Query /\ hid[h] \in Key
         /\ IF hid[h] \in Keys(qque)
              THEN Leave("received", h)
              ELSE Pass("received", h, "queued", hid[h], hqry[h].user, hqry[h].seq)
<1> DEFINE i == hid[h]
<1>1. /\ hpc[h] = "emplace" /\ hqry[h] \in Query /\ i \in Key
      /\ qque' = emplace(qque, i, hqry[h])
  BY DEF PushQuery, TypeOK
<1>2. /\ rque' = rque /\ Busy' = Busy /\ job' = job /\ hpc'[h] = "free"
      /\ \A g \in Handler \ {h} : hpc'[g] = hpc[g] /\ hqry'[g] = hqry[g] /\ hres'[g] = hres[g]
  BY DEF PushQuery, Reply, Free, TypeOK, threadVars, Busy
<1>3. hpc[h] \in QueryPc /\ "free" \notin QueryPc /\ "free" # "send" /\ "emplace" # "send"
  BY <1>1 DEF QueryPc
<1>4. CASE i \in Keys(qque)
  <2>1. qque' = qque
    BY <1>1, <1>4 DEF emplace, Keys
  <2>2. Leave("received", h)
    BY <1>1, <1>2, <1>3, <2>1 DEF Leave, Keeps
  <2>3. QED
    BY <1>1, <1>4, <2>2
<1>5. CASE i \notin Keys(qque)
  <2>1. /\ Keys(qque') = Keys(qque) \cup {i} /\ qque'[i] = hqry[h]
        /\ \A id \in Keys(qque) : qque'[id] = qque[id]
    <3>1. i \in Key \ Keys(qque) /\ qque \in Maps(Query) /\ NoEntry \notin Query
      BY <1>1, <1>5, NoEntryAssumption DEF TypeOK
    <3>2. QED
      BY <1>1, <3>1, EmplaceNew
  <2>2. \A u, n : Is(qque'[i], u, n) <=> u = hqry[h].user /\ n = hqry[h].seq
    BY <1>1, <2>1, QueriesHaveUsers
  <2>3. Pass("received", h, "queued", i, hqry[h].user, hqry[h].seq)
    BY <1>1, <1>2, <1>3, <1>5, <2>1, <2>2 DEF Pass, Keeps
  <2>4. QED
    BY <1>1, <1>5, <2>3
<1>6. QED
  BY <1>4, <1>5

\* pop_result: the result passes from the queue to the handler.
LEMMA PopResultKeepers ==
  ASSUME TypeOK, NEW h \in Handler, PopResult(h)
  PROVE  /\ hid[h] \in Keys(rque) /\ rque[hid[h]].query \in Query
         /\ Pass("done", hid[h], "taken", h, rque[hid[h]].query.user, rque[hid[h]].query.seq)
<1> DEFINE i == hid[h]
<1>1. i \in Keys(rque) /\ i \in Key /\ rque[i] \in Result /\ rque[i].query \in Query
  BY DEF PopResult, TypeOK, Keys, Maps, Result
<1>2. /\ Keys(rque') = Keys(rque) \ {i}
      /\ \A id \in Keys(rque) \ {i} : rque'[id] = rque[id]
  BY <1>1, EraseOne DEF PopResult, TypeOK
<1>3. /\ qque' = qque /\ Busy' = Busy /\ job' = job /\ hqry' = hqry
      /\ \A g \in Handler \ {h} : hpc'[g] = hpc[g] /\ hres'[g] = hres[g]
      /\ hpc[h] = "poll" /\ hpc'[h] = "send" /\ hres'[h] = rque[i]
  BY DEF PopResult, TypeOK, threadVars, Busy
<1>4. "poll" \notin QueryPc /\ "send" \notin QueryPc /\ "poll" # "send"
  BY DEF QueryPc
<1>5. \A u, n : Is(hres'[h].query, u, n) <=> u = rque[i].query.user /\ n = rque[i].query.seq
  BY <1>1, <1>3, QueriesHaveUsers
<1>6. Pass("done", i, "taken", h, rque[i].query.user, rque[i].query.seq)
  BY <1>1, <1>2, <1>3, <1>4, <1>5 DEF Pass, Keeps
<1>7. QED
  BY <1>1, <1>6

\* The reply to a result request: the result leaves the server.
LEMMA SendResultKeepers ==
  ASSUME TypeOK, NEW h \in Handler, SendResult(h)
  PROVE  hpc[h] = "send" /\ hres[h].query \in Query /\ Leave("taken", h)
BY HandlerLeaves DEF SendResult, TypeOK, Result

\* A thread takes the first query.
LEMMA PopQueryKeepers ==
  ASSUME TypeOK, NEW t \in CalcThread, PopQuery(t)
  PROVE  /\ front(qque) \in Keys(qque) /\ qque[front(qque)] \in Query
         /\ Pass("queued", front(qque), "computing", t,
                 qque[front(qque)].user, qque[front(qque)].seq)
<1> DEFINE i == front(qque)
<1>1. i \in Keys(qque) /\ i \in Key /\ qque[i] \in Query
  BY FrontIsSmallest DEF PopQuery, TypeOK, Keys, Maps
<1>2. /\ Keys(qque') = Keys(qque) \ {i}
      /\ \A id \in Keys(qque) \ {i} : qque'[id] = qque[id]
  BY <1>1, EraseOne DEF PopQuery, TypeOK
<1>3. /\ rque' = rque /\ hpc' = hpc /\ hqry' = hqry /\ hres' = hres
      /\ t \notin Busy /\ Busy' = Busy \cup {t} /\ job'[t].query = qque[i]
      /\ \A r \in CalcThread \ {t} : job'[r] = job[r]
  BY DEF PopQuery, TypeOK, handlerVars, Busy
<1>4. \A u, n : Is(job'[t].query, u, n) <=> u = qque[i].user /\ n = qque[i].seq
  BY <1>1, <1>3, QueriesHaveUsers
<1>5. \A r \in Busy : r \in CalcThread \ {t}
  BY <1>3 DEF Busy
<1>6. Pass("queued", i, "computing", t, qque[i].user, qque[i].seq)
  BY <1>1, <1>2, <1>3, <1>4, <1>5 DEF Pass, Keeps
<1>7. QED
  BY <1>1, <1>6

\* The thread pushes the result, which is dropped when its id is there.
LEMMA PushResultKeepers ==
  ASSUME TypeOK, NEW t \in CalcThread, PushResult(t)
  PROVE  /\ t \in Busy /\ job[t].query \in Query /\ job[t].id \in Key
         /\ IF job[t].id \in Keys(rque)
              THEN Leave("computing", t)
              ELSE Pass("computing", t, "done", job[t].id, job[t].query.user, job[t].query.seq)
<1> DEFINE i == job[t].id
           r == [query |-> job[t].query, status |-> job[t].status]
<1>1. /\ t \in Busy /\ job[t].query \in Query /\ i \in Key /\ r \in Result
      /\ rque' = emplace(rque, i, r)
  BY DEF PushResult, TypeOK, Busy, Job, Result
<1>2. /\ qque' = qque /\ hpc' = hpc /\ hqry' = hqry /\ hres' = hres
      /\ Busy' = Busy \ {t}
      /\ \A s \in CalcThread \ {t} : job'[s] = job[s]
  BY DEF PushResult, TypeOK, handlerVars, Busy
<1>3. \A s \in Busy \ {t} : job'[s] = job[s]
  BY <1>2 DEF Busy
<1>4. CASE i \in Keys(rque)
  <2>1. rque' = rque
    BY <1>1, <1>4 DEF emplace, Keys
  <2>2. Leave("computing", t)
    BY <1>1, <1>2, <1>3, <2>1 DEF Leave, Keeps
  <2>3. QED
    BY <1>1, <1>4, <2>2
<1>5. CASE i \notin Keys(rque)
  <2>1. /\ Keys(rque') = Keys(rque) \cup {i} /\ rque'[i] = r
        /\ \A id \in Keys(rque) : rque'[id] = rque[id]
    <3>1. i \in Key \ Keys(rque) /\ rque \in Maps(Result) /\ NoEntry \notin Result
      BY <1>1, <1>5, NoEntryAssumption DEF TypeOK
    <3>2. QED
      BY <1>1, <3>1, EmplaceNew
  <2>2. \A u, n : Is(rque'[i].query, u, n) <=> u = job[t].query.user /\ n = job[t].query.seq
    BY <1>1, <2>1, QueriesHaveUsers
  <2>3. Pass("computing", t, "done", i, job[t].query.user, job[t].query.seq)
    BY <1>1, <1>2, <1>3, <1>5, <2>1, <2>2 DEF Pass, Keeps
  <2>4. QED
    BY <1>1, <1>5, <2>3
<1>6. QED
  BY <1>4, <1>5

\* What moves no query: a connection that is dropped, a result request, a
\* computation, a test for an id, stop.
LEMMA OthersKeepers ==
  ASSUME TypeOK,
         \/ \E h \in Handler : DropConnection(h) \/ \E u \in User : ReceiveResultRequest(u, h)
         \/ \E t \in CalcThread : Compute(t) \/ FindResultId(t) \/ Stop(t)
  PROVE  Rest /\ UNCHANGED userVars
<1> USE DEF TypeOK, threadVars, handlerVars, userVars, QueryPc
<1>1. ASSUME NEW h \in Handler, DropConnection(h) PROVE Rest /\ UNCHANGED userVars
  BY <1>1, NobodyMoves DEF DropConnection, Busy
<1>2. ASSUME NEW h \in Handler, NEW u \in User, ReceiveResultRequest(u, h)
      PROVE  Rest /\ UNCHANGED userVars
  BY <1>2, NobodyMoves DEF ReceiveResultRequest, Busy
<1>3. ASSUME NEW t \in CalcThread, Compute(t) \/ FindResultId(t) \/ Stop(t)
      PROVE  Rest /\ UNCHANGED userVars
  BY <1>3, NobodyMoves DEF Compute, FindResultId, Stop, Busy, Job
<1>4. QED
  BY <1>1, <1>2, <1>3

\* A new query enters with the next number of its user.
LEMMA ReceiveQueryKeepers ==
  ASSUME TypeOK, NEW u \in User, NEW h \in Handler, NEW s \in Shapes, ReceiveQuery(u, h, s)
  PROVE  /\ sent[u] + 1 \in 1 .. MaxSubmits
         /\ sent' = [sent EXCEPT ![u] = sent[u] + 1]
         /\ held' = [held EXCEPT ![u] = None]
         /\ Enter(h, u, sent[u] + 1)
<1>1. /\ sent[u] + 1 \in 1 .. MaxSubmits
      /\ sent' = [sent EXCEPT ![u] = sent[u] + 1] /\ held' = [held EXCEPT ![u] = None]
  BY ServerAssumption DEF ReceiveQuery, TypeOK
<1>2. /\ qque' = qque /\ rque' = rque /\ Busy' = Busy /\ job' = job /\ hres' = hres
      /\ hpc[h] = "free" /\ hpc'[h] = "checkQ"
      /\ hqry'[h] = [user |-> u, seq |-> sent[u] + 1, shape |-> s]
      /\ \A g \in Handler \ {h} : hpc'[g] = hpc[g] /\ hqry'[g] = hqry[g]
  BY DEF ReceiveQuery, TypeOK, threadVars, Busy
<1>3. "free" \notin QueryPc /\ "checkQ" \in QueryPc /\ "free" # "send" /\ "checkQ" # "send"
  BY DEF QueryPc
<1>4. \A v, n : Is(hqry'[h], v, n) <=> v = u /\ n = sent[u] + 1
  BY <1>2 DEF Is
<1>5. Enter(h, u, sent[u] + 1)
  BY <1>2, <1>3, <1>4 DEF Enter, Keeps
<1>6. QED
  BY <1>1, <1>5
-----------------------------------------------------------------------------
(***************************************************************************)
(* One hand for each query, always.                                        *)
(***************************************************************************)
\* A step that passes queries on, or lets them go, makes no copy.
LEMMA NoCopyIsMade ==
  ASSUME OneKeeper, UNCHANGED sent,
         \/ Rest
         \/ \E k, x : Leave(k, x)
         \/ \E k, x, l, y : \E u \in User, n \in 1 .. MaxSubmits :
              Keeps(k, x, u, n) /\ Pass(k, x, l, y, u, n)
  PROVE  OneKeeper'
<1>1. CASE Rest
  BY <1>1 DEF Rest, OneKeeper
<1>2. ASSUME NEW k, NEW x, Leave(k, x) PROVE OneKeeper'
  BY <1>2 DEF Leave, OneKeeper
<1>3. ASSUME NEW k, NEW x, NEW l, NEW y, NEW u \in User, NEW n \in 1 .. MaxSubmits,
             Keeps(k, x, u, n), Pass(k, x, l, y, u, n)
      PROVE  OneKeeper'
  <2>1. \A j, z : Keeps(j, z, u, n) => n <= sent[u] /\ j = k /\ z = x
    BY <1>3 DEF OneKeeper
  <2>2. \A v \in User, m \in 1 .. MaxSubmits : \A j, z :
          Keeps(j, z, v, m)' => /\ m <= sent[v]
                                /\ v = u /\ m = n => j = l /\ z = y
                                /\ ~(v = u /\ m = n) => Keeps(j, z, v, m)
    BY <1>3, <2>1 DEF Pass, OneKeeper
  <2>3. SUFFICES ASSUME NEW v \in User, NEW m \in 1 .. MaxSubmits,
                        NEW j, NEW z, NEW i, NEW w, Keeps(j, z, v, m)', Keeps(i, w, v, m)'
                 PROVE  m <= sent'[v] /\ j = i /\ z = w
    BY DEF OneKeeper
  <2>4. CASE v = u /\ m = n
    BY <2>2, <2>3, <2>4
  <2>5. CASE ~(v = u /\ m = n)
    BY <2>2, <2>3, <2>5 DEF OneKeeper
  <2>6. QED
    BY <2>4, <2>5
<1>4. QED
  BY <1>1, <1>2, <1>3

\* A new query has a number that none before it had.
LEMMA NewQueryIsNoCopy ==
  ASSUME TypeOK, OneKeeper, NEW u \in User, NEW h, Enter(h, u, sent[u] + 1),
         sent' = [sent EXCEPT ![u] = sent[u] + 1]
  PROVE  OneKeeper'
<1>1. sent[u] \in Nat /\ \A v \in User : sent[v] \in Nat /\ sent'[v] \in Nat
                       /\ sent'[v] = IF v = u THEN sent[u] + 1 ELSE sent[v]
  BY ServerAssumption DEF TypeOK
<1>2. \A j, z : ~Keeps(j, z, u, sent[u] + 1) \/ sent[u] + 1 \notin 1 .. MaxSubmits
  <2>1. ASSUME NEW j, NEW z, Keeps(j, z, u, sent[u] + 1), sent[u] + 1 \in 1 .. MaxSubmits
        PROVE  FALSE
    <3>1. sent[u] + 1 <= sent[u]
      BY <2>1 DEF OneKeeper
    <3>2. QED
      BY <1>1, <3>1
  <2>2. QED
    BY <2>1
<1>3. SUFFICES ASSUME NEW v \in User, NEW m \in 1 .. MaxSubmits,
                      NEW j, NEW z, NEW i, NEW w, Keeps(j, z, v, m)', Keeps(i, w, v, m)'
               PROVE  m <= sent'[v] /\ j = i /\ z = w
  BY DEF OneKeeper
<1>4. CASE v = u /\ m = sent[u] + 1
  BY <1>1, <1>2, <1>3, <1>4 DEF Enter
<1>5. CASE ~(v = u /\ m = sent[u] + 1)
  <2>1. Keeps(j, z, v, m) /\ Keeps(i, w, v, m)
    BY <1>3, <1>5 DEF Enter
  <2>2. m <= sent[v] /\ j = i /\ z = w
    BY <2>1 DEF OneKeeper
  <2>3. m \in Int /\ sent[v] <= sent'[v]
    BY <1>1
  <2>4. QED
    BY <1>1, <2>2, <2>3
<1>6. QED
  BY <1>4, <1>5

\* No action makes a copy.
LEMMA NextOneKeeper ==
  ASSUME TypeOK, OneKeeper, Next
  PROVE  OneKeeper'
<1>1. ASSUME NEW h \in Handler,
             \/ CheckQueries(h) \/ CheckResults(h) \/ SeedRandom(h) \/ DrawId(h)
             \/ FindQueryId(h)
      PROVE  OneKeeper'
  BY <1>1, QueryPathKeepers, NoCopyIsMade DEF Refuse, userVars
<1>2. ASSUME NEW h \in Handler, PushQuery(h) PROVE OneKeeper'
  <2>1. Keeps("received", h, hqry[h].user, hqry[h].seq)
    BY <1>2, PushQueryKeepers, QueriesHaveUsers DEF Keeps, QueryPc
  <2>2. UNCHANGED sent
    BY <1>2 DEF PushQuery
  <2>3. hqry[h].user \in User /\ hqry[h].seq \in 1 .. MaxSubmits
    BY <1>2, PushQueryKeepers, QueriesHaveUsers
  <2>4. QED
    BY <1>2, <2>1, <2>2, <2>3, PushQueryKeepers, NoCopyIsMade
<1>3. ASSUME NEW h \in Handler, PopResult(h) PROVE OneKeeper'
  <2> DEFINE q == rque[hid[h]].query
  <2>1. q \in Query /\ Keeps("done", hid[h], q.user, q.seq)
    BY <1>3, PopResultKeepers, QueriesHaveUsers DEF Keeps
  <2>2. UNCHANGED sent
    BY <1>3 DEF PopResult, userVars
  <2>3. q.user \in User /\ q.seq \in 1 .. MaxSubmits
    BY <2>1, QueriesHaveUsers
  <2>4. QED
    BY <1>3, <2>1, <2>2, <2>3, PopResultKeepers, NoCopyIsMade
<1>4. ASSUME NEW h \in Handler, SendResult(h) PROVE OneKeeper'
  BY <1>4, SendResultKeepers, NoCopyIsMade DEF SendResult
<1>5. ASSUME NEW t \in CalcThread, PopQuery(t) PROVE OneKeeper'
  <2> DEFINE q == qque[front(qque)]
  <2>1. q \in Query /\ Keeps("queued", front(qque), q.user, q.seq)
    BY <1>5, PopQueryKeepers, QueriesHaveUsers DEF Keeps
  <2>2. UNCHANGED sent
    BY <1>5 DEF PopQuery, userVars
  <2>3. q.user \in User /\ q.seq \in 1 .. MaxSubmits
    BY <2>1, QueriesHaveUsers
  <2>4. QED
    BY <1>5, <2>1, <2>2, <2>3, PopQueryKeepers, NoCopyIsMade
<1>6. ASSUME NEW t \in CalcThread, PushResult(t) PROVE OneKeeper'
  <2> DEFINE q == job[t].query
  <2>1. q \in Query /\ Keeps("computing", t, q.user, q.seq)
    BY <1>6, PushResultKeepers, QueriesHaveUsers DEF Keeps
  <2>2. UNCHANGED sent
    BY <1>6 DEF PushResult, userVars
  <2>3. q.user \in User /\ q.seq \in 1 .. MaxSubmits
    BY <2>1, QueriesHaveUsers
  <2>4. QED
    BY <1>6, <2>1, <2>2, <2>3, PushResultKeepers, NoCopyIsMade
<1>7. ASSUME NEW u \in User, NEW h \in Handler, NEW s \in Shapes, ReceiveQuery(u, h, s)
      PROVE  OneKeeper'
  BY <1>7, ReceiveQueryKeepers, NewQueryIsNoCopy
<1>8. ASSUME \/ \E h \in Handler : DropConnection(h) \/ \E u \in User : ReceiveResultRequest(u, h)
             \/ \E t \in CalcThread : Compute(t) \/ FindResultId(t) \/ Stop(t)
      PROVE  OneKeeper'
  BY <1>8, OthersKeepers, NoCopyIsMade DEF userVars
<1>9. QED
  BY <1>1, <1>2, <1>3, <1>4, <1>5, <1>6, <1>7, <1>8 DEF Next, HandlerStep, ThreadStep, UserStep

\* At first no hand holds anything.
LEMMA InitOneKeeper == Init => OneKeeper
<1>1. SUFFICES ASSUME Init PROVE OneKeeper
  OBVIOUS
<1>2. /\ Busy = {} /\ Keys(qque) = {} /\ Keys(rque) = {}
      /\ \A h \in Handler : hpc[h] = "free"
  BY <1>1 DEF Init, Busy, Keys, EmptyMap
<1>3. \A k, x, u, n : ~Keeps(k, x, u, n)
  BY <1>2 DEF Keeps, QueryPc
<1>4. QED
  BY <1>3 DEF OneKeeper

\* In every state.
LEMMA OneKeeperAlways == Spec => []OneKeeper
<1>1. TypeOK /\ OneKeeper /\ [Next]_vars => OneKeeper'
  <2>1. SUFFICES ASSUME TypeOK, OneKeeper, [Next]_vars PROVE OneKeeper'
    OBVIOUS
  <2>2. CASE Next
    BY <2>1, <2>2, NextOneKeeper
  <2>3. CASE UNCHANGED vars
    <3>1. Rest /\ UNCHANGED sent
      BY <2>3, NobodyMoves DEF vars, Busy
    <3>2. QED
      BY <2>1, <3>1, NoCopyIsMade
  <2>4. QED
    BY <2>1, <2>2, <2>3
<1>2. QED
  BY <1>1, InitOneKeeper, TypeCorrect, PTL DEF Spec

\* Whatever ids gen_uuid repeats, and whoever drops a connection, no query is
\* in two hands: none is computed twice, and no result is sent twice.
THEOREM NoQueryIsCopied == Spec => []OneCopy
BY OneKeeperAlways, OneKeeperIsOneCopy, PTL
-----------------------------------------------------------------------------
(***************************************************************************)
(* The refinement.  With one hand for each query its stage is that hand's. *)
(***************************************************************************)
StagesRight ==
  \A u \in User, n \in 1 .. MaxSubmits :
    /\ n > sent[u] => StageOf(u, n) = "unsent"
    /\ \A k, x : Keeps(k, x, u, n) => StageOf(u, n) = k
    /\ n <= sent[u] /\ (\A k, x : ~Keeps(k, x, u, n)) => StageOf(u, n) = "gone"

\* StageOf finds the one hand, whatever the order of its cases.
LEMMA StagesAreRight == TypeOK /\ OneKeeper => StagesRight
<1>1. SUFFICES ASSUME TypeOK, OneKeeper, NEW u \in User, NEW n \in 1 .. MaxSubmits
               PROVE  /\ n > sent[u] => StageOf(u, n) = "unsent"
                      /\ \A k, x : Keeps(k, x, u, n) => StageOf(u, n) = k
                      /\ n <= sent[u] /\ (\A k, x : ~Keeps(k, x, u, n)) => StageOf(u, n) = "gone"
  BY DEF StagesRight
<1>2. n \in Int /\ sent[u] \in Int
  BY <1>1, ServerAssumption DEF TypeOK
<1>3. /\ Receiving(u, n) <=> \E x : Keeps("received", x, u, n)
      /\ Queued(u, n) <=> \E x : Keeps("queued", x, u, n)
      /\ Computing(u, n) <=> \E x : Keeps("computing", x, u, n)
      /\ Stored(u, n) <=> \E x : Keeps("done", x, u, n)
      /\ Sending(u, n) <=> \E x : Keeps("taken", x, u, n)
  <2>1. \A h : h \in PastQueryCheck \cup {g \in Handler : hpc[g] = "checkQ"}
                 <=> h \in Handler /\ hpc[h] \in QueryPc
    BY DEF PastQueryCheck, QueryPc
  <2>2. Receiving(u, n) <=> \E x : Keeps("received", x, u, n)
    BY <2>1 DEF Receiving, Keeps
  <2>3. QED
    BY <2>2 DEF Queued, Computing, Stored, Sending, Keeps
<1>4. n > sent[u] => StageOf(u, n) = "unsent"
  BY <1>2 DEF StageOf
<1>5. ASSUME NEW k, NEW x, Keeps(k, x, u, n)
      PROVE  StageOf(u, n) = k
  <2>1. n <= sent[u] /\ \A l, y : Keeps(l, y, u, n) => l = k
    BY <1>1, <1>5 DEF OneKeeper
  <2>2. ~(n > sent[u])
    BY <1>2, <2>1
  <2>3. k \in {"received", "queued", "computing", "done", "taken"}
    BY <1>5 DEF Keeps
  <2>4. QED
    BY <1>3, <1>5, <2>1, <2>2, <2>3 DEF StageOf
<1>6. ASSUME n <= sent[u], \A k, x : ~Keeps(k, x, u, n)
      PROVE  StageOf(u, n) = "gone"
  <2>1. ~(n > sent[u])
    BY <1>2, <1>6
  <2>2. QED
    BY <1>3, <1>6, <2>1 DEF StageOf
<1>7. QED
  BY <1>4, <1>5, <1>6

\* A query that stays where it is stays at its stage.
LEMMA SameHandsSameStage ==
  ASSUME TypeOK, TypeOK', StagesRight, StagesRight', NEW u \in User, NEW n \in 1 .. MaxSubmits,
         \A k, x : Keeps(k, x, u, n)' <=> Keeps(k, x, u, n),
         n > sent'[u] <=> n > sent[u]
  PROVE  StageOf(u, n)' = StageOf(u, n)
<1>1. n \in Int /\ sent[u] \in Int /\ sent'[u] \in Int
  BY ServerAssumption DEF TypeOK
<1>2. CASE n > sent[u]
  BY <1>2 DEF StagesRight
<1>3. CASE \E k, x : Keeps(k, x, u, n)
  BY <1>3 DEF StagesRight
<1>4. CASE n <= sent[u] /\ \A k, x : ~Keeps(k, x, u, n)
  <2>1. n <= sent'[u]
    BY <1>1, <1>4
  <2>2. QED
    BY <1>4, <2>1 DEF StagesRight
<1>5. QED
  BY <1>1, <1>2, <1>3, <1>4

\* Nobody moved: the service has not changed stages.
LEMMA RestStages ==
  ASSUME TypeOK, TypeOK', StagesRight, StagesRight', Rest, UNCHANGED sent
  PROVE  \A u \in User, n \in 1 .. MaxSubmits : StageOf(u, n)' = StageOf(u, n)
BY SameHandsSameStage DEF Rest

\* What the service sees of a query that is at stage k, and of the step to l.
Staged(u, n, k, l) ==
  /\ StageOf(u, n) = k
  /\ \A v \in User, m \in 1 .. MaxSubmits :
       StageOf(v, m)' = IF v = u /\ m = n THEN l ELSE StageOf(v, m)

\* A query that passes from hand to hand changes its stage, and no other does.
LEMMA PassStages ==
  ASSUME TypeOK, TypeOK', StagesRight, StagesRight', UNCHANGED sent,
         NEW u \in User, NEW n \in 1 .. MaxSubmits, NEW k, NEW x, NEW l, NEW y,
         Keeps(k, x, u, n), Pass(k, x, l, y, u, n), OneKeeper
  PROVE  Staged(u, n, k, l)
<1>1. StageOf(u, n) = k
  BY DEF StagesRight
<1>2. Keeps(l, y, u, n)'
  BY DEF Pass
<1>3. StageOf(u, n)' = l
  BY <1>2 DEF StagesRight
<1>4. ASSUME NEW v \in User, NEW m \in 1 .. MaxSubmits, ~(v = u /\ m = n)
      PROVE  StageOf(v, m)' = StageOf(v, m)
  <2>1. ~Keeps(k, x, v, m)
    BY <1>4 DEF Keeps, Is
  <2>2. \A j, z : Keeps(j, z, v, m)' <=> Keeps(j, z, v, m)
    BY <1>4, <2>1 DEF Pass
  <2>3. QED
    BY <2>2, SameHandsSameStage
<1>5. QED
  BY <1>1, <1>3, <1>4 DEF Staged

\* A query that leaves is gone.
LEMMA LeaveStages ==
  ASSUME TypeOK, TypeOK', StagesRight, StagesRight', UNCHANGED sent,
         NEW u \in User, NEW n \in 1 .. MaxSubmits, NEW k, NEW x,
         Keeps(k, x, u, n), Leave(k, x), OneKeeper
  PROVE  Staged(u, n, k, "gone")
<1>1. StageOf(u, n) = k
  BY DEF StagesRight
<1>2. n <= sent'[u] /\ \A j, z : ~Keeps(j, z, u, n)'
  BY DEF Leave, OneKeeper
<1>3. StageOf(u, n)' = "gone"
  BY <1>2 DEF StagesRight
<1>4. ASSUME NEW v \in User, NEW m \in 1 .. MaxSubmits, ~(v = u /\ m = n)
      PROVE  StageOf(v, m)' = StageOf(v, m)
  <2>1. ~Keeps(k, x, v, m)
    BY <1>4 DEF Keeps, Is
  <2>2. \A j, z : Keeps(j, z, v, m)' <=> Keeps(j, z, v, m)
    BY <2>1 DEF Leave
  <2>3. QED
    BY <2>2, SameHandsSameStage
<1>5. QED
  BY <1>1, <1>3, <1>4 DEF Staged

\* A new query was unsent, and is the first that was.
LEMMA EnterStages ==
  ASSUME TypeOK, TypeOK', StagesRight, StagesRight', OneKeeper,
         NEW u \in User, NEW h, sent[u] + 1 \in 1 .. MaxSubmits,
         Enter(h, u, sent[u] + 1), sent' = [sent EXCEPT ![u] = sent[u] + 1]
  PROVE  /\ Staged(u, sent[u] + 1, "unsent", "received")
         /\ \A m \in 1 .. sent[u] : StageOf(u, m) # "unsent"
<1>0. PICK n : n = sent[u] + 1
  OBVIOUS
<1>1. /\ \A v \in User : sent[v] \in Int /\ sent'[v] = IF v = u THEN n ELSE sent[v]
      /\ sent[u] <= MaxSubmits /\ MaxSubmits \in Int /\ n > sent[u]
      /\ n \in 1 .. MaxSubmits
  BY <1>0, ServerAssumption DEF TypeOK
<1>2. StageOf(u, n) = "unsent"
  BY <1>1 DEF StagesRight
<1>3. Keeps("received", h, u, n)'
  BY <1>0, <1>1 DEF Enter
<1>4. StageOf(u, n)' = "received"
  BY <1>1, <1>3 DEF StagesRight
<1>5. ASSUME NEW v \in User, NEW m \in 1 .. MaxSubmits, ~(v = u /\ m = n)
      PROVE  StageOf(v, m)' = StageOf(v, m)
  <2>1. \A j, z : Keeps(j, z, v, m)' <=> Keeps(j, z, v, m)
    BY <1>0, <1>5 DEF Enter
  <2>2. m > sent'[v] <=> m > sent[v]
    BY <1>0, <1>1, <1>5
  <2>3. QED
    BY <2>1, <2>2, SameHandsSameStage
<1>6. ASSUME NEW m \in 1 .. sent[u]
      PROVE  StageOf(u, m) # "unsent"
  <2>1. m \in 1 .. MaxSubmits /\ m <= sent[u]
    BY <1>1
  <2>2. CASE \E k, x : Keeps(k, x, u, m)
    BY <2>1, <2>2 DEF StagesRight, Keeps
  <2>3. CASE \A k, x : ~Keeps(k, x, u, m)
    BY <2>1, <2>3 DEF StagesRight
  <2>4. QED
    BY <2>2, <2>3
<1>7. Staged(u, sent[u] + 1, "unsent", "received")
  BY <1>0, <1>2, <1>4, <1>5 DEF Staged
<1>8. QED
  BY <1>6, <1>7
-----------------------------------------------------------------------------
(***************************************************************************)
(* Each step of the server, as a step of the service.                      *)
(***************************************************************************)
Answers == [u \in User |-> AnswerTo(u)]

\* A query that moves from stage k to l while the process runs.
LEMMA StagedIsMove ==
  ASSUME NEW u \in User, NEW n \in 1 .. MaxSubmits, NEW k, NEW l, Staged(u, n, k, l),
         proc = "running", proc' = "running"
  PROVE  Service!Move(u, n, k, l)
<1> DEFINE S == [v \in User |-> [m \in 1 .. MaxSubmits |-> StageOf(v, m)]]
           T == [S EXCEPT ![u][n] = l]
<1>1. S[u][n] = k
  BY DEF Staged
<1>2. S' = [v \in User |-> [m \in 1 .. MaxSubmits |-> StageOf(v, m)']]
  OBVIOUS
<1>3. [v \in User |-> [m \in 1 .. MaxSubmits |-> StageOf(v, m)']]
        = [v \in User |-> [m \in 1 .. MaxSubmits |->
             IF v = u /\ m = n THEN l ELSE StageOf(v, m)]]
  BY DEF Staged
<1>4. T = [v \in User |-> [m \in 1 .. MaxSubmits |->
             IF v = u /\ m = n THEN l ELSE StageOf(v, m)]]
  OBVIOUS
<1>5. S' = T
  BY <1>2, <1>3, <1>4
<1>6. QED
  BY <1>1, <1>5 DEF Service!Move

\* The last query of a user is the one with the number of those it sent.
LEMMA LastIsSent ==
  ASSUME TypeOK, StagesRight, NEW u \in User, sent[u] \in 1 .. MaxSubmits
  PROVE  Service!Last(u, sent[u])
<1>1. \A m \in sent[u] + 1 .. MaxSubmits : m \in 1 .. MaxSubmits /\ m > sent[u]
  BY ServerAssumption
<1>2. QED
  BY <1>1 DEF StagesRight, Service!Last

\* The end of a callback tells the user at the other end, if there is one.
LEMMA ReplyTells ==
  ASSUME TypeOK, NEW h \in Handler, NEW id, Reply(h, id)
  PROVE  /\ conn[h] = None => Answers' = Answers
         /\ conn[h] # None =>
              /\ conn[h] \in User
              /\ id = None => Answers' = [Answers EXCEPT ![conn[h]] = "none"]
              /\ id = -1 => Answers' = [Answers EXCEPT ![conn[h]] = "refused"]
              /\ id \in Key => Answers' = [Answers EXCEPT ![conn[h]] = "accepted"]
<1>1. \A v \in User : held'[v] = IF v = conn[h] THEN id ELSE held[v]
  BY DEF Reply
<1>2. None \notin User /\ conn[h] \in User \cup {None}
  BY ServerAssumption DEF TypeOK
<1>3. Answers' = [v \in User |-> AnswerTo(v)']
  BY DEF Answers
<1>4. \A v \in User : v # conn[h] => AnswerTo(v)' = AnswerTo(v)
  BY <1>1 DEF AnswerTo
<1>5. CASE conn[h] = None
  BY <1>2, <1>3, <1>4, <1>5 DEF Answers
<1>6. CASE conn[h] # None
  <2>1. conn[h] \in User /\ held'[conn[h]] = id
    BY <1>1, <1>2, <1>6
  <2>2. None # -1 /\ None \notin Key /\ -1 \notin Key
    BY NoIds
  <2>3. PICK v \in User : v = conn[h]
    BY <2>1
  <2>4. /\ id = None => AnswerTo(v)' = "none"
        /\ id = -1 => AnswerTo(v)' = "refused"
        /\ id \in Key => AnswerTo(v)' = "accepted"
    BY <2>1, <2>2, <2>3 DEF AnswerTo
  <2>5. QED
    BY <1>3, <1>4, <1>6, <2>3, <2>4 DEF Answers
<1>7. QED
  BY <1>5, <1>6

\* A refusal, an acceptance and a delivery, of the query in the handler.
LEMMA TellLast ==
  ASSUME TypeOK, StagesRight, NEW u \in User, NEW n, NEW a,
         \/ Answers' = Answers
         \/ n = sent[u] /\ n \in 1 .. MaxSubmits /\ Answers' = [Answers EXCEPT ![u] = a]
  PROVE  Service!Tell(u, n, a)
BY LastIsSent DEF Service!Tell, Answers

\* A step that moves no query and tells nobody, or that ends the process.
LEMMA QuietStep ==
  ASSUME TypeOK, TypeOK', StagesRight, StagesRight', Rest, UNCHANGED userVars,
         proc = "running"
  PROVE  UNCHANGED Service!vars \/ Service!Next
<1>1. /\ [v \in User |-> [m \in 1 .. MaxSubmits |-> StageOf(v, m)]]'
           = [v \in User |-> [m \in 1 .. MaxSubmits |-> StageOf(v, m)]]
      /\ [v \in User |-> AnswerTo(v)]' = [v \in User |-> AnswerTo(v)]
  BY RestStages DEF userVars, AnswerTo
<1>2. CASE proc' = "running"
  BY <1>1, <1>2 DEF Service!vars
<1>3. CASE proc' # "running"
  BY <1>1, <1>3 DEF Service!Next, Service!End
<1>4. QED
  BY <1>2, <1>3

\* The steps of a handler on the way of a query.
LEMMA QueryPathServes ==
  ASSUME TypeOK, TypeOK', Connections, OneKeeper, StagesRight, StagesRight',
         NEW h \in Handler,
         \/ CheckQueries(h) \/ CheckResults(h) \/ SeedRandom(h) \/ DrawId(h)
         \/ FindQueryId(h)
  PROVE  UNCHANGED Service!vars \/ Service!Next
<1> DEFINE q == hqry[h]
<1>1. /\ hpc[h] \in QueryPc /\ q \in Query /\ proc = "running" /\ proc' = "running"
      /\ q.user \in User /\ q.seq \in 1 .. MaxSubmits /\ Keeps("received", h, q.user, q.seq)
  <2>1. hpc[h] \in QueryPc /\ q \in Query /\ proc = "running" /\ proc' = "running"
    BY QueryPathKeepers DEF TypeOK, QueryPc, CheckQueries, CheckResults, SeedRandom, DrawId,
       FindQueryId
  <2>2. QED
    BY <2>1, QueriesHaveUsers DEF Keeps
<1>2. CASE Rest /\ UNCHANGED userVars
  BY <1>1, <1>2, QuietStep
<1>3. CASE Refuse(h) /\ Leave("received", h)
  <2>1. Reply(h, -1) /\ UNCHANGED sent
    BY <1>3 DEF Refuse
  <2>2. PICK u \in User, n \in 1 .. MaxSubmits : u = q.user /\ n = q.seq
    BY <1>1
  <2>3. Staged(u, n, "received", "gone")
    BY <1>1, <1>3, <2>1, <2>2, LeaveStages
  <2>4. Service!Move(u, n, "received", "gone")
    BY <1>1, <2>3, StagedIsMove
  <2>5. \/ Answers' = Answers
        \/ n = sent[u] /\ Answers' = [Answers EXCEPT ![u] = "refused"]
    <3>1. conn[h] # None => u = conn[h] /\ n = sent[u]
      BY <1>1, <2>2 DEF Connections
    <3>2. QED
      BY <2>1, <3>1, ReplyTells
  <2>6. Service!Tell(u, n, "refused")
    BY <2>5, TellLast
  <2>7. QED
    BY <2>4, <2>6 DEF Service!Next, Service!Refuse
<1>4. QED
  BY <1>2, <1>3, QueryPathKeepers

\* The push, where the fresh id is new.
LEMMA PushQueryServes ==
  ASSUME TypeOK, TypeOK', Connections, Orderly, OneKeeper, StagesRight, StagesRight',
         NEW h \in Handler, PushQuery(h)
  PROVE  UNCHANGED Service!vars \/ Service!Next
<1> DEFINE q == hqry[h]
<1>1. /\ hpc[h] = "emplace" /\ q \in Query /\ hid[h] \in Key /\ hid[h] \notin Keys(qque)
  BY PushQueryKeepers DEF Orderly, Fresh, Somewhere
<1>2. /\ q.user \in User /\ q.seq \in 1 .. MaxSubmits /\ Keeps("received", h, q.user, q.seq)
      /\ Pass("received", h, "queued", hid[h], q.user, q.seq)
  BY <1>1, PushQueryKeepers, QueriesHaveUsers DEF Keeps, QueryPc
<1>3. proc = "running" /\ proc' = "running" /\ UNCHANGED sent /\ Reply(h, hid[h])
  BY DEF PushQuery
<1>4. PICK u \in User, n \in 1 .. MaxSubmits : u = q.user /\ n = q.seq
  BY <1>2
<1>5. PICK i : i = hid[h]
  OBVIOUS
<1>6. Staged(u, n, "received", "queued")
  <2>1. Pass("received", h, "queued", i, u, n) /\ Keeps("received", h, u, n)
    BY <1>2, <1>4, <1>5
  <2>2. QED
    BY <1>3, <2>1, PassStages
<1>7. Service!Move(u, n, "received", "queued")
  BY <1>3, <1>6, StagedIsMove
<1>8. \/ Answers' = Answers
      \/ n = sent[u] /\ Answers' = [Answers EXCEPT ![u] = "accepted"]
  <2>1. conn[h] # None => u = conn[h] /\ n = sent[u]
    BY <1>1, <1>4 DEF Connections, QueryPc
  <2>2. QED
    BY <1>1, <1>3, <2>1, ReplyTells
<1>9. Service!Tell(u, n, "accepted")
  BY <1>8, TellLast
<1>10. QED
  BY <1>7, <1>9 DEF Service!Next, Service!Accept

\* The result leaves for the user that holds its id, or for nobody.
LEMMA SendResultServes ==
  ASSUME TypeOK, TypeOK', Connections, Orderly, OneKeeper, StagesRight, StagesRight',
         NEW h \in Handler, SendResult(h)
  PROVE  UNCHANGED Service!vars \/ Service!Next
<1> DEFINE q == hres[h].query
<1>1. hpc[h] = "send" /\ q \in Query /\ Leave("taken", h)
  BY SendResultKeepers
<1>2. q.user \in User /\ q.seq \in 1 .. MaxSubmits /\ Keeps("taken", h, q.user, q.seq)
  BY <1>1, QueriesHaveUsers DEF Keeps
<1>3. proc = "running" /\ proc' = "running" /\ UNCHANGED sent /\ Reply(h, None)
  BY DEF SendResult
<1>4. PICK u \in User, n \in 1 .. MaxSubmits : u = q.user /\ n = q.seq
  BY <1>2
<1>5. Staged(u, n, "taken", "gone")
  BY <1>1, <1>2, <1>3, <1>4, LeaveStages
<1>6. Service!Move(u, n, "taken", "gone")
  BY <1>3, <1>5, StagedIsMove
<1>7. CASE conn[h] = None
  <2>1. Answers' = Answers
    BY <1>3, <1>7, ReplyTells
  <2>2. QED
    BY <1>6, <2>1 DEF Service!Next, Service!Deliver, Answers
<1>8. CASE conn[h] # None
  <2>1. conn[h] \in User /\ held[conn[h]] = hid[h] /\ hid[h] \in Key
    BY <1>1, <1>8 DEF Connections, Orderly, Owned, TypeOK
  <2>2. u = conn[h] /\ n = sent[u]
    BY <1>1, <1>4, <2>1 DEF Orderly, Owned, OwnedBy
  <2>3. Answers[u] = "accepted"
    BY <2>1, <2>2, NoIds DEF Answers, AnswerTo
  <2>4. Answers' = [Answers EXCEPT ![u] = "none"]
    BY <1>3, <1>8, <2>2, ReplyTells
  <2>5. Service!Last(u, n)
    BY <2>2, LastIsSent
  <2>6. QED
    BY <1>6, <2>3, <2>4, <2>5 DEF Service!Next, Service!Deliver, Answers
<1>9. QED
  BY <1>7, <1>8

\* The result passes to the handler that polled for it.
LEMMA PopResultServes ==
  ASSUME TypeOK, TypeOK', OneKeeper, StagesRight, StagesRight',
         NEW h \in Handler, PopResult(h)
  PROVE  UNCHANGED Service!vars \/ Service!Next
<1>1. PICK i \in Key, u \in User, n \in 1 .. MaxSubmits :
        Keeps("done", i, u, n) /\ Pass("done", i, "taken", h, u, n)
  <2> DEFINE q == rque[hid[h]].query
  <2>1. q \in Query /\ hid[h] \in Keys(rque) /\ Pass("done", hid[h], "taken", h, q.user, q.seq)
    BY PopResultKeepers
  <2>2. q.user \in User /\ q.seq \in 1 .. MaxSubmits /\ Keeps("done", hid[h], q.user, q.seq)
    BY <2>1, QueriesHaveUsers DEF Keeps
  <2>3. PICK i \in Key : i = hid[h]
    BY <2>1 DEF Keys
  <2>4. PICK u \in User, n \in 1 .. MaxSubmits : u = q.user /\ n = q.seq
    BY <2>2
  <2>5. Keeps("done", i, u, n) /\ Pass("done", i, "taken", h, u, n)
    BY <2>1, <2>2, <2>3, <2>4
  <2>6. QED
    BY <2>5
<1>2. proc = "running" /\ proc' = "running" /\ UNCHANGED userVars
  BY DEF PopResult
<1>3. Service!Move(u, n, "done", "taken")
  BY <1>1, <1>2, PassStages, StagedIsMove DEF userVars
<1>4. Answers' = Answers
  BY <1>2 DEF Answers, AnswerTo, userVars
<1>5. QED
  BY <1>3, <1>4 DEF Service!Next, Service!Take, Answers

\* The steps of a thread.
LEMMA ThreadServes ==
  ASSUME TypeOK, TypeOK', Orderly, OneKeeper, StagesRight, StagesRight',
         NEW t \in CalcThread, PopQuery(t) \/ PushResult(t)
  PROVE  UNCHANGED Service!vars \/ Service!Next
<1>1. proc = "running" /\ proc' = "running" /\ UNCHANGED userVars
  BY DEF PopQuery, PushResult
<1>2. Answers' = Answers
  BY <1>1 DEF Answers, AnswerTo, userVars
<1>3. CASE PopQuery(t)
  <2>1. PICK i \in Key, u \in User, n \in 1 .. MaxSubmits :
          Keeps("queued", i, u, n) /\ Pass("queued", i, "computing", t, u, n)
    <3>0. PICK i \in Key : i = front(qque)
      BY <1>3, PopQueryKeepers DEF Keys
    <3> DEFINE q == qque[i]
    <3>1. q \in Query /\ i \in Keys(qque) /\ Pass("queued", i, "computing", t, q.user, q.seq)
      BY <1>3, <3>0, PopQueryKeepers
    <3>2. q.user \in User /\ q.seq \in 1 .. MaxSubmits /\ Keeps("queued", i, q.user, q.seq)
      BY <3>1, QueriesHaveUsers DEF Keeps
    <3>3. PICK u \in User, n \in 1 .. MaxSubmits : u = q.user /\ n = q.seq
      BY <3>2
    <3>4. Keeps("queued", i, u, n) /\ Pass("queued", i, "computing", t, u, n)
      BY <3>1, <3>2, <3>3
    <3>5. QED
      BY <3>4
  <2>2. Service!Move(u, n, "queued", "computing")
    BY <1>1, <2>1, PassStages, StagedIsMove DEF userVars
  <2>3. QED
    BY <1>2, <2>2 DEF Service!Next, Service!Start, Answers
<1>4. CASE PushResult(t)
  <2>1. PICK i \in Key, u \in User, n \in 1 .. MaxSubmits :
          Keeps("computing", t, u, n) /\ Pass("computing", t, "done", i, u, n)
    <3>0. PICK i \in Key : i = job[t].id
      BY <1>4, PushResultKeepers
    <3> DEFINE q == job[t].query
    <3>1. t \in Busy /\ q \in Query
      BY <1>4, <3>0, PushResultKeepers
    <3>2. i \notin Keys(rque)
      BY <3>0, <3>1 DEF Orderly, Separate, Computes, Busy
    <3>3. Pass("computing", t, "done", i, q.user, q.seq)
      BY <1>4, <3>0, <3>2, PushResultKeepers
    <3>4. q.user \in User /\ q.seq \in 1 .. MaxSubmits /\ Keeps("computing", t, q.user, q.seq)
      BY <3>1, QueriesHaveUsers DEF Keeps
    <3>5. PICK u \in User, n \in 1 .. MaxSubmits : u = q.user /\ n = q.seq
      BY <3>4
    <3>6. Keeps("computing", t, u, n) /\ Pass("computing", t, "done", i, u, n)
      BY <3>3, <3>4, <3>5
    <3>7. QED
      BY <3>6
  <2>2. Service!Move(u, n, "computing", "done")
    BY <1>1, <2>1, PassStages, StagedIsMove DEF userVars
  <2>3. QED
    BY <1>2, <2>2 DEF Service!Next, Service!Finish, Answers
<1>5. QED
  BY <1>3, <1>4

\* A user sends its next query.
LEMMA ReceiveQueryServes ==
  ASSUME TypeOK, TypeOK', OneKeeper, StagesRight, StagesRight',
         NEW u \in User, NEW h \in Handler, NEW s \in Shapes, ReceiveQuery(u, h, s)
  PROVE  UNCHANGED Service!vars \/ Service!Next
<1>1. PICK n \in 1 .. MaxSubmits : n = sent[u] + 1
  BY ReceiveQueryKeepers
<1>2. Staged(u, n, "unsent", "received") /\ \A m \in 1 .. sent[u] : StageOf(u, m) # "unsent"
  BY <1>1, ReceiveQueryKeepers, EnterStages
<1>3. proc = "running" /\ proc' = "running"
  BY DEF ReceiveQuery
<1>4. Service!Move(u, n, "unsent", "received")
  BY <1>2, <1>3, StagedIsMove
<1>5. \A m \in 1 .. n - 1 : m \in 1 .. MaxSubmits /\ StageOf(u, m) # "unsent"
  <2>1. n - 1 = sent[u] /\ sent[u] \in 0 .. MaxSubmits
    BY <1>1 DEF TypeOK
  <2>2. QED
    BY <1>2, <2>1, ServerAssumption
<1>6. Answers' = [Answers EXCEPT ![u] = "none"]
  <2>1. \A v \in User : held'[v] = IF v = u THEN None ELSE held[v]
    BY ReceiveQueryKeepers DEF TypeOK
  <2>2. \A v \in User : AnswerTo(v)' = IF v = u THEN "none" ELSE AnswerTo(v)
    BY <2>1, NoIds DEF AnswerTo
  <2>3. QED
    BY <2>2 DEF Answers
<1>7. QED
  BY <1>4, <1>5, <1>6 DEF Service!Next, Service!Submit, Answers

\* Each step of the server, until an id is repeated.
LEMMA NextServes ==
  ASSUME TypeOK, TypeOK', Connections, Orderly, OneKeeper, StagesRight, StagesRight', Next
  PROVE  UNCHANGED Service!vars \/ Service!Next
<1>1. ASSUME NEW h \in Handler, HandlerStep(h) PROVE UNCHANGED Service!vars \/ Service!Next
  BY <1>1, QueryPathServes, PushQueryServes, PopResultServes, SendResultServes DEF HandlerStep
<1>2. ASSUME NEW t \in CalcThread, PopQuery(t) \/ PushResult(t)
      PROVE  UNCHANGED Service!vars \/ Service!Next
  BY <1>2, ThreadServes
<1>3. ASSUME NEW u \in User, NEW h \in Handler, NEW s \in Shapes, ReceiveQuery(u, h, s)
      PROVE  UNCHANGED Service!vars \/ Service!Next
  BY <1>3, ReceiveQueryServes
<1>4. ASSUME \/ \E h \in Handler : DropConnection(h) \/ \E u \in User : ReceiveResultRequest(u, h)
             \/ \E t \in CalcThread : Compute(t) \/ FindResultId(t) \/ Stop(t)
      PROVE  UNCHANGED Service!vars \/ Service!Next
  <2>1. Rest /\ UNCHANGED userVars
    BY <1>4, OthersKeepers
  <2>2. proc = "running"
    BY <1>4 DEF DropConnection, ReceiveResultRequest, Compute, FindResultId, Stop
  <2>3. QED
    BY <2>1, <2>2, QuietStep
<1>5. QED
  BY <1>1, <1>2, <1>3, <1>4 DEF Next, ThreadStep, UserStep

\* At first no query has been sent.
LEMMA InitServes == Init => Service!Init
<1>1. SUFFICES ASSUME Init PROVE Service!Init
  OBVIOUS
<1>2. \A u \in User : sent[u] = 0 /\ held[u] = None /\ proc = "running"
  BY <1>1 DEF Init
<1>3. \A u \in User, n \in 1 .. MaxSubmits : StageOf(u, n) = "unsent"
  BY <1>2, ServerAssumption DEF StageOf
<1>4. \A u \in User : AnswerTo(u) = "none"
  BY <1>2, NoIds DEF AnswerTo
<1>5. proc = "running"
  BY <1>1 DEF Init
<1>6. QED
  BY <1>3, <1>4, <1>5 DEF Service!Init

\* Until gen_uuid repeats an id, each step of the server is a step of the
\* service it promises, for every number of users, handlers and threads, with
\* every limit, however connections drop and threads interleave.
THEOREM ServerImplementsService == Spec => ImplementsQueryService
<1> DEFINE Inv == TypeOK /\ IdsInv /\ OneKeeper
<1>1. Spec => []Inv
  BY TypeCorrect, IdsStayInOrder, OneKeeperAlways, PTL
<1>2. Inv => StagesRight
  BY StagesAreRight
<1>3. Inv' => StagesRight'
  BY <1>2, PTL
<1>4. Inv /\ Inv' /\ [Next]_vars => collided' \/ UNCHANGED Service!vars \/ Service!Next
  <2>1. SUFFICES ASSUME Inv, Inv', [Next]_vars, ~collided'
                 PROVE  UNCHANGED Service!vars \/ Service!Next
    OBVIOUS
  <2>2. CASE Next
    <3>1. ~collided
      BY <2>1, <2>2, CollidedStays
    <3>2. Connections /\ Orderly
      BY <2>1, <3>1 DEF IdsInv
    <3>3. QED
      BY <1>2, <1>3, <2>1, <2>2, <3>2, NextServes
  <2>3. CASE UNCHANGED vars
    <3>1. Rest /\ UNCHANGED sent
      BY <2>3, NobodyMoves DEF vars, Busy
    <3>2. \A u \in User, n \in 1 .. MaxSubmits : StageOf(u, n)' = StageOf(u, n)
      BY <1>2, <1>3, <2>1, <3>1, RestStages
    <3>3. \A u \in User : AnswerTo(u)' = AnswerTo(u)
      BY <2>3 DEF vars, AnswerTo
    <3>4. UNCHANGED proc
      BY <2>3 DEF vars
    <3>5. QED
      BY <3>2, <3>3, <3>4 DEF Service!vars
  <2>4. QED
    BY <2>1, <2>2, <2>3
<1>5. QED
  BY <1>1, <1>4, InitServes, PTL DEF Spec, ImplementsQueryService
=============================================================================
