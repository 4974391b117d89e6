------------------------------- MODULE System --------------------------------
(***************************************************************************)
(* The three programs of demo/: a Decryptor that may stop and start again, *)
(* a ComputationServer with its calculation threads, and user processes    *)
(* with one query each.  Every message is encoded and decoded as in        *)
(* Messages; the server's queues and handlers are those of QueryService,   *)
(* which CSServer implements; the arithmetic is PIRLookup's, reduced to     *)
(* which entry of a column is hit.                                         *)
(*                                                                         *)
(* A ciphertext is what it decrypts to, and the key set it belongs to.  A  *)
(* key set's number is its key id, and its keys: ids repeat in CSServer     *)
(* and KeyContainer, not here.                                             *)
(***************************************************************************)
EXTENDS Config, Messages, FiniteSets

CONSTANTS
  User, CalcThread,
  CommandLines, \* the arguments the users are run with, by user
  Table,        \* one- and two-input entries, by the tuple of inputs
  PossibleOne,  \* FTS_LUT_POSSIBLE_INPUT_NUM_ONE
  PossibleTwo,  \* FTS_LUT_POSSIBLE_INPUT_NUM_TWO
  Pad,          \* 100, what fills the columns up to these numbers
  NoValue,      \* 1000, the output of a combination the table lacks
  Files,        \* the configuration files a Decryptor is started with
  Degrees,      \* the polynomial degrees that SEAL has a coefficient modulus for
  MaxStarts,    \* bound: starts of the Decryptor
  Padding,      \* what an entry of the padding is called, the Pad of no input
  None, Failed

ASSUME SystemAssumption ==
  /\ PossibleOne \in Nat /\ PossibleTwo \in Nat /\ MaxStarts \in Nat
  /\ Degrees \subseteq Nat \ {0, 1}
  /\ \A q \in DOMAIN Table : q \in Seq(Int) /\ Len(q) \in {1, 2}
  /\ \A p, q \in DOMAIN Table :   \* convertLUT_to_vecfmt_two fills the gaps
       Len(p) = 2 /\ Len(q) = 2 => <<p[1], q[2]>> \in DOMAIN Table
  /\ CommandLines \subseteq [User -> Seq(Int)]

Query == [param : [key_id : Nat, func_no : {1, 2}],
          ctxts : Seq([set : Nat, val : Int])]

\* What marks an absent value is no value, and no user has the refused id.
ASSUME NoneAssumption ==
  /\ None \notin User \cup Int \cup Seq(Int) \cup Query /\ -1 \notin User
  /\ Padding \notin Int \cup {None}

VARIABLES
  dec, starts, map_, keysets,               \* the Decryptor
  stage, answer, ended, query, requested, result,   \* the ComputationServer
  tpc, job, tkeys,                          \* its calculation threads
  args, upc, key, ukeys, open, qid, rpc, printed   \* the users

decVars == <<dec, starts, map_, keysets>>
serviceVars == <<stage, answer, ended>>
csVars == <<serviceVars, query, requested, result>>
threadVars == <<tpc, job, tkeys>>
userVars == <<args, upc, key, ukeys, open, qid, rpc, printed>>
vars == <<decVars, csVars, threadVars, userVars>>

QS == INSTANCE QueryService WITH MaxSubmits <- 1

Init ==
  /\ dec = None /\ starts = 0       \* not running; else its parameters
  /\ map_ = {} /\ keysets = <<>>    \* keysets[id]: the parameters of key set id
  /\ QS!Init
  /\ query = [u \in User |-> None]  \* what the server received from a user
  /\ requested = {}                 \* the query ids whose result is being asked for
  /\ result = [u \in User |-> None]
  /\ tpc = [t \in CalcThread |-> "pop"]
  /\ job = [t \in CalcThread |-> None]       \* the user whose query it computes
  /\ tkeys = [t \in CalcThread |-> None]      \* what preprocess has loaded
  /\ args \in CommandLines
  /\ upc = [u \in User |-> "init"]
  /\ key = [u \in User |-> None]    \* its key id and secret key
  /\ ukeys = [u \in User |-> None]  \* the keys it loaded, by kind
  /\ open = {}                      \* the users connected to the server
  /\ qid = [u \in User |-> None]    \* the query id it received
  /\ rpc = [u \in User |-> "none"]  \* its ResultThread
  /\ printed = [u \in User |-> None]
-----------------------------------------------------------------------------
(***************************************************************************)
(* The command line: isdigit knows no sign, and only what it accepts is    *)
(* counted, wherever it stands.                                            *)
(***************************************************************************)
Given(a, i) == i \in DOMAIN a /\ a[i] >= 0
input_num(a) == Cardinality({i \in {1, 2} : Given(a, i)})
input_value(a, i) == IF Given(a, i) THEN a[i] ELSE -1

\* What compute_one or compute_two is called with, if anything.
Inputs(a) == [i \in 1 .. input_num(a) |-> input_value(a, i)]

func_no(u) == input_num(args[u])   \* kFuncOne or kFuncTwo
-----------------------------------------------------------------------------
(***************************************************************************)
(* The Decryptor.                                                          *)
(***************************************************************************)
DecStart(file) ==
  /\ dec = None /\ starts < MaxStarts
  /\ Accepted(file)
  /\ dec' = Parameters(file)
  /\ starts' = starts + 1
  /\ UNCHANGED <<map_, keysets, csVars, threadVars, userVars>>

\* The process ends: connections and the map of key ids are lost.
DecStop ==
  /\ dec # None
  /\ dec' = None /\ map_' = {}
  /\ UNCHANGED <<starts, keysets, csVars, threadVars, userVars>>

\* generate_keyfiles throws for others.
SupportedBySEAL(p) == {p.poly_mod_degree, p.coef_mod_192} \subseteq Degrees

\* Key replies carry the set's number, or its parameters.
KeyOf(id, kind) == IF kind = "param" THEN keysets[id] ELSE id

\* A key or the parameters as a client receives them.
GetKey(id, kind) ==
  LET request == LoadKeyRequest(KeyRequest(id))
  IN  IF request.ok /\ request.value \in map_
        THEN LoadKeyReply(kind, KeyReply(kind, KeyOf(request.value, kind)))
        ELSE Misread

GotKeys(id, kinds) == \A kind \in kinds : GetKey(id, kind).ok
GetKeys(id, kinds) == [kind \in kinds |-> GetKey(id, kind).value]

\* What init_keys asks for, the relinearization keys for its debug files only,
\* and preprocess.
UserKinds == {"pub", "galois", "param", "relin"}
ThreadKinds == {"pub", "galois", "relin", "param"}

\* The connections are TCP's: what one end sends the other receives.
Received(message) == {message}

Decrypt(set, ctxt) == IF ctxt.set = set THEN ctxt.val ELSE None

Hits(set, ctxts) == {i \in DOMAIN ctxts : Decrypt(set, ctxts[i]) # None}

\* calcPIRqueries: a query that names the first zero of a vector.
PIRquery(set, ctxts) ==
  [set |-> set, val |-> Decrypt(set, ctxts[Min(Hits(set, ctxts))])]

\* CallbackFunctionCsMidResult, from the message to the reply.
CsMidResult(message) ==
  LET got == LoadMidResult(message)
      id == got.value.param.key_id
      vectors == IF got.value.param.func_no = 2 THEN <<got.value.x, got.value.y>>
                                                ELSE <<got.value.x>>
      found == \A i \in DOMAIN vectors : Hits(id, vectors[i]) # {}
  IN  IF got.ok /\ id \in map_
        THEN Got(PIRReply(found, [i \in DOMAIN vectors |->
                                    IF found THEN PIRquery(id, vectors[i])
                                             ELSE [set |-> id, val |-> None]]), <<>>)
        ELSE Misread
-----------------------------------------------------------------------------
(***************************************************************************)
(* A user: init_keys.  A client connects in the step of its first exchange: *)
(* a Decryptor that ends later has lost the keys and with them the client.  *)
(***************************************************************************)
UserAt(u, from, to) == upc[u] = from /\ upc' = [upc EXCEPT ![u] = to]

NewKeysNumberedFromOne(u) ==  \* mutant: ids are counted from each start
  /\ UserAt(u, "init", "keys")
  /\ dec # None /\ SupportedBySEAL(dec)
  /\ LET id == Cardinality(map_) + 1 IN
     \E s \in Received(NewKeysReply(id, Len(keysets) + 1)) :
       LET got == LoadNewKeys(s) IN
         /\ got.ok
         /\ map_' = map_ \cup {id}
         /\ keysets' = Append(keysets, dec)
         /\ key' = [key EXCEPT ![u] = got.value]
  /\ UNCHANGED <<dec, starts, csVars, threadVars, args, ukeys, open, qid, rpc, printed>>

NewKeysUnstored(u) ==  \* mutant: the id is given before its keys are there
  /\ UserAt(u, "init", "keys")
  /\ dec # None /\ SupportedBySEAL(dec)
  /\ LET id == Len(keysets) + 1 IN
     \E s \in Received(NewKeysReply(id, id)) :
       LET got == LoadNewKeys(s) IN
         /\ got.ok
         /\ map_' = map_ \cup {id}
         /\ keysets' = keysets
         /\ key' = [key EXCEPT ![u] = got.value]
  /\ UNCHANGED <<dec, starts, csVars, threadVars, args, ukeys, open, qid, rpc, printed>>

NewKeys(u) ==
  /\ UserAt(u, "init", "keys")
  /\ dec # None /\ SupportedBySEAL(dec)
  /\ LET id == Len(keysets) + 1 IN
     \E s \in Received(NewKeysReply(id, id)) :
       LET got == LoadNewKeys(s) IN
         /\ got.ok
         /\ map_' = map_ \cup {id}
         /\ keysets' = Append(keysets, dec)
         /\ key' = [key EXCEPT ![u] = got.value]
  /\ UNCHANGED <<dec, starts, csVars, threadVars, args, ukeys, open, qid, rpc, printed>>

\* The replies to one request after another.  Between them only the Decryptor's
\* end could matter, and that is UserThrows.
UserGetKeys(u) ==
  /\ UserAt(u, "keys", "connectCS")
  /\ GotKeys(key[u].key_id, UserKinds)
  /\ ukeys' = [ukeys EXCEPT ![u] = GetKeys(key[u].key_id, UserKinds)]
  /\ UNCHANGED <<decVars, csVars, threadVars, args, key, open, qid, rpc, printed>>

(***************************************************************************)
(* A user: compute_one, compute_two and what they call in CSClient.  The   *)
(* program ends without a query when it was given no input it accepts.     *)
(***************************************************************************)

\* The debug block of compute_one, which is compiled in, decrypts the query and
\* reads its first value that is not zero.
DecryptsToNothing(u) == Inputs(args[u]) = <<0>>

ConnectCS(u) ==
  /\ UserAt(u, "connectCS", IF func_no(u) = 0 THEN "ended" ELSE "send")
  /\ ~DecryptsToNothing(u)
  /\ func_no(u) = 0 \/ ~ended
  /\ open' = IF func_no(u) = 0 THEN open ELSE open \cup {u}
  /\ UNCHANGED <<decVars, csVars, threadVars, args, key, ukeys, qid, rpc, printed>>

\* exec returns or throws, or the process dies: what was on its stack is gone.
Leave(u) ==
  /\ key' = [key EXCEPT ![u] = None]
  /\ ukeys' = [ukeys EXCEPT ![u] = None]
  /\ qid' = [qid EXCEPT ![u] = None]

\* output_values[0] of an empty vector, before a query is sent: a null pointer
\* is read, and the process dies.
Crash(u) ==
  /\ UserAt(u, "connectCS", "ended")
  /\ DecryptsToNothing(u)
  /\ Leave(u)
  /\ UNCHANGED <<decVars, csVars, threadVars, args, open, rpc, printed>>

SentBy(u) ==
  LET inputs == Inputs(args[u])
      ctxts == [i \in DOMAIN inputs |-> [set |-> ukeys[u].pub, val |-> inputs[i]]]
  IN  QueryMessage([key_id |-> key[u].key_id, func_no |-> func_no(u)],
                   ukeys[u].param, ctxts)

SendQuery(u) ==
  /\ UserAt(u, "send", "reply")
  /\ QS!Submit(u, 1)
  /\ \E s \in Received(SentBy(u)) :
       LoadQuery(s).ok /\ query' = [query EXCEPT ![u] = LoadQuery(s).value]
  /\ UNCHANGED <<decVars, requested, result, threadVars, args, key, ukeys,
                 open, qid, rpc, printed>>

\* A refused query has an id too, -1, and its callback is set just the same.
SetCallback(u) ==
  /\ UserAt(u, "reply", "sleep")
  /\ answer[u] # "none"
  /\ \E s \in Received(QueryReply(IF answer[u] = "accepted" THEN u ELSE -1)) :
       LoadQueryReply(s).ok /\ qid' = [qid EXCEPT ![u] = LoadQueryReply(s).value]
  /\ rpc' = [rpc EXCEPT ![u] = "start"]
  /\ UNCHANGED <<decVars, csVars, threadVars, args, key, ukeys, open, printed>>

CloseWithoutDisconnect(u) ==  \* mutant: the destructor does not disconnect
  /\ UserAt(u, "sleep", "join")
  /\ UNCHANGED <<decVars, csVars, threadVars, args, key, ukeys, open, qid, rpc, printed>>

\* Five seconds later: ~Impl disconnects, ...
Close(u) ==
  /\ UserAt(u, "sleep", "join")
  /\ open' = open \ {u}
  /\ UNCHANGED <<decVars, csVars, threadVars, args, key, ukeys, qid, rpc, printed>>

JoinNothing(u) ==  \* mutant: the destructor does not join the threads
  /\ UserAt(u, "join", "ended")
  /\ UNCHANGED <<decVars, csVars, threadVars, args, key, ukeys, open, qid, rpc, printed>>

\* ... then the ResultThreads are joined, and main returns.
Join(u) ==
  /\ UserAt(u, "join", "ended")
  /\ rpc[u] \in {"done", "threw"}
  /\ Leave(u)
  /\ UNCHANGED <<decVars, csVars, threadVars, args, open, rpc, printed>>

\* connect gives up, or an exchange fails: main catches what is thrown.
UserThrows(u) ==
  /\ \/ upc[u] = "init" /\ ~(dec # None /\ SupportedBySEAL(dec))
     \/ upc[u] = "keys" /\ ~GotKeys(key[u].key_id, UserKinds)
     \/ upc[u] = "connectCS" /\ func_no(u) # 0 /\ ~DecryptsToNothing(u) /\ ended
     \/ upc[u] = "send" /\ ended
     \/ upc[u] = "reply" /\ ended /\ answer[u] = "none"
  /\ upc' = [upc EXCEPT ![u] = "ended"]
  /\ open' = open \ {u}
  /\ Leave(u)
  /\ UNCHANGED <<decVars, csVars, threadVars, args, rpc, printed>>

UserStep(u) ==
  \/ NewKeys(u) \/ UserGetKeys(u) \/ ConnectCS(u) \/ Crash(u) \/ SendQuery(u)
  \/ SetCallback(u) \/ Close(u) \/ Join(u) \/ UserThrows(u)
-----------------------------------------------------------------------------
(***************************************************************************)
(* The user's ResultThread.                                                *)
(***************************************************************************)
Connected(u) == u \in open /\ ~ended

AskResult(u) ==
  /\ rpc[u] = "start" /\ Connected(u)
  /\ \E s \in Received(ResultRequest(qid[u], ukeys[u].param)) :
       LET got == LoadResultRequest(s)
       IN  got.ok /\ requested' = requested \cup {got.value.query_id}
  /\ rpc' = [rpc EXCEPT ![u] = "wait"]
  /\ UNCHANGED <<decVars, serviceVars, query, result, threadVars, args, upc, key,
                 ukeys, open, qid, printed>>

AskThrows(u) ==
  /\ rpc[u] \in {"start", "wait"} /\ ~Connected(u)
  /\ rpc' = [rpc EXCEPT ![u] = "threw"]
  /\ UNCHANGED <<decVars, csVars, threadVars, args, upc, key, ukeys, open, qid, printed>>
-----------------------------------------------------------------------------
(***************************************************************************)
(* The server's handlers, as steps of the service.                         *)
(***************************************************************************)
HandlerFrame ==
  UNCHANGED <<decVars, query, threadVars, args, upc, key, ukeys, open, qid>>

Reply(u) ==
  /\ \/ QS!Refuse(u, 1) /\ answer' = [answer EXCEPT ![u] = "refused"]
     \/ QS!Accept(u, 1) /\ answer' = [answer EXCEPT ![u] = "accepted"]
  /\ HandlerFrame /\ UNCHANGED <<requested, result, rpc, printed>>

TakeResult(u) ==
  /\ u \in requested
  /\ QS!Take(u, 1)
  /\ HandlerFrame /\ UNCHANGED <<requested, result, rpc, printed>>

\* The result reaches the ResultThread if the user is still there.
DeliverResult(u) ==
  /\ QS!Deliver(u, 1)
  /\ IF Connected(u)
       THEN /\ answer' = [answer EXCEPT ![u] = "none"]
            /\ rpc' = [rpc EXCEPT ![u] = "got"]
       ELSE answer' = answer /\ rpc' = rpc
  /\ HandlerFrame /\ UNCHANGED <<requested, result, printed>>

Shown(v) == IF v = 0 THEN <<>> ELSE <<v>>

\* recv_results has returned: the thread decodes and calls callback_func.
Callback(u) ==
  /\ rpc[u] = "got"
  /\ \E s \in Received(ResultReply(result[u].status, result[u].ctxt)) :
       LET got == LoadResultReply(s) IN
         /\ got.ok
         /\ printed' = [printed EXCEPT ![u] =
              IF got.value.status THEN Shown(Decrypt(key[u].seckey, got.value.ctxts[1]))
                                  ELSE Failed]
  /\ rpc' = [rpc EXCEPT ![u] = "done"]
  /\ UNCHANGED <<decVars, csVars, threadVars, args, upc, key, ukeys, open, qid>>
-----------------------------------------------------------------------------
(***************************************************************************)
(* The calculation threads.                                                *)
(***************************************************************************)
ThreadAt(t, from, to) == ~ended /\ tpc[t] = from /\ tpc' = [tpc EXCEPT ![t] = to]

JobKey(t) == query[job[t]].param.key_id

PopQuery(t) ==
  /\ ThreadAt(t, "pop", "preprocess")
  /\ \E u \in User : QS!Start(u, 1) /\ job' = [job EXCEPT ![t] = u]
  /\ UNCHANGED <<decVars, query, requested, result, tkeys, userVars>>

Preprocess(t) ==
  /\ ThreadAt(t, "preprocess", "compute")
  /\ GotKeys(JobKey(t), ThreadKinds)
  /\ tkeys' = [tkeys EXCEPT ![t] = GetKeys(JobKey(t), ThreadKinds)]
  /\ UNCHANGED <<decVars, csVars, job, userVars>>

row_size(t) == tkeys[t].param.poly_mod_degree \div 2

\* The division has cut off the part of a row before ceil sees it.
rows(t) == (IF query[job[t]].param.func_no = 2 THEN PossibleTwo ELSE PossibleOne) \div row_size(t)

\* The keys of a column, and the entries that compare equal to a value: its key,
\* and for the value of the padding an entry of that, where there is room.
Column(n, i) == {q[i] : q \in {r \in DOMAIN Table : Len(r) = n}}
Padded(n, i) ==
  Cardinality(Column(n, i)) < (IF n = 2 THEN PossibleTwo ELSE PossibleOne)

\* convertLUT_to_vecfmt_two throws for a column without room, _one cuts it off.
ASSUME ColumnsFit ==
  /\ IsFiniteSet(DOMAIN Table) /\ Cardinality(Column(1, 1)) <= PossibleOne
  /\ \A i \in {1, 2} : Cardinality(Column(2, i)) < PossibleTwo

Entries(n, i, v) ==
  (Column(n, i) \cap {v}) \cup {e \in {Padding} : v = Pad /\ Padded(n, i)}

\* The comparison of a ciphertext with a permuted column: zero in row r, where
\* the entry e has come to first, or nowhere.  Further entries that are equal
\* are left out: the Decryptor stops at the first zero.
Compare(ctxt, e, count, r) ==
  [i \in 1 .. count |-> [ctxt EXCEPT !.val = IF i = r THEN e ELSE None]]

NumInputs(t) == IF query[job[t]].param.func_no = 2 THEN 2 ELSE 1

\* What the permutation may bring first of the i-th input's entries.
First(t, i) ==
  LET entries == IF i > NumInputs(t) THEN {}
                 ELSE Entries(NumInputs(t), i, query[job[t]].ctxts[i].val)
  IN  IF entries = {} THEN {None} ELSE entries

Permuted(t) == [row : {1, rows(t)} \X {1, rows(t)}, entry : First(t, 1) \X First(t, 2)]

MidMessage(t, p) ==
  LET q == query[job[t]]
      compared(i) == Compare(q.ctxts[i], p.entry[i], rows(t), p.row[i])
  IN  MidResult(q.param, compared(1), IF NumInputs(t) = 2 THEN compared(2) ELSE <<>>)

\* The output beside the entries: that of the padding is padding as well.
Output(entries) ==
  IF entries \in DOMAIN Table THEN Table[entries]
  ELSE IF Len(entries) = 1 THEN Pad ELSE NoValue

\* computeA, the exchange with the Decryptor, computeB, and the result.
Compute(t) ==
  /\ ThreadAt(t, "compute", "pop")
  /\ \E p \in Permuted(t) :
       LET reply == CsMidResult(MidMessage(t, p))
           got == LoadPIRReply(reply.value)
           ctxts == got.value.ctxts
           sum == [set |-> ctxts[1].set, val |-> Output([i \in DOMAIN ctxts |-> ctxts[i].val])]
       IN  /\ reply.ok /\ got.ok
           /\ result' = [result EXCEPT ![job[t]] =
                           [status |-> got.value.result,
                            ctxt |-> IF got.value.result THEN sum ELSE None]]
  /\ QS!Finish(job[t], 1)
  /\ job' = [job EXCEPT ![t] = None] /\ tkeys' = [tkeys EXCEPT ![t] = None]
  /\ UNCHANGED <<decVars, query, requested, userVars>>

\* connect gives up, or an exchange fails.  Nothing catches it: the process
\* ends, with its queue, its results and its connections.
ThreadThrows(t) ==
  /\ \/ tpc[t] = "preprocess" /\ ~GotKeys(JobKey(t), ThreadKinds)
     \/ tpc[t] = "compute" /\ \E p \in Permuted(t) : ~CsMidResult(MidMessage(t, p)).ok
  /\ QS!End
  /\ UNCHANGED <<decVars, query, requested, result, threadVars, userVars>>

ThreadStep(t) ==
  PopQuery(t) \/ Preprocess(t) \/ Compute(t) \/ ThreadThrows(t)

Next ==
  \/ \E file \in Files : DecStart(file)
  \/ DecStop
  \/ \E u \in User : \/ UserStep(u) \/ AskResult(u) \/ AskThrows(u) \/ Callback(u)
                     \/ Reply(u) \/ TakeResult(u) \/ DeliverResult(u)
  \/ \E t \in CalcThread : ThreadStep(t)

Spec == Init /\ [][Next]_vars

\* The threads of a user's process run, connect's retries end, the five seconds
\* pass, and the server answers queries.  Nothing is assumed of the Decryptor,
\* the calculation threads or the results.
FairSpec ==
  /\ Spec
  /\ \A u \in User : WF_vars(UserStep(u)) /\ WF_vars(AskResult(u) \/ AskThrows(u) \/ Callback(u))
                     /\ WF_vars(Reply(u))
-----------------------------------------------------------------------------
\* Types.
TypeOK ==
  /\ dec \in [Parameter -> Nat] \cup {None} /\ starts \in 0 .. MaxStarts
  /\ map_ \subseteq DOMAIN keysets
  /\ QS!TypeOK
  /\ query \in [User -> Query \cup {None}]
  /\ requested \subseteq User \cup {-1}
  /\ tpc \in [CalcThread -> {"pop", "preprocess", "compute"}]
  /\ job \in [CalcThread -> User \cup {None}]
  /\ upc \in [User -> {"init", "keys", "connectCS", "send", "reply",
                       "sleep", "join", "ended"}]
  /\ rpc \in [User -> {"none", "start", "wait", "got", "done", "threw"}]
  /\ open \subseteq User
  /\ qid \in [User -> User \cup {None, -1}]

TL(u) == INSTANCE TableLookup WITH
  table <- Table,
  inputs <- IF query[u] = None THEN None ELSE Inputs(args[u]),
  answer <- printed[u]

\* One of the inputs is what the columns are padded with.
AsksPad(u) == \E i \in DOMAIN Inputs(args[u]) : Inputs(args[u])[i] = Pad

\* Such a user may be shown the padding.
PadReply(u) ==
  /\ AsksPad(u) /\ query[u] # None /\ printed[u] = None
  /\ printed'[u] \in {Shown(Pad), Shown(NoValue)}
  /\ args' = args /\ query'[u] = query[u]

\* From the command line to the printed line, through all the messages, three
\* processes and restarts of the Decryptor with other parameters: a user is
\* shown the entry of its own inputs, a failure if the table lacks them, or
\* nothing; only one that asks for the padding's value may be shown padding.
EachUserIsAnswered ==
  /\ \A u \in User : TL(u)!Init
  /\ [][\A u \in User : TL(u)!Ask \/ TL(u)!Reply \/ PadReply(u)
                       \/ UNCHANGED TL(u)!vars]_vars

\* No message between the programs and no interleaving of a query with restarts
\* of the Decryptor ends the server, but for two kinds of query: one whose keys
\* the Decryptor no longer knows, and one whose degree leaves no row to compare
\* (k is 0, and the Decryptor throws "Data is empty.").
ServerSurvives ==
  ended => \E t \in CalcThread :
             \/ tpc[t] # "pop" /\ JobKey(t) \notin map_
             \/ tpc[t] = "compute" /\ rows(t) = 0

\* The callback reads the secret key and the parameters on the stack of exec:
\* it runs only while compute_one or compute_two has not returned.
CallbackInScope ==
  [][\A u \in User : printed'[u] # printed[u] => upc[u] \in {"sleep", "join"}]_vars

\* Whatever becomes of its query and of the two servers, a user's process ends:
\* also the one whose ResultThread waits for the result of a refused query.
EveryUserEnds == <>(\A u \in User : upc[u] = "ended")
=============================================================================
