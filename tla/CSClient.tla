------------------------------ MODULE CSClient ------------------------------
(***************************************************************************)
(* The user's side of the ComputationServer: one CSClient, the application *)
(* thread that calls it, the ResultThreads that it starts, and the one     *)
(* connection that all of them share.                                      *)
(*                                                                         *)
(* The n-th query, and the ResultThread made for it, are called n; the     *)
(* application thread is 0.  The server is the peer that CSServer models,  *)
(* with ids that it does not repeat while they are in use.                 *)
(***************************************************************************)
EXTENDS Integers, Sequences

CONSTANTS
  Serializes,  \* may the library serialize exchanges, and may it not?
  Id,          \* query ids
  MaxQueries   \* bound: queries the application sends

Number == 1 .. MaxQueries
Caller == 0 .. MaxQueries
Refused == -1     \* the id that is returned for a refused query
NoId == -2        \* no id has been returned
Anything == -1    \* what exchanges that overlap read as a result
QueryId == Id \cup {Refused}

ASSUME ClientAssumption ==
  MaxQueries \in Nat \ {0} /\ Id \subseteq Nat /\ Serializes \subseteq BOOLEAN

VARIABLES
  serial,    \* does the library let one exchange end before the next begins?
  pc,        \* what each thread does
  sent,      \* queries the application has sent
  op, arg,   \* what the application is doing, and for which query
  wants,     \* queries with a callback
  qid,       \* the id send_query returned
  cbmap_,    \* CSClient::Impl::cbmap_: the ResultThread of an id, 0 for none
  te,        \* ResultThreads that hold an exception
  got,       \* the query whose result was received for a query, 0 for none
  called,    \* queries whose callback has been called
  waited,    \* ResultThreads that a call of wait has returned normally for
  open,      \* the connection is open
  req, resp, \* what is on its way, in each direction
  overlapped,  \* history: an exchange has begun before another's end
  result     \* the server: the accepted query of an id, until it is fetched

callVars == <<sent, op, arg, wants>>
libVars == <<serial, overlapped>>
vars == <<pc, callVars, qid, cbmap_, te, got, called, waited, open, req, resp, result,
          libVars>>

Init ==
  /\ pc = [c \in Caller |-> IF c = 0 THEN "ready" ELSE "none"]
  /\ sent = 0 /\ op = "none" /\ arg = 0 /\ wants = {}
  /\ qid = [n \in Number |-> NoId]
  /\ cbmap_ = [i \in QueryId |-> 0]
  /\ te = {} /\ got = [n \in Number |-> 0] /\ called = {} /\ waited = {}
  /\ open = TRUE /\ req = <<>> /\ resp = <<>>
  /\ result = [i \in Id |-> 0]
  /\ serial \in Serializes /\ overlapped = FALSE

Goto(c, to) == pc' = [pc EXCEPT ![c] = to]
-----------------------------------------------------------------------------
(***************************************************************************)
(* Calls of the application, one at a time.                                *)
(***************************************************************************)
Call(what, n, to) == pc[0] = "ready" /\ op' = what /\ arg' = n /\ Goto(0, to)

SendQueryEager(withCallback) ==  \* mutant: the ResultThread does not wait for the id
  /\ sent < MaxQueries
  /\ pc[0] = "ready" /\ op' = "query" /\ arg' = sent + 1
  /\ pc' = [pc EXCEPT ![0] = "ask", ![sent + 1] = IF withCallback THEN "ask" ELSE @]
  /\ sent' = sent + 1
  /\ wants' = IF withCallback THEN wants \cup {sent + 1} ELSE wants
  /\ UNCHANGED <<libVars, qid, cbmap_, te, got, called, waited, open, req, resp, result>>

SendQuery(withCallback) ==
  /\ sent < MaxQueries
  /\ Call("query", sent + 1, "ask")
  /\ sent' = sent + 1
  /\ wants' = IF withCallback THEN wants \cup {sent + 1} ELSE wants
  /\ UNCHANGED <<libVars, qid, cbmap_, te, got, called, waited, open, req, resp, result>>

Unclaimed(n) == qid[n] # NoId /\ n \notin wants /\ got[n] = 0

RecvResults(n) ==
  /\ Unclaimed(n)
  /\ Call("result", n, "ask")
  /\ UNCHANGED <<libVars, sent, wants, qid, cbmap_, te, got, called, waited, open, req,
                 resp, result>>

CallSetCallback(n) ==
  /\ Unclaimed(n)
  /\ Call("callback", n, "store")
  /\ wants' = wants \cup {n}
  /\ UNCHANGED <<libVars, sent, qid, cbmap_, te, got, called, waited, open, req, resp,
                 result>>

Wait(n) ==
  /\ qid[n] # NoId
  /\ Call("wait", n, "join")
  /\ UNCHANGED <<libVars, sent, wants, qid, cbmap_, te, got, called, waited, open, req,
                 resp, result>>

\* disconnect, or the end of the server or the network: what was on its way
\* is lost, and so is a result that was.
Close ==
  /\ open' = FALSE /\ req' = <<>> /\ resp' = <<>>
  /\ UNCHANGED <<libVars, sent, wants, qid, cbmap_, te, got, called, waited, result>>

Disconnect == open /\ Close /\ UNCHANGED <<pc, op, arg>>

Destroy == Call("destroy", 0, "destroy") /\ Close
-----------------------------------------------------------------------------
(***************************************************************************)
(* The exchange of send_recv_data_blocking.  CSClient locks nothing.       *)
(* Whether the library serializes exchanges the repository does not show:  *)
(* serial is either, once and for all.  If it does not, what two exchanges *)
(* that overlap read from the one connection is left open: each may get    *)
(* anything, or throw.                                                     *)
(***************************************************************************)
MessageOfLast(c) ==  \* mutant: the ResultThreads share one copy of the query id
  IF c = 0 /\ op = "query" THEN [kind |-> "query", of |-> arg]
                           ELSE [kind |-> "result", of |-> qid[IF c = 0 THEN arg ELSE sent]]

Message(c) ==
  IF c = 0 /\ op = "query" THEN [kind |-> "query", of |-> arg]
                           ELSE [kind |-> "result", of |-> qid[IF c = 0 THEN arg ELSE c]]

Request(c) ==
  LET others == \E d \in Caller : pc[d] = "receive"
  IN  /\ pc[c] = "ask" /\ open
      /\ ~(serial /\ others)
      /\ overlapped' = (overlapped \/ others)
      /\ req' = IF overlapped' THEN <<>> ELSE Append(req, Message(c))
      /\ resp' = IF overlapped' THEN <<>> ELSE resp
      /\ Goto(c, "receive")
      /\ UNCHANGED <<serial, callVars, qid, cbmap_, te, got, called, waited, open, result>>

Receiving(c) ==
  /\ pc[c] = "receive"
  /\ IF overlapped THEN open /\ resp' = resp ELSE resp # <<>> /\ resp' = Tail(resp)

IdRead == IF overlapped THEN QueryId ELSE {Head(resp).id}
ResultRead == IF overlapped THEN Anything ELSE Head(resp).of

\* send_query returns the id, or goes on to set_callback.
ReceiveId ==
  /\ op = "query" /\ Receiving(0)
  /\ \E i \in IdRead : qid' = [qid EXCEPT ![arg] = i]
  /\ Goto(0, IF arg \in wants THEN "store" ELSE "ready")
  /\ UNCHANGED <<libVars, callVars, cbmap_, te, got, called, waited, open, req, result>>

\* recv_results returns, in the application or in a ResultThread.
ReceiveResult(c) ==
  /\ c = 0 => op = "result"
  /\ Receiving(c)
  /\ got' = [got EXCEPT ![IF c = 0 THEN arg ELSE c] = ResultRead]
  /\ Goto(c, IF c = 0 THEN "ready" ELSE "call")
  /\ UNCHANGED <<libVars, callVars, qid, cbmap_, te, called, waited, open, req, result>>

FailSilently(c) ==  \* mutant: the exception is only logged
  /\ pc[c] \in {"ask", "receive"} /\ (~open \/ overlapped)
  /\ Goto(c, IF c = 0 THEN "ready" ELSE "done")
  /\ UNCHANGED <<libVars, callVars, qid, cbmap_, te, got, called, waited, open, req, resp, result>>

\* The library throws: to the application, or into te of the ResultThread.
Fail(c) ==
  /\ pc[c] \in {"ask", "receive"} /\ (~open \/ overlapped)
  /\ Goto(c, IF c = 0 THEN "ready" ELSE "done")
  /\ te' = IF c = 0 THEN te ELSE te \cup {c}
  /\ UNCHANGED <<libVars, callVars, qid, cbmap_, got, called, waited, open, req, resp, result>>
-----------------------------------------------------------------------------
(***************************************************************************)
(* ResultThreads.                                                          *)
(***************************************************************************)
Ended(n) == n = 0 \/ pc[n] = "done"

SetCallbackOnce ==  \* mutant: an entry of an earlier query is kept
  /\ pc[0] = "store"
  /\ LET old == cbmap_[qid[arg]]
     IN IF old = 0 THEN /\ cbmap_' = [cbmap_ EXCEPT ![qid[arg]] = arg]
                        /\ pc' = [pc EXCEPT ![0] = "ready", ![arg] = "ask"]
                   ELSE UNCHANGED cbmap_ /\ Goto(0, "ready")
  /\ UNCHANGED <<libVars, callVars, qid, te, got, called, waited, open, req, resp, result>>

\* The new entry takes the place of the id's old one, whose ResultThread is
\* joined by its destructor, and its own is started.
SetCallback ==
  /\ pc[0] = "store"
  /\ Ended(cbmap_[qid[arg]])
  /\ cbmap_' = [cbmap_ EXCEPT ![qid[arg]] = arg]
  /\ pc' = [pc EXCEPT ![0] = "ready", ![arg] = "ask"]
  /\ UNCHANGED <<libVars, callVars, qid, te, got, called, waited, open, req, resp, result>>

\* exec calls the callback, which may throw.
CallCallback(n) ==
  /\ pc[n] = "call"
  /\ called' = called \cup {n}
  /\ \E throws \in BOOLEAN : te' = IF throws THEN te \cup {n} ELSE te
  /\ Goto(n, "done")
  /\ UNCHANGED <<libVars, callVars, qid, cbmap_, got, waited, open, req, resp, result>>

\* wait joins the thread and rethrows its exception; an id without a thread
\* is nothing to wait for.
WaitReturns ==
  /\ pc[0] = "join"
  /\ LET n == cbmap_[qid[arg]]
     IN  Ended(n) /\ waited' = waited \cup ({n} \ ({0} \cup te))
  /\ Goto(0, "ready")
  /\ UNCHANGED <<libVars, callVars, qid, cbmap_, te, got, called, open, req, resp, result>>

DestroyedUnjoined ==  \* mutant: the threads are detached
  /\ pc[0] = "destroy"
  /\ Goto(0, "gone")
  /\ UNCHANGED <<libVars, callVars, qid, cbmap_, te, got, called, waited, open, req, resp, result>>

\* ~Impl has closed the connection; cbmap_ goes before client_, and joins.
Destroyed ==
  /\ pc[0] = "destroy"
  /\ \A i \in QueryId : Ended(cbmap_[i])
  /\ Goto(0, "gone")
  /\ UNCHANGED <<libVars, callVars, qid, cbmap_, te, got, called, waited, open, req, resp, result>>
-----------------------------------------------------------------------------
(***************************************************************************)
(* The server's end of the connection: one handler, one request at a time. *)
(***************************************************************************)
ServeQuery ==
  /\ req # <<>> /\ Head(req).kind = "query"
  /\ req' = Tail(req)
  /\ \/ \E i \in Id :
          /\ result[i] = 0
          /\ result' = [result EXCEPT ![i] = Head(req).of]
          /\ resp' = Append(resp, [id |-> i, of |-> 0])
     \/ resp' = Append(resp, [id |-> Refused, of |-> 0]) /\ UNCHANGED result
  /\ UNCHANGED <<libVars, pc, callVars, qid, cbmap_, te, got, called, waited, open>>

\* The handler polls until there is a result: it never comes for Refused.
ServeResult ==
  /\ req # <<>> /\ Head(req).kind = "result" /\ Head(req).of \in Id
  /\ LET i == Head(req).of
     IN  /\ result[i] # 0
         /\ resp' = Append(resp, [id |-> i, of |-> result[i]])
         /\ result' = [result EXCEPT ![i] = 0]
  /\ req' = Tail(req)
  /\ UNCHANGED <<libVars, pc, callVars, qid, cbmap_, te, got, called, waited, open>>
-----------------------------------------------------------------------------
Proceed(c) == Request(c) \/ ReceiveResult(c) \/ Fail(c)

Application ==
  \/ Proceed(0) \/ ReceiveId \/ SetCallback \/ WaitReturns \/ Destroyed

ResultThread(n) == Proceed(n) \/ CallCallback(n)

Server == ServeQuery \/ ServeResult

Next ==
  \/ \E withCallback \in BOOLEAN : SendQuery(withCallback)
  \/ \E n \in Number : RecvResults(n) \/ CallSetCallback(n) \/ Wait(n)
  \/ Disconnect \/ Destroy
  \/ Application \/ Server
  \/ \E n \in Number : ResultThread(n)

Spec == Init /\ [][Next]_vars

\* The threads are scheduled, and the server answers: CSServerLoad shows when it
\* does not, for a query that smaller ids overtake for ever.  Nothing makes the
\* application call, or the connection close.
Fairness ==
  /\ WF_vars(Application) /\ WF_vars(Server)
  /\ \A n \in Number : WF_vars(ResultThread(n))

FairSpec == Spec /\ Fairness
-----------------------------------------------------------------------------
\* Every variable has its type, and what has a ResultThread has an id.
TypeOK ==
  /\ pc \in [Caller -> {"none", "ready", "ask", "receive", "store", "join", "call",
                        "done", "destroy", "gone"}]
  /\ sent \in 0 .. MaxQueries /\ arg \in Caller /\ wants \subseteq Number
  /\ op \in {"none", "query", "result", "callback", "wait", "destroy"}
  /\ qid \in [Number -> QueryId \cup {NoId}]
  /\ cbmap_ \in [QueryId -> Caller]
  /\ te \subseteq Number /\ called \subseteq Number /\ waited \subseteq Number
  /\ got \in [Number -> Caller \cup {Anything}] /\ open \in BOOLEAN
  /\ serial \in BOOLEAN /\ overlapped \in BOOLEAN
  /\ result \in [Id -> Caller]
  /\ \A n \in Number : pc[n] # "none" => qid[n] # NoId

\* Although responses carry no query id and all threads share a connection, a
\* result that a callback is called with, or recv_results returns, is that of
\* its own query, as long as no two exchanges overlap.  CSClient does not keep
\* them apart, and no callback is safe where the library does not either.
OwnCallback == ~overlapped => \A n \in Number : got[n] \in {0, n}

\* What keeps exchanges apart without a library that does is to send one query
\* only: its ResultThread asks after its id has been received, and nothing else
\* asks for its result.
OverlapNeedsTwoQueries == overlapped => ~serial /\ sent >= 2

\* When wait returns and does not throw, the callback has been called.
WaitMeansCalled == waited \subseteq called

\* Once the destructor has returned no ResultThread is left that could use the
\* client, or call back with arguments that its caller has destroyed.
NoneAfterDestroy == pc[0] = "gone" => \A n \in Number : pc[n] \in {"none", "done"}

\* Some thread has asked for the result of a refused query.
Wedged == \E c \in Caller : pc[c] = "receive" /\ Message(c) = [kind |-> "result", of |-> Refused]

\* Every accepted query with a callback has it called, in spite of the threads
\* that wait for each other's exchanges, unless the connection is closed, a
\* refused query's ResultThread has taken it for good, or exchanges overlap.
AcceptedIsCalled ==
  \A n \in Number : (n \in wants /\ qid[n] \in Id) ~>
                       (n \in called \/ ~open \/ Wedged \/ overlapped)
=============================================================================
