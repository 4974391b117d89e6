--------------------------- MODULE CSClientProofs ----------------------------
(***************************************************************************)
(* Proofs about CSClient for any ids and any number of queries: TypeOK,    *)
(* when exchanges can overlap, and that callbacks, wait and the destructor *)
(* keep what they promise, whether or not the library serializes.          *)
(***************************************************************************)
EXTENDS CSClient, TLAPS

USE DEF Goto, Call, libVars, callVars

\* The threads are the application and one per query; no id is NoId.
LEMMA Callers ==
  /\ 0 \in Caller /\ 0 \notin Number /\ Number \subseteq Caller
  /\ \A c \in Caller : c # 0 => c \in Number
  /\ NoId \notin QueryId /\ NoId \notin Id /\ Id \subseteq QueryId
  /\ Refused \in QueryId /\ Refused \notin Id
BY ClientAssumption DEF Number, Caller, QueryId, NoId, Refused

\* The query that a result request of thread c is about.
Subject(c) == IF c = 0 THEN arg ELSE c
AsksId(c) == c = 0 /\ op = "query"

\* What the application thread is in the middle of.
AppInv ==
  /\ pc[0] \in {"ready", "ask", "receive", "store", "join", "destroy", "gone"}
  /\ pc[0] \in {"ask", "receive", "store", "join"} => arg \in Number
  /\ pc[0] \in {"ask", "receive"} => op \in {"query", "result"}
  /\ pc[0] \in {"ask", "receive"} /\ op = "query" => arg = sent /\ qid[arg] = NoId
  /\ pc[0] \in {"ask", "receive"} /\ op = "result" =>
       qid[arg] # NoId /\ arg \notin wants /\ got[arg] = 0
  /\ pc[0] = "store" =>
       arg \in wants /\ qid[arg] # NoId /\ got[arg] = 0 /\ pc[arg] = "none"
  /\ pc[0] = "join" => qid[arg] # NoId
  /\ pc[0] = "gone" => \A n \in Number : pc[n] \in {"none", "done"}

\* A ResultThread that has not ended is the one of its id in cbmap_.
ThreadInv ==
  /\ waited \subseteq called
  /\ \A n \in Number :
       /\ pc[n] \in {"none", "ask", "receive", "call", "done"}
       /\ n > sent => qid[n] = NoId /\ n \notin wants
       /\ qid[n] = NoId => got[n] = 0
       /\ pc[n] # "none" => n \in wants /\ qid[n] # NoId
       /\ pc[n] \notin {"none", "done"} => cbmap_[qid[n]] = n
       /\ pc[n] \in {"ask", "receive"} => got[n] = 0
       /\ pc[n] = "call" => got[n] # 0
       /\ pc[n] = "done" /\ n \notin te => n \in called
       /\ pc[n] = "done" /\ got[n] = 0 => ~open \/ overlapped
       /\ ~overlapped => got[n] \in {0, n}

\* Until exchanges overlap there is one at a time: its request is on its way, or
\* its answer.
WireInv ==
  /\ ~overlapped => \A c, d \in Caller : pc[c] = "receive" /\ pc[d] = "receive" => c = d
  /\ overlapped \/ ~open \/ (\A c \in Caller : pc[c] # "receive") => req = <<>> /\ resp = <<>>
  /\ ~overlapped => \A c \in Caller : pc[c] = "receive" /\ open =>
       \/ req = <<Message(c)>> /\ resp = <<>>
       \/ /\ req = <<>>
          /\ \E i \in QueryId, n \in Caller :
               /\ resp = <<[id |-> i, of |-> n]>>
               /\ AsksId(c) /\ i \in Id => result[i] = arg
               /\ ~AsksId(c) => n = Subject(c)

\* The server keeps the result of every query that has still to fetch it.
Answered(n) ==
  resp # <<>> /\ \E c \in Caller : pc[c] = "receive" /\ ~AsksId(c) /\ Subject(c) = n

ServerInv ==
  open /\ ~overlapped =>
    \A n \in Number : qid[n] \in Id /\ got[n] = 0 /\ ~Answered(n) => result[qid[n]] = n

\* Inductive.  OwnCallback alone is not: that the answer on its way is that of the
\* thread that waits needs WireInv, and that the server has it, ServerInv.
ClientInv == TypeOK /\ AppInv /\ ThreadInv /\ WireInv /\ ServerInv /\ OverlapNeedsTwoQueries

\* At first nothing is asked and nothing on its way.
LEMMA InitClientInv == Init => ClientInv
<1> SUFFICES ASSUME Init PROVE ClientInv
  OBVIOUS
<1> USE Callers, ClientAssumption DEF Number, Init
<1>1. TypeOK
  <2>1. serial \in BOOLEAN /\ overlapped \in BOOLEAN
    BY Zenon
  <2>2. pc \in [Caller -> {"none", "ready"}] /\ 0 \in 0 .. MaxQueries
    OBVIOUS
  <2>3. QED
    BY <2>1, <2>2 DEF TypeOK
<1>2. AppInv /\ ThreadInv
  BY DEF AppInv, ThreadInv
<1>3. WireInv /\ ServerInv /\ OverlapNeedsTwoQueries
  BY DEF WireInv, ServerInv, OverlapNeedsTwoQueries
<1>4. QED
  BY <1>1, <1>2, <1>3 DEF ClientInv
-----------------------------------------------------------------------------
(***************************************************************************)
(* ClientInv is inductive: one lemma per group of actions.                 *)
(***************************************************************************)
\* The application calls: no exchange and no ResultThread is disturbed.
LEMMA CallInv ==
  ASSUME ClientInv,
         \/ \E withCallback \in BOOLEAN : SendQuery(withCallback)
         \/ \E n \in Number : RecvResults(n) \/ CallSetCallback(n) \/ Wait(n)
  PROVE  ClientInv'
<1> USE Callers DEF ClientInv
<1>1. ASSUME NEW withCallback \in BOOLEAN, SendQuery(withCallback)
      PROVE  ClientInv'
  <2>1. /\ sent + 1 \in Number /\ sent' = sent + 1 /\ sent' \in 0 .. MaxQueries
        /\ qid[sent'] = NoId /\ sent' \notin wants
        /\ \A n \in Number : n > sent' => n > sent /\ n # sent'
        /\ got[sent'] = 0
    BY <1>1, ClientAssumption DEF SendQuery, TypeOK, ThreadInv, Number
  <2>2. /\ pc' = [pc EXCEPT ![0] = "ask"] /\ op' = "query" /\ arg' = sent' /\ pc[0] = "ready"
        /\ wants' = IF withCallback THEN wants \cup {sent'} ELSE wants
        /\ UNCHANGED <<libVars, qid, cbmap_, te, got, called, waited, open, req, resp, result>>
    BY <1>1, <2>1 DEF SendQuery
  <2>3. TypeOK'
    BY <2>1, <2>2 DEF TypeOK
  <2>4. AppInv' /\ ThreadInv'
    BY <2>1, <2>2 DEF TypeOK, AppInv, ThreadInv
  <2>5. WireInv'
    BY <2>1, <2>2 DEF TypeOK, WireInv, Message, AsksId, Subject
  <2>6. ServerInv'
    BY <2>1, <2>2 DEF TypeOK, ServerInv, Answered, AsksId, Subject
  <2>7. OverlapNeedsTwoQueries'
    BY <2>1, <2>2 DEF TypeOK, OverlapNeedsTwoQueries
  <2>8. QED
    BY <2>3, <2>4, <2>5, <2>6, <2>7
<1>2. ASSUME NEW n \in Number, RecvResults(n) \/ CallSetCallback(n) \/ Wait(n)
      PROVE  ClientInv'
  <2> USE DEF Unclaimed
  <2>1. /\ pc[0] = "ready" /\ arg' = n /\ qid[n] # NoId /\ ~(n > sent)
        /\ UNCHANGED <<libVars, sent, qid, cbmap_, te, got, called, waited, open, req, resp, result>>
    BY <1>2 DEF RecvResults, CallSetCallback, Wait, ThreadInv
  <2>2. \/ /\ op' = "result" /\ pc' = [pc EXCEPT ![0] = "ask"] /\ wants' = wants
           /\ n \notin wants /\ got[n] = 0
        \/ /\ op' = "callback" /\ pc' = [pc EXCEPT ![0] = "store"] /\ wants' = wants \cup {n}
           /\ n \notin wants /\ got[n] = 0
        \/ op' = "wait" /\ pc' = [pc EXCEPT ![0] = "join"] /\ wants' = wants
    BY <1>2 DEF RecvResults, CallSetCallback, Wait
  <2>3. TypeOK'
    BY <2>1, <2>2 DEF TypeOK
  <2>4. AppInv'
    BY <2>1, <2>2 DEF TypeOK, AppInv, ThreadInv
  <2>5. ThreadInv'
    BY <2>1, <2>2 DEF TypeOK, ThreadInv
  <2>6. WireInv'
    BY <2>1, <2>2 DEF TypeOK, WireInv, Message, AsksId, Subject
  <2>7. ServerInv'
    BY <2>1, <2>2 DEF TypeOK, ServerInv, Answered, AsksId, Subject
  <2>8. OverlapNeedsTwoQueries'
    BY <2>1, <2>2 DEF OverlapNeedsTwoQueries
  <2>9. QED
    BY <2>3, <2>4, <2>5, <2>6, <2>7, <2>8
<1>3. QED
  BY <1>1, <1>2

\* The connection closes, with what was on its way.
LEMMA CloseInv ==
  ASSUME ClientInv, Disconnect \/ Destroy
  PROVE  ClientInv'
<1> USE Callers DEF ClientInv, Disconnect, Destroy, Close
<1>1. TypeOK'
  BY DEF TypeOK
<1>2. AppInv' /\ ThreadInv'
  BY DEF TypeOK, AppInv, ThreadInv
<1>3. WireInv' /\ ServerInv' /\ OverlapNeedsTwoQueries'
  BY DEF TypeOK, AppInv, WireInv, ServerInv, OverlapNeedsTwoQueries
<1>4. QED
  BY <1>1, <1>2, <1>3

\* Two threads that exchange have different queries, both of them sent.
LEMMA OverlapInv ==
  ASSUME ClientInv, NEW c \in Caller, NEW d \in Caller, pc[c] = "ask", pc[d] = "receive"
  PROVE  sent >= 2
<1> USE Callers DEF ClientInv
<1>1. \A n \in Number : n \in Nat \ {0} /\ (qid[n] # NoId => n <= sent)
  BY ClientAssumption DEF Number, TypeOK, ThreadInv
<1>2. sent \in Nat /\ c # d
  BY ClientAssumption DEF TypeOK
<1>3. \A n \in Number : pc[n] # "none" => n <= sent /\ n \in wants
  BY <1>1 DEF ThreadInv
<1>4. CASE c # 0 /\ d # 0
  BY <1>1, <1>2, <1>3, <1>4
<1>5. CASE c = 0 \/ d = 0
  <2>1. PICK n \in {c, d} : n # 0
    BY <1>2
  <2>2. n \in Number /\ n <= sent /\ n \in wants /\ qid[n] # NoId
    BY <1>3, <2>1 DEF ThreadInv
  <2>3. arg \in Number /\ arg # n /\ arg <= sent
    BY <1>1, <1>2, <1>5, <2>2 DEF AppInv
  <2>4. QED
    BY <1>1, <1>2, <2>2, <2>3
<1>6. QED
  BY <1>4, <1>5

\* A request is sent when no other exchange goes on, or its exchange overlaps.
LEMMA RequestInv ==
  ASSUME ClientInv, NEW c \in Caller, Request(c)
  PROVE  ClientInv'
<1> USE Callers DEF ClientInv
<1> DEFINE others == \E d \in Caller : pc[d] = "receive"
<1>1. /\ pc[c] = "ask" /\ open /\ ~(serial /\ others)
      /\ overlapped' = (overlapped \/ others)
      /\ req' = IF overlapped' THEN <<>> ELSE Append(req, Message(c))
      /\ resp' = IF overlapped' THEN <<>> ELSE resp
      /\ pc' = [pc EXCEPT ![c] = "receive"]
      /\ UNCHANGED <<serial, callVars, qid, cbmap_, te, got, called, waited, open, result>>
  BY DEF Request
<1>2. TypeOK'
  BY <1>1 DEF TypeOK
<1>3. AppInv' /\ ThreadInv'
  BY <1>1 DEF TypeOK, AppInv, ThreadInv
<1>4. WireInv'
  <2>1. CASE overlapped'
    BY <1>1, <2>1 DEF WireInv
  <2>2. CASE ~overlapped'
    <3>1. ~overlapped /\ \A d \in Caller : pc[d] # "receive"
      BY <1>1, <2>2 DEF TypeOK
    <3>2. req = <<>> /\ resp = <<>>
      BY <3>1 DEF WireInv
    <3>3. req' = <<Message(c)>> /\ resp' = <<>> /\ Message(c)' = Message(c)
      BY <1>1, <2>2, <3>2 DEF Message
    <3>4. QED
      BY <1>1, <3>1, <3>3 DEF WireInv, TypeOK
  <2>3. QED
    BY <2>1, <2>2
<1>5. ServerInv'
  BY <1>1 DEF WireInv, ServerInv, Answered, TypeOK
<1>6. OverlapNeedsTwoQueries'
  BY <1>1, OverlapInv DEF OverlapNeedsTwoQueries, TypeOK
<1>7. QED
  BY <1>2, <1>3, <1>4, <1>5, <1>6

\* An exchange on a closed connection throws, and so may one that overlaps.
LEMMA FailInv ==
  ASSUME ClientInv, NEW c \in Caller, Fail(c)
  PROVE  ClientInv'
<1> USE Callers DEF ClientInv, Fail
<1>1. TypeOK'
  BY DEF TypeOK, ThreadInv
<1>2. AppInv' /\ ThreadInv'
  BY DEF TypeOK, AppInv, ThreadInv
<1>3. WireInv' /\ ServerInv' /\ OverlapNeedsTwoQueries'
  BY DEF TypeOK, WireInv, ServerInv, OverlapNeedsTwoQueries
<1>4. QED
  BY <1>1, <1>2, <1>3

\* send_query gets its id, whose result the server keeps.
LEMMA ReceiveIdInv ==
  ASSUME ClientInv, ReceiveId
  PROVE  ClientInv'
<1> USE Callers DEF ClientInv
<1>1. pc[0] = "receive" /\ op = "query" /\ arg \in Number /\ qid[arg] = NoId /\ got[arg] = 0
  BY DEF ReceiveId, Receiving, AppInv, ThreadInv, TypeOK
<1>2. /\ \E i \in IdRead : qid' = [qid EXCEPT ![arg] = i]
      /\ pc' = [pc EXCEPT ![0] = IF arg \in wants THEN "store" ELSE "ready"]
      /\ UNCHANGED <<libVars, callVars, cbmap_, te, got, called, waited, open, req, result>>
  BY DEF ReceiveId
<1>3. PICK i \in QueryId : /\ qid' = [qid EXCEPT ![arg] = i]
                           /\ req' = <<>> /\ resp' = <<>>
                           /\ i \in Id /\ ~overlapped => result[i] = arg
  <2>1. CASE overlapped
    BY <1>2, <2>1 DEF ReceiveId, Receiving, IdRead, WireInv
  <2>2. CASE ~overlapped
    <3>1. open /\ req = <<>> /\ resp # <<>> /\ resp' = Tail(resp) /\ IdRead = {Head(resp).id}
      BY <1>1, <2>2 DEF ReceiveId, Receiving, IdRead, WireInv
    <3>2. PICK i \in QueryId, n \in Caller : /\ resp = <<[id |-> i, of |-> n]>>
                                             /\ i \in Id => result[i] = arg
      BY <1>1, <2>2, <3>1 DEF WireInv, AsksId
    <3>3. Head(resp).id = i /\ resp' = <<>>
      BY <3>1, <3>2
    <3>4. QED
      BY <1>2, <3>1, <3>2, <3>3
  <2>3. QED
    BY <2>1, <2>2
<1>4. i # NoId
  OBVIOUS
<1>5. TypeOK'
  BY <1>1, <1>2, <1>3 DEF TypeOK
<1>6. AppInv'
  BY <1>1, <1>2, <1>3, <1>4 DEF TypeOK, AppInv, ThreadInv
<1>7. ThreadInv'
  BY <1>1, <1>2, <1>3, <1>4, ClientAssumption DEF TypeOK, AppInv, ThreadInv, Number
<1>8. WireInv'
  BY <1>1, <1>2, <1>3 DEF TypeOK, WireInv
<1>9. ServerInv'
  <2>1. ~overlapped => \A m \in Number : ~Answered(m)
    BY <1>1 DEF Answered, AsksId, WireInv
  <2>2. QED
    BY <1>1, <1>2, <1>3, <2>1 DEF ServerInv, TypeOK
<1>10. OverlapNeedsTwoQueries'
  BY <1>2 DEF OverlapNeedsTwoQueries
<1>11. QED
  BY <1>5, <1>6, <1>7, <1>8, <1>9, <1>10

\* What recv_results gets is the answer to its own request, or, once exchanges
\* have overlapped, anything.
LEMMA ReceiveResultInv ==
  ASSUME ClientInv, NEW c \in Caller, ReceiveResult(c)
  PROVE  ClientInv'
<1> USE Callers DEF ClientInv
<1> DEFINE n == Subject(c)
<1>1. pc[c] = "receive" /\ ~AsksId(c) /\ n \in Number /\ got[n] = 0 /\ qid[n] # NoId
  BY DEF ReceiveResult, Receiving, AppInv, ThreadInv, TypeOK, AsksId, Subject
<1>2. /\ got' = [got EXCEPT ![n] = ResultRead]
      /\ pc' = [pc EXCEPT ![c] = IF c = 0 THEN "ready" ELSE "call"]
      /\ UNCHANGED <<libVars, callVars, qid, cbmap_, te, called, waited, open, req, result>>
  BY DEF ReceiveResult, Subject
<1>3. /\ req' = <<>> /\ resp' = <<>>
      /\ ResultRead = IF overlapped THEN Anything ELSE n
  <2>1. CASE overlapped
    BY <1>2, <2>1 DEF ReceiveResult, Receiving, ResultRead, WireInv
  <2>2. CASE ~overlapped
    <3>1. open /\ req = <<>> /\ resp # <<>> /\ resp' = Tail(resp) /\ ResultRead = Head(resp).of
      BY <1>1, <2>2 DEF ReceiveResult, Receiving, ResultRead, WireInv
    <3>2. PICK i \in QueryId, m \in Caller : resp = <<[id |-> i, of |-> m]>> /\ m = n
      BY <1>1, <2>2, <3>1 DEF WireInv
    <3>3. Head(resp).of = n /\ resp' = <<>>
      BY <3>1, <3>2
    <3>4. QED
      BY <1>2, <2>2, <3>1, <3>3
  <2>3. QED
    BY <2>1, <2>2
<1>4. /\ ResultRead \in Caller \cup {Anything} /\ ResultRead # 0
      /\ ~overlapped => ResultRead = n
  BY <1>1, <1>3 DEF Anything
<1>5. TypeOK'
  BY <1>1, <1>2, <1>4 DEF TypeOK, ThreadInv
<1>6. AppInv'
  BY <1>1, <1>2, <1>4 DEF TypeOK, AppInv, ThreadInv, Subject
<1>7. ThreadInv'
  BY <1>1, <1>2, <1>4 DEF TypeOK, AppInv, ThreadInv, Subject
<1>8. WireInv'
  BY <1>1, <1>2, <1>3 DEF TypeOK, WireInv
<1>9. ServerInv'
  <2>1. ~overlapped => \A k \in Number \ {n} : ~Answered(k)
    BY <1>1 DEF Answered, WireInv
  <2>2. QED
    BY <1>1, <1>2, <1>4, <2>1 DEF ServerInv, TypeOK
<1>10. OverlapNeedsTwoQueries'
  BY <1>2 DEF OverlapNeedsTwoQueries
<1>11. QED
  BY <1>5, <1>6, <1>7, <1>8, <1>9, <1>10
-----------------------------------------------------------------------------
\* An entry is replaced only when its ResultThread has ended.
LEMMA SetCallbackInv ==
  ASSUME ClientInv, SetCallback
  PROVE  ClientInv'
<1> USE Callers DEF ClientInv, SetCallback
<1>1. arg \in Number /\ arg \in wants /\ qid[arg] \in QueryId /\ got[arg] = 0 /\ pc[arg] = "none"
  BY DEF AppInv, TypeOK
<1>2. TypeOK'
  BY <1>1 DEF TypeOK
<1>3. AppInv' /\ ThreadInv'
  BY <1>1 DEF TypeOK, AppInv, ThreadInv, Ended
<1>4. WireInv' /\ ServerInv' /\ OverlapNeedsTwoQueries'
  BY <1>1 DEF TypeOK, AppInv, WireInv, ServerInv, Answered, Message, AsksId, Subject,
     OverlapNeedsTwoQueries
<1>5. QED
  BY <1>2, <1>3, <1>4

\* A ResultThread ends, having called the callback.
LEMMA ThreadEndInv ==
  ASSUME ClientInv, NEW n \in Number, CallCallback(n)
  PROVE  ClientInv'
<1> USE Callers DEF ClientInv, CallCallback
<1>1. TypeOK'
  BY DEF TypeOK, ThreadInv
<1>2. AppInv' /\ ThreadInv'
  BY DEF TypeOK, AppInv, ThreadInv
<1>3. WireInv' /\ ServerInv' /\ OverlapNeedsTwoQueries'
  BY DEF TypeOK, WireInv, ServerInv, Answered, Message, AsksId, Subject,
     OverlapNeedsTwoQueries
<1>4. QED
  BY <1>1, <1>2, <1>3

\* wait, and the destructor, after the threads that they join.
LEMMA JoinInv ==
  ASSUME ClientInv, WaitReturns \/ Destroyed
  PROVE  ClientInv'
<1> USE Callers DEF ClientInv, WaitReturns, Destroyed, Ended
<1>1. TypeOK'
  BY DEF TypeOK, AppInv
<1>2. AppInv'
  BY DEF TypeOK, AppInv, ThreadInv
<1>3. ThreadInv'
  BY DEF TypeOK, AppInv, ThreadInv
<1>4. WireInv' /\ ServerInv' /\ OverlapNeedsTwoQueries'
  BY DEF TypeOK, WireInv, ServerInv, Answered, Message, AsksId, Subject,
     OverlapNeedsTwoQueries
<1>5. QED
  BY <1>1, <1>2, <1>3, <1>4
-----------------------------------------------------------------------------
\* The server takes a request only while its sender waits.
LEMMA RequestHasSender ==
  ASSUME ClientInv, req # <<>>
  PROVE  /\ open /\ ~overlapped
         /\ \E c \in Caller : pc[c] = "receive" /\ req = <<Message(c)>> /\ resp = <<>>
BY DEF ClientInv, WireInv

\* The server gives a query an id that is not in use, or refuses it.
LEMMA ServeQueryInv ==
  ASSUME ClientInv, ServeQuery
  PROVE  ClientInv'
<1> USE Callers DEF ClientInv
<1>1. PICK c \in Caller : pc[c] = "receive" /\ req = <<Message(c)>> /\ resp = <<>> /\ open
                            /\ ~overlapped
  BY RequestHasSender DEF ServeQuery
<1>2. AsksId(c) /\ Head(req).of = arg /\ arg \in Number
  BY <1>1 DEF ServeQuery, Message, AsksId, AppInv
<1> HIDE DEF ClientInv
<1>3. PICK i \in QueryId :
        /\ resp' = <<[id |-> i, of |-> 0]>> /\ req' = <<>>
        /\ i \in Id => result[i] = 0 /\ result' = [result EXCEPT ![i] = arg]
        /\ i \notin Id => result' = result
  <2>1. req' = <<>>
    BY <1>1 DEF ServeQuery
  <2>2. \A x : Append(resp, x) = <<x>>
    BY <1>1
  <2>3. CASE \E i \in Id : /\ result[i] = 0 /\ result' = [result EXCEPT ![i] = arg]
                           /\ resp' = <<[id |-> i, of |-> 0]>>
    BY <2>1, <2>3
  <2>4. CASE resp' = <<[id |-> Refused, of |-> 0]>> /\ result' = result
    BY <2>1, <2>4
  <2>5. QED
    BY <1>2, <2>2, <2>3, <2>4 DEF ServeQuery
<1> USE DEF ClientInv
<1>4. UNCHANGED <<libVars, pc, callVars, qid, cbmap_, te, got, called, waited, open>>
  BY DEF ServeQuery
<1>5. TypeOK'
  BY <1>2, <1>3, <1>4 DEF TypeOK
<1>6. AppInv' /\ ThreadInv'
  BY <1>4 DEF AppInv, ThreadInv
<1>7. WireInv'
  BY <1>1, <1>2, <1>3, <1>4 DEF WireInv, AsksId, TypeOK
<1>8. ServerInv'
  <2>1. \A m \in Number : ~Answered(m) /\ ~Answered(m)'
    BY <1>1, <1>2, <1>4 DEF Answered, AsksId, WireInv
  <2>2. QED
    BY <1>1, <1>3, <1>4, <2>1 DEF ServerInv, TypeOK
<1>9. OverlapNeedsTwoQueries'
  BY <1>4 DEF OverlapNeedsTwoQueries
<1>10. QED
  BY <1>5, <1>6, <1>7, <1>8, <1>9

\* The result of an id is that of the query that has still to fetch it.
LEMMA ServeResultInv ==
  ASSUME ClientInv, ServeResult
  PROVE  ClientInv'
<1> USE Callers DEF ClientInv
<1>1. PICK c \in Caller : pc[c] = "receive" /\ req = <<Message(c)>> /\ resp = <<>> /\ open
                            /\ ~overlapped
  BY RequestHasSender DEF ServeResult
<1> DEFINE n == Subject(c)
           i == qid[n]
<1>2. ~AsksId(c) /\ Head(req).of = i /\ i \in Id /\ n \in Number /\ got[n] = 0
  BY <1>1 DEF ServeResult, Message, AsksId, AppInv, ThreadInv, Subject
<1>3. result[i] = n
  BY <1>1, <1>2 DEF ServerInv, Answered
<1>4. /\ resp' = <<[id |-> i, of |-> n]>> /\ req' = <<>>
      /\ result' = [result EXCEPT ![i] = 0]
      /\ UNCHANGED <<libVars, pc, callVars, qid, cbmap_, te, got, called, waited, open>>
  <2>1. req' = <<>> /\ \A x : Append(resp, x) = <<x>>
    BY <1>1 DEF ServeResult
  <2>2. QED
    BY <1>2, <1>3, <2>1 DEF ServeResult
<1>5. TypeOK'
  BY <1>4 DEF TypeOK
<1>6. AppInv' /\ ThreadInv'
  BY <1>4 DEF AppInv, ThreadInv
<1>7. WireInv'
  BY <1>1, <1>2, <1>4 DEF WireInv, AsksId, Subject
<1>8. ServerInv'
  <2>1. \A m \in Number : m = n => Answered(m)'
    BY <1>1, <1>2, <1>4 DEF Answered, AsksId, Subject
  <2>2. \A m \in Number : ~Answered(m)
    BY <1>1 DEF Answered
  <2>3. ASSUME NEW m \in Number, qid[m] \in Id, got[m] = 0, ~Answered(m)'
        PROVE  result'[qid[m]] = m
    <3>1. m # n /\ result[qid[m]] = m
      BY <1>1, <2>1, <2>2, <2>3 DEF ServerInv
    <3>2. qid[m] # i
      BY <1>3, <3>1
    <3>3. QED
      BY <1>2, <1>4, <2>3, <3>1, <3>2 DEF TypeOK
  <2>4. QED
    BY <1>4, <2>3 DEF ServerInv
<1>9. OverlapNeedsTwoQueries'
  BY <1>4 DEF OverlapNeedsTwoQueries
<1>10. QED
  BY <1>5, <1>6, <1>7, <1>8, <1>9
-----------------------------------------------------------------------------
\* The client's threads, the wire and the server's results always fit together.
THEOREM ClientIsInvariant == Spec => []ClientInv
<1>1. ClientInv /\ [Next]_vars => ClientInv'
  <2>1. SUFFICES ASSUME ClientInv, [Next]_vars PROVE ClientInv'
    OBVIOUS
  <2>2. CASE Next
    BY <2>1, <2>2, CallInv, CloseInv, RequestInv, FailInv, ReceiveIdInv, ReceiveResultInv,
       SetCallbackInv, ThreadEndInv, JoinInv, ServeQueryInv, ServeResultInv,
       Callers DEF Next, Application, ResultThread, Proceed, Server
  <2>3. CASE UNCHANGED vars
    BY <2>1, <2>3 DEF vars, ClientInv, TypeOK, AppInv, ThreadInv, WireInv, ServerInv,
       OverlapNeedsTwoQueries, Answered, Message, AsksId, Subject
  <2>4. QED
    BY <2>1, <2>2, <2>3
<1>2. QED
  BY <1>1, InitClientInv, PTL DEF Spec

\* Every state of the client is well typed.
THEOREM ClientTypeCorrect == Spec => []TypeOK
BY ClientIsInvariant, PTL DEF ClientInv

\* A callback is called with the result of its own query unless exchanges overlap,
\* which they do only if the library allows it and the client has sent two queries;
\* wait returns without an exception only after the callback, and the destructor
\* only after the last ResultThread has ended, whether or not they overlap.
THEOREM CallbacksAreRight ==
  Spec => [](OwnCallback /\ OverlapNeedsTwoQueries /\ WaitMeansCalled /\ NoneAfterDestroy)
<1>1. ClientInv =>
        OwnCallback /\ OverlapNeedsTwoQueries /\ WaitMeansCalled /\ NoneAfterDestroy
  BY DEF ClientInv, AppInv, ThreadInv, OwnCallback, WaitMeansCalled, NoneAfterDestroy
<1>2. QED
  BY <1>1, ClientIsInvariant, PTL
=============================================================================
