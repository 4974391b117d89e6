------------------------- MODULE KeyContainerProofs --------------------------
(***************************************************************************)
(* Proofs about KeyContainer for any handlers, key ids and bounds: TypeOK, *)
(* and that an id that gen_uuid returned once stands for one complete key  *)
(* set, whatever is saved, read, deleted and restarted meanwhile.          *)
(***************************************************************************)
EXTENDS KeyContainer, TLAPS

-----------------------------------------------------------------------------
(***************************************************************************)
(* The two orders in which the files are gone through.                     *)
(***************************************************************************)
Items(s) == {s[i] : i \in DOMAIN s}

\* What is left of them at each step.
Saving == {SaveOrder,
           <<"sec", "param", "galois", "relin">>,
           <<"param", "galois", "relin">>,
           <<"galois", "relin">>,
           <<"relin">>}
Removing == {RemoveOrder,
             <<"sec", "galois", "relin", "param">>,
             <<"galois", "relin", "param">>,
             <<"relin", "param">>,
             <<"param">>}

\* The items of a tuple written out.
LEMMA ItemsOfTuples ==
  /\ \A a : Items(<<a>>) = {a}
  /\ \A a, b : Items(<<a, b>>) = {a, b}
  /\ \A a, b, c : Items(<<a, b, c>>) = {a, b, c}
  /\ \A a, b, c, d : Items(<<a, b, c, d>>) = {a, b, c, d}
  /\ \A a, b, c, d, e : Items(<<a, b, c, d, e>>) = {a, b, c, d, e}
BY DEF Items

\* A sequence of two or more has a tail to go on with.
LEMMA TailNotEmpty ==
  ASSUME NEW S, NEW s \in Seq(S), Len(s) > 1
  PROVE  Tail(s) # <<>>
<1>1. /\ Len(s) \in Nat /\ Len(Tail(s)) = Len(s) - 1
  OBVIOUS
<1>2. Len(<<>>) = 0  OBVIOUS
<1> DEFINE n == Len(s)
           m == Len(Tail(s))
<1>3. n \in Nat /\ m = n - 1 /\ n > 1  BY <1>1
<1>4. m # 0
  <2> HIDE DEF m, n
  <2> QED  BY <1>3
<1> QED  BY <1>2, <1>4

\* generate_keyfiles goes through the five files once each.
LEMMA SavingSteps ==
  /\ SaveOrder \in Saving /\ Items(SaveOrder) = Kind
  /\ \A s \in Saving :
       /\ s \in Seq(Kind) /\ s # <<>> /\ Head(s) \in Kind /\ Tail(s) \in Seq(Kind)
       /\ IF Len(s) > 1 THEN Tail(s) \in Saving /\ Items(Tail(s)) = Items(s) \ {Head(s)}
                        ELSE Items(s) = {Head(s)}
       /\ Head(s) \in Items(s)
BY ItemsOfTuples DEF Saving, SaveOrder, Kind

\* So does remove_keyfiles; and two deletions are equally far when neither has
\* passed the file that the other removes next.
LEMMA RemovingSteps ==
  /\ RemoveOrder \in Removing /\ Items(RemoveOrder) = Kind
  /\ \A s \in Removing :
       /\ s \in Seq(Kind) /\ s # <<>> /\ Head(s) \in Kind /\ Tail(s) \in Seq(Kind)
       /\ IF Len(s) > 1 THEN Tail(s) \in Removing /\ Items(Tail(s)) = Items(s) \ {Head(s)}
                        ELSE Items(s) = {Head(s)}
       /\ Head(s) \in Items(s)
  /\ \A s, t \in Removing : Head(s) \in Items(t) /\ Items(t) \subseteq Items(s) => s = t
BY ItemsOfTuples DEF Removing, RemoveOrder, Kind
-----------------------------------------------------------------------------
(***************************************************************************)
(* What a handler is doing, and the key set it makes if it makes one.      *)
(***************************************************************************)
Shape(h) ==
  /\ pc[h] = "free" => hset[h] = None
  /\ pc[h] \in {"emplace", "open", "save"} => hset[h] # None
  /\ hset[h] # None =>
       /\ hset[h] \in DOMAIN made /\ made[hset[h]] = hid[h]
       /\ pc[h] \in {"emplace", "open", "save", "load", "reply"}
  /\ hset[h] = None /\ hid[h] # None => hid[h] \in Known
  /\ pc[h] = "emplace" => todo[h] = SaveOrder
  /\ pc[h] \in {"open", "save"} => todo[h] \in Saving
  /\ pc[h] = "load" => todo[h] # <<>>
  /\ pc[h] = "load" /\ hset[h] # None => todo[h] = <<"sec">>
  /\ pc[h] # "reply" /\ hset[h] # None => loaded[h] = <<>>
  /\ pc[h] = "reply" /\ hset[h] # None => Len(loaded[h]) = 1
  /\ pc[h] = "at" => todo[h] = RemoveOrder
  /\ pc[h] = "remove" => todo[h] \in Removing
  /\ pc[h] \in {"at", "remove", "erase"} => hid[h] \in deleted

ShapeInv ==
  /\ \A h \in Handler : Shape(h)
  /\ \A g, h \in Handler : hset[g] = hset[h] /\ hset[h] # None => g = h

\* Handler g does not take part in the step.
Idle(g) ==
  /\ pc'[g] = pc[g] /\ hid'[g] = hid[g] /\ hset'[g] = hset[g]
  /\ todo'[g] = todo[g] /\ loaded'[g] = loaded[g]

\* Only h takes part, and what is made, known and deleted stays so.
Step(h) ==
  /\ \A g \in Handler : g # h => Idle(g)
  /\ held \subseteq held' /\ deleted \subseteq deleted'
  /\ \A m \in DOMAIN made : m \in DOMAIN made' /\ made'[m] = made[m]

\* The handlers that do not take part keep their shape, whatever the other
\* does to what is shared.
LEMMA ShapeElsewhere ==
  ASSUME TypeOK, ShapeInv, NEW h \in Handler, Step(h), Shape(h)',
         hset'[h] # None => hset'[h] = hset[h] \/ hset'[h] \notin DOMAIN made
  PROVE  ShapeInv'
<1>1. Known \subseteq Known'  BY DEF Known, Step
<1>2. ASSUME NEW g \in Handler, g # h  PROVE Shape(g)'
  BY <1>1, <1>2 DEF ShapeInv, Shape, Step, Idle
<1>3. ASSUME NEW f \in Handler, NEW g \in Handler,
             hset'[f] = hset'[g], hset'[g] # None
      PROVE  f = g
  BY <1>3 DEF ShapeInv, Shape, Step, Idle
<1> QED  BY <1>2, <1>3 DEF ShapeInv

\* A handler that ends has no shape to keep.
LEMMA EndShape ==
  ASSUME TypeOK, NEW h \in Handler, End(h)
  PROVE  Shape(h)' /\ hset'[h] = None /\ (\A g \in Handler : g # h => Idle(g))
BY KeyAssumption DEF TypeOK, End, Shape, Idle

\* The steps that begin a request keep types and shapes.
LEMMA RequestShape ==
  ASSUME TypeOK, ShapeInv, NEW h \in Handler, Request(h)
  PROVE  TypeOK' /\ ShapeInv' /\ Step(h)
<1> USE KeyAssumption
<1>1. ASSUME NEW id \in KeyId, NewKeyRequest(h, id)  PROVE TypeOK' /\ ShapeInv' /\ Step(h)
  <2> USE <1>1 DEF NewKeyRequest, Begin
  <2>1. /\ Len(made) + 1 \in KeySet /\ made' \in Seq(KeyId) /\ Len(made') = Len(made) + 1
        /\ Len(made) + 1 \notin DOMAIN made /\ Len(made) + 1 \in DOMAIN made'
        /\ made'[Len(made) + 1] = id
        /\ \A m \in DOMAIN made : m \in DOMAIN made' /\ made'[m] = made[m]
    BY DEF TypeOK, KeySet
  <2>2. SaveOrder \in Seq(Kind)  BY SavingSteps
  <2>3. TypeOK'  BY <2>1, <2>2 DEF TypeOK
  <2>4. Step(h)  BY <2>1 DEF TypeOK, Step, Idle
  <2>5. /\ hset'[h] = Len(made) + 1 /\ hid'[h] = id /\ todo'[h] = SaveOrder /\ pc'[h] = "emplace"
        /\ loaded'[h] = <<>>
    BY DEF TypeOK
  <2>6. Shape(h)'  BY <2>1, <2>5 DEF Shape, KeySet
  <2> QED  BY <2>1, <2>3, <2>4, <2>5, <2>6, ShapeElsewhere
<1>2. ASSUME NEW id \in Known, NEW k \in Kind,
             KeyRequest(h, id, k) \/ CsMidResult(h, id) \/ DeleteKeyRequest(h, id)
      PROVE  TypeOK' /\ ShapeInv' /\ Step(h)
  <2> USE <1>2 DEF KeyRequest, CsMidResult, DeleteKeyRequest, Begin
  <2>1. id \in KeyId  BY DEF TypeOK, Known
  <2>2. /\ MidResultKeys \in Seq(Kind) /\ <<k>> \in Seq(Kind) /\ RemoveOrder \in Seq(Kind)
        /\ MidResultKeys # <<>> /\ <<k>> # <<>>
    BY RemovingSteps DEF MidResultKeys, Kind
  <2>3. TypeOK'
    <3>1. \E step \in {"load", "at"}, kinds \in Seq(Kind) : Begin(h, step, id, None, kinds)
      BY <2>2
    <3>2. UNCHANGED <<map_, files, made, held, restarts>> /\ deleted' \subseteq deleted \cup {id}
      OBVIOUS
    <3> QED  BY <2>1, <3>1, <3>2 DEF TypeOK
  <2>4. Step(h)  BY DEF TypeOK, Step, Idle
  <2>5. /\ hset'[h] = None /\ hid'[h] = id /\ id \in Known'
        /\ \/ pc'[h] = "load" /\ todo'[h] # <<>>
           \/ pc'[h] = "at" /\ todo'[h] = RemoveOrder /\ id \in deleted'
    BY <2>2 DEF TypeOK, Known
  <2>6. Shape(h)'  BY <2>5 DEF Shape
  <2> QED  BY <2>3, <2>4, <2>5, <2>6, ShapeElsewhere
<1>3. "pub" \in Kind  BY DEF Kind
<1> QED  BY <1>1, <1>2, <1>3 DEF Request

\* The steps of new_keys and generate_keyfiles do.
LEMMA GenerateShape ==
  ASSUME TypeOK, ShapeInv, NEW h \in Handler,
         EmplaceKey(h) \/ GenerateThrows(h) \/ OpenKeyFile(h) \/ SaveKeyFile(h)
  PROVE  TypeOK' /\ ShapeInv' /\ Step(h)
<1> USE KeyAssumption
<1>1. Shape(h)  BY DEF ShapeInv
<1>2. pc[h] \in {"emplace", "open", "save"}
  BY DEF EmplaceKey, GenerateThrows, OpenKeyFile, SaveKeyFile
<1>3. /\ hset[h] \in KeySet /\ hset[h] # None /\ hid[h] \in KeyId /\ todo[h] \in Saving
      /\ hset[h] \in DOMAIN made
  BY <1>1, <1>2, SavingSteps DEF Shape, TypeOK
<1>4. CASE EmplaceKey(h)
  <2> USE <1>4 DEF EmplaceKey, Proceed
  <2>1. TypeOK'  BY <1>3 DEF TypeOK
  <2>2. Step(h)  BY DEF TypeOK, Step, Idle
  <2>3. Shape(h)'  BY <1>1, <1>3 DEF TypeOK, Shape
  <2> QED  BY <2>1, <2>2, <2>3, ShapeElsewhere
<1>5. CASE GenerateThrows(h)
  <2> USE <1>5 DEF GenerateThrows
  <2>1. TypeOK'  BY DEF TypeOK, End
  <2>2. Step(h)  BY EndShape DEF Step
  <2> QED  BY <2>1, <2>2, EndShape, ShapeElsewhere
<1>6. CASE OpenKeyFile(h)
  <2> USE <1>6 DEF OpenKeyFile, Proceed
  <2>1. Head(todo[h]) \in Kind  BY <1>3, SavingSteps
  <2>2. TypeOK'
    <3>1. files' \in [KeyId -> [Kind -> Content]]  BY <1>3, <2>1 DEF TypeOK, Content
    <3> QED  BY <3>1, <1>3 DEF TypeOK
  <2>3. Step(h)  BY DEF TypeOK, Step, Idle
  <2>4. Shape(h)'  BY <1>1, <1>3 DEF TypeOK, Shape
  <2> QED  BY <2>2, <2>3, <2>4, ShapeElsewhere
<1>7. CASE SaveKeyFile(h)
  <2> USE <1>7 DEF SaveKeyFile, Proceed
  <2>1. /\ Head(todo[h]) \in Kind /\ <<"sec">> \in Seq(Kind) /\ <<"sec">> # <<>>
        /\ Len(todo[h]) > 1 => Tail(todo[h]) \in Saving /\ Tail(todo[h]) \in Seq(Kind)
    BY <1>3, SavingSteps DEF Kind
  <2>2. TypeOK'
    <3>1. files' \in [KeyId -> [Kind -> Content]]  BY <1>3, <2>1 DEF TypeOK, Content
    <3>2. \E step \in {"open", "load"}, kinds \in Seq(Kind) : Proceed(h, step, kinds)
      BY <2>1
    <3> QED  BY <3>1, <3>2, <1>2, <1>3 DEF TypeOK
  <2>3. Step(h)  BY DEF TypeOK, Step, Idle
  <2>4. Shape(h)'
    <3>1. /\ hset'[h] = hset[h] /\ hid'[h] = hid[h] /\ loaded'[h] = <<>> /\ made' = made
          /\ \/ pc'[h] = "open" /\ todo'[h] \in Saving
             \/ pc'[h] = "load" /\ todo'[h] = <<"sec">>
      BY <1>1, <1>3, <2>1 DEF TypeOK, Shape
    <3> QED  BY <1>1, <1>3, <2>1, <3>1 DEF Shape
  <2> QED  BY <2>2, <2>3, <2>4, ShapeElsewhere
<1> QED  BY <1>4, <1>5, <1>6, <1>7

\* The steps that load files and reply do.
LEMMA LoadShape ==
  ASSUME TypeOK, ShapeInv, NEW h \in Handler,
         LoadKeyFile(h) \/ LoadThrows(h) \/ SendReply(h)
  PROVE  TypeOK' /\ ShapeInv' /\ Step(h)
<1> USE KeyAssumption
<1>1. Shape(h) /\ hid[h] \in KeyId
  BY DEF ShapeInv, TypeOK, LoadKeyFile, LoadThrows, SendReply
<1>2. CASE LoadKeyFile(h)
  <2> DEFINE content == files[hid[h]][Head(todo[h])]
  <2> USE <1>2 DEF LoadKeyFile, Proceed
  <2>1. todo[h] \in Seq(Kind) /\ todo[h] # <<>>  BY <1>1 DEF TypeOK, Shape
  <2>2. /\ Head(todo[h]) \in Kind /\ Tail(todo[h]) \in Seq(Kind)
        /\ Len(Tail(todo[h])) = Len(todo[h]) - 1
    BY <2>1
  <2>2a. Len(todo[h]) > 1 => Tail(todo[h]) # <<>>  BY <2>1, TailNotEmpty
  <2>3. content \in Content  BY <1>1, <2>2 DEF TypeOK
  <2>4. TypeOK'
    <3>1. loaded' \in [Handler -> Seq(Content)]  BY <2>3 DEF TypeOK
    <3>2. \E step \in {"load", "reply"} : Proceed(h, step, Tail(todo[h]))
      OBVIOUS
    <3> QED  BY <1>1, <2>2, <3>1, <3>2 DEF TypeOK
  <2>5. Step(h)  BY DEF TypeOK, Step, Idle
  <2>6. Shape(h)'
    <3>1. /\ hset'[h] = hset[h] /\ hid'[h] = hid[h] /\ made' = made /\ held' = held
          /\ loaded'[h] = Append(loaded[h], content)
          /\ pc'[h] = (IF Len(todo[h]) > 1 THEN "load" ELSE "reply")
          /\ todo'[h] = Tail(todo[h])
      BY DEF TypeOK
    <3>2. hset[h] # None => Len(todo[h]) = 1 /\ Len(loaded'[h]) = 1
      <4>1. hset[h] # None => todo[h] = <<"sec">> /\ loaded[h] = <<>>
        BY <1>1 DEF Shape
      <4>2. Len(<<"sec">>) = 1 /\ Len(Append(<<>>, content)) = 1
        OBVIOUS
      <4> QED  BY <3>1, <4>1, <4>2
    <3>3. pc[h] = "load" /\ Known' = Known  BY DEF Known
    <3> QED  BY <1>1, <2>2, <2>2a, <3>1, <3>2, <3>3 DEF Shape
  <2> QED  BY <2>4, <2>5, <2>6, ShapeElsewhere
<1>3. CASE LoadThrows(h)
  <2> USE <1>3 DEF LoadThrows
  <2>1. TypeOK'  BY DEF TypeOK, End
  <2>2. Step(h)  BY EndShape DEF Step
  <2> QED  BY <2>1, <2>2, EndShape, ShapeElsewhere
<1>4. CASE SendReply(h)
  <2> USE <1>4 DEF SendReply
  <2>1. hset[h] # None => loaded[h][1] \in Content
    <3>1. loaded[h] \in Seq(Content)  BY DEF TypeOK
    <3>2. hset[h] # None => Len(loaded[h]) = 1  BY <1>1 DEF Shape
    <3> QED  BY <3>1, <3>2
  <2>2. held' \subseteq KeyId \X Content /\ held \subseteq held'  BY <1>1, <2>1 DEF TypeOK
  <2>3. TypeOK'  BY <2>2 DEF TypeOK, End
  <2>4. Step(h)  BY <2>2, EndShape DEF Step
  <2> QED  BY <2>3, <2>4, EndShape, ShapeElsewhere
<1> QED  BY <1>2, <1>3, <1>4

\* The steps of delete_keys and remove_keyfiles do.
LEMMA DeleteShape ==
  ASSUME TypeOK, ShapeInv, NEW h \in Handler,
         \/ FindKeyFiles(h) \/ FindThrows(h)
         \/ RemoveKeyFile(h) \/ RemoveThrows(h) \/ EraseKey(h)
  PROVE  TypeOK' /\ ShapeInv' /\ Step(h)
<1> USE KeyAssumption
<1>1. Shape(h) /\ hset[h] = None /\ hid[h] \in KeyId
  BY DEF ShapeInv, Shape, TypeOK, FindKeyFiles, FindThrows, RemoveKeyFile, RemoveThrows, EraseKey
<1>2. CASE FindKeyFiles(h)
  <2> USE <1>2 DEF FindKeyFiles, Proceed
  <2>1. TypeOK'  BY <1>1 DEF TypeOK
  <2>2. Step(h)  BY DEF TypeOK, Step, Idle
  <2>3. Shape(h)'  BY <1>1, RemovingSteps DEF TypeOK, Shape, Known
  <2> QED  BY <1>1, <2>1, <2>2, <2>3, ShapeElsewhere
<1>3. CASE RemoveKeyFile(h)
  <2> USE <1>3 DEF RemoveKeyFile, Proceed
  <2>1. /\ todo[h] \in Removing /\ Head(todo[h]) \in Kind /\ Tail(todo[h]) \in Seq(Kind)
        /\ Len(todo[h]) > 1 => Tail(todo[h]) \in Removing
    BY <1>1, RemovingSteps DEF Shape
  <2>2. TypeOK'
    <3>1. files' \in [KeyId -> [Kind -> Content]]  BY <1>1, <2>1 DEF TypeOK, Content
    <3>2. \E step \in {"remove", "erase"} : Proceed(h, step, Tail(todo[h]))
      OBVIOUS
    <3> QED  BY <1>1, <2>1, <3>1, <3>2 DEF TypeOK
  <2>3. Step(h)  BY DEF TypeOK, Step, Idle
  <2>4. Shape(h)'
    <3>1. /\ hset'[h] = None /\ hid'[h] = hid[h] /\ deleted' = deleted /\ Known' = Known
          /\ \/ pc'[h] = "remove" /\ todo'[h] \in Removing
             \/ pc'[h] = "erase"
      BY <1>1, <2>1 DEF TypeOK, Known
    <3> QED  BY <1>1, <3>1 DEF Shape
  <2> QED  BY <1>1, <2>2, <2>3, <2>4, ShapeElsewhere
<1>4. CASE FindThrows(h) \/ RemoveThrows(h) \/ EraseKey(h)
  <2> USE <1>4 DEF FindThrows, RemoveThrows, EraseKey
  <2>1. TypeOK'
    <3>1. End(h) /\ map_' \subseteq map_ /\ UNCHANGED <<files, made, held, deleted, restarts>>
      OBVIOUS
    <3> QED  BY <3>1 DEF TypeOK, End
  <2>2. Step(h)  BY EndShape DEF Step
  <2> QED  BY <2>1, <2>2, EndShape, ShapeElsewhere
<1> QED  BY <1>2, <1>3, <1>4

\* After a restart no handler has a request.
LEMMA RestartShape ==
  ASSUME TypeOK, ShapeInv, Restart
  PROVE  TypeOK' /\ ShapeInv'
<1> USE KeyAssumption DEF Restart
<1>1. restarts' \in 0 .. MaxRestarts  BY DEF TypeOK
<1>2. TypeOK'  BY <1>1 DEF TypeOK
<1>3. ShapeInv'  BY DEF ShapeInv, Shape
<1> QED  BY <1>2, <1>3

\* And none has one at the start.
LEMMA InitShape ==
  ASSUME Init
  PROVE  TypeOK /\ ShapeInv
<1>1. TypeOK  BY KeyAssumption DEF Init, TypeOK, Content
<1>2. ShapeInv  BY DEF Init, ShapeInv, Shape
<1> QED  BY <1>1, <1>2

\* The types are right: in particular a save writes a key set's number, and a
\* handler that opens, saves, loads or removes a file has one to go on with.
THEOREM KeyTypeCorrect == Spec => []TypeOK
<1>1. Init => TypeOK /\ ShapeInv  BY InitShape
<1>2. TypeOK /\ ShapeInv /\ [Next]_vars => (TypeOK /\ ShapeInv)'
  <2> SUFFICES ASSUME TypeOK, ShapeInv, [Next]_vars  PROVE TypeOK' /\ ShapeInv'
    OBVIOUS
  <2>1. CASE UNCHANGED vars
    BY <2>1 DEF vars, TypeOK, ShapeInv, Shape, Known
  <2>2. CASE Next
    BY <2>2, RequestShape, GenerateShape, LoadShape, DeleteShape, RestartShape
      DEF Next, HandlerStep
  <2> QED  BY <2>1, <2>2
<1> QED  BY <1>1, <1>2, PTL DEF Spec
-----------------------------------------------------------------------------
(***************************************************************************)
(* An id that gen_uuid returned once.                                      *)
(***************************************************************************)
Drawn(id) == \E n \in DOMAIN made : made[n] = id

Owner(id, n) == n \in DOMAIN made /\ \A m \in DOMAIN made : made[m] = id <=> m = n

\* Nobody knows of an id, on disk or in memory, before it is drawn.
DrawnInv ==
  /\ deleted \subseteq Known
  /\ \A id \in KeyId :
       id \in map_ \/ id \in Known \/ (\E k \in Kind : files[id][k] # Absent) => Drawn(id)

Making(h, id) == hid[h] = id /\ hset[h] # None
All(id, content) == \A k \in Kind : files[id][k] = content

\* While the key set is made its files go from absent to complete, in order,
\* and no user has the id.
MakerInv(id, n) == \A h \in Handler : Making(h, id) =>
  /\ id \notin Known
  /\ pc[h] # "emplace" => id \in map_
  /\ pc[h] = "emplace" => All(id, Absent)
  /\ pc[h] \in {"open", "save"} => \A k \in Kind :
       files[id][k] = IF k \notin Items(todo[h]) THEN n
                      ELSE IF pc[h] = "save" /\ k = Head(todo[h]) THEN Torn ELSE Absent
  /\ pc[h] \in {"load", "reply"} => All(id, n)

\* Once users have it, its files only disappear.
KnownInv(id, n) ==
  /\ id \in Known => \A k \in Kind : files[id][k] \in {Absent, n}
  /\ \A p \in held : p[1] = id => p[2] = n
  /\ \A h \in Handler : hid[h] = id => \A i \in DOMAIN loaded[h] : loaded[h][i] = n
  /\ restarts = 0 /\ id \in Known \ deleted => id \in map_ /\ All(id, n)

\* A file that a deletion has passed is gone, whichever deletion removed it.
RemoverInv(id, n) == \A h \in Handler : hid[h] = id =>
  /\ pc[h] = "remove" => \A k \in Kind : k \notin Items(todo[h]) => files[id][k] = Absent
  /\ pc[h] = "erase" => All(id, Absent)

\* What is left of the files is what some deletion still has to remove.
Remains(id, n) ==
  restarts = 0 /\ (\A h \in Handler : ~Making(h, id)) =>
    \/ All(id, n) /\ id \in map_
    \/ All(id, Absent)
    \/ \E h \in Handler : /\ hid[h] = id /\ pc[h] = "remove"
                          /\ \A k \in Items(todo[h]) : files[id][k] = n

OneKeySet(id, n) == MakerInv(id, n) /\ KnownInv(id, n) /\ RemoverInv(id, n) /\ Remains(id, n)

KeyInv ==
  /\ TypeOK /\ ShapeInv /\ DrawnInv
  /\ \A id \in KeyId, n \in KeySet : Owner(id, n) => OneKeySet(id, n)

-----------------------------------------------------------------------------
\* A step of a handler that works on another id.
LEMMA Elsewhere ==
  ASSUME TypeOK, NEW id \in KeyId, NEW n \in KeySet, OneKeySet(id, n),
         NEW h \in Handler, \A g \in Handler : g # h => Idle(g),
         hid[h] # id, hid'[h] # id, files'[id] = files[id], restarts' = restarts,
         id \in map_' <=> id \in map_, id \in deleted' <=> id \in deleted,
         \A p : p[1] = id => (p \in held' <=> p \in held)
  PROVE  OneKeySet(id, n)'
<1>1. id \in Known' <=> id \in Known  BY DEF Known
<1>2. \A g \in Handler : hid'[g] = id <=> hid[g] = id  BY DEF Idle
<1>3. \A g \in Handler : hid[g] = id => Idle(g)  OBVIOUS
<1>4. \A g \in Handler : Making(g, id)' <=> Making(g, id)
  BY <1>2, <1>3 DEF Making, Idle
<1>5. MakerInv(id, n)'
  BY <1>1, <1>3, <1>4 DEF OneKeySet, MakerInv, Making, Idle, All, Items
<1>6. KnownInv(id, n)'
  BY <1>1, <1>2, <1>3 DEF OneKeySet, KnownInv, Idle, All
<1>7. RemoverInv(id, n)'
  BY <1>2, <1>3 DEF OneKeySet, RemoverInv, Idle, All, Items
<1>8. Remains(id, n)'
  BY <1>2, <1>3, <1>4 DEF OneKeySet, Remains, Idle, All, Items
<1> QED  BY <1>5, <1>6, <1>7, <1>8 DEF OneKeySet

\* Who makes a key set is alone with its id.
LEMMA Alone ==
  ASSUME TypeOK, ShapeInv, NEW id \in KeyId, NEW n \in KeySet, Owner(id, n),
         OneKeySet(id, n), NEW h \in Handler, Making(h, id)
  PROVE  /\ hset[h] = n /\ id \notin Known
         /\ \A g \in Handler : hid[g] = id => g = h
<1>1. id # None  BY KeyAssumption
<1>2. \A g \in Handler : hset[g] # None /\ hid[g] = id => hset[g] = n
  BY DEF ShapeInv, Shape, Owner
<1>3. id \notin Known  BY DEF OneKeySet, MakerInv
<1>4. \A g \in Handler : hid[g] = id => hset[g] # None
  BY <1>1, <1>3 DEF ShapeInv, Shape
<1> QED  BY <1>2, <1>3, <1>4 DEF ShapeInv, Making

\* At the start no id is drawn.
LEMMA InitOneKeySet ==
  ASSUME Init
  PROVE  DrawnInv /\ \A id \in KeyId, n \in KeySet : Owner(id, n) => OneKeySet(id, n)
<1>1. DrawnInv  BY DEF Init, DrawnInv, Known
<1>2. \A id : ~Drawn(id)  BY DEF Init, Drawn
<1> QED  BY <1>1, <1>2 DEF Owner, Drawn

\* What is drawn stays so, and only ids that are drawn are used.
LEMMA DrawnStep ==
  ASSUME TypeOK, ShapeInv, DrawnInv, NEW h \in Handler, Request(h) \/ HandlerStep(h)
  PROVE  DrawnInv'
<1> USE KeyAssumption
<1>1. Step(h)  BY RequestShape, GenerateShape, LoadShape, DeleteShape DEF HandlerStep
<1>2. \A id : Drawn(id) => Drawn(id)'  BY <1>1 DEF Step, Drawn
<1>3. Known \subseteq Known'  BY <1>1 DEF Step, Known
<1>4. CASE \E id \in KeyId : NewKeyRequest(h, id)
  BY <1>2, <1>4 DEF DrawnInv, NewKeyRequest, Known
<1>5. CASE \E id \in Known, k \in Kind : KeyRequest(h, id, k) \/ CsMidResult(h, id)
  BY <1>2, <1>5 DEF DrawnInv, KeyRequest, CsMidResult, Known
<1>6. CASE \E id \in Known : DeleteKeyRequest(h, id)
  BY <1>2, <1>6 DEF DrawnInv, DeleteKeyRequest, Known
<1>7. hset[h] # None => Drawn(hid[h])  BY DEF ShapeInv, Shape, Drawn
<1>8. CASE EmplaceKey(h)
  <2>1. hset[h] # None  BY <1>8 DEF EmplaceKey, ShapeInv, Shape
  <2> QED  BY <1>2, <1>7, <1>8, <2>1 DEF DrawnInv, EmplaceKey, Known
<1>9. CASE OpenKeyFile(h) \/ SaveKeyFile(h)
  <2>1. hset[h] # None  BY <1>9 DEF OpenKeyFile, SaveKeyFile, ShapeInv, Shape
  <2>2. /\ \A id \in KeyId : id # hid[h] => files'[id] = files[id]
        /\ UNCHANGED <<map_, held, deleted>>
    BY <1>9 DEF TypeOK, OpenKeyFile, SaveKeyFile
  <2> QED  BY <1>2, <1>7, <2>1, <2>2 DEF DrawnInv, Known
<1>10. CASE SendReply(h)
  <2>1. UNCHANGED <<map_, files, deleted>>  BY <1>10 DEF SendReply
  <2>2. \A id \in Known' : id \in Known \/ (hset[h] # None /\ id = hid[h])
    <3>0. held' = IF hset[h] = None THEN held ELSE held \cup {<<hid[h], loaded[h][1]>>}
      BY <1>10 DEF SendReply
    <3>1. \A p \in held' : p \in held \/ (hset[h] # None /\ p = <<hid[h], loaded[h][1]>>)
      BY <3>0
    <3>2. \A a, b : <<a, b>>[1] = a  OBVIOUS
    <3> QED  BY <3>1, <3>2 DEF Known
  <2> QED  BY <1>2, <1>3, <1>7, <2>1, <2>2 DEF DrawnInv
<1>11. CASE GenerateThrows(h) \/ LoadKeyFile(h) \/ LoadThrows(h) \/ FindKeyFiles(h)
            \/ FindThrows(h) \/ RemoveThrows(h)
  BY <1>2, <1>11
    DEF DrawnInv, GenerateThrows, LoadKeyFile, LoadThrows, FindKeyFiles, FindThrows,
        RemoveThrows, Known
<1>12. CASE EraseKey(h)
  BY <1>2, <1>12 DEF DrawnInv, EraseKey, Known
<1>13. CASE RemoveKeyFile(h)
  <2>1. /\ \A id \in KeyId, k \in Kind : files'[id][k] \in {files[id][k], Absent}
        /\ UNCHANGED <<map_, held, deleted>>
    BY <1>13 DEF TypeOK, RemoveKeyFile
  <2> QED  BY <1>2, <2>1 DEF DrawnInv, Known
<1>14. "pub" \in Kind  BY DEF Kind
<1> QED
  BY <1>4, <1>5, <1>6, <1>8, <1>9, <1>10, <1>11, <1>12, <1>13, <1>14 DEF Request, HandlerStep

\* A request for another id, or for an id that users have.
LEMMA RequestOneKeySet ==
  ASSUME KeyInv, NEW h \in Handler, Request(h),
         NEW id \in KeyId, NEW n \in KeySet, Owner(id, n)'
  PROVE  OneKeySet(id, n)'
<1> USE KeyAssumption DEF KeyInv
<1> Step(h)  BY RequestShape
<1> USE DEF Step
<1>0. hid[h] = None /\ hid[h] # id /\ hset[h] = None
  BY DEF Request, NewKeyRequest, KeyRequest, CsMidResult, DeleteKeyRequest, Begin,
         TypeOK, ShapeInv, Shape
<1>1. CASE \E x \in KeyId : NewKeyRequest(h, x)
  <2> PICK x \in KeyId : NewKeyRequest(h, x)  BY <1>1
  <2> USE DEF NewKeyRequest, Begin
  <2>1. /\ Len(made) + 1 \in DOMAIN made' /\ made'[Len(made) + 1] = x
        /\ Len(made) + 1 \notin DOMAIN made
        /\ \A m \in DOMAIN made' : m \in DOMAIN made \/ m = Len(made) + 1
        /\ \A m \in DOMAIN made : m \in DOMAIN made' /\ made'[m] = made[m]
    BY DEF TypeOK
  <2>2. CASE x # id
    <3>1. Owner(id, n)  BY <2>1, <2>2 DEF Owner
    <3>2. hid'[h] # id  BY <2>2 DEF TypeOK
    <3> QED  BY <1>0, <3>1, <3>2, Elsewhere
  <2>3. CASE x = id
    <3>1. n = Len(made) + 1 /\ ~Drawn(id)  BY <2>1, <2>3 DEF Owner, Drawn
    <3>2. id \notin map_ /\ id \notin Known /\ All(id, Absent)
      BY <3>1 DEF DrawnInv, All
    <3>3. \A g \in Handler : hid[g] # id
      BY <3>1, <3>2 DEF ShapeInv, Shape, Drawn
    <3>4. /\ pc'[h] = "emplace" /\ hid'[h] = id /\ hset'[h] # None /\ loaded'[h] = <<>>
      BY <2>3 DEF TypeOK, KeySet
    <3>5. \A g \in Handler : hid'[g] = id => g = h  BY <3>3 DEF Idle
    <3>6. id \notin Known' /\ All(id, Absent)' /\ \A p \in held' : p[1] # id
      BY <3>2 DEF Known, All
    <3> QED
      BY <3>4, <3>5, <3>6
        DEF OneKeySet, MakerInv, KnownInv, RemoverInv, Remains, Making
  <2> QED  BY <2>2, <2>3
<1>2. ASSUME NEW x \in Known, NEW k \in Kind,
             KeyRequest(h, x, k) \/ CsMidResult(h, x) \/ DeleteKeyRequest(h, x)
      PROVE  OneKeySet(id, n)'
  <2> USE <1>2 DEF KeyRequest, CsMidResult, DeleteKeyRequest, Begin
  <2>1. Owner(id, n) /\ OneKeySet(id, n)  BY DEF Owner
  <2>2. CASE x # id
    <3>1. hid'[h] # id  BY <2>2 DEF TypeOK
    <3> QED  BY <1>0, <2>1, <2>2, <3>1, Elsewhere
  <2>3. CASE x = id
    <3>1. /\ pc'[h] \in {"load", "at"} /\ hid'[h] = id /\ hset'[h] = None
          /\ loaded'[h] = <<>> /\ UNCHANGED <<map_, files, held, restarts>>
      BY <2>3 DEF TypeOK
    <3>2. \A g \in Handler : Making(g, id)' <=> Making(g, id)
      BY <1>0, <3>1 DEF Making, Idle
    <3>3. Known' = Known  BY <3>1 DEF Known
    <3>4. MakerInv(id, n)'
      BY <1>0, <2>1, <3>1, <3>2, <3>3 DEF OneKeySet, MakerInv, Making, Idle, All, Items
    <3>5. KnownInv(id, n)'
      BY <2>1, <3>1, <3>3 DEF OneKeySet, KnownInv, Idle, All
    <3>6. RemoverInv(id, n)'
      BY <2>1, <3>1 DEF OneKeySet, RemoverInv, Idle, All, Items
    <3>7. Remains(id, n)'
      BY <1>0, <2>1, <3>1, <3>2 DEF OneKeySet, Remains, Idle, All, Items
    <3> QED  BY <3>4, <3>5, <3>6, <3>7 DEF OneKeySet
  <2> QED  BY <2>2, <2>3
<1>3. "pub" \in Kind  BY DEF Kind
<1> QED  BY <1>1, <1>2, <1>3 DEF Request

\* A handler's step that is no part of making, reading or deleting this id.
LEMMA OtherOneKeySet ==
  ASSUME KeyInv, NEW h \in Handler, HandlerStep(h),
         NEW id \in KeyId, NEW n \in KeySet, OneKeySet(id, n), hid[h] # id
  PROVE  OneKeySet(id, n)'
<1> USE KeyAssumption DEF KeyInv
<1>1. Step(h)  BY GenerateShape, LoadShape, DeleteShape DEF HandlerStep
<1>2. hid'[h] # id /\ restarts' = restarts /\ deleted' = deleted
  BY DEF HandlerStep, EmplaceKey, GenerateThrows, OpenKeyFile, SaveKeyFile, LoadKeyFile,
         LoadThrows, SendReply, FindKeyFiles, FindThrows, RemoveKeyFile, RemoveThrows,
         EraseKey, Proceed, End, TypeOK
<1>3. files'[id] = files[id]
  BY DEF HandlerStep, EmplaceKey, GenerateThrows, OpenKeyFile, SaveKeyFile, LoadKeyFile,
         LoadThrows, SendReply, FindKeyFiles, FindThrows, RemoveKeyFile, RemoveThrows,
         EraseKey, TypeOK
<1>4. id \in map_' <=> id \in map_
  BY DEF HandlerStep, EmplaceKey, GenerateThrows, OpenKeyFile, SaveKeyFile, LoadKeyFile,
         LoadThrows, SendReply, FindKeyFiles, FindThrows, RemoveKeyFile, RemoveThrows,
         EraseKey
<1>5. \A p : p[1] = id => (p \in held' <=> p \in held)
  <2>1. held' = held \/ held' = held \cup {<<hid[h], loaded[h][1]>>}
    BY DEF HandlerStep, EmplaceKey, GenerateThrows, OpenKeyFile, SaveKeyFile, LoadKeyFile,
           LoadThrows, SendReply, FindKeyFiles, FindThrows, RemoveKeyFile, RemoveThrows,
           EraseKey
  <2>2. <<hid[h], loaded[h][1]>>[1] # id  OBVIOUS
  <2> QED  BY <2>1, <2>2
<1> QED  BY <1>1, <1>2, <1>3, <1>4, <1>5, Elsewhere DEF Step

\* new_keys makes the files of its id one by one, alone with it.
LEMMA GenerateOneKeySet ==
  ASSUME KeyInv, NEW h \in Handler,
         EmplaceKey(h) \/ GenerateThrows(h) \/ OpenKeyFile(h) \/ SaveKeyFile(h),
         NEW id \in KeyId, NEW n \in KeySet, Owner(id, n), hid[h] = id
  PROVE  OneKeySet(id, n)'
<1> USE KeyAssumption DEF KeyInv
<1>1. Step(h)  BY GenerateShape
<1>2. hset[h] # None /\ todo[h] \in Saving /\ loaded[h] = <<>> /\ Shape(h)
      /\ (pc[h] = "emplace" => todo[h] = SaveOrder)
  BY SavingSteps
    DEF EmplaceKey, GenerateThrows, OpenKeyFile, SaveKeyFile, ShapeInv, Shape
<1>3. /\ Making(h, id) /\ hset[h] = n /\ id \notin Known
      /\ \A g \in Handler : hid[g] = id => g = h
      /\ OneKeySet(id, n)
  <2>1. Making(h, id) /\ OneKeySet(id, n)  BY <1>2 DEF Making
  <2> QED  BY <2>1, Alone
<1>4. \A g \in Handler : hid'[g] = id => g = h
  BY <1>1, <1>3 DEF Step, Idle
<1>5. held' = held /\ restarts' = restarts /\ Known' = Known
  BY DEF EmplaceKey, GenerateThrows, OpenKeyFile, SaveKeyFile, Known
<1>6. \A p \in held : p[1] # id  BY <1>3 DEF Known
<1>7. CASE EmplaceKey(h) \/ OpenKeyFile(h) \/ SaveKeyFile(h)
  <2>1. /\ hid'[h] = id /\ hset'[h] = n /\ loaded'[h] = <<>> /\ id \in map_'
        /\ pc'[h] \in {"open", "save", "load"}
    BY <1>2, <1>3, <1>7
      DEF EmplaceKey, OpenKeyFile, SaveKeyFile, Proceed, TypeOK, OneKeySet, MakerInv
  <2>2. KnownInv(id, n)' /\ RemoverInv(id, n)' /\ Remains(id, n)'
    BY <1>3, <1>4, <1>5, <1>6, <2>1 DEF KnownInv, RemoverInv, Remains, Making, KeySet
  <2>3. CASE EmplaceKey(h)
    <3>1. pc'[h] = "open" /\ todo'[h] = SaveOrder /\ files' = files
      BY <1>2, <2>3 DEF EmplaceKey, Proceed, TypeOK
    <3>2. \A k \in Kind : files'[id][k] = Absent
      BY <1>3, <2>3, <3>1 DEF EmplaceKey, OneKeySet, MakerInv, All
    <3>3. \A k \in Kind : k \in Items(SaveOrder)  BY SavingSteps
    <3>4. MakerInv(id, n)'
      BY <1>3, <1>4, <1>5, <2>1, <3>1, <3>2, <3>3 DEF MakerInv, Making
    <3> QED  BY <2>2, <3>4 DEF OneKeySet
  <2>4. CASE OpenKeyFile(h)
    <3>1. pc[h] = "open" /\ pc'[h] = "save" /\ todo'[h] = todo[h]
      BY <2>4 DEF OpenKeyFile, Proceed, TypeOK
    <3>2. \A k \in Kind : files'[id][k] = IF k = Head(todo[h]) THEN Torn ELSE files[id][k]
      BY <2>4 DEF OpenKeyFile, TypeOK
    <3>3. Head(todo[h]) \in Items(todo[h])  BY <1>2, SavingSteps
    <3>4. \A k \in Kind : files'[id][k] = IF k \notin Items(todo[h]) THEN n
                                          ELSE IF k = Head(todo[h]) THEN Torn ELSE Absent
      BY <1>3, <3>1, <3>2, <3>3 DEF OneKeySet, MakerInv
    <3>5. MakerInv(id, n)'
      BY <1>3, <1>4, <1>5, <2>1, <3>1, <3>4 DEF MakerInv, Making
    <3> QED  BY <2>2, <3>5 DEF OneKeySet
  <2>5. CASE SaveKeyFile(h)
    <3>1. \A k \in Kind : files'[id][k] = IF k = Head(todo[h]) THEN n ELSE files[id][k]
      BY <1>3, <2>5 DEF SaveKeyFile, TypeOK
    <3>2. \A k \in Kind : files'[id][k] = IF k \in Items(todo[h]) \ {Head(todo[h])}
                                          THEN Absent ELSE n
      BY <1>3, <2>5, <3>1 DEF SaveKeyFile, OneKeySet, MakerInv
    <3>3. CASE Len(todo[h]) > 1
      <4>1. pc'[h] = "open" /\ todo'[h] = Tail(todo[h])
        BY <2>5, <3>3 DEF SaveKeyFile, Proceed, TypeOK
      <4>2. Items(Tail(todo[h])) = Items(todo[h]) \ {Head(todo[h])}
        BY <1>2, <3>3, SavingSteps
      <4>3. MakerInv(id, n)'
        BY <1>3, <1>4, <1>5, <2>1, <3>2, <4>1, <4>2 DEF MakerInv, Making
      <4> QED  BY <2>2, <4>3 DEF OneKeySet
    <3>4. CASE ~(Len(todo[h]) > 1)
      <4>1. pc'[h] = "load"
        BY <2>5, <3>4 DEF SaveKeyFile, Proceed, TypeOK
      <4>2. \A k \in Kind : files'[id][k] = n  BY <1>2, <3>2, <3>4, SavingSteps
      <4>3. MakerInv(id, n)'
        BY <1>3, <1>4, <1>5, <2>1, <4>1, <4>2 DEF MakerInv, Making, All
      <4> QED  BY <2>2, <4>3 DEF OneKeySet
    <3> QED  BY <3>3, <3>4
  <2> QED  BY <1>7, <2>3, <2>4, <2>5
<1>8. CASE GenerateThrows(h)
  <2>1. pc[h] = "open" /\ todo[h] = SaveOrder /\ files' = files
    BY <1>8 DEF GenerateThrows
  <2>2. All(id, Absent)'
    BY <1>3, <2>1, SavingSteps DEF OneKeySet, MakerInv, All
  <2>3. \A g \in Handler : hid'[g] # id
    BY <1>4, <1>8 DEF GenerateThrows, End, TypeOK
  <2> QED
    BY <1>3, <1>5, <1>6, <2>2, <2>3
      DEF OneKeySet, MakerInv, KnownInv, RemoverInv, Remains, Making
<1> QED  BY <1>7, <1>8

\* Reading: what is loaded is the one key set, and sending it to the user who
\* made it is all that adds to held.
LEMMA LoadOneKeySet ==
  ASSUME KeyInv, NEW h \in Handler,
         LoadKeyFile(h) \/ LoadThrows(h) \/ SendReply(h),
         NEW id \in KeyId, NEW n \in KeySet, Owner(id, n), hid[h] = id
  PROVE  OneKeySet(id, n)'
<1> USE KeyAssumption DEF KeyInv
<1>1. Step(h)  BY LoadShape
<1>2. OneKeySet(id, n) /\ Shape(h) /\ id # None  BY DEF ShapeInv
<1>3. UNCHANGED <<map_, files, restarts, deleted>>
  BY DEF LoadKeyFile, LoadThrows, SendReply
<1>4. pc[h] \in {"load", "reply"}  BY DEF LoadKeyFile, LoadThrows, SendReply
<1>5. CASE LoadKeyFile(h)
  <2> USE <1>5 DEF LoadKeyFile, Proceed
  <2>1. /\ hid'[h] = id /\ hset'[h] = hset[h] /\ pc'[h] \in {"load", "reply"}
        /\ loaded'[h] = Append(loaded[h], files[id][Head(todo[h])])
        /\ held' = held /\ Known' = Known
    BY DEF TypeOK, Known
  <2>2. files[id][Head(todo[h])] = n
    <3>1. Head(todo[h]) \in Kind  BY <1>2 DEF Shape, TypeOK
    <3>2. CASE hset[h] # None
      BY <1>2, <3>1, <3>2 DEF OneKeySet, MakerInv, Making, All
    <3>3. CASE hset[h] = None
      <4>1. id \in Known  BY <1>2, <3>3 DEF Shape
      <4> QED  BY <1>2, <3>1, <4>1 DEF OneKeySet, KnownInv
    <3> QED  BY <3>2, <3>3
  <2>3. \A i \in DOMAIN loaded'[h] : loaded'[h][i] = n
    <3>1. loaded[h] \in Seq(Content) /\ n \in Content  BY DEF TypeOK, Content
    <3>2. \A i \in DOMAIN loaded[h] : loaded[h][i] = n
      BY <1>2 DEF OneKeySet, KnownInv
    <3> QED  BY <2>1, <2>2, <3>1, <3>2
  <2>4. \A g \in Handler : Making(g, id)' <=> Making(g, id)
    BY <1>1, <2>1 DEF Making, Step, Idle
  <2>5. MakerInv(id, n)'
    BY <1>1, <1>2, <1>3, <2>1, <2>4 DEF OneKeySet, MakerInv, Making, All, Items, Step, Idle
  <2>6. KnownInv(id, n)'
    <3>1. \A g \in Handler : hid'[g] = id => \A i \in DOMAIN loaded'[g] : loaded'[g][i] = n
      BY <1>1, <1>2, <2>3 DEF OneKeySet, KnownInv, Step, Idle
    <3> QED  BY <1>2, <1>3, <2>1, <3>1 DEF OneKeySet, KnownInv, All
  <2>7. RemoverInv(id, n)'
    BY <1>1, <1>2, <1>3, <2>1 DEF OneKeySet, RemoverInv, All, Items, Step, Idle
  <2>8. Remains(id, n)'
    BY <1>1, <1>2, <1>3, <1>4, <2>1, <2>4 DEF OneKeySet, Remains, All, Items, Step, Idle
  <2> QED  BY <2>5, <2>6, <2>7, <2>8 DEF OneKeySet
<1>6. CASE LoadThrows(h) \/ SendReply(h)
  <2>1. End(h)  BY <1>6 DEF LoadThrows, SendReply
  <2>2. hid'[h] # id  BY <1>2, <2>1 DEF End, TypeOK
  <2>3. \A g \in Handler : hid'[g] = id => g # h /\ hid[g] = id /\ Idle(g)
    BY <1>1, <2>2 DEF Step, Idle
  <2>4. CASE hset[h] = None
    <3>1. held' = held /\ Known' = Known
      BY <1>6, <2>4 DEF LoadThrows, SendReply, Known
    <3>2. \A g \in Handler : Making(g, id)' <=> Making(g, id)
      BY <1>1, <2>2, <2>4 DEF Making, Step, Idle
    <3>3. MakerInv(id, n)'
      BY <1>2, <1>3, <2>3, <3>1, <3>2 DEF OneKeySet, MakerInv, Making, All, Items, Idle
    <3>4. KnownInv(id, n)'
      BY <1>2, <1>3, <2>3, <3>1 DEF OneKeySet, KnownInv, All, Idle
    <3>5. RemoverInv(id, n)'
      BY <1>2, <1>3, <2>3 DEF OneKeySet, RemoverInv, All, Items, Idle
    <3>6. Remains(id, n)'
      BY <1>1, <1>2, <1>3, <1>4, <3>2 DEF OneKeySet, Remains, All, Items, Step, Idle
    <3> QED  BY <3>3, <3>4, <3>5, <3>6 DEF OneKeySet
  <2>5. CASE hset[h] # None
    <3>1. Making(h, id) /\ All(id, n) /\ id \in map_
      BY <1>2, <1>4, <2>5 DEF OneKeySet, MakerInv, Making
    <3>2. hset[h] = n /\ id \notin Known /\ \A g \in Handler : hid[g] = id => g = h
      BY <1>2, <3>1, Alone
    <3>3. \A g \in Handler : hid'[g] # id  BY <2>3, <3>2
    <3>4. All(id, n)' /\ id \in map_'  BY <1>3, <3>1 DEF All
    <3>5. \A p \in held' : p[1] = id => p[2] = n
      <4>1. CASE LoadThrows(h)
        BY <3>2, <4>1 DEF LoadThrows, Known
      <4>2. CASE SendReply(h)
        <5>1. held' = held \cup {<<id, loaded[h][1]>>}
          BY <2>5, <4>2 DEF SendReply
        <5>2. 1 \in DOMAIN loaded[h]
          <6>1. loaded[h] \in Seq(Content)  BY DEF TypeOK
          <6>2. Len(loaded[h]) = 1  BY <1>2, <2>5, <4>2 DEF Shape, SendReply
          <6> QED  BY <6>1, <6>2
        <5>3. loaded[h][1] = n  BY <1>2, <5>2 DEF OneKeySet, KnownInv
        <5>4. \A p \in held : p[1] # id  BY <3>2 DEF Known
        <5> QED  BY <5>1, <5>3, <5>4
      <4> QED  BY <1>6, <4>1, <4>2
    <3> QED
      BY <3>3, <3>4, <3>5
        DEF OneKeySet, MakerInv, KnownInv, RemoverInv, Remains, Making, All
  <2> QED  BY <2>4, <2>5
<1> QED  BY <1>5, <1>6

\* Deleting: every file that is not there for one deletion has been removed by
\* another, which is exactly as far as this one, or gone.
LEMMA DeleteOneKeySet ==
  ASSUME KeyInv, NEW h \in Handler,
         \/ FindKeyFiles(h) \/ FindThrows(h)
         \/ RemoveKeyFile(h) \/ RemoveThrows(h) \/ EraseKey(h),
         NEW id \in KeyId, NEW n \in KeySet, Owner(id, n), hid[h] = id
  PROVE  OneKeySet(id, n)'
<1> USE KeyAssumption DEF KeyInv
<1>1. Step(h)  BY DeleteShape
<1>2. OneKeySet(id, n) /\ Shape(h) /\ id # None /\ n # Absent
  BY DEF ShapeInv, KeySet, Absent
<1>3. UNCHANGED <<held, restarts, deleted>> /\ Known' = Known
  BY DEF FindKeyFiles, FindThrows, RemoveKeyFile, RemoveThrows, EraseKey, Known
<1>4. pc[h] \in {"at", "remove", "erase"} /\ hset[h] = None /\ id \in deleted
  BY <1>2 DEF FindKeyFiles, FindThrows, RemoveKeyFile, RemoveThrows, EraseKey, Shape
<1>5. \A g \in Handler : ~Making(g, id)
  BY <1>2, <1>4, Alone DEF Making
<1>6. \A g \in Handler : ~Making(g, id)'
  <2>1. hset'[h] = None
    BY <1>4 DEF FindKeyFiles, FindThrows, RemoveKeyFile, RemoveThrows, EraseKey, Proceed,
                End, TypeOK
  <2> QED  BY <1>1, <1>5, <2>1 DEF Making, Step, Idle
<1>7. MakerInv(id, n)'  BY <1>6 DEF MakerInv
<1>8. KnownInv(id, n)'
  <2>1. \A k \in Kind : files'[id][k] \in {files[id][k], Absent}
    BY DEF FindKeyFiles, FindThrows, RemoveKeyFile, RemoveThrows, EraseKey, TypeOK
  <2>2. loaded'[h] \in {loaded[h], <<>>}
    BY DEF FindKeyFiles, FindThrows, RemoveKeyFile, RemoveThrows, EraseKey, End, TypeOK
  <2>3. \A g \in Handler : hid'[g] = id =>
          hid[g] = id /\ \A i \in DOMAIN loaded'[g] : loaded'[g][i] = n
    BY <1>1, <1>2, <2>2 DEF OneKeySet, KnownInv, Step, Idle
  <2> QED  BY <1>2, <1>3, <1>4, <2>1, <2>3 DEF OneKeySet, KnownInv
<1>9. CASE FindKeyFiles(h)
  <2>1. /\ pc'[h] = "remove" /\ todo'[h] = RemoveOrder /\ hid'[h] = id
        /\ pc[h] = "at" /\ UNCHANGED <<map_, files>>
    BY <1>2, <1>9 DEF FindKeyFiles, Proceed, TypeOK, Shape
  <2>2. RemoverInv(id, n)'
    BY <1>1, <1>2, <2>1, RemovingSteps DEF OneKeySet, RemoverInv, All, Items, Step, Idle
  <2>3. Remains(id, n)'
    BY <1>1, <1>2, <1>3, <1>5, <2>1 DEF OneKeySet, Remains, All, Items, Step, Idle
  <2> QED  BY <1>7, <1>8, <2>2, <2>3 DEF OneKeySet
<1>10. CASE FindThrows(h) \/ RemoveThrows(h) \/ EraseKey(h)
  <2>1. /\ End(h) /\ files' = files
        /\ map_' = map_ \/ (pc[h] = "erase" /\ All(id, Absent))
    BY <1>2, <1>10
      DEF FindThrows, RemoveThrows, EraseKey, OneKeySet, RemoverInv
  <2>2. hid'[h] # id  BY <1>2, <2>1 DEF End, TypeOK
  <2>3. RemoverInv(id, n)'
    BY <1>1, <1>2, <2>1, <2>2 DEF OneKeySet, RemoverInv, All, Items, Step, Idle
  <2>4. ~(pc[h] = "remove" /\ \A k \in Items(todo[h]) : files[id][k] = n)
    BY <1>2, <1>10, RemovingSteps DEF FindThrows, RemoveThrows, EraseKey, Shape
  <2>5. Remains(id, n)'
    BY <1>1, <1>2, <1>3, <1>5, <2>1, <2>4 DEF OneKeySet, Remains, All, Items, Step, Idle
  <2> QED  BY <1>7, <1>8, <2>3, <2>5 DEF OneKeySet
<1>11. CASE RemoveKeyFile(h)
  <2> DEFINE first == Head(todo[h])
             left == Items(todo[h]) \ {first}
  <2>1. /\ todo[h] \in Removing /\ first \in Kind /\ first \in Items(todo[h])
        /\ pc[h] = "remove" /\ files[id][first] # Absent
    BY <1>2, <1>11, RemovingSteps DEF RemoveKeyFile, Shape
  <2>2. /\ \A k \in Kind : files'[id][k] = IF k = first THEN Absent ELSE files[id][k]
        /\ map_' = map_ /\ hid'[h] = id
    BY <1>11, <2>1 DEF RemoveKeyFile, Proceed, TypeOK
  <2>3. \A k \in Kind : k \notin Items(todo[h]) => files[id][k] = Absent
    BY <1>2, <2>1 DEF OneKeySet, RemoverInv
  <2>4. \/ pc'[h] = "remove" /\ Items(todo'[h]) = left
        \/ pc'[h] = "erase" /\ left = {}
    <3>1. CASE Len(todo[h]) > 1
      <4>1. pc'[h] = "remove" /\ todo'[h] = Tail(todo[h])
        BY <1>11, <3>1 DEF RemoveKeyFile, Proceed, TypeOK
      <4> QED  BY <2>1, <3>1, <4>1, RemovingSteps
    <3>2. CASE ~(Len(todo[h]) > 1)
      <4>1. pc'[h] = "erase"
        BY <1>11, <3>2 DEF RemoveKeyFile, Proceed, TypeOK
      <4>2. Items(todo[h]) = {first}  BY <2>1, <3>2, RemovingSteps
      <4> QED  BY <4>1, <4>2
    <3> QED  BY <3>1, <3>2
  <2>5. RemoverInv(id, n)'
    <3>1. ASSUME NEW g \in Handler, hid'[g] = id
          PROVE  /\ pc'[g] = "remove" =>
                      \A k \in Kind : k \notin Items(todo'[g]) => files'[id][k] = Absent
                 /\ pc'[g] = "erase" => \A k \in Kind : files'[id][k] = Absent
      <4>1. CASE g = h  BY <2>2, <2>3, <2>4, <4>1
      <4>2. CASE g # h
        <5>1. Idle(g)  BY <1>1, <4>2 DEF Step
        <5>2. hid[g] = id  BY <3>1, <5>1 DEF Idle
        <5>3. /\ pc[g] = "remove" =>
                   \A k \in Kind : k \notin Items(todo[g]) => files[id][k] = Absent
              /\ pc[g] = "erase" => \A k \in Kind : files[id][k] = Absent
          BY <1>2, <5>2 DEF OneKeySet, RemoverInv, All
        <5> QED  BY <2>2, <5>1, <5>3 DEF Idle
      <4> QED  BY <4>1, <4>2
    <3>2. \A g \in Handler : Items(todo[g])' = Items(todo'[g])  BY DEF Items
    <3> QED  BY <3>1, <3>2 DEF RemoverInv, All
  <2>6. Remains(id, n)'
    <3>1. SUFFICES ASSUME restarts = 0
                   PROVE  \/ All(id, Absent)'
                          \/ /\ hid'[h] = id /\ pc'[h] = "remove"
                             /\ \A k \in Items(todo'[h]) : files'[id][k] = n
      BY <1>3 DEF Remains, Items
    <3>2. \A k \in Items(todo[h]) : files[id][k] = n
      <4>1. \/ All(id, n)
            \/ All(id, Absent)
            \/ \E g \in Handler : /\ hid[g] = id /\ pc[g] = "remove"
                                  /\ \A k \in Items(todo[g]) : files[id][k] = n
        BY <1>2, <1>5, <3>1 DEF OneKeySet, Remains
      <4>2. Items(todo[h]) \subseteq Kind
        BY <2>1, RemovingSteps DEF Items
      <4>3. CASE All(id, n)  BY <4>2, <4>3 DEF All
      <4>4. CASE All(id, Absent)  BY <2>1, <4>4 DEF All
      <4>5. ASSUME NEW g \in Handler, hid[g] = id, pc[g] = "remove",
                   \A k \in Items(todo[g]) : files[id][k] = n
            PROVE  \A k \in Items(todo[h]) : files[id][k] = n
        <5>1. todo[g] \in Removing /\ Items(todo[g]) \subseteq Kind
          BY <4>5, RemovingSteps DEF ShapeInv, Shape, Items
        <5>2. first \in Items(todo[g])
          BY <1>2, <2>1, <4>5 DEF OneKeySet, RemoverInv
        <5>3. Items(todo[g]) \subseteq Items(todo[h])
          BY <1>2, <2>3, <4>5, <5>1
        <5>4. todo[h] = todo[g]  BY <2>1, <5>1, <5>2, <5>3, RemovingSteps
        <5> QED  BY <4>5, <5>4
      <4> QED  BY <4>1, <4>3, <4>4, <4>5
    <3>3. left \subseteq Kind  BY <2>1, RemovingSteps DEF Items
    <3>4. \A k \in left : files'[id][k] = n  BY <2>2, <3>2, <3>3
    <3>5. \A k \in Kind \ left : files'[id][k] = Absent  BY <2>2, <2>3
    <3> HIDE DEF left
    <3> QED  BY <2>2, <2>4, <3>4, <3>5 DEF All
  <2> QED  BY <1>7, <1>8, <2>5, <2>6 DEF OneKeySet
<1> QED  BY <1>9, <1>10, <1>11

\* A restart may leave any part of the files: what they hold stays right.
LEMMA RestartKeyInv ==
  ASSUME KeyInv, Restart
  PROVE  DrawnInv' /\ \A id \in KeyId, n \in KeySet : Owner(id, n)' => OneKeySet(id, n)'
<1> USE KeyAssumption DEF KeyInv, Restart
<1>1. Known' = Known /\ restarts' # 0  BY DEF Known, TypeOK
<1>2. DrawnInv'  BY <1>1 DEF DrawnInv, Drawn
<1>3. ASSUME NEW id \in KeyId, NEW n \in KeySet, Owner(id, n)'  PROVE OneKeySet(id, n)'
  <2>1. OneKeySet(id, n)  BY <1>3 DEF Owner
  <2>2. \A h \in Handler : hid'[h] # id  OBVIOUS
  <2> QED
    BY <1>1, <2>1, <2>2
      DEF OneKeySet, MakerInv, KnownInv, RemoverInv, Remains, Making
<1> QED  BY <1>2, <1>3

-----------------------------------------------------------------------------
\* The inductive invariant of the key service.
THEOREM KeyIsInvariant == Spec => []KeyInv
<1>1. Init => KeyInv  BY InitShape, InitOneKeySet DEF KeyInv
<1>2. KeyInv /\ [Next]_vars => KeyInv'
  <2> SUFFICES ASSUME KeyInv, [Next]_vars  PROVE KeyInv'
    OBVIOUS
  <2>1. CASE UNCHANGED vars
    <3>1. TypeOK' /\ ShapeInv' /\ DrawnInv'
      BY <2>1 DEF vars, KeyInv, TypeOK, ShapeInv, Shape, DrawnInv, Drawn, Known
    <3>2. ASSUME NEW id \in KeyId, NEW n \in KeySet, Owner(id, n)'  PROVE OneKeySet(id, n)'
      <4>1. OneKeySet(id, n)  BY <2>1, <3>2 DEF vars, KeyInv, Owner
      <4> QED
        BY <2>1, <4>1
          DEF vars, OneKeySet, MakerInv, KnownInv, RemoverInv, Remains, Making, All, Items, Known
    <3> QED  BY <3>1, <3>2 DEF KeyInv
  <2>2. ASSUME NEW h \in Handler, Request(h) \/ HandlerStep(h)  PROVE KeyInv'
    <3>1. TypeOK' /\ ShapeInv'
      BY <2>2, RequestShape, GenerateShape, LoadShape, DeleteShape DEF KeyInv, HandlerStep
    <3>2. DrawnInv'  BY <2>2, DrawnStep DEF KeyInv
    <3>3. ASSUME NEW id \in KeyId, NEW n \in KeySet, Owner(id, n)'  PROVE OneKeySet(id, n)'
      <4>1. CASE Request(h)  BY <3>3, <4>1, RequestOneKeySet
      <4>2. CASE HandlerStep(h)
        <5>1. made' = made
          BY <4>2
            DEF HandlerStep, EmplaceKey, GenerateThrows, OpenKeyFile, SaveKeyFile,
                LoadKeyFile, LoadThrows, SendReply, FindKeyFiles, FindThrows,
                RemoveKeyFile, RemoveThrows, EraseKey
        <5>2. Owner(id, n) /\ OneKeySet(id, n)  BY <3>3, <5>1 DEF Owner, KeyInv
        <5> QED
          BY <4>2, <5>2, OtherOneKeySet, GenerateOneKeySet, LoadOneKeySet, DeleteOneKeySet
            DEF HandlerStep
      <4> QED  BY <2>2, <4>1, <4>2
    <3> QED  BY <3>1, <3>2, <3>3 DEF KeyInv
  <2>3. CASE Restart
    BY <2>3, RestartShape, RestartKeyInv DEF KeyInv
  <2> QED  BY <2>1, <2>2, <2>3 DEF Next
<1> QED  BY <1>1, <1>2, PTL DEF Spec

\* What a user can rely on, what one request loads, and what deletions leave:
\* for any handlers, ids and bounds, and any interleaving of the unlocked
\* accesses to the map and the files.
THEOREM KeysStayWhole == Spec => [](GivenIsComplete /\ LoadsOneKeySet /\ AllFilesOrNone)
<1>1. KeyInv => GivenIsComplete /\ LoadsOneKeySet /\ AllFilesOrNone
  <2> SUFFICES ASSUME KeyInv  PROVE GivenIsComplete /\ LoadsOneKeySet /\ AllFilesOrNone
    OBVIOUS
  <2> USE DEF KeyInv
  <2>1. ASSUME NEW id \in KeyId, Unique(id)
        PROVE  \E n \in KeySet : Owner(id, n) /\ OneKeySet(id, n)
    <3>1. DOMAIN made \subseteq KeySet  BY KeyAssumption DEF TypeOK, KeySet
    <3>2. PICK n \in DOMAIN made : Owner(id, n)  BY <2>1 DEF Unique, Owner
    <3> QED  BY <3>1, <3>2
  <2>2. GivenIsComplete
    <3> SUFFICES ASSUME NEW p \in held, Unique(p[1]), p[1] \notin deleted, restarts = 0
                 PROVE  p[1] \in map_ /\ \A k \in Kind : files[p[1]][k] = p[2]
      BY DEF GivenIsComplete
    <3>1. p[1] \in KeyId /\ p[1] \in Known  BY DEF TypeOK, Known
    <3> QED  BY <2>1, <3>1 DEF OneKeySet, KnownInv, All
  <2>3. LoadsOneKeySet
    <3> SUFFICES ASSUME NEW h \in Handler, hid[h] # None, Unique(hid[h]),
                        NEW i \in DOMAIN loaded[h]
                 PROVE  loaded[h][i] \in DOMAIN made /\ made[loaded[h][i]] = hid[h]
      BY DEF LoadsOneKeySet
    <3>1. hid[h] \in KeyId  BY DEF TypeOK
    <3> QED  BY <2>1, <3>1 DEF OneKeySet, KnownInv, Owner
  <2>4. AllFilesOrNone
    <3> SUFFICES ASSUME NEW id \in KeyId, Unique(id), restarts = 0,
                        \A h \in Handler : hid[h] # id
                 PROVE  \/ \A k \in Kind : files[id][k] = Absent
                        \/ id \in map_ /\ \A k \in Kind : files[id][k] \in KeySet
      BY DEF AllFilesOrNone
    <3> QED  BY <2>1 DEF OneKeySet, Remains, Making, All
  <2> QED  BY <2>2, <2>3, <2>4
<1> QED  BY <1>1, KeyIsInvariant, PTL
=============================================================================
