---------------------------- MODULE SystemProofs -----------------------------
(***************************************************************************)
(* Proofs about System for any users, threads, tables, command lines and   *)
(* configuration files: whatever the three programs interleave and however *)
(* often the Decryptor starts again, a user is shown the entry of its own  *)
(* inputs or a failure, and only two kinds of query end the server.        *)
(***************************************************************************)
EXTENDS System, MessagesProofs, FiniteSetTheorems

-----------------------------------------------------------------------------
(***************************************************************************)
(* The exchanges, as the programs see them.                                *)
(***************************************************************************)

\* A key is received exactly when the Decryptor knows its id.
LEMMA KeyExchange ==
  ASSUME NEW id, NEW kind \in ThreadKinds
  PROVE  GetKey(id, kind) = IF id \in map_ THEN Got(KeyOf(id, kind), <<>>) ELSE Misread
<1>1. kind \in ItemType  BY DEF ThreadKinds, UserKinds, ItemType
<1>2. /\ LoadKeyRequest(KeyRequest(id)) = Got(id, <<>>)
      /\ LoadKeyReply(kind, KeyReply(kind, KeyOf(id, kind))) = Got(KeyOf(id, kind), <<>>)
  BY <1>1, KeyRequestRoundTrip, KeyReplyRoundTrip
<1>3. Got(id, <<>>).ok /\ Got(id, <<>>).value = id  BY GotFields
<1> QED  BY <1>2, <1>3 DEF GetKey

\* A request for several keys gives all of the id's, or fails.
LEMMA KeysExchange ==
  ASSUME NEW id, NEW kinds \in {UserKinds, ThreadKinds}
  PROVE  /\ GotKeys(id, kinds) <=> id \in map_
         /\ id \in map_ => /\ \A kind \in kinds : GetKeys(id, kinds)[kind] = KeyOf(id, kind)
                           /\ GetKeys(id, kinds).pub = id
                           /\ GetKeys(id, kinds).param = keysets[id]
<1>1. kinds \subseteq ThreadKinds /\ "pub" \in kinds /\ "param" \in kinds
  BY DEF ThreadKinds, UserKinds
<1>2. \A kind \in kinds :
        GetKey(id, kind) = IF id \in map_ THEN Got(KeyOf(id, kind), <<>>) ELSE Misread
  BY <1>1, KeyExchange
<1>3. \A kind \in kinds :
        IF id \in map_ THEN GetKey(id, kind).ok /\ GetKey(id, kind).value = KeyOf(id, kind)
                       ELSE ~GetKey(id, kind).ok
  <2>1. Misread.ok = FALSE  BY DEF Misread
  <2> QED  BY <1>2, <2>1, GotFields
<1>4. GotKeys(id, kinds) <=> id \in map_  BY <1>1, <1>3 DEF GotKeys
<1>5. id \in map_ => \A kind \in kinds : GetKeys(id, kinds)[kind] = KeyOf(id, kind)
  BY <1>3 DEF GetKeys
<1>6. KeyOf(id, "pub") = id /\ KeyOf(id, "param") = keysets[id]
  BY DEF KeyOf
<1> QED  BY <1>1, <1>4, <1>5, <1>6

\* A user receives the id and the secret key of a set.
LEMMA NewKeysExchange ==
  ASSUME NEW id
  PROVE  LoadNewKeys(NewKeysReply(id, id)).ok
         /\ LoadNewKeys(NewKeysReply(id, id)).value = [key_id |-> id, seckey |-> id]
<1> DEFINE Val == Nat \cup {id}
<1>1. Nat \subseteq Val /\ id \in Val
  OBVIOUS
<1> HIDE DEF Val
<1>2. LoadNewKeys(NewKeysReply(id, id)) = Got([key_id |-> id, seckey |-> id], <<>>)
  BY <1>1, NewKeysRoundTrip
<1> QED  BY <1>2, GotFields

-----------------------------------------------------------------------------
(***************************************************************************)
(* The command line.                                                       *)
(***************************************************************************)

\* One or two inputs, or none and no query.
LEMMA InputsOf ==
  ASSUME NEW a \in Seq(Int)
  PROVE  /\ input_num(a) \in {0, 1, 2}
         /\ Inputs(a) \in Seq(Int) /\ Len(Inputs(a)) = input_num(a)
         /\ DOMAIN Inputs(a) = 1 .. input_num(a)
<1> DEFINE S == {i \in {1, 2} : Given(a, i)}
<1>1. Cardinality(S) \in {0, 1, 2}
  <2>1. S = {} \/ (\E x : S = {x}) \/ S = {1, 2}
    OBVIOUS
  <2>2. Cardinality({}) = 0 /\ \A x : Cardinality({x}) = 1
    BY FS_EmptySet, FS_Singleton
  <2>3. Cardinality({1, 2}) = 2
    <3>1. IsFiniteSet({1}) /\ Cardinality({1}) = 1  BY FS_Singleton
    <3>2. Cardinality({1} \cup {2}) = Cardinality({1}) + 1
      <4>1. 2 \notin {1}  OBVIOUS
      <4> QED  BY <3>1, <4>1, FS_AddElement
    <3>3. {1} \cup {2} = {1, 2}
      OBVIOUS
    <3> QED  BY <3>1, <3>2, <3>3
  <2> HIDE DEF S
  <2> QED  BY <2>1, <2>2, <2>3
<1>2. input_num(a) \in {0, 1, 2}  BY <1>1 DEF input_num
<1>3. \A i \in {1, 2} : input_value(a, i) \in Int
  <2>1. \A i \in DOMAIN a : a[i] \in Int  BY LenProperties
  <2> QED  BY <2>1 DEF input_value, Given
<1>4. \A i \in 1 .. input_num(a) : input_value(a, i) \in Int
  BY <1>2, <1>3
<1> HIDE DEF S
<1>5. Inputs(a) \in Seq(Int) /\ Len(Inputs(a)) = input_num(a)
  BY <1>2, <1>4 DEF Inputs
<1> QED  BY <1>2, <1>5 DEF Inputs

\* The arguments of a program are a sequence of numbers.
LEMMA CommandLine ==
  ASSUME NEW u \in User, args \in CommandLines
  PROVE  args[u] \in Seq(Int)
BY SystemAssumption

-----------------------------------------------------------------------------
(***************************************************************************)
(* A query and its keys.                                                   *)
(***************************************************************************)
Key(u) == query[u].param.key_id

Params == {p \in [Parameter -> Nat] : SupportedBySEAL(p)}

\* The query asks for the inputs of its user, encrypted with its own key.
Asks(u) ==
  /\ query[u].param.func_no = func_no(u)
  /\ Key(u) \in DOMAIN keysets
  /\ query[u].ctxts = [i \in 1 .. func_no(u) |->
                         [set |-> Key(u), val |-> Inputs(args[u])[i]]]

\* What SendQuery leaves at the server.
LEMMA SentIsAsked ==
  ASSUME NEW u \in User, args \in CommandLines, func_no(u) # 0,
         ukeys[u].pub = key[u].key_id, key[u].key_id \in Nat
  PROVE  LET got == LoadQuery(SentBy(u)) IN
         /\ got.ok /\ got.value \in Query
         /\ got.value.param = [key_id |-> key[u].key_id, func_no |-> func_no(u)]
         /\ got.value.ctxts = [i \in 1 .. func_no(u) |->
                                [set |-> key[u].key_id, val |-> Inputs(args[u])[i]]]
<1> DEFINE n == func_no(u)
           param == [key_id |-> key[u].key_id, func_no |-> n]
           ctxt(i) == [set |-> key[u].key_id, val |-> Inputs(args[u])[i]]
           ctxts == [i \in 1 .. n |-> ctxt(i)]
           Val == Nat \cup {param, ukeys[u].param} \cup [set : Nat, val : Int]
<1>1. /\ n \in {1, 2} /\ DOMAIN Inputs(args[u]) = 1 .. n
      /\ \A i \in 1 .. n : Inputs(args[u])[i] \in Int
  <2>1. Inputs(args[u]) \in Seq(Int)  BY CommandLine, InputsOf
  <2> QED  BY <2>1, CommandLine, InputsOf DEF func_no
<1>2. ctxts \in Seq([set : Nat, val : Int]) /\ Len(ctxts) = n
  <2>1. \A i \in 1 .. n : ctxt(i) \in [set : Nat, val : Int]  BY <1>1
  <2>2. n \in Nat  BY <1>1
  <2> HIDE DEF ctxt, n
  <2> QED  BY <2>1, <2>2
<1>3. SentBy(u) = QueryMessage(param, ukeys[u].param, ctxts)
  BY <1>1 DEF SentBy
<1>4. ctxts # <<>>
  <2>1. Len(<<>>) = 0  OBVIOUS
  <2> QED  BY <1>1, <1>2, <2>1
<1>5. [param |-> param, ctxts |-> ctxts] \in Query
  BY <1>1, <1>2 DEF Query
<1> HIDE DEF n, ctxts, param
<1>6. /\ Nat \subseteq Val /\ param \in Val /\ ukeys[u].param \in Val
      /\ [set : Nat, val : Int] \subseteq Val
  OBVIOUS
<1> HIDE DEF Val
<1>7. LoadQuery(SentBy(u)) = Got([param |-> param, ctxts |-> ctxts], <<>>)
  <2>1. ctxts \in Seq(Val)  BY <1>2, <1>6, SeqMonotonic
  <2> QED  BY <1>3, <1>4, <1>6, <2>1, QueryRoundTrip
<1>8. LoadQuery(SentBy(u)).ok /\ LoadQuery(SentBy(u)).value = [param |-> param, ctxts |-> ctxts]
  BY <1>7, GotFields
<1> QED  BY <1>5, <1>8 DEF n, ctxts, param

-----------------------------------------------------------------------------
(***************************************************************************)
(* One exchange of a calculation thread with the Decryptor.                *)
(***************************************************************************)
Ctxt == [set : Nat, val : Int \cup {None, Padding}]

\* The inputs are in the table when each is in its column: of two inputs the
\* table has every combination.
LEMMA InTable ==
  ASSUME NEW q \in Seq(Int), NEW n \in {1, 2}, Len(q) = n
  PROVE  (\A i \in 1 .. n : q[i] \in Column(n, i)) <=> q \in DOMAIN Table
<1>1. ASSUME q \in DOMAIN Table  PROVE \A i \in 1 .. n : q[i] \in Column(n, i)
  BY <1>1 DEF Column
<1>2. ASSUME \A i \in 1 .. n : q[i] \in Column(n, i)  PROVE q \in DOMAIN Table
  <2>1. CASE n = 1
    <3>1. PICK p \in DOMAIN Table : Len(p) = 1 /\ p[1] = q[1]
      BY <1>2, <2>1 DEF Column
    <3>2. p = q  BY <2>1, <3>1, SystemAssumption, SeqEqual
    <3> QED  BY <3>1, <3>2
  <2>2. CASE n = 2
    <3>1. PICK p \in DOMAIN Table : Len(p) = 2 /\ p[1] = q[1]
      BY <1>2, <2>2 DEF Column
    <3>2. PICK s \in DOMAIN Table : Len(s) = 2 /\ s[2] = q[2]
      BY <1>2, <2>2 DEF Column
    <3>3. <<p[1], s[2]>> \in DOMAIN Table  BY <3>1, <3>2, SystemAssumption
    <3>4. <<p[1], s[2]>> = q
      <4>1. q[1] \in Int /\ q[2] \in Int
        <5>1. 1 \in 1 .. Len(q) /\ 2 \in 1 .. Len(q)  BY <2>2
        <5> QED  BY <5>1, ElementOfSeq
      <4>2. <<q[1], q[2]>> = q
        <5>1. /\ <<q[1], q[2]>> \in Seq(Int) /\ Len(<<q[1], q[2]>>) = 2
              /\ <<q[1], q[2]>>[1] = q[1] /\ <<q[1], q[2]>>[2] = q[2]
          BY <4>1
        <5>2. \A i \in 1 .. 2 : i = 1 \/ i = 2  OBVIOUS
        <5> QED  BY <2>2, <5>1, <5>2, SeqEqual
      <4> QED  BY <3>1, <3>2, <4>2
    <3> QED  BY <3>3, <3>4
  <2> QED  BY <2>1, <2>2
<1> QED  BY <1>1, <1>2

Ciphertext(set, val) == [set |-> set, val |-> val]

\* A comparison is zero in the row of the entry, or nowhere.
LEMMA Compared ==
  ASSUME NEW ctxt \in [set : Nat, val : Int], NEW e \in Int \cup {None, Padding},
         NEW count \in Nat \ {0}, NEW r \in 1 .. count
  PROVE  /\ Compare(ctxt, e, count, r) \in Seq(Ctxt) \ {<<>>}
         /\ Hits(ctxt.set, Compare(ctxt, e, count, r)) # {} <=> e # None
         /\ e # None => PIRquery(ctxt.set, Compare(ctxt, e, count, r)) = Ciphertext(ctxt.set, e)
<1> DEFINE val(i) == IF i = r THEN e ELSE None
           c(i) == [ctxt EXCEPT !.val = val(i)]
           v == Compare(ctxt, e, count, r)
<1>1. \A i \in 1 .. count : c(i) \in Ctxt /\ c(i).set = ctxt.set /\ c(i).val = val(i)
  BY DEF Ctxt
<1>2. v = [i \in 1 .. count |-> c(i)]
  BY DEF Compare
<1> HIDE DEF c, v
<1>3. v \in Seq(Ctxt) /\ Len(v) = count /\ DOMAIN v = 1 .. count
  BY <1>1, <1>2
<1>4. v # <<>>
  <2>1. Len(<<>>) = 0  OBVIOUS
  <2> QED  BY <1>3, <2>1
<1>5. \A i \in 1 .. count : Decrypt(ctxt.set, v[i]) = val(i)
  BY <1>1, <1>2 DEF Decrypt
<1>6. Hits(ctxt.set, v) = IF e # None THEN {r} ELSE {}
  BY <1>3, <1>5 DEF Hits
<1>7. ASSUME e # None
      PROVE  PIRquery(ctxt.set, v) = Ciphertext(ctxt.set, e)
  <2>1. Min({r}) = r  BY DEF Min
  <2> QED  BY <1>5, <1>6, <1>7, <2>1 DEF PIRquery, Ciphertext
<1> QED  BY <1>3, <1>4, <1>6, <1>7 DEF v

\* Without rows there is nothing to compare.
LEMMA ComparedNothing ==
  ASSUME NEW ctxt, NEW e, NEW r
  PROVE  Compare(ctxt, e, 0, r) = <<>>
<1> DEFINE v == Compare(ctxt, e, 0, r)
<1>1. v \in Seq({}) /\ Len(v) = 0
  BY DEF Compare
<1> QED  BY <1>1, EmptySeq

\* What the server keeps for the user: the entry, under the key of the query.
Right(u) ==
  IF Inputs(args[u]) \in DOMAIN Table
    THEN [status |-> TRUE, ctxt |-> [set |-> Key(u), val |-> Table[Inputs(args[u])]]]
    ELSE [status |-> FALSE, ctxt |-> None]

\* Or padding, for a user that asks for its value.
PadOutputs(u) == IF AsksPad(u) THEN {Pad, NoValue} ELSE {}
Rights(u) ==
  {Right(u)} \cup {[status |-> TRUE, ctxt |-> [set |-> Key(u), val |-> v]] : v \in PadOutputs(u)}

\* What the thread makes of the Decryptor's reply.
ResultOf(reply) ==
  LET got == LoadPIRReply(reply.value)
      ctxts == got.value.ctxts
      sum == [set |-> ctxts[1].set, val |-> Output([i \in DOMAIN ctxts |-> ctxts[i].val])]
  IN  [status |-> got.value.result, ctxt |-> IF got.value.result THEN sum ELSE None]

\* The number of rows: none, when a row has more slots than there are inputs.
LEMMA RowsCounted ==
  ASSUME NEW t \in CalcThread, tkeys[t].param \in Params
  PROVE  rows(t) \in Nat
<1>1. tkeys[t].param.poly_mod_degree \in Nat \ {0, 1}
  BY SystemAssumption DEF Params, SupportedBySEAL, Parameter
<1>2. row_size(t) \in Nat \ {0}  BY <1>1 DEF row_size
<1> DEFINE possible == IF query[job[t]].param.func_no = 2 THEN PossibleTwo ELSE PossibleOne
<1>3. possible \in Nat  BY SystemAssumption
<1>4. \A a \in Nat, b \in Nat \ {0} : a \div b \in Nat  OBVIOUS
<1>5. rows(t) = possible \div row_size(t)  BY DEF rows
<1> HIDE DEF possible
<1> QED  BY <1>2, <1>3, <1>4, <1>5

\* What may come first of an input's entries: its key, the padding, or nothing
\* when the column has neither.
LEMMA Firsts ==
  ASSUME NEW t \in CalcThread, NEW u \in User, job[t] = u, args \in CommandLines,
         query[u] \in Query, Asks(u), NEW p \in Permuted(t)
  PROVE  /\ func_no(u) \in {1, 2} /\ NumInputs(t) = func_no(u)
         /\ \A i \in 1 .. func_no(u) :
              LET x == Inputs(args[u])[i] IN
              /\ p.entry[i] \in Int \cup {None, Padding}
              /\ p.entry[i] = None => x \notin Column(func_no(u), i)
              /\ p.entry[i] \notin {None, Padding} =>
                   p.entry[i] = x /\ x \in Column(func_no(u), i)
              /\ p.entry[i] = Padding => x = Pad
<1> DEFINE n == func_no(u)
           x == Inputs(args[u])
<1>1. n \in {1, 2} /\ NumInputs(t) = n
  BY DEF Asks, Query, NumInputs
<1>2. DOMAIN x = 1 .. n /\ \A i \in 1 .. n : x[i] \in Int
  BY CommandLine, InputsOf, ElementOfSeq DEF func_no
<1>3. \A i \in 1 .. n : query[job[t]].ctxts[i].val = x[i]
  BY DEF Asks
<1>4. \A i \in 1 .. n : p.entry[i] \in First(t, i)
  BY <1>1 DEF Permuted
<1> HIDE DEF n, x
<1> SUFFICES ASSUME NEW i \in 1 .. n
             PROVE  /\ p.entry[i] \in Int \cup {None, Padding}
                    /\ p.entry[i] = None => x[i] \notin Column(n, i)
                    /\ p.entry[i] \notin {None, Padding} =>
                         p.entry[i] = x[i] /\ x[i] \in Column(n, i)
                    /\ p.entry[i] = Padding => x[i] = Pad
  BY <1>1 DEF n, x
<1> DEFINE entries == Entries(n, i, x[i])
<1>5. First(t, i) = IF entries = {} THEN {None} ELSE entries
  BY <1>1, <1>3 DEF First
<1>6. \A e \in entries : (e = x[i] /\ x[i] \in Column(n, i)) \/ (e = Padding /\ x[i] = Pad)
  <2> HIDE DEF n, x
  <2> QED  BY DEF Entries, entries
<1>8. x[i] \in Column(n, i) => x[i] \in entries
  <2> HIDE DEF n, x
  <2> QED  BY DEF Entries, entries
<1> HIDE DEF entries
<1>7. None \notin Int /\ Padding \notin Int /\ Padding # None
  BY NoneAssumption
<1> QED  BY <1>2, <1>4, <1>5, <1>6, <1>7, <1>8

\* A message that the Decryptor can read, about a key it knows, is answered
\* with the PIR queries that select the entry, or with a failure.
LEMMA ComputeExchange ==
  ASSUME NEW t \in CalcThread, NEW u \in User, job[t] = u, args \in CommandLines,
         query[u] \in Query, Asks(u), rows(t) \in Nat, NEW p \in Permuted(t)
  PROVE  LET reply == CsMidResult(MidMessage(t, p)) IN
         /\ reply.ok <=> Key(u) \in map_ /\ rows(t) # 0
         /\ reply.ok => LoadPIRReply(reply.value).ok /\ ResultOf(reply) \in Rights(u)
<1> DEFINE q == query[u]
           n == func_no(u)
           x == Inputs(args[u])
           id == Key(u)
           z(i) == p.entry[i]
           v(i) == Compare(q.ctxts[i], z(i), rows(t), p.row[i])
           second == IF n = 2 THEN v(2) ELSE <<>>
           Val == Nat \cup {q.param} \cup Ctxt
<1>1. /\ n \in {1, 2} /\ x \in Seq(Int) /\ Len(x) = n /\ NumInputs(t) = n
      /\ x = [i \in 1 .. n |-> x[i]] /\ \A i \in 1 .. n : x[i] \in Int
      /\ q.param.func_no = n /\ q.param.key_id = id /\ id \in Nat
      /\ \A i \in 1 .. n : q.ctxts[i] = [set |-> id, val |-> x[i]]
  <2>1. /\ n \in {1, 2} /\ q.param.func_no = n /\ q.param.key_id = id /\ id \in Nat
        /\ NumInputs(t) = n
    BY DEF Query, Asks, Key, NumInputs
  <2>2. x \in Seq(Int) /\ Len(x) = n /\ DOMAIN x = 1 .. n
    BY CommandLine, InputsOf DEF func_no
  <2>3. x = [i \in 1 .. n |-> x[i]] /\ \A i \in 1 .. n : x[i] \in Int
    BY <2>2, LenProperties
  <2>4. \A i \in 1 .. n : q.ctxts[i] = [set |-> id, val |-> x[i]]
    BY DEF Asks
  <2> QED  BY <2>1, <2>2, <2>3, <2>4
<1>2. MidMessage(t, p) = MidResult(q.param, v(1), second)
  BY <1>1 DEF MidMessage
<1>3. \A i \in 1 .. n :
        /\ z(i) \in Int \cup {None, Padding}
        /\ z(i) = None => x[i] \notin Column(n, i)
        /\ z(i) \notin {None, Padding} => z(i) = x[i] /\ x[i] \in Column(n, i)
        /\ z(i) = Padding => x[i] = Pad
  BY Firsts
<1> HIDE DEF q, n, x, id, z
<1>4. Nat \subseteq Val /\ q.param \in Val /\ Ctxt \subseteq Val /\ <<>> \in Seq(Val)
  OBVIOUS
<1> HIDE DEF Val
<1>5. CASE rows(t) = 0
  <2>1. v(1) = <<>> /\ v(2) = <<>>  BY <1>5, ComparedNothing
  <2>2. second \in Seq(Val)  BY <1>4, <2>1
  <2>3. LoadMidResult(MidMessage(t, p)) = Misread
    BY <1>2, <1>4, <2>1, <2>2, EmptyMidResultIsMisread
  <2>4. ~CsMidResult(MidMessage(t, p)).ok
    BY <2>3 DEF CsMidResult, Misread
  <2> QED  BY <1>5, <2>4
<1>6. CASE rows(t) # 0
  <2>1. rows(t) \in Nat \ {0} /\ \A i \in 1 .. 2 : p.row[i] \in 1 .. rows(t)
    BY <1>6 DEF Permuted
  <2>2. \A i \in 1 .. n :
          /\ v(i) \in Seq(Ctxt) /\ v(i) # <<>>
          /\ Hits(id, v(i)) # {} <=> z(i) # None
          /\ z(i) # None => PIRquery(id, v(i)) = [set |-> id, val |-> z(i)]
    <3> SUFFICES ASSUME NEW i \in 1 .. n
                 PROVE  /\ v(i) \in Seq(Ctxt) /\ v(i) # <<>>
                        /\ Hits(id, v(i)) # {} <=> z(i) # None
                        /\ z(i) # None => PIRquery(id, v(i)) = [set |-> id, val |-> z(i)]
      OBVIOUS
    <3> DEFINE c == [set |-> id, val |-> x[i]]
               count == rows(t)
               row == p.row[i]
               e == z(i)
    <3>1. c \in [set : Nat, val : Int] /\ c.set = id /\ q.ctxts[i] = c
      BY <1>1
    <3>2. row \in 1 .. count /\ count \in Nat \ {0}  BY <1>1, <2>1
    <3>3. v(i) = Compare(c, e, count, row)  BY <3>1
    <3>4. e \in Int \cup {None, Padding}  BY <1>3
    <3> HIDE DEF c, v, count, row, e
    <3>5. Compare(c, e, count, row) \in Seq(Ctxt) \ {<<>>}
      BY <3>1, <3>2, <3>4, Compared
    <3>6. Hits(c.set, Compare(c, e, count, row)) # {} <=> e # None
      BY <3>1, <3>2, <3>4, Compared
    <3>7. e # None => PIRquery(c.set, Compare(c, e, count, row)) = Ciphertext(c.set, e)
      BY <3>1, <3>2, <3>4, Compared
    <3> QED  BY <3>1, <3>3, <3>5, <3>6, <3>7 DEF e, Ciphertext
  <2> HIDE DEF v
  <2>3. /\ v(1) \in Seq(Val) /\ v(1) # <<>> /\ second \in Seq(Val)
        /\ q.param.func_no = 2 => second # <<>>
    <3>1. \A i \in 1 .. n : v(i) \in Seq(Val)  BY <1>4, <2>2, SeqMonotonic
    <3>2. 1 \in 1 .. n /\ (n = 2 => 2 \in 1 .. n)  BY <1>1
    <3>3. CASE n = 2  BY <1>1, <2>2, <3>1, <3>2, <3>3
    <3>4. CASE n # 2  BY <1>1, <1>4, <2>2, <3>1, <3>2, <3>4
    <3> QED  BY <3>3, <3>4
  <2>4. LoadMidResult(MidMessage(t, p))
          = Got([param |-> q.param, x |-> v(1),
                 y |-> IF q.param.func_no = 2 THEN second ELSE <<>>], <<>>)
    <3> DEFINE param == q.param
               first == v(1)
    <3> HIDE DEF second, param, first
    <3>1. /\ param \in Val /\ first \in Seq(Val) /\ first # <<>>
          /\ second \in Seq(Val) /\ (param.func_no = 2 => second # <<>>)
      BY <1>4, <2>3 DEF param, first
    <3>2. LoadMidResult(MidResult(param, first, second))
            = Got([param |-> param, x |-> first,
                   y |-> IF param.func_no = 2 THEN second ELSE <<>>], <<>>)
      BY <1>4, <3>1, MidResultRoundTrip
    <3> QED  BY <1>2, <3>2 DEF param, first
  <2> DEFINE found == \A i \in 1 .. n : Hits(id, v(i)) # {}
             w(i) == IF found THEN PIRquery(id, v(i)) ELSE [set |-> id, val |-> None]
             ctxts == [i \in 1 .. n |-> w(i)]
  <2>5. CsMidResult(MidMessage(t, p)) =
          IF id \in map_ THEN Got(PIRReply(found, ctxts), <<>>) ELSE Misread
    <3> DEFINE vectors == IF q.param.func_no = 2 THEN <<v(1), second>> ELSE <<v(1)>>
               got == LoadMidResult(MidMessage(t, p))
    <3>1. DOMAIN vectors = 1 .. n /\ \A i \in 1 .. n : vectors[i] = v(i)
      <4>1. \A i \in 1 .. n : i = 1 \/ (n = 2 /\ i = 2)  BY <1>1
      <4>2. CASE n = 2  BY <1>1, <4>1, <4>2
      <4>3. CASE n # 2  BY <1>1, <4>1, <4>3
      <4> QED  BY <4>2, <4>3
    <3>2. /\ got.ok /\ got.value.param = q.param /\ got.value.x = v(1)
          /\ q.param.func_no = 2 => got.value.y = second
      BY <2>4, GotFields
    <3>3. vectors = IF got.value.param.func_no = 2 THEN <<got.value.x, got.value.y>>
                                                   ELSE <<got.value.x>>
      BY <3>2
    <3>4. got.value.param.key_id = id  BY <1>1, <3>2
    <3> HIDE DEF got, vectors, second
    <3>5. CsMidResult(MidMessage(t, p)) =
            IF id \in map_
              THEN Got(PIRReply(\A i \in DOMAIN vectors : Hits(id, vectors[i]) # {},
                                [i \in DOMAIN vectors |->
                                   IF \A j \in DOMAIN vectors : Hits(id, vectors[j]) # {}
                                     THEN PIRquery(id, vectors[i])
                                     ELSE [set |-> id, val |-> None]]), <<>>)
              ELSE Misread
      BY <3>2, <3>3, <3>4 DEF CsMidResult, got
    <3>6. (\A i \in DOMAIN vectors : Hits(id, vectors[i]) # {}) <=> found
      BY <3>1
    <3>7. [i \in DOMAIN vectors |->
             IF \A j \in DOMAIN vectors : Hits(id, vectors[j]) # {}
               THEN PIRquery(id, vectors[i]) ELSE [set |-> id, val |-> None]] = ctxts
      BY <3>1, <3>6
    <3> QED  BY <3>5, <3>6, <3>7
  <2>6. found <=> \A i \in 1 .. n : z(i) # None
    BY <2>2
  <2>7. ctxts \in Seq(Ctxt)
    <3>1. \A i \in 1 .. n : w(i) \in Ctxt  BY <1>1, <1>3, <2>2 DEF Ctxt
    <3>2. n \in Nat  BY <1>1
    <3> HIDE DEF w
    <3> QED  BY <3>1, <3>2
  <2>8. found => ctxts = [i \in 1 .. n |-> [set |-> id, val |-> z(i)]]
    BY <2>2
  <2> DEFINE reply == CsMidResult(MidMessage(t, p))
             Val2 == Nat \cup BOOLEAN \cup Ctxt
             sent == PIRReply(found, ctxts)
  <2>9. /\ reply.ok <=> id \in map_
        /\ id \in map_ => reply.value = sent
    <3>1. reply = IF id \in map_ THEN Got(sent, <<>>) ELSE Misread  BY <2>5
    <3>2. Misread.ok = FALSE  BY DEF Misread
    <3> HIDE DEF reply, sent
    <3> QED  BY <3>1, <3>2, GotFields
  <2>10. /\ found => sent = PIRReply(TRUE, ctxts)
         /\ ~found => sent = PIRReply(FALSE, ctxts)
    <3> HIDE DEF ctxts, found
    <3>1. CASE found = TRUE  BY <3>1
    <3>2. CASE found = FALSE  BY <3>2
    <3>3. found \in BOOLEAN  BY DEF found
    <3> QED  BY <3>1, <3>2, <3>3
  <2>11. ASSUME reply.ok
         PROVE  LoadPIRReply(reply.value).ok /\ ResultOf(reply) \in Rights(u)
    <3>1. Nat \subseteq Val2 /\ BOOLEAN \subseteq Val2 /\ Ctxt \subseteq Val2
      OBVIOUS
    <3> HIDE DEF reply, sent, found, ctxts, Val2
    <3>2. reply.value = sent  BY <2>9, <2>11
    <3>3. ctxts \in Seq(Val2)  BY <2>7, <3>1, SeqMonotonic
    <3>4. /\ LoadPIRReply(PIRReply(TRUE, ctxts)) = Got([result |-> TRUE, ctxts |-> ctxts], <<>>)
          /\ LoadPIRReply(PIRReply(FALSE, ctxts)).ok
          /\ LoadPIRReply(PIRReply(FALSE, ctxts)).value = [result |-> FALSE, ctxts |-> <<>>]
      BY <3>1, <3>3, PIRRoundTrip
    <3>5. CASE found
      <4>1. LoadPIRReply(reply.value) = Got([result |-> TRUE, ctxts |-> ctxts], <<>>)
        BY <2>10, <3>2, <3>4, <3>5
      <4>2. /\ LoadPIRReply(reply.value).ok
            /\ LoadPIRReply(reply.value).value = [result |-> TRUE, ctxts |-> ctxts]
        BY <4>1, GotFields
      <4>3. ctxts = [i \in 1 .. n |-> [set |-> id, val |-> z(i)]]
        BY <2>8, <3>5
      <4> DEFINE entries == [i \in 1 .. n |-> z(i)]
      <4>4. ctxts[1].set = id /\ [i \in DOMAIN ctxts |-> ctxts[i].val] = entries
        BY <1>1, <4>3
      <4>5. LoadPIRReply(reply.value).value.result = TRUE
            /\ LoadPIRReply(reply.value).value.ctxts = ctxts
        BY <4>2
      <4>6. ResultOf(reply) = [status |-> TRUE, ctxt |-> [set |-> id, val |-> Output(entries)]]
        <5> HIDE DEF entries
        <5> QED  BY <4>4, <4>5 DEF ResultOf
      <4>7. CASE \A i \in 1 .. n : z(i) # Padding
        <5>1. \A i \in 1 .. n : z(i) = x[i] /\ x[i] \in Column(n, i)
          BY <1>3, <2>6, <3>5, <4>7
        <5>2. entries = x /\ x \in DOMAIN Table
          BY <1>1, <5>1, InTable
        <5>3. ResultOf(reply) = Right(u)
          BY <4>6, <5>2 DEF Output, Right, x, id
        <5> QED  BY <4>2, <5>3 DEF Rights
      <4>8. CASE \E i \in 1 .. n : z(i) = Padding
        <5>1. PICK i \in 1 .. n : z(i) = Padding  BY <4>8
        <5>2. AsksPad(u)
          <6>1. x[i] = Pad /\ i \in DOMAIN x  BY <1>1, <1>3, <5>1
          <6> QED  BY <6>1 DEF AsksPad, x
        <5>3. entries \notin DOMAIN Table
          <6>1. entries[i] \notin Int /\ i \in DOMAIN entries
            BY <5>1, NoneAssumption
          <6>2. \A q0 \in DOMAIN Table : \A j \in DOMAIN q0 : q0[j] \in Int
            BY SystemAssumption, ElementOfSeq
          <6> HIDE DEF entries
          <6> QED  BY <6>1, <6>2
        <5>4. Output(entries) \in {Pad, NoValue}
          BY <5>3 DEF Output
        <5> HIDE DEF entries
        <5> QED  BY <4>2, <4>6, <5>2, <5>4 DEF Rights, PadOutputs, id
      <4> QED  BY <4>7, <4>8
    <3>6. CASE ~found
      <4>1. /\ LoadPIRReply(reply.value).ok
            /\ LoadPIRReply(reply.value).value = [result |-> FALSE, ctxts |-> <<>>]
        BY <2>10, <3>2, <3>4, <3>6
      <4>2. ResultOf(reply) = [status |-> FALSE, ctxt |-> None]
        BY <4>1 DEF ResultOf
      <4>3. x \notin DOMAIN Table
        <5>1. PICK i \in 1 .. n : z(i) = None  BY <2>6, <3>6
        <5>2. x[i] \notin Column(n, i)  BY <1>3, <5>1
        <5> QED  BY <1>1, <5>2, InTable
      <4>4. ResultOf(reply) = Right(u)  BY <4>2, <4>3 DEF Right, x
      <4> QED  BY <4>1, <4>4 DEF Rights
    <3> QED  BY <3>5, <3>6
  <2> QED  BY <1>6, <2>9, <2>11 DEF id
<1> QED  BY <1>5, <1>6

-----------------------------------------------------------------------------
(***************************************************************************)
(* The inductive invariant.  ServerSurvives alone does not say why a key    *)
(* set that a thread has loaded is the one of its query, nor a callback's   *)
(* value that the result it decodes was computed for its own user under its *)
(* own key: the keys a user holds, its query, its stage at the server and   *)
(* its ResultThread have to agree.                                          *)
(***************************************************************************)
Shape ==
  /\ args \in CommandLines /\ keysets \in Seq(Params)
  /\ DOMAIN key = User /\ DOMAIN ukeys = User
  /\ DOMAIN result = User /\ DOMAIN printed = User /\ DOMAIN tkeys = CalcThread

\* The keys a user holds are of one set, which is kept.
Keyed(u) ==
  /\ upc[u] \in {"keys", "connectCS", "send", "reply", "sleep", "join"} =>
       key[u].key_id \in DOMAIN keysets /\ key[u].seckey = key[u].key_id
  /\ upc[u] \in {"connectCS", "send", "reply", "sleep", "join"} =>
       ukeys[u].pub = key[u].key_id
  /\ upc[u] \in {"send", "reply", "sleep", "join"} => func_no(u) # 0

\* The query at the server is the user's, under its keys.
Sent(u) ==
  /\ upc[u] \in {"init", "keys", "connectCS", "send"} => query[u] = None
  /\ query[u] # None => Asks(u)
  /\ query[u] # None /\ upc[u] \in {"reply", "sleep", "join"} => Key(u) = key[u].key_id
  /\ query[u] = None <=> stage[u][1] = "unsent"

\* The ResultThread runs between the callback's setting and the join, and what
\* it has received has left the server.
Session(u) ==
  /\ upc[u] \in {"init", "keys", "connectCS", "send", "reply"} => rpc[u] = "none"
  /\ upc[u] = "ended" => rpc[u] \in {"none", "done", "threw"}
  /\ u \in open => upc[u] \in {"send", "reply", "sleep"}
  /\ qid[u] \in {u, -1, None}
  /\ rpc[u] = "start" => qid[u] # None
  /\ rpc[u] = "none" => u \notin requested
  /\ stage[u][1] = "taken" => u \in requested
  /\ rpc[u] \in {"got", "done"} => stage[u][1] = "gone"
  /\ rpc[u] # "done" => printed[u] = None

\* A result that is kept, or received, is the right one.
Computed(u) ==
  stage[u][1] \in {"done", "taken"} \/ rpc[u] = "got" => result[u] \in Rights(u)

UserInv(u) == Keyed(u) /\ Sent(u) /\ Session(u) /\ Computed(u)

\* A thread that has preprocessed holds the parameters of its query's keys.
ThreadInv(t) ==
  /\ tpc[t] # "pop" => job[t] \in User /\ query[job[t]] # None
  /\ tpc[t] = "compute" => tkeys[t].param = keysets[JobKey(t)]

SystemInv ==
  /\ TypeOK /\ Shape
  /\ \A u \in User : UserInv(u)
  /\ \A t \in CalcThread : ThreadInv(t)
  /\ ServerSurvives

-----------------------------------------------------------------------------
(***************************************************************************)
(* What steps leave alone.                                                 *)
(***************************************************************************)
KeysGrow ==
  /\ DOMAIN keysets \subseteq DOMAIN keysets'
  /\ \A id \in DOMAIN keysets : keysets'[id] = keysets[id]
  /\ map_' \cap DOMAIN keysets \subseteq map_

Same(u) ==
  /\ upc'[u] = upc[u] /\ key'[u] = key[u] /\ ukeys'[u] = ukeys[u]
  /\ qid'[u] = qid[u] /\ rpc'[u] = rpc[u] /\ printed'[u] = printed[u]
  /\ query'[u] = query[u] /\ stage'[u] = stage[u] /\ result'[u] = result[u]
  /\ u \in open' <=> u \in open
  /\ u \in requested' <=> u \in requested

\* Old queries stay, and with them the keys they name.
LEMMA AsksStays ==
  ASSUME NEW u \in User, Asks(u), query'[u] = query[u], args' = args, KeysGrow
  PROVE  Asks(u)'
BY DEF Asks, Key, func_no, KeysGrow

\* A step that leaves a user's part alone keeps its invariant.
LEMMA OthersKeep ==
  ASSUME NEW u \in User, UserInv(u), Same(u), args' = args, KeysGrow
  PROVE  UserInv(u)'
<1>1. Keyed(u)'  BY DEF UserInv, Keyed, Same, KeysGrow, func_no
<1>2. Sent(u)'
  <2>1. query'[u] # None => Asks(u)'  BY AsksStays DEF UserInv, Sent, Same
  <2> QED  BY <2>1 DEF UserInv, Sent, Same, Key
<1>3. Session(u)'  BY DEF UserInv, Session, Same
<1>4. Computed(u)'
  <2>1. Rights(u)' = Rights(u)  BY DEF Rights, Right, PadOutputs, AsksPad, Same, Key
  <2> QED  BY <2>1 DEF UserInv, Computed, Same
<1> QED  BY <1>1, <1>2, <1>3, <1>4 DEF UserInv

\* A step that leaves a thread and its query alone keeps its invariant.
LEMMA ThreadsKeep ==
  ASSUME NEW t \in CalcThread, ThreadInv(t), KeysGrow,
         tpc[t] # "pop" => Asks(job[t]) /\ query'[job[t]] = query[job[t]],
         tpc'[t] = tpc[t], job'[t] = job[t], tkeys'[t] = tkeys[t]
  PROVE  ThreadInv(t)'
<1>1. tpc[t] # "pop" => JobKey(t) \in DOMAIN keysets /\ JobKey(t)' = JobKey(t)
  BY DEF Asks, Key, JobKey
<1> QED  BY <1>1 DEF ThreadInv, KeysGrow

\* What a thread at work computes is what its user asked.
LEMMA JobsAreAsked ==
  ASSUME SystemInv, NEW t \in CalcThread, tpc[t] # "pop"
  PROVE  job[t] \in User /\ query[job[t]] \in Query /\ Asks(job[t])
<1>1. job[t] \in User /\ query[job[t]] # None  BY DEF SystemInv, ThreadInv
<1> QED  BY <1>1 DEF SystemInv, UserInv, Sent, TypeOK

\* A server that has ended, ended for one of the two reasons, and they last.
LEMMA EndLasts ==
  ASSUME SystemInv, KeysGrow, ended' = ended, UNCHANGED threadVars,
         ended => \A u \in User : query'[u] = query[u]
  PROVE  ServerSurvives'
<1> SUFFICES ASSUME ended  PROVE ServerSurvives'
  BY DEF ServerSurvives
<1>1. PICK t \in CalcThread : \/ tpc[t] # "pop" /\ JobKey(t) \notin map_
                              \/ tpc[t] = "compute" /\ rows(t) = 0
  BY DEF SystemInv, ServerSurvives
<1>2. tpc[t] # "pop"  BY <1>1
<1>3. job[t] \in User /\ Asks(job[t])  BY <1>2, JobsAreAsked
<1>4. JobKey(t) \in DOMAIN keysets  BY <1>3 DEF Asks, Key, JobKey
<1>5. JobKey(t)' = JobKey(t) /\ rows(t)' = rows(t)
  BY <1>3 DEF JobKey, rows, row_size, threadVars
<1>6. JobKey(t) \notin map_ => JobKey(t)' \notin map_'
  BY <1>4, <1>5 DEF KeysGrow
<1>7. tpc' = tpc  BY DEF threadVars
<1> QED  BY <1>1, <1>5, <1>6, <1>7 DEF ServerSurvives

\* A step of one user, or of the server for it.
LEMMA UserStepKeeps ==
  ASSUME SystemInv, TypeOK', Shape', args' = args, KeysGrow,
         NEW u \in User, UserInv(u)', \A w \in User \ {u} : Same(w),
         UNCHANGED threadVars, ended' = ended,
         query'[u] = query[u] \/ (~ended /\ query[u] = None)
  PROVE  SystemInv'
<1>1. \A w \in User : UserInv(w)'
  <2>1. \A w \in User : UserInv(w)  BY DEF SystemInv
  <2> QED  BY <2>1, OthersKeep
<1>2. \A w \in User : query'[w] = query[w] \/ (~ended /\ query[w] = None)
  BY DEF Same
<1>3. \A t \in CalcThread : ThreadInv(t)'
  <2> TAKE t \in CalcThread
  <2>1. ThreadInv(t)  BY DEF SystemInv
  <2>2. tpc[t] # "pop" => Asks(job[t]) /\ query'[job[t]] = query[job[t]]
    BY <1>2, <2>1, JobsAreAsked DEF ThreadInv
  <2>3. tpc'[t] = tpc[t] /\ job'[t] = job[t] /\ tkeys'[t] = tkeys[t]
    BY DEF threadVars
  <2> QED  BY <2>1, <2>2, <2>3, ThreadsKeep
<1>4. ServerSurvives'  BY <1>2, EndLasts
<1> QED  BY <1>1, <1>3, <1>4 DEF SystemInv

\* A query that moves at the server moves alone.
LEMMA Moved ==
  ASSUME QS!TypeOK, NEW u \in User, NEW from, NEW to \in QS!Stage, QS!Move(u, 1, from, to)
  PROVE  /\ ~ended /\ ended' = ended
         /\ stage' \in [User -> [1 .. 1 -> QS!Stage]]
         /\ stage[u][1] = from /\ stage'[u][1] = to
         /\ \A w \in User \ {u} : stage'[w] = stage[w]
<1>1. stage \in [User -> [1 .. 1 -> QS!Stage]]  BY DEF QS!TypeOK
<1>2. stage' = [stage EXCEPT ![u] = [stage[u] EXCEPT ![1] = to]]
  BY DEF QS!Move
<1>3. [stage[u] EXCEPT ![1] = to] \in [1 .. 1 -> QS!Stage]
      /\ [stage[u] EXCEPT ![1] = to][1] = to
  BY <1>1
<1> QED  BY <1>1, <1>2, <1>3 DEF QS!Move

-----------------------------------------------------------------------------
(***************************************************************************)
(* Every step keeps the invariant.                                         *)
(***************************************************************************)

\* The start.
LEMMA InitSystem ==
  ASSUME Init
  PROVE  SystemInv
<1>1. QS!TypeOK
  BY DEF Init, QS!Init, QS!TypeOK, QS!Stage, QS!Answer
<1>2. TypeOK
  <2>1. 0 \in 0 .. MaxStarts  BY SystemAssumption
  <2>2. map_ \subseteq DOMAIN keysets  BY DEF Init
  <2> QED  BY <1>1, <2>1, <2>2 DEF Init, TypeOK
<1>3. Shape
  BY DEF Init, Shape
<1>4. \A u \in User : UserInv(u)
  <2> TAKE u \in User
  <2>1. upc[u] = "init" /\ query[u] = None /\ stage[u][1] = "unsent"
        /\ rpc[u] = "none" /\ qid[u] = None /\ printed[u] = None
        /\ u \notin open /\ u \notin requested
    BY DEF Init, QS!Init
  <2> QED  BY <2>1 DEF UserInv, Keyed, Sent, Session, Computed
<1>5. \A t \in CalcThread : ThreadInv(t)
  BY DEF Init, ThreadInv
<1>6. ServerSurvives
  BY DEF Init, QS!Init, ServerSurvives
<1> QED  BY <1>2, <1>3, <1>4, <1>5, <1>6 DEF SystemInv

\* A Decryptor that starts takes its parameters from the file, one that stops
\* forgets the key ids, not the key sets; nothing else changes, as in a step of
\* something else.
LEMMA DecryptorKeeps ==
  ASSUME SystemInv, (\E file \in Files : DecStart(file)) \/ DecStop \/ UNCHANGED vars
  PROVE  SystemInv'
<1>1. UNCHANGED <<keysets, csVars, threadVars, userVars>>
  BY DEF DecStart, DecStop, vars, decVars
<1>2. map_' \subseteq map_
  BY DEF DecStart, DecStop, vars, decVars
<1>3. KeysGrow  BY <1>1, <1>2 DEF KeysGrow
<1>4. \A u \in User : Same(u)
  BY <1>1 DEF Same, userVars, csVars, serviceVars
<1>5. args' = args /\ ended' = ended /\ UNCHANGED threadVars /\ UNCHANGED query
  BY <1>1 DEF userVars, csVars, serviceVars
<1>6. dec' \in [Parameter -> Nat] \cup {None} /\ starts' \in 0 .. MaxStarts
  <2>1. ASSUME NEW file \in Files, DecStart(file)
        PROVE  dec' \in [Parameter -> Nat] /\ starts' \in 0 .. MaxStarts
    <3>1. \A p \in Parameter : is_exist_key(file, p) /\ file # NoFile =>
            stoul[get_value(file, p)] \in Nat
      BY <2>1, ConfigAssumption DEF DecStart, Accepted
    <3>2. Parameters(file) \in [Parameter -> Nat]
      BY <3>1, ConfigAssumption DEF Parameters
    <3>3. starts \in 0 .. MaxStarts /\ starts < MaxStarts /\ starts' = starts + 1
      BY <2>1 DEF DecStart, SystemInv, TypeOK
    <3> QED  BY <2>1, <3>2, <3>3, SystemAssumption DEF DecStart
  <2>2. CASE DecStop  BY <2>2 DEF DecStop, SystemInv, TypeOK
  <2>3. CASE UNCHANGED vars  BY <2>3 DEF vars, decVars, SystemInv, TypeOK
  <2> QED  BY <2>1, <2>2, <2>3
<1>7. TypeOK'
  <2>1. QS!TypeOK'
    BY <1>1 DEF SystemInv, TypeOK, QS!TypeOK, csVars, serviceVars
  <2> QED  BY <1>1, <1>2, <1>6, <2>1 DEF SystemInv, TypeOK, csVars, threadVars, userVars
<1>8. Shape'
  BY <1>1 DEF SystemInv, Shape, csVars, threadVars, userVars
<1>9. CASE User # {}
  <2>1. PICK u \in User : TRUE  BY <1>9
  <2>2. UserInv(u)'  BY <1>3, <1>4, <1>5, OthersKeep DEF SystemInv
  <2> QED  BY <1>3, <1>4, <1>5, <1>7, <1>8, <2>2, UserStepKeeps
<1>10. CASE User = {}
  <2>1. \A t \in CalcThread : tpc[t] = "pop"
    BY <1>10, JobsAreAsked
  <2>2. \A t \in CalcThread : ThreadInv(t)'
    BY <1>1, <2>1 DEF ThreadInv, threadVars
  <2>3. ServerSurvives'
    BY <1>3, <1>5, EndLasts
  <2> QED  BY <1>7, <1>8, <1>10, <2>2, <2>3 DEF SystemInv
<1> QED  BY <1>9, <1>10

\* New keys, under an id that no set has.
LEMMA NewKeysKeeps ==
  ASSUME SystemInv, NEW u \in User, NewKeys(u)
  PROVE  SystemInv'
<1> DEFINE id == Len(keysets) + 1
<1>1. keysets \in Seq(Params) /\ dec \in Params
  <2>1. dec \in [Parameter -> Nat]
    BY DEF NewKeys, SystemInv, TypeOK
  <2> QED  BY <2>1 DEF NewKeys, SystemInv, Shape, Params
<1>2. key' = [key EXCEPT ![u] = [key_id |-> id, seckey |-> id]]
  <2> HIDE DEF id
  <2> QED  BY NewKeysExchange DEF NewKeys, Received, id
<1>3. map_' = map_ \cup {id} /\ keysets' = Append(keysets, dec)
  BY DEF NewKeys, Received
<1>4. /\ keysets' \in Seq(Params) /\ DOMAIN keysets' = DOMAIN keysets \cup {id}
      /\ id \notin DOMAIN keysets
      /\ \A i \in DOMAIN keysets : keysets'[i] = keysets[i]
  BY <1>1, <1>3
<1>5. KeysGrow  BY <1>3, <1>4 DEF KeysGrow
<1>6. UNCHANGED <<csVars, threadVars>>
      /\ UNCHANGED <<dec, starts, args, ukeys, open, qid, rpc, printed>>
      /\ upc[u] = "init" /\ upc' = [upc EXCEPT ![u] = "keys"]
  BY DEF NewKeys, UserAt
<1> HIDE DEF id
<1>7. TypeOK'
  <2>1. QS!TypeOK'
    BY <1>6 DEF SystemInv, TypeOK, QS!TypeOK, csVars, serviceVars
  <2>2. map_' \subseteq DOMAIN keysets'
    BY <1>3, <1>4 DEF SystemInv, TypeOK
  <2> QED  BY <1>6, <2>1, <2>2 DEF SystemInv, TypeOK, csVars, threadVars
<1>8. Shape'
  BY <1>2, <1>4, <1>6 DEF SystemInv, Shape, csVars, threadVars
<1>9. \A w \in User \ {u} : Same(w)
  BY <1>2, <1>6 DEF SystemInv, Shape, TypeOK, Same, csVars, serviceVars
<1>10. UserInv(u)'
  <2>1. UserInv(u) /\ upc'[u] = "keys" /\ key'[u] = [key_id |-> id, seckey |-> id]
    BY <1>2, <1>6 DEF SystemInv, Shape, TypeOK
  <2>2. query'[u] = None /\ rpc'[u] = "none" /\ stage' = stage
    BY <1>6, <2>1 DEF UserInv, Sent, Session, csVars, serviceVars
  <2>3. Keyed(u)'  BY <1>4, <2>1 DEF Keyed
  <2>4. Sent(u)'  BY <1>6, <2>1, <2>2 DEF UserInv, Sent, csVars
  <2>5. Session(u)'  BY <1>6, <2>1, <2>2 DEF UserInv, Session, csVars
  <2>6. Computed(u)'  BY <1>6, <2>1, <2>2 DEF UserInv, Sent, Session, Computed, csVars
  <2> QED  BY <2>3, <2>4, <2>5, <2>6 DEF UserInv
<1>11. query'[u] = query[u] /\ ended' = ended  BY <1>6 DEF csVars, serviceVars
<1> QED  BY <1>5, <1>6, <1>7, <1>8, <1>9, <1>10, <1>11, UserStepKeeps

\* Without the Decryptor's steps the key sets are what they were.
LEMMA KeysStay ==
  ASSUME UNCHANGED decVars
  PROVE  KeysGrow
BY DEF decVars, KeysGrow

\* The keys a user receives are those of its id.
LEMMA UserGetKeysKeeps ==
  ASSUME SystemInv, NEW u \in User, UserGetKeys(u)
  PROVE  SystemInv'
<1> DEFINE id == key[u].key_id
<1>1. /\ UNCHANGED <<decVars, csVars, threadVars, args, key, open, qid, rpc, printed>>
      /\ upc[u] = "keys" /\ upc' = [upc EXCEPT ![u] = "connectCS"]
      /\ ukeys' = [ukeys EXCEPT ![u] = GetKeys(id, UserKinds)]
  BY DEF UserGetKeys, UserAt
<1>2. GetKeys(id, UserKinds).pub = id
  BY KeysExchange DEF UserGetKeys
<1>3. KeysGrow  BY <1>1, KeysStay
<1>4. TypeOK'
  <2>1. QS!TypeOK'
    BY <1>1 DEF SystemInv, TypeOK, QS!TypeOK, csVars, serviceVars
  <2> QED  BY <1>1, <2>1 DEF SystemInv, TypeOK, csVars, threadVars, decVars
<1>5. Shape'
  BY <1>1 DEF SystemInv, Shape, csVars, threadVars, decVars
<1>6. \A w \in User \ {u} : Same(w)
  BY <1>1 DEF SystemInv, Shape, TypeOK, Same, csVars, serviceVars
<1>7. UserInv(u)'
  <2>1. UserInv(u) /\ upc'[u] = "connectCS" /\ ukeys'[u].pub = id
    BY <1>1, <1>2 DEF SystemInv, Shape, TypeOK
  <2>2. query'[u] = None /\ rpc'[u] = "none" /\ stage' = stage
    BY <1>1, <2>1 DEF UserInv, Sent, Session, csVars, serviceVars
  <2>3. Keyed(u)'  BY <1>1, <2>1 DEF UserInv, Keyed, decVars
  <2>4. Sent(u)'  BY <1>1, <2>1, <2>2 DEF UserInv, Sent, csVars
  <2>5. Session(u)'  BY <1>1, <2>1, <2>2 DEF UserInv, Session, csVars
  <2>6. Computed(u)'  BY <1>1, <2>1, <2>2 DEF UserInv, Sent, Session, Computed, csVars
  <2> QED  BY <2>3, <2>4, <2>5, <2>6 DEF UserInv
<1>8. query'[u] = query[u] /\ ended' = ended  BY <1>1 DEF csVars, serviceVars
<1> QED  BY <1>1, <1>3, <1>4, <1>5, <1>6, <1>7, <1>8, UserStepKeeps

\* A user with inputs connects to the server.
LEMMA ConnectCSKeeps ==
  ASSUME SystemInv, NEW u \in User, ConnectCS(u)
  PROVE  SystemInv'
<1>1. /\ UNCHANGED <<decVars, csVars, threadVars, args, key, ukeys, qid, rpc, printed>>
      /\ upc[u] = "connectCS"
      /\ upc' = [upc EXCEPT ![u] = IF func_no(u) = 0 THEN "ended" ELSE "send"]
      /\ open' = IF func_no(u) = 0 THEN open ELSE open \cup {u}
  BY DEF ConnectCS, UserAt
<1>2. KeysGrow  BY <1>1, KeysStay
<1>3. TypeOK'
  <2>1. QS!TypeOK'
    BY <1>1 DEF SystemInv, TypeOK, QS!TypeOK, csVars, serviceVars
  <2> QED  BY <1>1, <2>1 DEF SystemInv, TypeOK, csVars, threadVars, decVars
<1>4. Shape'
  BY <1>1 DEF SystemInv, Shape, csVars, threadVars, decVars
<1>5. \A w \in User \ {u} : Same(w)
  BY <1>1 DEF SystemInv, Shape, TypeOK, Same, csVars, serviceVars
<1>6. UserInv(u)'
  <2>1. /\ UserInv(u) /\ upc'[u] \in {"send", "ended"}
        /\ (upc'[u] = "send" => func_no(u) # 0) /\ (u \in open' => upc'[u] = "send")
    BY <1>1 DEF SystemInv, UserInv, Session, TypeOK
  <2>2. query'[u] = None /\ rpc'[u] = "none" /\ stage' = stage
    BY <1>1, <2>1 DEF UserInv, Sent, Session, csVars, serviceVars
  <2>3. Keyed(u)'  BY <1>1, <2>1 DEF UserInv, Keyed, decVars, func_no
  <2>4. Sent(u)'  BY <1>1, <2>1, <2>2 DEF UserInv, Sent, csVars
  <2>5. Session(u)'  BY <1>1, <2>1, <2>2 DEF UserInv, Session, csVars
  <2>6. Computed(u)'  BY <1>1, <2>1, <2>2 DEF UserInv, Sent, Session, Computed, csVars
  <2> QED  BY <2>3, <2>4, <2>5, <2>6 DEF UserInv
<1>7. query'[u] = query[u] /\ ended' = ended  BY <1>1 DEF csVars, serviceVars
<1> QED  BY <1>1, <1>2, <1>3, <1>4, <1>5, <1>6, <1>7, UserStepKeeps

\* The server receives what the user asks.
LEMMA SendQueryKeeps ==
  ASSUME SystemInv, NEW u \in User, SendQuery(u)
  PROVE  SystemInv'
<1> DEFINE value == LoadQuery(SentBy(u)).value
<1>1. /\ UNCHANGED <<decVars, requested, result, threadVars, args, key, ukeys, open, qid,
                     rpc, printed>>
      /\ upc[u] = "send" /\ upc' = [upc EXCEPT ![u] = "reply"]
      /\ query' = [query EXCEPT ![u] = value]
  BY DEF SendQuery, UserAt, Received
<1>2. UserInv(u) /\ TypeOK /\ Shape  BY DEF SystemInv
<1>3. /\ func_no(u) # 0 /\ ukeys[u].pub = key[u].key_id /\ query[u] = None
      /\ key[u].key_id \in DOMAIN keysets /\ key[u].key_id \in Nat
  BY <1>1, <1>2 DEF UserInv, Keyed, Sent, Shape
<1>4. /\ value \in Query /\ value.param.key_id = key[u].key_id
      /\ value.param.func_no = func_no(u)
      /\ value.ctxts = [i \in 1 .. func_no(u) |->
                          [set |-> key[u].key_id, val |-> Inputs(args[u])[i]]]
  <2>1. args \in CommandLines  BY <1>2 DEF Shape
  <2>2. value \in Query  BY <1>3, <2>1, SentIsAsked
  <2>3. value.param = [key_id |-> key[u].key_id, func_no |-> func_no(u)]
    BY <1>3, <2>1, SentIsAsked
  <2>4. value.ctxts = [i \in 1 .. func_no(u) |->
                         [set |-> key[u].key_id, val |-> Inputs(args[u])[i]]]
    BY <1>3, <2>1, SentIsAsked
  <2> HIDE DEF value
  <2> QED  BY <2>2, <2>3, <2>4
<1>5. value # None  BY <1>4, NoneAssumption
<1> HIDE DEF value
<1>6. /\ ~ended /\ ended' = ended /\ stage'[u][1] = "received"
      /\ stage' \in [User -> [1 .. 1 -> QS!Stage]]
      /\ \A w \in User \ {u} : stage'[w] = stage[w]
  <2>1. QS!Move(u, 1, "unsent", "received")  BY DEF SendQuery, QS!Submit
  <2>2. "received" \in QS!Stage  BY DEF QS!Stage
  <2> QED  BY <1>2, <2>1, <2>2, Moved DEF TypeOK
<1>7. answer' = [answer EXCEPT ![u] = "none"]  BY DEF SendQuery, QS!Submit
<1>8. KeysGrow  BY <1>1, KeysStay
<1>9. TypeOK'
  <2>1. QS!TypeOK'
    BY <1>2, <1>6, <1>7 DEF TypeOK, QS!TypeOK, QS!Answer
  <2> QED  BY <1>1, <1>2, <1>4, <2>1 DEF TypeOK, threadVars, decVars
<1>10. Shape'
  BY <1>1, <1>2 DEF Shape, threadVars, decVars
<1>11. \A w \in User \ {u} : Same(w)
  BY <1>1, <1>2, <1>6 DEF TypeOK, Same
<1>12. UserInv(u)'
  <2>1. upc'[u] = "reply" /\ query'[u] = value  BY <1>1, <1>2 DEF TypeOK
  <2>2. Keyed(u)'  BY <1>1, <1>2, <2>1 DEF UserInv, Keyed, decVars, func_no
  <2>3. Asks(u)'
    BY <1>1, <1>3, <1>4, <2>1 DEF Asks, Key, func_no, decVars
  <2>4. Sent(u)'
    BY <1>1, <1>4, <1>5, <1>6, <2>1, <2>3 DEF Sent, Key
  <2>5. rpc[u] = "none"  BY <1>1, <1>2 DEF UserInv, Session
  <2>6. Session(u)'  BY <1>1, <1>2, <1>6, <2>1, <2>5 DEF UserInv, Session
  <2>7. Computed(u)'  BY <1>1, <1>6, <2>5 DEF Computed
  <2> QED  BY <2>2, <2>4, <2>6, <2>7 DEF UserInv
<1> QED  BY <1>1, <1>3, <1>6, <1>8, <1>9, <1>10, <1>11, <1>12, UserStepKeeps

\* A user that has received an id, or the refusal's, sets its callback.
LEMMA SetCallbackKeeps ==
  ASSUME SystemInv, NEW u \in User, SetCallback(u)
  PROVE  SystemInv'
<1> DEFINE id == IF answer[u] = "accepted" THEN u ELSE -1
<1>1. /\ UNCHANGED <<decVars, csVars, threadVars, args, key, ukeys, open, printed>>
      /\ upc[u] = "reply" /\ upc' = [upc EXCEPT ![u] = "sleep"]
      /\ rpc' = [rpc EXCEPT ![u] = "start"]
      /\ qid' = [qid EXCEPT ![u] = LoadQueryReply(QueryReply(id)).value]
  BY DEF SetCallback, UserAt, Received
<1>2. LoadQueryReply(QueryReply(id)).value = id
  <2> HIDE DEF id
  <2> QED  BY QueryReplyRoundTrip
<1>3. id \in {u, -1} /\ id # None
  <2>1. u # None /\ -1 # None  BY NoneAssumption
  <2> QED  BY <2>1
<1>4. qid' = [qid EXCEPT ![u] = id]  BY <1>1, <1>2
<1> HIDE DEF id
<1>5. KeysGrow  BY <1>1, KeysStay
<1>6. TypeOK'
  <2>1. QS!TypeOK'
    BY <1>1 DEF SystemInv, TypeOK, QS!TypeOK, csVars, serviceVars
  <2> QED  BY <1>1, <1>3, <1>4, <2>1 DEF SystemInv, TypeOK, csVars, threadVars, decVars
<1>7. Shape'
  BY <1>1 DEF SystemInv, Shape, csVars, threadVars, decVars
<1>8. \A w \in User \ {u} : Same(w)
  BY <1>1, <1>4 DEF SystemInv, Shape, TypeOK, Same, csVars, serviceVars
<1>9. UserInv(u)'
  <2>1. UserInv(u) /\ upc'[u] = "sleep" /\ rpc'[u] = "start" /\ qid'[u] = id
    BY <1>1, <1>4 DEF SystemInv, TypeOK
  <2>2. UNCHANGED <<query, stage, requested, result>> /\ rpc[u] = "none"
    BY <1>1, <2>1 DEF UserInv, Session, csVars, serviceVars
  <2>3. Keyed(u)'  BY <1>1, <2>1 DEF UserInv, Keyed, decVars, func_no
  <2>4. Sent(u)'
    <3>1. query[u] # None => Asks(u)'
      BY <1>1, <1>5, <2>1, <2>2, AsksStays DEF UserInv, Sent
    <3> QED  BY <1>1, <2>1, <2>2, <3>1 DEF UserInv, Sent, Key
  <2>5. Session(u)'  BY <1>1, <1>3, <2>1, <2>2 DEF UserInv, Session
  <2>6. Computed(u)'
    <3>1. Rights(u)' = Rights(u)  BY <1>1, <2>2 DEF Rights, Right, PadOutputs, AsksPad, Key
    <3> QED  BY <2>1, <2>2, <3>1 DEF UserInv, Computed
  <2> QED  BY <2>3, <2>4, <2>5, <2>6 DEF UserInv
<1>10. query'[u] = query[u] /\ ended' = ended  BY <1>1 DEF csVars, serviceVars
<1> QED  BY <1>1, <1>5, <1>6, <1>7, <1>8, <1>9, <1>10, UserStepKeeps

\* A user that leaves, however it does.
LEMMA LeavingKeeps ==
  ASSUME SystemInv, NEW u \in User, Close(u) \/ Join(u) \/ UserThrows(u) \/ Crash(u)
  PROVE  SystemInv'
<1>1. /\ UNCHANGED <<decVars, csVars, threadVars, args, rpc, printed>>
      /\ upc'[u] \in {"join", "ended"}
      /\ upc'[u] = "join" =>
           upc[u] = "sleep" /\ UNCHANGED <<key, ukeys, qid>> /\ u \notin open'
      /\ upc'[u] = "ended" =>
           /\ u \notin open' /\ qid' = [qid EXCEPT ![u] = None]
           /\ rpc[u] \in {"none", "done", "threw"}
      /\ upc' = [upc EXCEPT ![u] = upc'[u]]
      /\ open' \in {open, open \ {u}}
  <2>1. upc \in [User -> {"init", "keys", "connectCS", "send", "reply",
                          "sleep", "join", "ended"}] /\ Session(u)
    BY DEF SystemInv, TypeOK, UserInv
  <2>2. CASE Close(u)
    BY <2>1, <2>2 DEF Close, UserAt
  <2>3. CASE Join(u)
    BY <2>1, <2>3 DEF Join, UserAt, Leave, Session
  <2>4. CASE UserThrows(u)
    <3>1. upc[u] \in {"init", "keys", "connectCS", "send", "reply"}
      BY <2>4 DEF UserThrows
    <3> QED  BY <2>1, <2>4, <3>1 DEF UserThrows, Leave, Session
  <2>5. CASE Crash(u)
    BY <2>1, <2>5 DEF Crash, UserAt, Leave, Session
  <2> QED  BY <2>2, <2>3, <2>4, <2>5
<1>2. /\ DOMAIN key' = User /\ DOMAIN ukeys' = User
      /\ \A w \in User \ {u} : key'[w] = key[w] /\ ukeys'[w] = ukeys[w] /\ qid'[w] = qid[w]
      /\ qid' \in [User -> User \cup {None, -1}]
  <2>1. DOMAIN key = User /\ DOMAIN ukeys = User /\ qid \in [User -> User \cup {None, -1}]
    BY DEF SystemInv, Shape, TypeOK
  <2>2. CASE UNCHANGED <<key, ukeys, qid>>  BY <2>1, <2>2
  <2>3. CASE Leave(u)  BY <2>1, <2>3 DEF Leave
  <2> QED  BY <2>2, <2>3 DEF Close, Join, UserThrows, Crash
<1>3. KeysGrow  BY <1>1, KeysStay
<1>4. TypeOK'
  <2>1. QS!TypeOK'
    BY <1>1 DEF SystemInv, TypeOK, QS!TypeOK, csVars, serviceVars
  <2>2. open' \subseteq User  BY <1>1 DEF SystemInv, TypeOK
  <2>3. upc' \in [User -> {"init", "keys", "connectCS", "send", "reply",
                           "sleep", "join", "ended"}]
    BY <1>1 DEF SystemInv, TypeOK
  <2> QED  BY <1>1, <1>2, <2>1, <2>2, <2>3 DEF SystemInv, TypeOK, csVars, threadVars, decVars
<1>5. Shape'
  BY <1>1, <1>2 DEF SystemInv, Shape, csVars, threadVars, decVars
<1>6. \A w \in User \ {u} : Same(w)
  BY <1>1, <1>2 DEF SystemInv, TypeOK, Same, csVars, serviceVars
<1>7. UserInv(u)'
  <2>1. UserInv(u)  BY DEF SystemInv
  <2>2. UNCHANGED <<query, stage, requested, result, rpc, printed>> /\ u \notin open'
    BY <1>1 DEF csVars, serviceVars
  <2>3. Keyed(u)'  BY <1>1, <2>1 DEF UserInv, Keyed, decVars, func_no
  <2>4. Sent(u)'
    <3>1. query[u] # None => Asks(u)'
      BY <1>1, <1>3, <2>1, <2>2, AsksStays DEF UserInv, Sent
    <3> QED  BY <1>1, <2>1, <2>2, <3>1 DEF UserInv, Sent, Key
  <2>5. Session(u)'
    <3>1. CASE upc'[u] = "join"  BY <1>1, <2>1, <2>2, <3>1 DEF UserInv, Session
    <3>2. CASE upc'[u] = "ended"
      <4>1. qid'[u] = None  BY <1>1, <3>2 DEF SystemInv, TypeOK
      <4> QED  BY <1>1, <2>1, <2>2, <3>2, <4>1 DEF UserInv, Session
    <3> QED  BY <1>1, <3>1, <3>2
  <2>6. Computed(u)'
    <3>1. Rights(u)' = Rights(u)  BY <1>1, <2>2 DEF Rights, Right, PadOutputs, AsksPad, Key
    <3> QED  BY <2>1, <2>2, <3>1 DEF UserInv, Computed
  <2> QED  BY <2>3, <2>4, <2>5, <2>6 DEF UserInv
<1>8. query'[u] = query[u] /\ ended' = ended  BY <1>1 DEF csVars, serviceVars
<1> QED  BY <1>1, <1>3, <1>4, <1>5, <1>6, <1>7, <1>8, UserStepKeeps

\* The ResultThread asks for the id its user received, or fails to.
LEMMA AskKeeps ==
  ASSUME SystemInv, NEW u \in User, AskResult(u) \/ AskThrows(u)
  PROVE  SystemInv'
<1>1. UserInv(u) /\ TypeOK /\ Shape  BY DEF SystemInv
<1>2. /\ UNCHANGED <<decVars, serviceVars, query, result, threadVars, args, upc, key,
                     ukeys, open, qid, printed>>
      /\ rpc' = [rpc EXCEPT ![u] = rpc'[u]] /\ rpc'[u] \in {"wait", "threw"}
      /\ rpc[u] \in {"start", "wait"}
      /\ requested \subseteq requested' /\ requested' \subseteq requested \cup {u, -1}
  <2>1. CASE AskResult(u)
    <3>1. qid[u] \in {u, -1}
      BY <1>1, <2>1 DEF AskResult, UserInv, Session
    <3>2. requested' = requested \cup {qid[u]}
      BY <2>1, ResultRequestRoundTrip DEF AskResult, Received
    <3> QED  BY <1>1, <2>1, <3>1, <3>2 DEF AskResult, TypeOK
  <2>2. CASE AskThrows(u)
    BY <1>1, <2>2 DEF AskThrows, TypeOK, csVars
  <2> QED  BY <2>1, <2>2
<1>3. KeysGrow  BY <1>2, KeysStay
<1>4. TypeOK'
  <2>1. QS!TypeOK'
    BY <1>1, <1>2 DEF TypeOK, QS!TypeOK, serviceVars
  <2> QED  BY <1>1, <1>2, <2>1 DEF TypeOK, threadVars, decVars
<1>5. Shape'
  BY <1>1, <1>2 DEF Shape, threadVars, decVars
<1>6. \A w \in User \ {u} : Same(w)
  <2>1. \A w \in User : w # -1  BY NoneAssumption
  <2> QED  BY <1>1, <1>2, <2>1 DEF TypeOK, Same, serviceVars
<1>7. UserInv(u)'
  <2>1. UNCHANGED <<query, stage, result, printed, upc, open, qid, key, ukeys, args>>
    BY <1>2 DEF serviceVars
  <2>2. Keyed(u)'  BY <1>1, <1>2, <2>1 DEF UserInv, Keyed, decVars, func_no
  <2>3. Sent(u)'
    <3>1. query[u] # None => Asks(u)'
      BY <1>1, <1>3, <2>1, AsksStays DEF UserInv, Sent
    <3> QED  BY <1>1, <2>1, <3>1 DEF UserInv, Sent, Key
  <2>4. upc[u] \notin {"init", "keys", "connectCS", "send", "reply", "ended"}
    BY <1>1, <1>2 DEF UserInv, Session
  <2>5. Session(u)'
    BY <1>1, <1>2, <2>1, <2>4 DEF UserInv, Session
  <2>6. Computed(u)'
    <3>1. Rights(u)' = Rights(u)  BY <2>1 DEF Rights, Right, PadOutputs, AsksPad, Key
    <3> QED  BY <1>1, <1>2, <2>1, <3>1 DEF UserInv, Computed
  <2> QED  BY <2>2, <2>3, <2>5, <2>6 DEF UserInv
<1>8. query'[u] = query[u] /\ ended' = ended  BY <1>2 DEF serviceVars
<1> QED  BY <1>2, <1>3, <1>4, <1>5, <1>6, <1>7, <1>8, UserStepKeeps

\* What a user may be shown.
ShownTo(u) ==
  {TL(u)!Expected(Table, Inputs(args[u]))} \cup {Shown(v) : v \in PadOutputs(u)}

\* What the callback shows: the entry of the user's inputs.
LEMMA CallbackShows ==
  ASSUME SystemInv, NEW u \in User, Callback(u)
  PROVE  /\ upc[u] \in {"sleep", "join"} /\ query[u] # None /\ printed[u] = None
         /\ printed' = [printed EXCEPT ![u] = printed'[u]] /\ printed'[u] \in ShownTo(u)
<1>1. UserInv(u) /\ Shape /\ rpc[u] = "got"
  BY DEF SystemInv, Callback
<1>2. /\ upc[u] \notin {"init", "keys", "connectCS", "send", "reply", "ended"}
      /\ stage[u][1] = "gone" /\ printed[u] = None
  BY <1>1 DEF UserInv, Session
<1>3. upc[u] \in {"sleep", "join"}  BY <1>2 DEF SystemInv, TypeOK
<1>4. query[u] # None  BY <1>1, <1>2 DEF UserInv, Sent
<1>5. key[u].seckey = Key(u)  BY <1>1, <1>3, <1>4 DEF UserInv, Keyed, Sent
<1>6. result[u] \in Rights(u)  BY <1>1 DEF UserInv, Computed
<1> DEFINE x == Inputs(args[u])
           ctxt == result[u].ctxt
           Val == Nat \cup BOOLEAN \cup {ctxt}
           status == result[u].status
           got == LoadResultReply(ResultReply(status, ctxt))
<1>7. printed' = [printed EXCEPT ![u] =
                    IF got.value.status THEN Shown(Decrypt(key[u].seckey, got.value.ctxts[1]))
                                        ELSE Failed]
  BY DEF Callback, Received
<1>8. /\ LoadResultReply(ResultReply(TRUE, ctxt))
           = Got([status |-> TRUE, ctxts |-> <<ctxt>>], <<>>)
      /\ LoadResultReply(ResultReply(FALSE, ctxt)).value
           = [status |-> FALSE, ctxts |-> <<>>]
  <2>1. Nat \subseteq Val /\ BOOLEAN \subseteq Val /\ ctxt \in Val  OBVIOUS
  <2> HIDE DEF Val, ctxt
  <2> QED  BY <2>1, ResultRoundTrip
<1>9. DOMAIN printed = User  BY <1>1 DEF Shape
\* Of a success, the value that is kept, which the user's own key decrypts.
<1>10. ASSUME NEW val, result[u] = [status |-> TRUE, ctxt |-> [set |-> Key(u), val |-> val]]
       PROVE  printed' = [printed EXCEPT ![u] = Shown(val)]
  <2>1. status = TRUE /\ ctxt = [set |-> Key(u), val |-> val]
    BY <1>10
  <2> HIDE DEF ctxt, status
  <2>2. got.value.status = TRUE /\ got.value.ctxts[1] = ctxt
    <3>1. got = Got([status |-> TRUE, ctxts |-> <<ctxt>>], <<>>)  BY <1>8, <2>1
    <3> HIDE DEF got
    <3>2. got.value = [status |-> TRUE, ctxts |-> <<ctxt>>]  BY <3>1, GotFields
    <3> QED  BY <3>2
  <2> HIDE DEF got
  <2>3. Decrypt(key[u].seckey, got.value.ctxts[1]) = val
    BY <1>5, <2>1, <2>2 DEF Decrypt
  <2> QED  BY <1>7, <2>2, <2>3
<1>11. CASE result[u] = Right(u) /\ x \in DOMAIN Table
  <2>1. printed' = [printed EXCEPT ![u] = Shown(Table[x])]
    BY <1>10, <1>11 DEF Right
  <2>2. TL(u)!Expected(Table, x) = Shown(Table[x])
    BY <1>11 DEF TL!Expected, TL!Shown, Shown
  <2> QED  BY <1>2, <1>3, <1>4, <1>9, <2>1, <2>2 DEF ShownTo
<1>12. CASE result[u] = Right(u) /\ x \notin DOMAIN Table
  <2>1. status = FALSE  BY <1>12 DEF Right
  <2> HIDE DEF ctxt, status
  <2>2. got.value.status = FALSE
    <3>1. got.value = [status |-> FALSE, ctxts |-> <<>>]  BY <1>8, <2>1
    <3> HIDE DEF got
    <3> QED  BY <3>1
  <2> HIDE DEF got
  <2>3. printed' = [printed EXCEPT ![u] = Failed]
    BY <1>7, <2>2
  <2>4. TL(u)!Expected(Table, x) = Failed  BY <1>12 DEF TL!Expected
  <2> QED  BY <1>2, <1>3, <1>4, <1>9, <2>3, <2>4 DEF ShownTo
<1>13. CASE result[u] # Right(u)
  <2>1. PICK val \in PadOutputs(u) :
          result[u] = [status |-> TRUE, ctxt |-> [set |-> Key(u), val |-> val]]
    BY <1>6, <1>13 DEF Rights
  <2>2. printed' = [printed EXCEPT ![u] = Shown(val)]  BY <1>10, <2>1
  <2> QED  BY <1>2, <1>3, <1>4, <1>9, <2>1, <2>2 DEF ShownTo
<1> QED  BY <1>11, <1>12, <1>13

\* The callback has run.
LEMMA CallbackKeeps ==
  ASSUME SystemInv, NEW u \in User, Callback(u)
  PROVE  SystemInv'
<1>1. UserInv(u) /\ TypeOK /\ Shape  BY DEF SystemInv
<1>2. /\ UNCHANGED <<decVars, csVars, threadVars, args, upc, key, ukeys, open, qid>>
      /\ rpc[u] = "got" /\ rpc' = [rpc EXCEPT ![u] = "done"]
  BY DEF Callback
<1>3. DOMAIN printed' = User /\ \A w \in User \ {u} : printed'[w] = printed[w]
  BY <1>1 DEF Callback, Shape
<1>4. KeysGrow  BY <1>2, KeysStay
<1>5. TypeOK'
  <2>1. QS!TypeOK'
    BY <1>1, <1>2 DEF TypeOK, QS!TypeOK, csVars, serviceVars
  <2> QED  BY <1>1, <1>2, <2>1 DEF TypeOK, threadVars, decVars, csVars
<1>6. Shape'
  BY <1>1, <1>2, <1>3 DEF Shape, threadVars, decVars, csVars
<1>7. \A w \in User \ {u} : Same(w)
  BY <1>1, <1>2, <1>3 DEF TypeOK, Same, serviceVars, csVars
<1>8. UserInv(u)'
  <2>1. UNCHANGED <<query, stage, result, requested>>
    BY <1>2 DEF serviceVars, csVars
  <2>2. rpc'[u] = "done"  BY <1>1, <1>2 DEF TypeOK
  <2>3. Keyed(u)'  BY <1>1, <1>2 DEF UserInv, Keyed, decVars, func_no
  <2>4. Sent(u)'
    <3>1. query[u] # None => Asks(u)'
      BY <1>1, <1>2, <1>4, <2>1, AsksStays DEF UserInv, Sent
    <3> QED  BY <1>1, <1>2, <2>1, <3>1 DEF UserInv, Sent, Key
  <2>5. Session(u)'
    BY <1>1, <1>2, <2>1, <2>2 DEF UserInv, Session
  <2>6. Computed(u)'
    BY <1>1, <1>2, <2>1, <2>2 DEF UserInv, Session, Computed
  <2> QED  BY <2>3, <2>4, <2>5, <2>6 DEF UserInv
<1>9. query'[u] = query[u] /\ ended' = ended  BY <1>2 DEF serviceVars, csVars
<1> QED  BY <1>2, <1>4, <1>5, <1>6, <1>7, <1>8, <1>9, UserStepKeeps

\* A handler moves a user's query on, and what it sends reaches the user or not.
LEMMA HandlerKeeps ==
  ASSUME SystemInv, NEW u \in User, Reply(u) \/ TakeResult(u) \/ DeliverResult(u)
  PROVE  SystemInv'
<1>1. UserInv(u) /\ TypeOK /\ Shape /\ QS!TypeOK  BY DEF SystemInv, TypeOK
<1>2. /\ UNCHANGED <<decVars, query, threadVars, args, upc, key, ukeys, open, qid,
                     requested, result, printed>>
  BY DEF Reply, TakeResult, DeliverResult, HandlerFrame
<1>3. /\ ended' = ended /\ stage' \in [User -> [1 .. 1 -> QS!Stage]]
      /\ \A w \in User \ {u} : stage'[w] = stage[w]
      /\ \/ stage[u][1] = "received" /\ stage'[u][1] \in {"queued", "gone"}
         \/ stage[u][1] = "done" /\ stage'[u][1] = "taken" /\ u \in requested
         \/ stage[u][1] = "taken" /\ stage'[u][1] = "gone"
  <2>1. {"queued", "gone", "taken"} \subseteq QS!Stage  BY DEF QS!Stage
  <2>2. CASE Reply(u)
    <3>1. QS!Move(u, 1, "received", "gone") \/ QS!Move(u, 1, "received", "queued")
      BY <2>2 DEF Reply, QS!Refuse, QS!Accept
    <3>2. CASE QS!Move(u, 1, "received", "gone")  BY <1>1, <2>1, <3>2, Moved
    <3>3. CASE QS!Move(u, 1, "received", "queued")  BY <1>1, <2>1, <3>3, Moved
    <3> QED  BY <3>1, <3>2, <3>3
  <2>3. CASE TakeResult(u)
    <3>1. QS!Move(u, 1, "done", "taken") /\ u \in requested
      BY <2>3 DEF TakeResult, QS!Take
    <3> QED  BY <1>1, <2>1, <3>1, Moved
  <2>4. CASE DeliverResult(u)
    <3>1. QS!Move(u, 1, "taken", "gone")  BY <2>4 DEF DeliverResult, QS!Deliver
    <3> QED  BY <1>1, <2>1, <3>1, Moved
  <2> QED  BY <2>2, <2>3, <2>4
<1>4. answer' \in [User -> QS!Answer]
  <2>1. answer \in [User -> QS!Answer] /\ {"none", "accepted", "refused"} \subseteq QS!Answer
    BY <1>1 DEF QS!TypeOK, QS!Answer
  <2>2. \/ answer' = answer
        \/ \E a \in {"none", "accepted", "refused"} : answer' = [answer EXCEPT ![u] = a]
    <3>1. CASE Reply(u)  BY <3>1 DEF Reply
    <3>2. CASE TakeResult(u)  BY <3>2 DEF TakeResult, QS!Take
    <3>3. CASE DeliverResult(u)  BY <3>3 DEF DeliverResult
    <3> QED  BY <3>1, <3>2, <3>3
  <2> QED  BY <2>1, <2>2
\* The ResultThread receives from a user that is still connected and asked.
<1>5. \/ rpc' = rpc
      \/ /\ rpc' = [rpc EXCEPT ![u] = "got"] /\ stage[u][1] = "taken"
         /\ upc[u] = "sleep"
  <2>1. CASE Reply(u)  BY <2>1 DEF Reply
  <2>2. CASE TakeResult(u)  BY <2>2 DEF TakeResult
  <2>3. CASE DeliverResult(u)
    <3>1. stage[u][1] = "taken"  BY <2>3 DEF DeliverResult, QS!Deliver, QS!Move
    <3>2. rpc[u] # "none"  BY <1>1, <3>1 DEF UserInv, Session
    <3>3. u \in open => upc[u] = "sleep"  BY <1>1, <3>2 DEF UserInv, Session
    <3> QED  BY <2>3, <3>1, <3>3 DEF DeliverResult, Connected
  <2> QED  BY <2>1, <2>2, <2>3
<1>6. KeysGrow  BY <1>2, KeysStay
<1>7. TypeOK'
  <2>1. QS!TypeOK'
    BY <1>1, <1>3, <1>4 DEF QS!TypeOK
  <2>2. rpc' \in [User -> {"none", "start", "wait", "got", "done", "threw"}]
    BY <1>1, <1>5 DEF TypeOK
  <2> QED  BY <1>1, <1>2, <2>1, <2>2 DEF TypeOK, threadVars, decVars
<1>8. Shape'
  BY <1>1, <1>2 DEF Shape, threadVars, decVars
<1>9. \A w \in User \ {u} : Same(w)
  BY <1>1, <1>2, <1>3, <1>5 DEF TypeOK, Same
<1>10. UserInv(u)'
  <2>1. \/ rpc'[u] = rpc[u]
        \/ rpc'[u] = "got" /\ stage[u][1] = "taken" /\ upc[u] = "sleep"
    BY <1>1, <1>5 DEF TypeOK
  <2>2. Keyed(u)'  BY <1>1, <1>2 DEF UserInv, Keyed, decVars, func_no
  <2>3. Sent(u)'
    <3>1. query[u] # None => Asks(u)'
      BY <1>1, <1>2, <1>6, AsksStays DEF UserInv, Sent
    <3> QED  BY <1>1, <1>2, <1>3, <3>1 DEF UserInv, Sent, Key
  <2>4. Session(u)'
    BY <1>1, <1>2, <1>3, <2>1 DEF UserInv, Session
  <2>5. Computed(u)'
    <3>1. Rights(u)' = Rights(u)  BY <1>2 DEF Rights, Right, PadOutputs, AsksPad, Key
    <3> QED  BY <1>1, <1>2, <1>3, <2>1, <3>1 DEF UserInv, Computed
  <2> QED  BY <2>2, <2>3, <2>4, <2>5 DEF UserInv
<1>11. query'[u] = query[u]  BY <1>2
<1> QED  BY <1>2, <1>3, <1>6, <1>7, <1>8, <1>9, <1>10, <1>11, UserStepKeeps

-----------------------------------------------------------------------------
(***************************************************************************)
(* The calculation threads.                                                *)
(***************************************************************************)

\* A step of one thread, on the query of one user.
LEMMA ThreadStepKeeps ==
  ASSUME SystemInv, TypeOK', Shape', UNCHANGED <<decVars, query, userVars>>,
         ~ended, ended' = ended,
         NEW u \in User, UserInv(u)', \A w \in User \ {u} : Same(w),
         NEW t \in CalcThread, ThreadInv(t)',
         \A s \in CalcThread \ {t} :
           tpc'[s] = tpc[s] /\ job'[s] = job[s] /\ tkeys'[s] = tkeys[s]
  PROVE  SystemInv'
<1>1. KeysGrow /\ args' = args  BY KeysStay DEF userVars
<1>2. \A w \in User : UserInv(w)'
  <2>1. \A w \in User : UserInv(w)  BY DEF SystemInv
  <2> QED  BY <1>1, <2>1, OthersKeep
<1>3. \A s \in CalcThread : ThreadInv(s)'
  <2> TAKE s \in CalcThread
  <2>1. CASE s = t  BY <2>1
  <2>2. CASE s # t
    <3>1. ThreadInv(s)  BY DEF SystemInv
    <3>2. tpc[s] # "pop" => Asks(job[s]) /\ query'[job[s]] = query[job[s]]
      BY JobsAreAsked
    <3> QED  BY <1>1, <2>2, <3>1, <3>2, ThreadsKeep
  <2> QED  BY <2>1, <2>2
<1>4. ServerSurvives'  BY DEF ServerSurvives
<1> QED  BY <1>2, <1>3, <1>4 DEF SystemInv

\* A user whose query moves at the server, its ResultThread and its own keys
\* and its query untouched.
LEMMA StageStep ==
  ASSUME NEW u \in User, UserInv(u), UNCHANGED <<decVars, query, requested, userVars>>,
         stage[u][1] \in {"queued", "computing"}, stage'[u][1] \in {"computing", "done"},
         stage'[u][1] = "done" => result'[u] \in Rights(u)
  PROVE  UserInv(u)'
<1>1. UNCHANGED <<keysets, args, upc, key, ukeys, open, qid, rpc, printed>> /\ KeysGrow
  BY KeysStay DEF userVars, decVars
<1>2. Keyed(u)'  BY <1>1 DEF UserInv, Keyed, func_no
<1>3. Sent(u)'
  <2>1. query[u] # None => Asks(u)'  BY <1>1, AsksStays DEF UserInv, Sent
  <2> QED  BY <1>1, <2>1 DEF UserInv, Sent, Key
<1>4. Session(u)'  BY <1>1 DEF UserInv, Session
<1>5. Computed(u)'
  <2>1. Rights(u)' = Rights(u)  BY <1>1 DEF Rights, Right, PadOutputs, AsksPad, Key
  <2>2. rpc[u] # "got"  BY DEF UserInv, Session
  <2> QED  BY <1>1, <2>1, <2>2 DEF Computed
<1> QED  BY <1>2, <1>3, <1>4, <1>5 DEF UserInv

\* A thread takes a query that is queued.
LEMMA PopQueryKeeps ==
  ASSUME SystemInv, NEW t \in CalcThread, PopQuery(t)
  PROVE  SystemInv'
<1>1. PICK u \in User : QS!Start(u, 1) /\ job' = [job EXCEPT ![t] = u]
  BY DEF PopQuery
<1>2. TypeOK /\ Shape /\ QS!TypeOK /\ UserInv(u)  BY DEF SystemInv, TypeOK
<1>3. /\ UNCHANGED <<decVars, query, requested, result, tkeys, userVars>>
      /\ tpc' = [tpc EXCEPT ![t] = "preprocess"]
  BY DEF PopQuery, ThreadAt
<1>4. /\ ~ended /\ ended' = ended /\ stage' \in [User -> [1 .. 1 -> QS!Stage]]
      /\ stage[u][1] = "queued" /\ stage'[u][1] = "computing"
      /\ \A w \in User \ {u} : stage'[w] = stage[w]
  <2>1. QS!Move(u, 1, "queued", "computing")  BY <1>1 DEF QS!Start
  <2>2. "computing" \in QS!Stage  BY DEF QS!Stage
  <2> QED  BY <1>2, <2>1, <2>2, Moved
<1>5. answer' = answer  BY <1>1 DEF QS!Start
<1>6. TypeOK'
  <2>1. QS!TypeOK'  BY <1>2, <1>4, <1>5 DEF QS!TypeOK
  <2> QED  BY <1>1, <1>2, <1>3, <2>1 DEF TypeOK, userVars, decVars
<1>7. Shape'  BY <1>2, <1>3 DEF Shape, userVars, decVars
<1>8. UserInv(u)'  BY <1>2, <1>3, <1>4, StageStep
<1>9. \A w \in User \ {u} : Same(w)  BY <1>3, <1>4 DEF Same, userVars
<1>10. ThreadInv(t)'
  <2>1. query[u] # None  BY <1>2, <1>4 DEF UserInv, Sent
  <2>2. job'[t] = u /\ tpc'[t] = "preprocess"  BY <1>1, <1>2, <1>3 DEF TypeOK
  <2> QED  BY <1>3, <2>1, <2>2 DEF ThreadInv
<1>11. \A s \in CalcThread \ {t} :
         tpc'[s] = tpc[s] /\ job'[s] = job[s] /\ tkeys'[s] = tkeys[s]
  BY <1>1, <1>2, <1>3 DEF TypeOK
<1>12. UNCHANGED <<decVars, query, userVars>>  BY <1>3
<1> QED  BY <1>4, <1>6, <1>7, <1>8, <1>9, <1>10, <1>11, <1>12, ThreadStepKeeps

\* A thread loads the keys of its query.
LEMMA PreprocessKeeps ==
  ASSUME SystemInv, NEW t \in CalcThread, Preprocess(t)
  PROVE  SystemInv'
<1> DEFINE loaded == GetKeys(JobKey(t), ThreadKinds)
<1>1. /\ UNCHANGED <<decVars, csVars, job, userVars>> /\ ~ended /\ tpc[t] = "preprocess"
      /\ tpc' = [tpc EXCEPT ![t] = "compute"] /\ tkeys' = [tkeys EXCEPT ![t] = loaded]
  BY DEF Preprocess, ThreadAt
<1>2. PICK u \in User : job[t] = u /\ query[u] # None
  BY <1>1 DEF SystemInv, ThreadInv
<1>3. loaded.param = keysets[JobKey(t)]
  <2>1. JobKey(t) \in map_  BY KeysExchange DEF Preprocess
  <2> QED  BY <2>1, KeysExchange
<1> HIDE DEF loaded
<1>4. TypeOK /\ Shape /\ UserInv(u)  BY <1>2 DEF SystemInv
<1>5. TypeOK'
  <2>1. QS!TypeOK'  BY <1>1, <1>4 DEF TypeOK, QS!TypeOK, csVars, serviceVars
  <2> QED  BY <1>1, <1>4, <2>1 DEF TypeOK, userVars, decVars, csVars
<1>6. Shape'  BY <1>1, <1>4 DEF Shape, userVars, decVars, csVars
<1>7. \A w \in User : Same(w)  BY <1>1 DEF Same, userVars, csVars, serviceVars
<1>8. UserInv(u)'
  <2>1. KeysGrow /\ args' = args  BY <1>1, KeysStay DEF userVars
  <2> QED  BY <1>2, <1>4, <1>7, <2>1, OthersKeep
<1>9. ThreadInv(t)'
  <2>1. tkeys'[t] = loaded /\ job'[t] = u  BY <1>1, <1>2, <1>4 DEF Shape
  <2>2. query' = query /\ keysets' = keysets  BY <1>1 DEF csVars, decVars
  <2>3. JobKey(t)' = JobKey(t)  BY <1>2, <2>1, <2>2 DEF JobKey
  <2> QED  BY <1>2, <1>3, <2>1, <2>2, <2>3 DEF ThreadInv
<1>10. \A s \in CalcThread \ {t} :
         tpc'[s] = tpc[s] /\ job'[s] = job[s] /\ tkeys'[s] = tkeys[s]
  BY <1>1, <1>4 DEF TypeOK, Shape
<1>11. UNCHANGED <<decVars, query, userVars>> /\ ended' = ended
  BY <1>1 DEF csVars, serviceVars
<1> QED
  BY <1>1, <1>2, <1>5, <1>6, <1>7, <1>8, <1>9, <1>10, <1>11, ThreadStepKeeps

\* What a thread at "compute" exchanges with the Decryptor.
LEMMA ThreadExchange ==
  ASSUME SystemInv, NEW t \in CalcThread, tpc[t] = "compute",
         NEW p \in Permuted(t)
  PROVE  LET reply == CsMidResult(MidMessage(t, p)) IN
         /\ reply.ok <=> JobKey(t) \in map_ /\ rows(t) # 0
         /\ reply.ok => LoadPIRReply(reply.value).ok /\ ResultOf(reply) \in Rights(job[t])
<1>1. job[t] \in User /\ query[job[t]] \in Query /\ Asks(job[t])
  BY JobsAreAsked
<1>2. args \in CommandLines  BY DEF SystemInv, Shape
<1>3. rows(t) \in Nat
  <2>1. tkeys[t].param = keysets[JobKey(t)]  BY DEF SystemInv, ThreadInv
  <2>2. JobKey(t) \in DOMAIN keysets  BY <1>1 DEF Asks, Key, JobKey
  <2>3. keysets \in Seq(Params)  BY DEF SystemInv, Shape
  <2>4. tkeys[t].param \in Params  BY <2>1, <2>2, <2>3, ElementOfSeq
  <2> QED  BY <2>4, RowsCounted
<1>4. JobKey(t) = Key(job[t])  BY DEF JobKey, Key
<1> QED  BY <1>1, <1>2, <1>3, <1>4, ComputeExchange

\* A thread's result is the right one, for the user whose query it took.
LEMMA ComputeKeeps ==
  ASSUME SystemInv, NEW t \in CalcThread, Compute(t)
  PROVE  SystemInv'
<1>1. /\ ~ended /\ tpc[t] = "compute" /\ tpc' = [tpc EXCEPT ![t] = "pop"]
      /\ job' = [job EXCEPT ![t] = None] /\ tkeys' = [tkeys EXCEPT ![t] = None]
      /\ UNCHANGED <<decVars, query, requested, userVars>>
  BY DEF Compute, ThreadAt
<1>2. PICK u \in User : u = job[t]  BY <1>1, JobsAreAsked
<1>3. result' = [result EXCEPT ![u] = result'[u]] /\ result'[u] \in Rights(u)
  <2>1. PICK p \in Permuted(t) :
          LET reply == CsMidResult(MidMessage(t, p)) IN
          reply.ok /\ result' = [result EXCEPT ![u] = ResultOf(reply)]
    BY <1>2 DEF Compute, ResultOf
  <2>2. ResultOf(CsMidResult(MidMessage(t, p))) \in Rights(u)
    BY <1>1, <1>2, <2>1, ThreadExchange
  <2>3. DOMAIN result = User  BY DEF SystemInv, Shape
  <2> QED  BY <1>2, <2>1, <2>2, <2>3
<1>4. TypeOK /\ Shape /\ QS!TypeOK /\ UserInv(u)  BY <1>2 DEF SystemInv, TypeOK
<1>5. /\ ended' = ended /\ stage' \in [User -> [1 .. 1 -> QS!Stage]]
      /\ stage[u][1] = "computing" /\ stage'[u][1] = "done"
      /\ \A w \in User \ {u} : stage'[w] = stage[w]
  <2>1. QS!Move(u, 1, "computing", "done")  BY <1>2 DEF Compute, QS!Finish
  <2>2. "done" \in QS!Stage  BY DEF QS!Stage
  <2> QED  BY <1>2, <1>4, <2>1, <2>2, Moved
<1>6. answer' = answer  BY DEF Compute, QS!Finish
<1>7. TypeOK'
  <2>1. QS!TypeOK'  BY <1>4, <1>5, <1>6 DEF QS!TypeOK
  <2> QED  BY <1>1, <1>4, <2>1 DEF TypeOK, userVars, decVars
<1>8. Shape'  BY <1>1, <1>3, <1>4 DEF Shape, userVars, decVars
<1>9. result'[u] \in Rights(u) /\ \A w \in User \ {u} : result'[w] = result[w]
  BY <1>2, <1>3, <1>4 DEF Shape
<1>10. UserInv(u)'  BY <1>1, <1>2, <1>4, <1>5, <1>9, StageStep
<1>11. \A w \in User \ {u} : Same(w)  BY <1>1, <1>5, <1>9 DEF Same, userVars
<1>12. ThreadInv(t)'
  <2>1. tpc'[t] = "pop"  BY <1>1, <1>4 DEF TypeOK
  <2> QED  BY <2>1 DEF ThreadInv
<1>13. \A s \in CalcThread \ {t} :
         tpc'[s] = tpc[s] /\ job'[s] = job[s] /\ tkeys'[s] = tkeys[s]
  BY <1>1, <1>4 DEF TypeOK, Shape
<1>14. UNCHANGED <<decVars, query, userVars>>  BY <1>1
<1> QED
  BY <1>1, <1>2, <1>5, <1>7, <1>8, <1>10, <1>11, <1>12, <1>13, <1>14, ThreadStepKeeps

\* The server ends for one of the two reasons only.
LEMMA ThreadThrowsKeeps ==
  ASSUME SystemInv, NEW t \in CalcThread, ThreadThrows(t)
  PROVE  SystemInv'
<1>1. /\ UNCHANGED <<decVars, query, requested, result, threadVars, userVars>>
      /\ UNCHANGED <<stage, answer>> /\ ended' = TRUE
  BY DEF ThreadThrows, QS!End
<1>2. TypeOK'
  <2>1. QS!TypeOK'  BY <1>1 DEF SystemInv, TypeOK, QS!TypeOK
  <2> QED  BY <1>1, <2>1 DEF SystemInv, TypeOK, userVars, decVars, threadVars
<1>3. Shape'  BY <1>1 DEF SystemInv, Shape, userVars, decVars, threadVars
<1>4. KeysGrow /\ args' = args  BY <1>1, KeysStay DEF userVars
<1>5. \A w \in User : UserInv(w)'
  <2>1. \A w \in User : Same(w)  BY <1>1 DEF Same, userVars
  <2> QED  BY <1>4, <2>1, OthersKeep DEF SystemInv
<1>6. \A s \in CalcThread : ThreadInv(s)'
  <2> TAKE s \in CalcThread
  <2>1. ThreadInv(s)  BY DEF SystemInv
  <2>2. tpc[s] # "pop" => Asks(job[s]) /\ query'[job[s]] = query[job[s]]
    BY <1>1, JobsAreAsked
  <2> QED  BY <1>1, <1>4, <2>1, <2>2, ThreadsKeep DEF threadVars
<1>7. ServerSurvives'
  <2>1. JobKey(t)' = JobKey(t) /\ rows(t)' = rows(t) /\ map_' = map_ /\ tpc' = tpc
    BY <1>1 DEF JobKey, rows, row_size, threadVars, decVars
  <2>2. \/ tpc[t] # "pop" /\ JobKey(t) \notin map_
        \/ tpc[t] = "compute" /\ rows(t) = 0
    <3>1. CASE tpc[t] = "preprocess" /\ ~GotKeys(JobKey(t), ThreadKinds)
      <4>1. tpc[t] # "pop" /\ JobKey(t) \notin map_  BY <3>1, KeysExchange
      <4> QED  BY <4>1
    <3>2. ASSUME tpc[t] = "compute", NEW p \in Permuted(t), ~CsMidResult(MidMessage(t, p)).ok
          PROVE  JobKey(t) \notin map_ \/ rows(t) = 0
      <4>1. CsMidResult(MidMessage(t, p)).ok <=> (JobKey(t) \in map_ /\ rows(t) # 0)
        BY <3>2, ThreadExchange
      <4> QED  BY <3>2, <4>1
    <3>3. CASE /\ tpc[t] = "compute"
               /\ \E p \in Permuted(t) : ~CsMidResult(MidMessage(t, p)).ok
      BY <3>2, <3>3
    <3> QED  BY <3>1, <3>3 DEF ThreadThrows
  <2> QED  BY <2>1, <2>2 DEF ServerSurvives
<1> QED  BY <1>2, <1>3, <1>5, <1>6, <1>7 DEF SystemInv

-----------------------------------------------------------------------------
(***************************************************************************)
(* The theorems.                                                           *)
(***************************************************************************)

\* No step of the three programs breaks the invariant.
LEMMA NextSystem ==
  ASSUME SystemInv, [Next]_vars
  PROVE  SystemInv'
<1>1. CASE (\E file \in Files : DecStart(file)) \/ DecStop \/ UNCHANGED vars
  BY <1>1, DecryptorKeeps
<1>2. ASSUME NEW u \in User, UserStep(u)  PROVE SystemInv'
  BY <1>2, NewKeysKeeps, UserGetKeysKeeps, ConnectCSKeeps, SendQueryKeeps,
     SetCallbackKeeps, LeavingKeeps DEF UserStep
<1>3. ASSUME NEW u \in User, AskResult(u) \/ AskThrows(u) \/ Callback(u)
      PROVE  SystemInv'
  BY <1>3, AskKeeps, CallbackKeeps
<1>4. ASSUME NEW u \in User, Reply(u) \/ TakeResult(u) \/ DeliverResult(u)
      PROVE  SystemInv'
  BY <1>4, HandlerKeeps
<1>5. ASSUME NEW t \in CalcThread, ThreadStep(t)  PROVE SystemInv'
  BY <1>5, PopQueryKeeps, PreprocessKeeps, ComputeKeeps, ThreadThrowsKeeps
     DEF ThreadStep
<1> QED  BY <1>1, <1>2, <1>3, <1>4, <1>5 DEF Next

\* The invariant holds in every state of the system.
THEOREM SystemIsInvariant == Spec => []SystemInv
<1>1. Init => SystemInv  BY InitSystem
<1>2. SystemInv /\ [Next]_vars => SystemInv'  BY NextSystem
<1> QED  BY <1>1, <1>2, PTL DEF Spec

\* The system's variables keep their types; a query at the server has the form
\* that its threads read.
THEOREM SystemTypeCorrect == Spec => []TypeOK
<1>1. SystemInv => TypeOK  BY DEF SystemInv
<1> QED  BY <1>1, SystemIsInvariant, PTL

\* Whatever the programs interleave and the Decryptor forgets, the server ends
\* over a query whose keys are gone or whose degree leaves no row, and over
\* nothing else (CSCalcThread::exec has no handler for what it throws).
THEOREM ServerEndsForTwoReasons == Spec => []ServerSurvives
<1>1. SystemInv => ServerSurvives  BY DEF SystemInv
<1> QED  BY <1>1, SystemIsInvariant, PTL

\* What a step may change of a user's question and its answer.
LEMMA Visible ==
  ASSUME SystemInv, [Next]_vars, NEW u \in User
  PROVE  /\ args' = args
         /\ \/ query'[u] = query[u] /\ printed'[u] = printed[u]
            \/ query[u] = None /\ query'[u] # None /\ printed'[u] = printed[u]
            \/ /\ query[u] # None /\ query'[u] = query[u] /\ printed[u] = None
               /\ printed'[u] \in ShownTo(u)
               /\ upc[u] \in {"sleep", "join"}
<1>1. CASE UNCHANGED <<args, query, printed>>
  BY <1>1
<1>2. ASSUME NEW w \in User, SendQuery(w)
      PROVE  /\ UNCHANGED <<args, printed>>
             /\ \/ query'[u] = query[u]
                \/ query[u] = None /\ query'[u] # None
  <2>1. query \in [User -> Query \cup {None}]  BY DEF SystemInv, TypeOK
  <2>2. upc[w] = "send" /\ query' = [query EXCEPT ![w] = LoadQuery(SentBy(w)).value]
    BY <1>2 DEF SendQuery, UserAt, Received
  <2>3. query[w] = None  BY <2>2 DEF SystemInv, UserInv, Sent
  <2>4. query'[w] # None
    <3>1. SystemInv' /\ stage'[w][1] = "received"
      <4>1. QS!Move(w, 1, "unsent", "received")  BY <1>2 DEF SendQuery, QS!Submit
      <4>2. "received" \in QS!Stage /\ QS!TypeOK  BY DEF QS!Stage, SystemInv, TypeOK
      <4> QED  BY <1>2, <4>1, <4>2, Moved, SendQueryKeeps
    <3> QED  BY <3>1 DEF SystemInv, UserInv, Sent
  <2> QED  BY <1>2, <2>1, <2>2, <2>3, <2>4 DEF SendQuery
<1>3. ASSUME NEW w \in User, Callback(w)
      PROVE  /\ UNCHANGED <<args, query>>
             /\ \/ printed'[u] = printed[u]
                \/ /\ query[u] # None /\ printed[u] = None
                   /\ printed'[u] \in ShownTo(u)
                   /\ upc[u] \in {"sleep", "join"}
  <2>1. DOMAIN printed = User  BY DEF SystemInv, Shape
  <2>2. UNCHANGED <<args, query>>  BY <1>3 DEF Callback, csVars
  <2>3. CASE u = w
    <3>1. /\ upc[u] \in {"sleep", "join"} /\ query[u] # None /\ printed[u] = None
          /\ printed'[u] \in ShownTo(u)
      BY <1>3, <2>3, CallbackShows
    <3> QED  BY <2>1, <2>2, <3>1
  <2>4. CASE u # w  BY <1>3, <2>2, <2>4 DEF Callback
  <2> QED  BY <2>3, <2>4
<1>4. CASE \E w \in User : SendQuery(w)  BY <1>2, <1>4
<1>5. CASE \E w \in User : Callback(w)  BY <1>3, <1>5
<1>6. CASE /\ \A w \in User : ~SendQuery(w) /\ ~Callback(w)
           /\ ~UNCHANGED <<args, query, printed>>
  <2>1. CASE (\E file \in Files : DecStart(file)) \/ DecStop \/ UNCHANGED vars
    BY <1>6, <2>1 DEF DecStart, DecStop, vars, csVars, userVars
  <2>2. ASSUME NEW w \in User, UserStep(w)  PROVE FALSE
    BY <1>6, <2>2 DEF UserStep, NewKeys, UserGetKeys, ConnectCS, SetCallback, Close,
       Join, UserThrows, Crash, csVars
  <2>3. ASSUME NEW w \in User, AskResult(w) \/ AskThrows(w)  PROVE FALSE
    BY <1>6, <2>3 DEF AskResult, AskThrows, csVars
  <2>4. ASSUME NEW w \in User, Reply(w) \/ TakeResult(w) \/ DeliverResult(w)
        PROVE  FALSE
    BY <1>6, <2>4 DEF Reply, TakeResult, DeliverResult, HandlerFrame
  <2>5. ASSUME NEW t \in CalcThread, ThreadStep(t)  PROVE FALSE
    BY <1>6, <2>5 DEF ThreadStep, PopQuery, Preprocess, Compute, ThreadThrows,
       csVars, userVars
  <2> QED  BY <1>6, <2>1, <2>2, <2>3, <2>4, <2>5 DEF Next
<1> QED  BY <1>1, <1>4, <1>5, <1>6

\* A callback reads the keys on the stack of exec while exec is there
\* (CSClient::Impl's destructor joins the ResultThreads before it returns).
THEOREM CallbacksReadLiveKeys == Spec => CallbackInScope
<1>1. ASSUME SystemInv, [Next]_vars
      PROVE  \A u \in User : printed'[u] # printed[u] => upc[u] \in {"sleep", "join"}
  BY <1>1, Visible
<1>2. SystemInv /\ [Next]_vars =>
        [\A u \in User : printed'[u] # printed[u] => upc[u] \in {"sleep", "join"}]_vars
  BY <1>1
<1> QED  BY <1>2, SystemIsInvariant, PTL DEF Spec, CallbackInScope

\* A step is a question, its answer, or nothing to a user.
LEMMA StepOfLookup ==
  ASSUME SystemInv, [Next]_vars, NEW u \in User
  PROVE  TL(u)!Ask \/ TL(u)!Reply \/ PadReply(u) \/ UNCHANGED TL(u)!vars
<1>1. args' = args /\ Inputs(args[u]) # None
  <2>1. args[u] \in Seq(Int)  BY CommandLine DEF SystemInv, Shape
  <2>2. Inputs(args[u]) \in Seq(Int)  BY <2>1, InputsOf
  <2> QED  BY <2>2, NoneAssumption, Visible
<1>2. CASE query'[u] = query[u] /\ printed'[u] = printed[u]
  BY <1>1, <1>2 DEF TL!vars
<1>3. CASE query[u] = None /\ query'[u] # None /\ printed'[u] = printed[u]
  BY <1>1, <1>3 DEF TL!Ask
<1>4. CASE /\ query[u] # None /\ query'[u] = query[u] /\ printed[u] = None
           /\ printed'[u] \in ShownTo(u)
  <2>1. CASE printed'[u] = TL(u)!Expected(Table, Inputs(args[u]))
    BY <1>1, <1>4, <2>1 DEF TL!Reply
  <2>2. CASE printed'[u] # TL(u)!Expected(Table, Inputs(args[u]))
    <3>1. PICK v \in PadOutputs(u) : printed'[u] = Shown(v)
      BY <1>4, <2>2 DEF ShownTo
    <3>2. AsksPad(u) /\ v \in {Pad, NoValue}  BY <3>1 DEF PadOutputs
    <3> HIDE DEF ShownTo
    <3> QED  BY <1>1, <1>4, <3>1, <3>2 DEF PadReply
  <2> QED  BY <2>1, <2>2
<1> QED  BY <1>2, <1>3, <1>4, Visible

\* The three programs implement a table lookup for each user: the line that a
\* user prints is the entry of the inputs it was run with, or a failure exactly
\* if the table lacks them, and it is printed once.  A user one of whose inputs
\* is Pad may be shown the output of padding instead: the columns of the
\* calculation are filled up with it (convertLUT_to_vecfmt_one and _two).
THEOREM SystemImplementsTableLookup == Spec => EachUserIsAnswered
<1>1. Init => \A u \in User : TL(u)!Init
  BY DEF Init, TL!Init
<1>2. ASSUME SystemInv, [Next]_vars
      PROVE  \A u \in User : TL(u)!Ask \/ TL(u)!Reply \/ PadReply(u) \/ UNCHANGED TL(u)!vars
  BY <1>2, StepOfLookup
<1>3. SystemInv /\ [Next]_vars =>
        [\A u \in User : TL(u)!Ask \/ TL(u)!Reply \/ PadReply(u) \/ UNCHANGED TL(u)!vars]_vars
  BY <1>2
<1> QED  BY <1>1, <1>3, SystemIsInvariant, PTL DEF Spec, EachUserIsAnswered
=============================================================================
