--------------------------- MODULE MessagesProofs ----------------------------
(***************************************************************************)
(* What one side of a connection loads is what the other side saved, and    *)
(* no buffer is too small, for all the values that messages carry: any set *)
(* that has the natural numbers in it, for the lengths.                    *)
(***************************************************************************)
EXTENDS Messages, SequenceTheorems, TLAPS

ItemType == {"size_t", "int32_t", "Ciphertext", "User2CsParam", "Cs2UserParam",
             "Cs2DecParam", "Dec2CsParam", "pub", "sec", "galois", "relin", "param"}

Stream(Val) == Seq([type : ItemType, value : Val])

Then(a, b) == a \o b

-----------------------------------------------------------------------------
(***************************************************************************)
(* Parts of a message.                                                     *)
(***************************************************************************)

\* A buffer of the size of what is written loses nothing of it.
LEMMA BufferKeepsAll ==
  ASSUME NEW Val, NEW s \in Stream(Val)
  PROVE  Buffer(Len(s), s) = s
<1>1. Len(s) \in Nat
  BY LenProperties DEF Stream
<1>2. Buffer(Len(s), s) = SubSeq(s, 1, Len(s))
  BY <1>1 DEF Buffer
<1> QED
  BY <1>2, SubSeqFull DEF Stream

\* The fields of an item.
LEMMA ItemFields == \A t, x : Item(t, x).type = t /\ Item(t, x).value = x
BY DEF Item

\* One item, whatever follows it.
LEMMA OneRoundTrip ==
  ASSUME NEW Val, NEW type \in ItemType, NEW value \in Val, NEW rest \in Stream(Val)
  PROVE  /\ SaveOne(type, value) \in Stream(Val)
         /\ Len(SaveOne(type, value)) = 1
         /\ LoadOne(type, SaveOne(type, value) \o rest) = Got(value, rest)
<1> DEFINE one == SaveOne(type, value)
           s == one \o rest
<1>1. one \in Stream(Val) /\ Len(one) = 1 /\ one[1] = Item(type, value)
  BY DEF SaveOne, Item, Stream
<1> HIDE DEF one
<1>2. Len(rest) \in Nat
  BY LenProperties DEF Stream
<1>3. /\ s \in Stream(Val) /\ Len(s) = 1 + Len(rest)
      /\ \A i \in 1 .. 1 + Len(rest) : s[i] = IF i <= 1 THEN one[i] ELSE rest[i - 1]
  <2>1. /\ s \in Stream(Val) /\ Len(s) = Len(one) + Len(rest)
        /\ \A i \in 1 .. Len(one) + Len(rest) :
             s[i] = IF i <= Len(one) THEN one[i] ELSE rest[i - Len(one)]
    BY <1>1, ConcatProperties DEF Stream
  <2> QED
    BY <1>1, <1>2, <2>1
<1> HIDE DEF s
<1>4. s # <<>> /\ Head(s) = Item(type, value)
  BY <1>1, <1>2, <1>3 DEF Stream
<1>5. Tail(s) = rest
  <2>1. /\ Tail(s) \in Stream(Val) /\ Len(Tail(s)) = Len(rest)
        /\ \A i \in 1 .. Len(rest) : Tail(s)[i] = s[i + 1]
    BY <1>2, <1>3, <1>4, HeadTailProperties DEF Stream
  <2>2. \A i \in 1 .. Len(rest) : Tail(s)[i] = rest[i]
    BY <1>2, <1>3, <2>1
  <2> QED
    BY <2>1, <2>2, SeqEqual DEF Stream
<1>6. Head(s).type = type /\ Head(s).value = value
  BY <1>4 DEF Item
<1>7. LoadOne(type, s) = Got(value, rest)
  BY <1>4, <1>5, <1>6, Zenon DEF LoadOne
<1> QED
  BY <1>1, <1>7 DEF one, s

\* A vector, empty or not, whatever follows it.
LEMMA VectorRoundTrip ==
  ASSUME NEW Val, Nat \subseteq Val, NEW type \in ItemType, NEW v \in Seq(Val),
         NEW rest \in Stream(Val)
  PROVE  /\ SaveVector(type, v) \in Stream(Val)
         /\ LoadVector(type, SaveVector(type, v) \o rest) = Got(v, rest)
<1> DEFINE n == Len(v)
           vec == SaveVector(type, v)
           s == vec \o rest
<1>1. n \in Nat /\ \A i \in 1 .. n : v[i] \in Val
  BY LenProperties
<1>2. /\ vec \in Stream(Val) /\ Len(vec) = n + 1
      /\ vec[1] = Item("size_t", n)
      /\ \A i \in 1 .. n : vec[i + 1] = Item(type, v[i])
  <2> DEFINE one == SaveOne("size_t", n)
             elems == [i \in 1 .. n |-> Item(type, v[i])]
  <2>1. one \in Stream(Val) /\ Len(one) = 1 /\ one[1] = Item("size_t", n)
    <3>1. n \in Val
      BY <1>1
    <3>2. one \in Stream(Val) /\ Len(one) = 1
      <4>1. <<>> \in Stream(Val)
        BY DEF Stream
      <4>2. "size_t" \in ItemType
        BY DEF ItemType
      <4> QED
        BY <3>1, <4>1, <4>2, OneRoundTrip
    <3> QED
      BY <3>2 DEF SaveOne
  <2>2. \A i \in 1 .. n : Item(type, v[i]) \in [type : ItemType, value : Val]
    BY <1>1 DEF Item
  <2>3. elems \in Stream(Val) /\ Len(elems) = n
    BY <1>1, <2>2 DEF Stream
  <2>4. \A i \in 1 .. n : elems[i] = Item(type, v[i])
    OBVIOUS
  <2> HIDE DEF one, elems
  <2>5. /\ one \o elems \in Stream(Val) /\ Len(one \o elems) = Len(one) + Len(elems)
        /\ \A i \in 1 .. Len(one) + Len(elems) :
             (one \o elems)[i] = IF i <= Len(one) THEN one[i] ELSE elems[i - Len(one)]
    BY <2>1, <2>3, ConcatProperties DEF Stream
  <2>6. vec = one \o elems
    BY DEF SaveVector, one, elems
  <2> HIDE DEF vec
  <2>7. /\ vec \in Stream(Val) /\ Len(vec) = n + 1 /\ vec[1] = one[1]
        /\ \A i \in 1 .. n : vec[i + 1] = elems[i]
    BY <1>1, <2>1, <2>3, <2>5, <2>6
  <2> QED
    BY <2>1, <2>4, <2>7
<1> HIDE DEF n, vec
<1>3. Len(rest) \in Nat
  BY LenProperties DEF Stream
<1>4. /\ s \in Stream(Val) /\ Len(s) = Len(vec) + Len(rest)
      /\ \A i \in 1 .. Len(vec) + Len(rest) :
           s[i] = IF i <= Len(vec) THEN vec[i] ELSE rest[i - Len(vec)]
  BY <1>2, ConcatProperties DEF Stream
<1> HIDE DEF s
<1>5. /\ s \in Stream(Val) /\ Len(s) = n + 1 + Len(rest)
      /\ s[1] = Item("size_t", n)
      /\ \A i \in 1 .. n : s[i + 1] = Item(type, v[i])
      /\ \A i \in 1 .. Len(rest) : s[n + 1 + i] = rest[i]
  BY <1>1, <1>2, <1>3, <1>4
<1>6. s[1].type = "size_t" /\ s[1].value = n
  BY <1>5 DEF Item
<1>7. \A i \in 1 .. n : s[i + 1].type = type /\ s[i + 1].value = v[i]
  <2> SUFFICES ASSUME NEW i \in 1 .. n
               PROVE  s[i + 1].type = type /\ s[i + 1].value = v[i]
    OBVIOUS
  <2>1. s[i + 1] = Item(type, v[i])
    BY <1>5
  <2> QED
    BY <2>1, ItemFields
<1>8. HasVector(type, s)
  <2>1. s # <<>>
    BY <1>1, <1>3, <1>5, EmptySeq DEF Stream
  <2>2. s[1].value < Len(s)
    BY <1>1, <1>3, <1>5, <1>6
  <2> QED
    BY <1>6, <1>7, <2>1, <2>2 DEF HasVector
<1>9. [i \in 1 .. s[1].value |-> s[i + 1].value] = v
  <2>1. v = [i \in 1 .. n |-> v[i]]
    BY LenProperties DEF n
  <2> QED
    BY <1>6, <1>7, <2>1
<1>10. SubSeq(s, s[1].value + 2, Len(s)) = rest
  <2>1. \A i \in n + 2 .. Len(s) : s[i] \in [type : ItemType, value : Val]
    <3>1. \A i \in 1 .. Len(s) : s[i] \in [type : ItemType, value : Val]
      BY <1>5, LenProperties DEF Stream
    <3> QED
      BY <1>1, <1>3, <1>5, <3>1
  <2>2. /\ SubSeq(s, n + 2, Len(s)) \in Stream(Val)
        /\ Len(SubSeq(s, n + 2, Len(s))) = IF n + 2 <= Len(s) THEN Len(s) - (n + 2) + 1 ELSE 0
        /\ \A i \in 1 .. Len(s) - (n + 2) + 1 :
             SubSeq(s, n + 2, Len(s))[i] = s[n + 2 + i - 1]
    BY <1>1, <1>3, <1>5, <2>1, SubSeqProperties DEF Stream
  <2>3. /\ Len(SubSeq(s, n + 2, Len(s))) = Len(rest)
        /\ \A i \in 1 .. Len(rest) : SubSeq(s, n + 2, Len(s))[i] = rest[i]
    BY <1>1, <1>3, <1>5, <2>2
  <2>4. SubSeq(s, n + 2, Len(s)) = rest
    BY <2>2, <2>3, SeqEqual DEF Stream
  <2> QED
    BY <1>6, <2>4
<1>11. LoadVector(type, s) = Got(v, rest)
  BY <1>8, <1>9, <1>10, Zenon DEF LoadVector
<1> QED
  BY <1>2, <1>11 DEF s, vec

\* The fields of what a reader got, and when it has data.
LEMMA GotFields ==
  \A v, r : /\ Got(v, r).ok = TRUE /\ Got(v, r).value = v /\ Got(v, r).rest = r
            /\ HasData(Got(v, r)) <=> v # <<>>
BY DEF Got, HasData

\* A PlainData with one value, as every message has it first.
LEMMA PlainRoundTrip ==
  ASSUME NEW Val, Nat \subseteq Val, NEW type \in ItemType, NEW x \in Val,
         NEW rest \in Stream(Val)
  PROVE  /\ SavePlain(type, <<x>>) \in Stream(Val)
         /\ LoadPlain(type, SavePlain(type, <<x>>) \o rest) = Got(<<x>>, rest)
<1>1. <<x>> \in Seq(Val) /\ <<x>> # <<>>
  OBVIOUS
<1>2. SavePlain(type, <<x>>) = SaveVector(type, <<x>>)
  BY <1>1 DEF SavePlain
<1> QED
  BY <1>1, <1>2, VectorRoundTrip DEF LoadPlain

\* The ciphertexts of an EncData, at the end of a message and before more.
LEMMA EncRoundTrip ==
  ASSUME NEW Val, Nat \subseteq Val, NEW ctxts \in Seq(Val), NEW rest \in Stream(Val)
  PROVE  /\ SaveEnc(ctxts) \in Stream(Val)
         /\ LoadEnc(SaveEnc(ctxts) \o rest) = Got(ctxts, rest)
         /\ LoadEnc(SaveEnc(ctxts)) = Got(ctxts, <<>>)
<1>1. "Ciphertext" \in ItemType /\ <<>> \in Stream(Val)
  BY DEF ItemType, Stream
<1>2. /\ SaveEnc(ctxts) \in Stream(Val)
      /\ LoadEnc(SaveEnc(ctxts) \o rest) = Got(ctxts, rest)
  BY <1>1, VectorRoundTrip DEF SaveEnc, LoadEnc
<1>3. LoadEnc(SaveEnc(ctxts) \o <<>>) = Got(ctxts, <<>>)
  BY <1>1, VectorRoundTrip DEF SaveEnc, LoadEnc
<1>4. SaveEnc(ctxts) \o <<>> = SaveEnc(ctxts)
  BY <1>2, ConcatEmptySeq DEF Stream
<1> QED
  BY <1>2, <1>3, <1>4

\* The sum of the sizes of the parts is the size of the message.
LEMMA PartsFit ==
  ASSUME NEW Val, NEW a \in Stream(Val), NEW b \in Stream(Val)
  PROVE  /\ a \o b \in Stream(Val)
         /\ Buffer(stream_size(a) + stream_size(b), a \o b) = a \o b
         /\ Buffer(stream_size(b) + stream_size(a), a \o b) = a \o b
<1>1. Len(a) \in Nat /\ Len(b) \in Nat
  BY LenProperties DEF Stream
<1>2. a \o b \in Stream(Val) /\ Len(a \o b) = Len(a) + Len(b)
  BY ConcatProperties DEF Stream
<1>3. Len(a) + Len(b) = Len(b) + Len(a)
  BY <1>1
<1>4. Buffer(Len(a \o b), a \o b) = a \o b
  BY <1>2, BufferKeepsAll
<1> QED
  BY <1>2, <1>3, <1>4 DEF stream_size

\* A buffer with the sizes of its three parts holds the three.
LEMMA ThreePartsFit ==
  ASSUME NEW Val, NEW a \in Stream(Val), NEW b \in Stream(Val), NEW c \in Stream(Val)
  PROVE  Buffer(stream_size(a) + stream_size(b) + stream_size(c), Then(Then(a, b), c))
           = Then(a, Then(b, c))
<1>1. a \o b \in Stream(Val) /\ Len(a \o b) = Len(a) + Len(b)
  BY ConcatProperties DEF Stream
<1>2. /\ (a \o b) \o c \in Stream(Val)
      /\ Len((a \o b) \o c) = Len(a \o b) + Len(c)
  BY <1>1, ConcatProperties DEF Stream
<1>3. (a \o b) \o c = a \o (b \o c)
  BY ConcatAssociative DEF Stream
<1>4. Buffer(Len((a \o b) \o c), (a \o b) \o c) = (a \o b) \o c
  BY <1>2, BufferKeepsAll
<1> QED
  BY <1>1, <1>2, <1>3, <1>4 DEF stream_size, Then

\* What is read of a status and a rest.
LEMMA StatusRead ==
  ASSUME NEW rest, NEW got
  PROVE  /\ got = Got(<<TRUE>>, rest) => HasData(got) /\ got.value[1] /\ got.rest = rest
         /\ got = Got(<<FALSE>>, rest) => HasData(got) /\ ~got.value[1] /\ got.rest = rest
<1>1. ASSUME got = Got(<<TRUE>>, rest)
      PROVE  HasData(got) /\ got.value[1] /\ got.rest = rest
  BY <1>1 DEF Got, HasData
<1>2. ASSUME got = Got(<<FALSE>>, rest)
      PROVE  HasData(got) /\ ~got.value[1] /\ got.rest = rest
  BY <1>2 DEF Got, HasData
<1> QED
  BY <1>1, <1>2, Zenon

-----------------------------------------------------------------------------
(***************************************************************************)
(* The messages.                                                           *)
(***************************************************************************)

\* Every query reaches CallbackFunctionQuery as the user's library sent it
\* (CSClient::Impl::send_query), with its key id, function and ciphertexts.
THEOREM QueryRoundTrip ==
  ASSUME NEW Val, Nat \subseteq Val, NEW param \in Val, NEW enc_params \in Val,
         NEW ctxts \in Seq(Val), ctxts # <<>>
  PROVE  LoadQuery(QueryMessage(param, enc_params, ctxts))
           = Got([param |-> param, ctxts |-> ctxts], <<>>)
<1> DEFINE plain == SavePlain("User2CsParam", <<param>>)
           params == SaveOne("param", enc_params)
           enc == SaveEnc(ctxts)
           rest == params \o enc
<1>1. "User2CsParam" \in ItemType /\ "param" \in ItemType /\ <<>> \in Stream(Val)
  BY DEF ItemType, Stream
<1>2. enc \in Stream(Val) /\ LoadEnc(enc) = Got(ctxts, <<>>)
  BY <1>1, EncRoundTrip
<1> HIDE DEF enc
<1>3. params \in Stream(Val) /\ LoadOne("param", rest) = Got(enc_params, enc)
  BY <1>1, <1>2, OneRoundTrip
<1>4. rest \in Stream(Val)
  BY <1>2, <1>3, PartsFit
<1> HIDE DEF rest
<1>5. /\ plain \in Stream(Val)
      /\ LoadPlain("User2CsParam", plain \o rest) = Got(<<param>>, rest)
  BY <1>1, <1>4, PlainRoundTrip
<1> HIDE DEF plain, params
<1>6. Buffer(stream_size(plain) + stream_size(params) + stream_size(enc),
             Then(Then(plain, params), enc)) = Then(plain, Then(params, enc))
  BY <1>2, <1>3, <1>5, ThreePartsFit
<1>7. QueryMessage(param, enc_params, ctxts) = plain \o rest
  BY <1>6 DEF QueryMessage, Then, plain, params, enc, rest
<1> QED
  BY <1>2, <1>3, <1>5, <1>7, GotFields DEF LoadQuery

\* A user receives the id and the secret key that the Decryptor made
\* (CallbackFunctionNewKeyRequest, DecClient::Impl::new_keys).
THEOREM NewKeysRoundTrip ==
  ASSUME NEW Val, Nat \subseteq Val, NEW key_id \in Val, NEW seckey \in Val
  PROVE  LoadNewKeys(NewKeysReply(key_id, seckey))
           = Got([key_id |-> key_id, seckey |-> seckey], <<>>)
<1> DEFINE id == SavePlain("int32_t", <<key_id>>)
           key == SaveOne("sec", seckey)
<1>1. "int32_t" \in ItemType /\ "sec" \in ItemType /\ <<>> \in Stream(Val)
  BY DEF ItemType, Stream
<1>2. key \in Stream(Val) /\ LoadOne("sec", key \o <<>>) = Got(seckey, <<>>)
  BY <1>1, OneRoundTrip
<1>3. key \o <<>> = key
  BY <1>2, ConcatEmptySeq DEF Stream
<1> HIDE DEF key
<1>4. id \in Stream(Val) /\ LoadPlain("int32_t", id \o key) = Got(<<key_id>>, key)
  BY <1>1, <1>2, PlainRoundTrip
<1> HIDE DEF id
<1>5. Buffer(stream_size(key) + stream_size(id), id \o key) = id \o key
  BY <1>2, <1>4, PartsFit
<1>6. NewKeysReply(key_id, seckey) = id \o key
  BY <1>5 DEF NewKeysReply, id, key
<1> QED
  BY <1>2, <1>3, <1>4, <1>6, GotFields DEF LoadNewKeys

\* A user receives the status of its result and, if it is a success, the
\* ciphertext (CallbackFunctionResultRequest, CSClient::Impl::recv_results).
THEOREM ResultRoundTrip ==
  ASSUME NEW Val, Nat \subseteq Val, BOOLEAN \subseteq Val, NEW ctxt \in Val
  PROVE  /\ LoadResultReply(ResultReply(TRUE, ctxt))
              = Got([status |-> TRUE, ctxts |-> <<ctxt>>], <<>>)
         /\ LoadResultReply(ResultReply(FALSE, ctxt)).ok
         /\ LoadResultReply(ResultReply(FALSE, ctxt)).value
              = [status |-> FALSE, ctxts |-> <<>>]
<1> DEFINE enc == SaveEnc(<<ctxt>>)
           plain(b) == SavePlain("Cs2UserParam", <<b>>)
           got(b) == LoadPlain("Cs2UserParam", plain(b) \o enc)
<1>1. "Cs2UserParam" \in ItemType /\ <<>> \in Stream(Val) /\ <<ctxt>> \in Seq(Val)
  BY DEF ItemType, Stream
<1>2. enc \in Stream(Val) /\ LoadEnc(enc) = Got(<<ctxt>>, <<>>)
  BY <1>1, EncRoundTrip
<1> HIDE DEF enc
<1>3. \A b \in BOOLEAN : plain(b) \in Stream(Val) /\ got(b) = Got(<<b>>, enc)
  BY <1>1, <1>2, PlainRoundTrip
<1> HIDE DEF got
<1>4. \A b \in BOOLEAN : ResultReply(b, ctxt) = plain(b) \o enc
  <2> HIDE DEF plain
  <2>1. ASSUME NEW b \in BOOLEAN
        PROVE  Buffer(stream_size(plain(b)) + stream_size(enc), plain(b) \o enc)
                 = plain(b) \o enc
    BY <1>2, <1>3, PartsFit
  <2> QED
    BY <2>1 DEF ResultReply, plain, enc
<1>5. /\ HasData(got(TRUE)) /\ got(TRUE).value[1] /\ got(TRUE).rest = enc
      /\ HasData(got(FALSE)) /\ ~got(FALSE).value[1]
  <2>1. got(TRUE) = Got(<<TRUE>>, enc) /\ got(FALSE) = Got(<<FALSE>>, enc)
    BY <1>3
  <2> QED
    BY <2>1, StatusRead
<1>6. HasData(Got(<<ctxt>>, <<>>)) \/ <<ctxt>> = <<>>
  BY GotFields
<1>7. LoadResultReply(plain(TRUE) \o enc) = Got([status |-> TRUE, ctxts |-> <<ctxt>>], <<>>)
  <2>1. LoadEnc(got(TRUE).rest) = Got(<<ctxt>>, <<>>)
    BY <1>2, <1>5
  <2>2. Got(<<ctxt>>, <<>>).ok /\ Got(<<ctxt>>, <<>>).value = <<ctxt>> /\ Got(<<ctxt>>, <<>>).rest = <<>>
    BY GotFields
  <2> HIDE DEF plain
  <2> QED
    BY <1>5, <1>6, <2>1, <2>2 DEF LoadResultReply, got
<1>8. LoadResultReply(plain(FALSE) \o enc)
        = Got([status |-> FALSE, ctxts |-> <<>>], got(FALSE).rest)
  <2> HIDE DEF plain
  <2> QED
    BY <1>5 DEF LoadResultReply, got
<1>9. ResultReply(TRUE, ctxt) = plain(TRUE) \o enc /\ ResultReply(FALSE, ctxt) = plain(FALSE) \o enc
  BY <1>4
<1> HIDE DEF plain
<1>10. \A r : Got([status |-> FALSE, ctxts |-> <<>>], r).ok
            /\ Got([status |-> FALSE, ctxts |-> <<>>], r).value = [status |-> FALSE, ctxts |-> <<>>]
  BY GotFields
<1> QED
  BY <1>7, <1>8, <1>9, <1>10

\* The Decryptor receives the intermediate results that the calculation
\* thread sent: one vector or, for two inputs, two (DecClient::Impl::
\* get_PIRquery, CallbackFunctionCsMidResult).
THEOREM MidResultRoundTrip ==
  ASSUME NEW Val, Nat \subseteq Val, NEW param \in Val,
         NEW x \in Seq(Val), x # <<>>,
         NEW y \in Seq(Val), param.func_no = 2 => y # <<>>
  PROVE  LoadMidResult(MidResult(param, x, y))
           = Got([param |-> param, x |-> x,
                  y |-> IF param.func_no = 2 THEN y ELSE <<>>], <<>>)
<1> DEFINE plain == SavePlain("Cs2DecParam", <<param>>)
           encx == SaveEnc(x)
           ency == IF param.func_no = 2 THEN SaveEnc(y) ELSE <<>>
           rest == encx \o ency
<1>1. "Cs2DecParam" \in ItemType /\ <<>> \in Stream(Val)
  BY DEF ItemType, Stream
<1>2. ency \in Stream(Val) /\ (param.func_no = 2 => LoadEnc(ency) = Got(y, <<>>))
  BY <1>1, EncRoundTrip
<1>3. param.func_no # 2 => ency = <<>>
  OBVIOUS
<1> HIDE DEF ency
<1>4. encx \in Stream(Val) /\ LoadEnc(rest) = Got(x, ency)
  BY <1>2, EncRoundTrip
<1>5. rest \in Stream(Val)
  BY <1>2, <1>4, PartsFit
<1> HIDE DEF rest
<1>6. /\ plain \in Stream(Val)
      /\ LoadPlain("Cs2DecParam", plain \o rest) = Got(<<param>>, rest)
  BY <1>1, <1>5, PlainRoundTrip
<1> HIDE DEF plain, encx
<1>7. Buffer(stream_size(plain) + stream_size(encx) + stream_size(ency),
             Then(Then(plain, encx), ency)) = Then(plain, Then(encx, ency))
  BY <1>2, <1>4, <1>6, ThreePartsFit
<1>8. MidResult(param, x, y) = plain \o rest
  BY <1>7 DEF MidResult, Then, plain, encx, ency, rest
<1> QED
  BY <1>2, <1>3, <1>4, <1>6, <1>8, GotFields DEF LoadMidResult

\* The calculation thread receives the Decryptor's verdict and, if it is a
\* success, the PIR queries (CallbackFunctionCsMidResult, get_PIRquery).
THEOREM PIRRoundTrip ==
  ASSUME NEW Val, Nat \subseteq Val, BOOLEAN \subseteq Val, NEW ctxts \in Seq(Val)
  PROVE  /\ LoadPIRReply(PIRReply(TRUE, ctxts))
              = Got([result |-> TRUE, ctxts |-> ctxts], <<>>)
         /\ LoadPIRReply(PIRReply(FALSE, ctxts)).ok
         /\ LoadPIRReply(PIRReply(FALSE, ctxts)).value
              = [result |-> FALSE, ctxts |-> <<>>]
<1> DEFINE enc == SaveEnc(ctxts)
           plain(b) == SavePlain("Dec2CsParam", <<b>>)
           got(b) == LoadPlain("Dec2CsParam", plain(b) \o enc)
<1>1. "Dec2CsParam" \in ItemType /\ <<>> \in Stream(Val) /\ ctxts \in Seq(Val)
  BY DEF ItemType, Stream
<1>2. enc \in Stream(Val) /\ LoadEnc(enc) = Got(ctxts, <<>>)
  BY <1>1, EncRoundTrip
<1> HIDE DEF enc
<1>3. \A b \in BOOLEAN : plain(b) \in Stream(Val) /\ got(b) = Got(<<b>>, enc)
  BY <1>1, <1>2, PlainRoundTrip
<1> HIDE DEF got
<1>4. \A b \in BOOLEAN : PIRReply(b, ctxts) = plain(b) \o enc
  <2> HIDE DEF plain
  <2>1. ASSUME NEW b \in BOOLEAN
        PROVE  Buffer(stream_size(plain(b)) + stream_size(enc), plain(b) \o enc)
                 = plain(b) \o enc
    BY <1>2, <1>3, PartsFit
  <2> QED
    BY <2>1 DEF PIRReply, plain, enc
<1>5. /\ HasData(got(TRUE)) /\ got(TRUE).value[1] /\ got(TRUE).rest = enc
      /\ HasData(got(FALSE)) /\ ~got(FALSE).value[1]
  <2>1. got(TRUE) = Got(<<TRUE>>, enc) /\ got(FALSE) = Got(<<FALSE>>, enc)
    BY <1>3
  <2> QED
    BY <2>1, StatusRead
<1>6. HasData(Got(ctxts, <<>>)) \/ ctxts = <<>>
  BY GotFields
<1>7. LoadPIRReply(plain(TRUE) \o enc) = Got([result |-> TRUE, ctxts |-> ctxts], <<>>)
  <2>1. LoadEnc(got(TRUE).rest) = Got(ctxts, <<>>)
    BY <1>2, <1>5
  <2>2. Got(ctxts, <<>>).ok /\ Got(ctxts, <<>>).value = ctxts /\ Got(ctxts, <<>>).rest = <<>>
    BY GotFields
  <2> HIDE DEF plain
  <2> QED
    BY <1>5, <1>6, <2>1, <2>2 DEF LoadPIRReply, got
<1>8. LoadPIRReply(plain(FALSE) \o enc)
        = Got([result |-> FALSE, ctxts |-> <<>>], got(FALSE).rest)
  <2> HIDE DEF plain
  <2> QED
    BY <1>5 DEF LoadPIRReply, got
<1>9. PIRReply(TRUE, ctxts) = plain(TRUE) \o enc /\ PIRReply(FALSE, ctxts) = plain(FALSE) \o enc
  BY <1>4
<1> HIDE DEF plain
<1>10. \A r : Got([result |-> FALSE, ctxts |-> <<>>], r).ok
            /\ Got([result |-> FALSE, ctxts |-> <<>>], r).value = [result |-> FALSE, ctxts |-> <<>>]
  BY GotFields
<1> QED
  BY <1>7, <1>8, <1>9, <1>10

\* Without a row to compare there is nothing that the Decryptor could read: it
\* throws "Data is empty."
THEOREM EmptyMidResultIsMisread ==
  ASSUME NEW Val, Nat \subseteq Val, NEW param \in Val, NEW y \in Seq(Val)
  PROVE  LoadMidResult(MidResult(param, <<>>, y)) = Misread
<1> DEFINE plain == SavePlain("Cs2DecParam", <<param>>)
           encx == SaveEnc(<<>>)
           ency == IF param.func_no = 2 THEN SaveEnc(y) ELSE <<>>
           rest == encx \o ency
<1>1. "Cs2DecParam" \in ItemType /\ <<>> \in Stream(Val) /\ <<>> \in Seq(Val)
  BY DEF ItemType, Stream
<1>2. ency \in Stream(Val)
  BY <1>1, EncRoundTrip
<1> HIDE DEF ency
<1>3. encx \in Stream(Val) /\ LoadEnc(rest) = Got(<<>>, ency)
  BY <1>1, <1>2, EncRoundTrip
<1>4. rest \in Stream(Val)
  BY <1>2, <1>3, PartsFit
<1> HIDE DEF rest
<1>5. /\ plain \in Stream(Val)
      /\ LoadPlain("Cs2DecParam", plain \o rest) = Got(<<param>>, rest)
  BY <1>1, <1>4, PlainRoundTrip
<1> HIDE DEF plain, encx
<1>6. Buffer(stream_size(plain) + stream_size(encx) + stream_size(ency),
             Then(Then(plain, encx), ency)) = Then(plain, Then(encx, ency))
  BY <1>2, <1>3, <1>5, ThreePartsFit
<1>7. MidResult(param, <<>>, y) = plain \o rest
  BY <1>6 DEF MidResult, Then, plain, encx, ency, rest
<1>8. ~HasData(Got(<<>>, ency)) /\ Got(<<param>>, rest).rest = rest
  BY GotFields
<1>9. ~HasData(LoadEnc(LoadPlain("Cs2DecParam", plain \o rest).rest))
  BY <1>3, <1>5, <1>8
<1> QED
  BY <1>7, <1>9 DEF LoadMidResult

\* The Decryptor looks up the id that was asked for (DecClient::Impl::
\* get_keys, CallbackFunctionKeyRequest), ...
THEOREM KeyRequestRoundTrip ==
  ASSUME NEW key_id
  PROVE  LoadKeyRequest(KeyRequest(key_id)) = Got(key_id, <<>>)
<1> DEFINE Val == {key_id}
           one == SaveOne("int32_t", key_id)
<1>1. "int32_t" \in ItemType /\ <<>> \in Stream(Val) /\ key_id \in Val
  BY DEF ItemType, Stream
<1>2. /\ one \in Stream(Val) /\ Len(one) = 1
      /\ LoadOne("int32_t", one \o <<>>) = Got(key_id, <<>>)
  BY <1>1, OneRoundTrip
<1> HIDE DEF one
<1>3. one \o <<>> = one
  BY <1>2, ConcatEmptySeq DEF Stream
<1>4. Buffer(1, one) = one
  BY <1>2, BufferKeepsAll
<1> QED
  BY <1>2, <1>3, <1>4 DEF KeyRequest, LoadKeyRequest, one

\* ... and the key that it sends is the key that is read.
THEOREM KeyReplyRoundTrip ==
  ASSUME NEW kind \in ItemType, NEW key
  PROVE  LoadKeyReply(kind, KeyReply(kind, key)) = Got(key, <<>>)
<1> DEFINE Val == {key}
           one == SaveOne(kind, key)
<1>1. <<>> \in Stream(Val) /\ key \in Val
  BY DEF Stream
<1>2. /\ one \in Stream(Val) /\ LoadOne(kind, one \o <<>>) = Got(key, <<>>)
  BY <1>1, OneRoundTrip
<1> HIDE DEF one
<1>3. one \o <<>> = one
  BY <1>2, ConcatEmptySeq DEF Stream
<1>4. Buffer(stream_size(one), one) = one
  BY <1>2, BufferKeepsAll DEF stream_size
<1> QED
  BY <1>2, <1>3, <1>4 DEF KeyReply, LoadKeyReply, one

\* A user gets the query id, or -1, that CallbackFunctionQuery answered with.
THEOREM QueryReplyRoundTrip ==
  ASSUME NEW query_id
  PROVE  LoadQueryReply(QueryReply(query_id)).ok
         /\ LoadQueryReply(QueryReply(query_id)).value = query_id
<1> DEFINE Val == Nat \cup {query_id}
           id == SavePlain("int32_t", <<query_id>>)
<1>1. /\ "int32_t" \in ItemType /\ <<>> \in Stream(Val) /\ Nat \subseteq Val
      /\ query_id \in Val
  BY DEF ItemType, Stream
<1> HIDE DEF Val
<1>2. id \in Stream(Val) /\ LoadPlain("int32_t", id \o <<>>) = Got(<<query_id>>, <<>>)
  BY <1>1, PlainRoundTrip
<1> HIDE DEF id
<1>3. id \o <<>> = id
  BY <1>2, ConcatEmptySeq DEF Stream
<1>4. Buffer(stream_size(id), id) = id
  BY <1>2, BufferKeepsAll DEF stream_size
<1>5. QueryReply(query_id) = id
  BY <1>4 DEF QueryReply, id
<1>6. /\ HasData(Got(<<query_id>>, <<>>))
      /\ Got(<<query_id>>, <<>>).value[1] = query_id
  BY GotFields
<1> QED
  BY <1>2, <1>3, <1>5, <1>6, GotFields DEF LoadQueryReply

\* The server waits for the result of the query id that the user sent it
\* (CSClient::Impl::recv_results, CallbackFunctionResultRequest).
THEOREM ResultRequestRoundTrip ==
  ASSUME NEW query_id, NEW enc_params
  PROVE  /\ LoadResultRequest(ResultRequest(query_id, enc_params)).ok
         /\ LoadResultRequest(ResultRequest(query_id, enc_params)).value.query_id
              = query_id
<1> DEFINE Val == Nat \cup {query_id, enc_params}
           id == SavePlain("int32_t", <<query_id>>)
           params == SaveOne("param", enc_params)
<1>1. /\ "int32_t" \in ItemType /\ "param" \in ItemType /\ <<>> \in Stream(Val)
      /\ Nat \subseteq Val /\ query_id \in Val /\ enc_params \in Val
  BY DEF ItemType, Stream
<1> HIDE DEF Val
<1>2. params \in Stream(Val) /\ LoadOne("param", params \o <<>>) = Got(enc_params, <<>>)
  BY <1>1, OneRoundTrip
<1>3. params \o <<>> = params
  BY <1>2, ConcatEmptySeq DEF Stream
<1> HIDE DEF params
<1>4. id \in Stream(Val) /\ LoadPlain("int32_t", id \o params) = Got(<<query_id>>, params)
  BY <1>1, <1>2, PlainRoundTrip
<1> HIDE DEF id
<1>5. Buffer(stream_size(id) + stream_size(params), id \o params) = id \o params
  BY <1>2, <1>4, PartsFit
<1>6. ResultRequest(query_id, enc_params) = id \o params
  BY <1>5 DEF ResultRequest, id, params
<1>7. HasData(Got(<<query_id>>, params)) /\ Got(<<query_id>>, params).value[1] = query_id
  BY GotFields
<1>8. LoadResultRequest(id \o params)
        = Got([query_id |-> query_id, params |-> enc_params], <<>>)
  BY <1>2, <1>3, <1>4, <1>7, GotFields DEF LoadResultRequest
<1> QED
  BY <1>6, <1>8, GotFields
=============================================================================
