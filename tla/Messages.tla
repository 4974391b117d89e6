------------------------------ MODULE Messages -------------------------------
(***************************************************************************)
(* What travels between the three programs.  A stream is a sequence of     *)
(* items, each what one write of the code puts there, with the type it has; *)
(* the bytes of a record say nothing of its type.  Every sender computes    *)
(* the size of its buffer first, from stream_size of each part, and a      *)
(* BufferStream keeps no more than that.                                   *)
(***************************************************************************)
EXTENDS Integers, Sequences

Item(type, value) == [type |-> type, value |-> value]

\* The result of reading: what was read and what is left of the stream.
Got(value, rest) == [ok |-> TRUE, value |-> value, rest |-> rest]
Misread == [ok |-> FALSE, value |-> <<>>, rest |-> <<>>]

stream_size(s) == Len(s)

\* stdsc::BufferStream(size): what is written beyond it is lost.
Buffer(size, s) == SubSeq(s, 1, IF size < Len(s) THEN size ELSE Len(s))
-----------------------------------------------------------------------------
(***************************************************************************)
(* One item: a SEAL key or the encryption parameters.                      *)
(***************************************************************************)
SaveOne(type, value) == <<Item(type, value)>>

LoadOne(type, s) ==
  IF s # <<>> /\ Head(s).type = type THEN Got(Head(s).value, Tail(s)) ELSE Misread

(***************************************************************************)
(* A vector: its length, then its elements.                                *)
(***************************************************************************)
SaveVector(type, v) ==
  SaveOne("size_t", Len(v)) \o [i \in 1 .. Len(v) |-> Item(type, v[i])]

HasVector(type, s) ==
  /\ s # <<>> /\ s[1].type = "size_t"
  /\ s[1].value < Len(s)
  /\ \A i \in 1 .. s[1].value : s[i + 1].type = type

LoadVector(type, s) ==
  IF HasVector(type, s)
    THEN Got([i \in 1 .. s[1].value |-> s[i + 1].value],
             SubSeq(s, s[1].value + 2, Len(s)))
    ELSE Misread

\* PlainData writes nothing at all when it is empty, EncData a size of zero.
SavePlain(type, v) == IF v = <<>> THEN <<>> ELSE SaveVector(type, v)
LoadPlain(type, s) == LoadVector(type, s)
SaveEnc(ctxts) == SaveVector("Ciphertext", ctxts)
LoadEnc(s) == LoadVector("Ciphertext", s)

\* data() and vdata() throw "Data is empty."
HasData(got) == got.ok /\ got.value # <<>>
-----------------------------------------------------------------------------
(***************************************************************************)
(* User and Decryptor: new keys; CS or user and Decryptor: one key, or the *)
(* parameters.  A key request is the id itself, without a size.            *)
(***************************************************************************)
NewKeysReply(key_id, seckey) ==
  LET id == SavePlain("int32_t", <<key_id>>)
      key == SaveOne("sec", seckey)
  IN  Buffer(stream_size(key) + stream_size(id), id \o key)

LoadNewKeys(s) ==
  LET id == LoadPlain("int32_t", s)
      key == LoadOne("sec", id.rest)
  IN  IF HasData(id) /\ key.ok
        THEN Got([key_id |-> id.value[1], seckey |-> key.value], key.rest)
        ELSE Misread

KeyRequest(key_id) == Buffer(1, SaveOne("int32_t", key_id))
LoadKeyRequest(s) == LoadOne("int32_t", s)

KeyReply(kind, key) == Buffer(stream_size(SaveOne(kind, key)), SaveOne(kind, key))
LoadKeyReply(kind, s) == LoadOne(kind, s)

(***************************************************************************)
(* User and CS: a query and its id, a result request and the result.       *)
(***************************************************************************)
QueryMessage(param, enc_params, ctxts) ==
  LET plain == SavePlain("User2CsParam", <<param>>)
      params == SaveOne("param", enc_params)
      enc == SaveEnc(ctxts)
  IN  Buffer(stream_size(plain) + stream_size(params) + stream_size(enc),
             plain \o params \o enc)

LoadQuery(s) ==
  LET plain == LoadPlain("User2CsParam", s)
      params == LoadOne("param", plain.rest)
      enc == LoadEnc(params.rest)
  IN  IF HasData(plain) /\ params.ok /\ HasData(enc)
        THEN Got([param |-> plain.value[1], ctxts |-> enc.value], enc.rest)
        ELSE Misread

QueryReply(query_id) ==
  LET id == SavePlain("int32_t", <<query_id>>) IN Buffer(stream_size(id), id)

LoadQueryReply(s) ==
  LET id == LoadPlain("int32_t", s)
  IN  IF HasData(id) THEN Got(id.value[1], id.rest) ELSE Misread

ResultRequest(query_id, enc_params) ==
  LET id == SavePlain("int32_t", <<query_id>>)
      params == SaveOne("param", enc_params)
  IN  Buffer(stream_size(id) + stream_size(params), id \o params)

LoadResultRequest(s) ==
  LET id == LoadPlain("int32_t", s)
      params == LoadOne("param", id.rest)
  IN  IF HasData(id) /\ params.ok
        THEN Got([query_id |-> id.value[1], params |-> params.value], params.rest)
        ELSE Misread

ResultReply(status, ctxt) ==
  LET plain == SavePlain("Cs2UserParam", <<status>>)
      enc == SaveEnc(<<ctxt>>)
  IN  Buffer(stream_size(plain) + stream_size(enc), plain \o enc)

\* A failure leaves the ciphertext, which means nothing, in the stream.
LoadResultReply(s) ==
  LET plain == LoadPlain("Cs2UserParam", s)
      enc == LoadEnc(plain.rest)
  IN  IF ~HasData(plain) THEN Misread
      ELSE IF ~plain.value[1] THEN Got([status |-> FALSE, ctxts |-> <<>>], plain.rest)
      ELSE IF ~HasData(enc) THEN Misread
      ELSE Got([status |-> TRUE, ctxts |-> enc.value], enc.rest)

(***************************************************************************)
(* CS and Decryptor: the intermediate results and the PIR queries.  A      *)
(* message about one input has no second vector.                           *)
(***************************************************************************)
MidResultShort(param, x, y) ==  \* mutant: the size leaves the second vector out
  LET plain == SavePlain("Cs2DecParam", <<param>>)
      encx == SaveEnc(x)
      ency == IF param.func_no = 2 THEN SaveEnc(y) ELSE <<>>
  IN  Buffer(stream_size(plain) + stream_size(encx),
             plain \o encx \o ency)

MidResult(param, x, y) ==
  LET plain == SavePlain("Cs2DecParam", <<param>>)
      encx == SaveEnc(x)
      ency == IF param.func_no = 2 THEN SaveEnc(y) ELSE <<>>
  IN  Buffer(stream_size(plain) + stream_size(encx) + stream_size(ency),
             plain \o encx \o ency)

LoadMidResult(s) ==
  LET plain == LoadPlain("Cs2DecParam", s)
      x == LoadEnc(plain.rest)
      two == plain.value[1].func_no = 2
      y == LoadEnc(x.rest)
  IN  IF ~(HasData(plain) /\ HasData(x)) THEN Misread
      ELSE IF ~two THEN Got([param |-> plain.value[1], x |-> x.value, y |-> <<>>], x.rest)
      ELSE IF ~HasData(y) THEN Misread
      ELSE Got([param |-> plain.value[1], x |-> x.value, y |-> y.value], y.rest)

PIRReply(result, ctxts) ==
  LET plain == SavePlain("Dec2CsParam", <<result>>)
      enc == SaveEnc(ctxts)
  IN  Buffer(stream_size(plain) + stream_size(enc), plain \o enc)

LoadPIRReply(s) ==
  LET plain == LoadPlain("Dec2CsParam", s)
      enc == LoadEnc(plain.rest)
  IN  IF ~HasData(plain) THEN Misread
      ELSE IF ~plain.value[1] THEN Got([result |-> FALSE, ctxts |-> <<>>], plain.rest)
      ELSE IF ~enc.ok THEN Misread
      ELSE Got([result |-> TRUE, ctxts |-> enc.value], enc.rest)
=============================================================================
