----------------------------- MODULE PIRLookup ------------------------------
(***************************************************************************)
(* One lookup.  CalcManager's constructor loads the tables; then the user  *)
(* encrypts the inputs, a CalcThread compares them with the permuted       *)
(* columns of the table (computeA), the Decryptor finds the zero and turns *)
(* its place into unit vectors (calcPIRqueries), the CalcThread selects    *)
(* the entry with them (computeB), and the user decrypts.                  *)
(***************************************************************************)
EXTENDS SlotVectors, LUT

CONSTANTS
  NumOne,       \* FTS_LUT_POSSIBLE_INPUT_NUM_ONE
  NumTwo,       \* FTS_LUT_POSSIBLE_INPUT_NUM_TWO
  Pad,          \* 100, what convertLUT_to_vecfmt fills the columns with
  NoValue,      \* 1000, the output of a combination the table lacks
  Directories,  \* the LUT directories a server starts with, sets of files
  Inputs,       \* the values users ask about
  OrdersOne,    \* bound: results of get_randomvector(NumOne)
  OrdersTwo,    \* bound: results of get_randomvector(NumTwo)
  Multipliers,  \* bound: rows of random values, each 1 to 5
  None, Failed

k_one == NumOne \div RowSize
k_two == NumTwo \div RowSize
ks == (NumTwo * NumTwo) \div RowSize

IsOrder(o, n) == o \in [0 .. n - 1 -> 0 .. n - 1] /\ IsInjective(o)
KeysOf(f) == {f.rows[i][1] : i \in DOMAIN f.rows}
KeysOne(dir) == UNION {KeysOf(f) : f \in {g \in dir : g.func = kLUTFuncLinear}}
Column(map, c) == {key[c] : key \in DOMAIN map}

ASSUME PIRAssumption ==
  /\ \A n \in {NumOne, NumTwo} : n \in Nat \ {0} /\ n % RowSize = 0
  /\ k_one <= RowSize /\ ks <= RowSize * RowSize
  /\ \A o \in OrdersOne : IsOrder(o, NumOne)
  /\ \A o \in OrdersTwo : IsOrder(o, NumTwo)
  /\ Multipliers \subseteq [Slot -> 1 .. 5]
  /\ \A r \in 1 .. 5, d \in 1 .. Modulus - 1 : (r * d) % Modulus # 0
  /\ \A dir \in Directories :
       /\ dir \subseteq File
       /\ \A func \in {kLUTFuncLinear, kLUTFuncQuadratic} : \E f \in dir : f.func = func
       /\ IsFiniteSet(dir) /\ Cardinality(KeysOne(dir)) <= NumOne

\* What the tables, the padding and the users' inputs must be for a slot to
\* hold them; SEAL's encoder checks it in debug builds only.
ASSUME ValueAssumption ==
  /\ Inputs \subseteq Value /\ Pad \in Value /\ NoValue \in Value
  /\ \A dir \in Directories : \A f \in dir : \A i \in DOMAIN f.rows :
       f.rows[i] \in Seq(Value) \X Value

\* None is no query.
ASSUME NoneAssumption == \A x, y \in Inputs : None # <<x>> /\ None # <<x, y>>

VARIABLES
  pc,          \* the next step of the lookup
  files,       \* the LUT files not loaded yet
  lut,         \* what the constructor's LUTlfunc and LUTqfunc hold
  query,       \* the user's inputs, one or two
  ctxts,       \* Query::ctxts_
  LUT_output,  \* the permuted outputs of this lookup, row by row
  midresult,   \* the intermediate results sent to the Decryptor
  PIRquery,    \* the PIR queries it returned
  sum_result,  \* Result::ctxt_
  output       \* the values the user sees

vars == <<pc, files, lut, query, ctxts, LUT_output, midresult, PIRquery, sum_result, output>>

Init ==
  /\ files \in Directories /\ lut = [one |-> NoRows, two |-> NoRows]
  /\ pc = "load" /\ query = None /\ output = None
  /\ ctxts = <<>> /\ LUT_output = <<>> /\ midresult = <<>>
  /\ PIRquery = <<>> /\ sum_result = Zero
-----------------------------------------------------------------------------
(***************************************************************************)
(* The tables as CalcManager converts them.                                *)
(***************************************************************************)
map_(f) == IF f.func = kLUTFuncLinear THEN lut.one ELSE lut.two

\* What convertLUT_to_vecfmt_two requires of the loaded map.
FitsColumns(f, map) ==
  f.func = kLUTFuncQuadratic => \A c \in {1, 2} : Cardinality(Column(map, c)) < NumTwo

Loads(f) ==
  /\ f.func # 0 /\ FitsHeader(map_(f), f)
  /\ FitsColumns(f, load_from_file(map_(f), f))

LoadFile(f) ==
  /\ pc = "load" /\ Loads(f)
  /\ lut' = IF f.func = kLUTFuncLinear
            THEN [lut EXCEPT !.one = load_from_file(@, f)]
            ELSE [lut EXCEPT !.two = load_from_file(@, f)]
  /\ files' = files \ {f}
  /\ pc' = IF files' = {} THEN "encrypt" ELSE "load"
  /\ UNCHANGED <<query, ctxts, LUT_output, midresult, PIRquery, sum_result, output>>

\* The constructor throws, and the server does not start.
LoadThrows(f) ==
  /\ pc = "load" /\ ~Loads(f)
  /\ pc' = "stopped"
  /\ UNCHANGED <<files, lut, query, ctxts, LUT_output, midresult, PIRquery,
                 sum_result, output>>

resize(s, n) == [i \in 0 .. n - 1 |-> IF i < Len(s) THEN s[i + 1] ELSE Pad]

LUTin_one ==
  LET keys == SetToSeq(DOMAIN lut.one) IN
  <<resize([i \in DOMAIN keys |-> keys[i][1]], NumOne),
    resize([i \in DOMAIN keys |-> lut.one[keys[i]]], NumOne)>>

\* std::sort and std::unique.
Ascending(S) ==
  [i \in 1 .. Cardinality(S) |-> CHOOSE v \in S : Cardinality({w \in S : w < v}) = i - 1]

LUTin_two ==
  <<resize(Ascending(Column(lut.two, 1)), NumTwo),
    resize(Ascending(Column(lut.two, 2)), NumTwo)>>

LUTout_two ==
  LET x0sz == Cardinality(Column(lut.two, 1))
      x1sz == Cardinality(Column(lut.two, 2))
      in == LUTin_two
      val(i, j) == IF i < x0sz /\ j < x1sz /\ <<in[1][i], in[2][j]>> \in DOMAIN lut.two
                   THEN lut.two[<<in[1][i], in[2][j]>>]
                   ELSE NoValue
  IN [c \in 0 .. NumTwo * NumTwo - 1 |-> val(c \div NumTwo, c % NumTwo)]

\* createLUTforOneInput, createLUTforTwoInput: "count" rows of RowSize entries of a column.
Rows(column, count) ==
  [i \in 0 .. count - 1 |-> [s \in Slot |-> column[i * RowSize + s]]]

Permuted(column, order) == [i \in DOMAIN order |-> column[order[i]]]
-----------------------------------------------------------------------------
\* EncData::encrypt of several values, one ciphertext for each.
encryptAll(values) == [i \in DOMAIN values |-> encrypt(values[i])]

Encrypt(q) ==
  /\ pc = "encrypt"
  /\ query' = q
  /\ ctxts' = encryptAll(q)
  /\ pc' = "computeA"
  /\ UNCHANGED <<files, lut, LUT_output, midresult, PIRquery, sum_result, output>>

\* (x - column) * random: zero in the slots that hold x, and only there.
Compare(ctxt, rows, rnd) ==
  [i \in DOMAIN rows |-> multiply(sub(ctxt, rows[i]), rnd[i])]

computeAforOneInput(vi, rnd) ==
  /\ pc = "computeA" /\ Len(query) = 1
  /\ LET LUT_input == Rows(Permuted(LUTin_one[1], vi), k_one)
     IN midresult' = <<Compare(ctxts[1], LUT_input, rnd)>>
  /\ LUT_output' = Rows(Permuted(LUTin_one[2], vi), k_one)
  /\ pc' = "calcPIR"
  /\ UNCHANGED <<files, lut, query, ctxts, PIRquery, sum_result, output>>

PermutedOutByY(column, vi_x, vi_y) ==  \* mutant: the orders swapped
  [c \in 0 .. NumTwo * NumTwo - 1 |->
     column[vi_y[c \div NumTwo] * NumTwo + vi_x[c % NumTwo]]]

PermutedOut(column, vi_x, vi_y) ==
  [c \in 0 .. NumTwo * NumTwo - 1 |->
     column[vi_x[c \div NumTwo] * NumTwo + vi_y[c % NumTwo]]]

computeAforTwoInput(vi_x, vi_y, rnd_x, rnd_y) ==
  /\ pc = "computeA" /\ Len(query) = 2
  /\ midresult' = <<Compare(ctxts[1], Rows(Permuted(LUTin_two[1], vi_x), k_two), rnd_x),
                    Compare(ctxts[2], Rows(Permuted(LUTin_two[2], vi_y), k_two), rnd_y)>>
  /\ LUT_output' = Rows(PermutedOut(LUTout_two, vi_x, vi_y), ks)
  /\ pc' = "calcPIR"
  /\ UNCHANGED <<files, lut, query, ctxts, PIRquery, sum_result, output>>
-----------------------------------------------------------------------------
(***************************************************************************)
(* The Decryptor.  Entry e of a column is slot e % RowSize of row          *)
(* e \div RowSize; it takes the first that is zero, row by row.            *)
(***************************************************************************)
ZeroEntries(rows) ==
  {e \in 0 .. Cardinality(DOMAIN rows) * RowSize - 1 :
     rows[e \div RowSize][e % RowSize] = 0}

FirstZero(rows) == CHOOSE e \in ZeroEntries(rows) : \A f \in ZeroEntries(rows) : e <= f

calcPIRqueriesForOneInput(x) ==
  LET new_query == Unit(x % RowSize)
      index == x \div RowSize
  IN <<new_query, shift_work(new_query, index)>>

calcPIRqueriesForTwoInput(x, y) ==
  LET new_query0 == Unit(y % RowSize)
      index == x * k_two + y \div RowSize
      new_query1 == shift_work(new_query0, index % RowSize)
  IN <<new_query0, new_query1, shift_work(new_query1, index \div RowSize)>>

FoundMember ==
  /\ pc = "calcPIR"
  /\ \A i \in DOMAIN midresult : ZeroEntries(midresult[i]) # {}
  /\ PIRquery' = IF Len(midresult) = 2
                 THEN calcPIRqueriesForTwoInput(FirstZero(midresult[1]), FirstZero(midresult[2]))
                 ELSE calcPIRqueriesForOneInput(FirstZero(midresult[1]))
  /\ pc' = "computeB"
  /\ UNCHANGED <<files, lut, query, ctxts, LUT_output, midresult, sum_result, output>>

\* kDecCalcResultErrNoFoundInputMember: a result with status false.
NoFoundInputMember ==
  /\ pc = "calcPIR"
  /\ \E i \in DOMAIN midresult : ZeroEntries(midresult[i]) = {}
  /\ output' = Failed
  /\ pc' = "done"
  /\ UNCHANGED <<files, lut, query, ctxts, LUT_output, midresult, PIRquery, sum_result>>
-----------------------------------------------------------------------------
Sum(rows) ==
  [s \in Slot |->
     FoldFunction(LAMBDA row, total : (row[s] + total) % Modulus, 0, rows)]

computeBforOneInputUnmasked ==  \* mutant: new_query is not multiplied in
  /\ pc = "computeB" /\ Len(query) = 1
  /\ sum_result' = Sum([i \in 0 .. k_one - 1 |->
                          multiply(rotate_rows(PIRquery[2], i), LUT_output[i])])
  /\ pc' = "decrypt"
  /\ UNCHANGED <<files, lut, query, ctxts, LUT_output, midresult, PIRquery, output>>

computeBforOneInput ==
  /\ pc = "computeB" /\ Len(query) = 1
  /\ LET selector(i) == multiply(rotate_rows(PIRquery[2], i), PIRquery[1])
     IN sum_result' = Sum([i \in 0 .. k_one - 1 |-> multiply(selector(i), LUT_output[i])])
  /\ pc' = "decrypt"
  /\ UNCHANGED <<files, lut, query, ctxts, LUT_output, midresult, PIRquery, output>>

computeBforTwoInput ==
  /\ pc = "computeB" /\ Len(query) = 2
  /\ LET query_sub == [i \in Slot |-> multiply(rotate_rows(PIRquery[3], i), PIRquery[2])]
         selector(i) == multiply(rotate_rows(query_sub[i \div RowSize], i % RowSize),
                                 PIRquery[1])
     IN sum_result' = Sum([i \in 0 .. ks - 1 |-> multiply(selector(i), LUT_output[i])])
  /\ pc' = "decrypt"
  /\ UNCHANGED <<files, lut, query, ctxts, LUT_output, midresult, PIRquery, output>>

\* EncData::decrypt keeps the slots that are not zero.
Keep(shown, v) == IF v # 0 THEN Append(shown, v) ELSE shown

decrypt ==
  /\ pc = "decrypt"
  /\ output' = FoldLeft(Keep, <<>>, [s \in 1 .. RowSize |-> decode(sum_result[s - 1])])
  /\ pc' = "done"
  /\ UNCHANGED <<files, lut, query, ctxts, LUT_output, midresult, PIRquery, sum_result>>

Done == pc \in {"done", "stopped"} /\ UNCHANGED vars

Next ==
  \/ \E f \in files : LoadFile(f)
  \/ \E f \in files : LoadThrows(f)
  \/ \E x \in Inputs : Encrypt(<<x>>)
  \/ \E x, y \in Inputs : Encrypt(<<x, y>>)
  \/ \E vi \in OrdersOne, rnd \in [0 .. k_one - 1 -> Multipliers] :
       computeAforOneInput(vi, rnd)
  \/ \E vi_x, vi_y \in OrdersTwo, rnd_x, rnd_y \in [0 .. k_two - 1 -> Multipliers] :
       computeAforTwoInput(vi_x, vi_y, rnd_x, rnd_y)
  \/ FoundMember \/ NoFoundInputMember
  \/ computeBforOneInput \/ computeBforTwoInput
  \/ decrypt
  \/ Done

Spec == Init /\ [][Next]_vars
-----------------------------------------------------------------------------
\* The table a user can ask about: in the two-input table, a combination of
\* known inputs that has no entry counts as an entry NoValue.
Table ==
  [q \in DOMAIN lut.one \cup (Column(lut.two, 1) \X Column(lut.two, 2)) |->
     IF q \in DOMAIN lut.one THEN lut.one[q]
     ELSE IF q \in DOMAIN lut.two THEN lut.two[q] ELSE NoValue]

Lookup == INSTANCE TableLookup WITH table <- Table, inputs <- query, answer <- output

\* The whole protocol, for every order of the columns and every choice of
\* random multipliers, is a table lookup: the user sees the entry of the
\* inputs, one value at most, and a failure exactly when they are not in it.
\* It is about inputs other than the value that pads the columns.
IsTableLookup == Lookup!Spec

\* The documentation's promise, for all inputs: the service returns f(x0, x1)
\* (01_intro.md).
AnswersTheFunction ==
  pc = "done" /\ query \in DOMAIN Table => output = Lookup!Expected(Table, query)

\* However the columns are permuted, the sum the CalcThread returns is one row
\* of the table with all slots zero but that of the unit vector the Decryptor
\* sent: no two rows are ever added up, and no slot moves.
OneEntrySelected ==
  pc \in {"decrypt", "done"} /\ PIRquery # <<>> =>
    \E i \in DOMAIN LUT_output : \A s \in Slot :
      sum_result[s] = IF PIRquery[1][s] = 1 THEN LUT_output[i][s] % Modulus ELSE 0
=============================================================================
