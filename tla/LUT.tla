-------------------------------- MODULE LUT ---------------------------------
(***************************************************************************)
(* LUT files, and the maps LUTLFunc and LUTQFunc load them into.  A row is *)
(* <<key, value>>, with a key of one input or two; what the program turns  *)
(* into a string and back is a tuple here.  A header the program rejects,  *)
(* and one with a function number it does not know, has func 0.            *)
(***************************************************************************)
EXTENDS Integers, Sequences, FiniteSets, SequencesExt

kLUTFuncLinear == 1
kLUTFuncQuadratic == 2

NoRows == <<>>   \* an empty map

Entry == Seq(Int) \X Int
File ==
  {f \in [func : {0, kLUTFuncLinear, kLUTFuncQuadratic}, size : Nat, rows : Seq(Entry)] :
     \A i \in DOMAIN f.rows :
       /\ f.func = kLUTFuncLinear => Len(f.rows[i][1]) = 1
       /\ f.func = kLUTFuncQuadratic => Len(f.rows[i][1]) = 2}

\* LUTBase::emplace keeps the value that a key has already.
emplace(map, row) ==
  [key \in DOMAIN map \cup {row[1]} |-> IF key \in DOMAIN map THEN map[key] ELSE row[2]]

\* The map is not cleared first.
load_from_file(map, file) == FoldLeft(emplace, map, file.rows)

\* load_from_file throws unless the whole map fits the size in the header.
FitsHeader(map, file) ==
  file.size > 0 /\ Cardinality(DOMAIN load_from_file(map, file)) <= file.size
=============================================================================
