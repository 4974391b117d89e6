--------------------------- MODULE MCCSServerLoad ---------------------------
(* CSServerLoad for TLC: each second gives another id. *)
EXTENDS CSServerLoad

MCSRand == [s \in Seconds |-> s]
MCRand == [r \in Key |-> LET v == (r + 2) % Cardinality(Key)
                         IN  [value |-> v, next |-> v]]
MCShapes == {[func |-> 1, inputs |-> 1, member |-> TRUE]}
=============================================================================
