----------------------------- MODULE MCCSServer -----------------------------
(* CSServer for TLC. *)
EXTENDS CSServerRefinement, TLC

\* A generator whose state is its last value: two seconds give different
\* ids, and so do two draws after one srand.
MCSRand == [s \in Seconds |-> s]
MCRand == [r \in Key |-> LET v == (r + 2) % Cardinality(Key)
                         IN  [value |-> v, next |-> v]]

Good == [func |-> 1, inputs |-> 1, member |-> TRUE]
Unknown == [func |-> 1, inputs |-> 1, member |-> FALSE]
TooFew == [func |-> 2, inputs |-> 1, member |-> TRUE]

BadShapes == {Unknown, TooFew}
GoodShapes == {Good}

Symmetry == Permutations(User) \cup Permutations(Handler) \cup Permutations(CalcThread)
=============================================================================
