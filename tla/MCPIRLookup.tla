---------------------------- MODULE MCPIRLookup -----------------------------
(***************************************************************************)
(* Tables of three keys in columns of eight, rows of four slots.  An order  *)
(* of a column is a rotation of one of two base orders, so that a key is    *)
(* found in every row and every slot, before and after the others.          *)
(***************************************************************************)
EXTENDS PIRLookup

Rotations(o, n) == {[i \in 0 .. n - 1 |-> o[(i + d) % n]] : d \in 0 .. n - 1}
MCOrders == Rotations([i \in 0 .. 7 |-> i], 8) \cup Rotations([i \in 0 .. 7 |-> 7 - i], 8)
MCOrdersTwo == Rotations([i \in 0 .. 7 |-> (3 * i) % 8], 8)

MCMultipliers == {[s \in Slot |-> 1], [s \in Slot |-> 5 - s]}

MCInputs == {1, 2, 3, -4}

f1 == [func |-> 1, size |-> 3, rows |-> <<<<<<1>>, -4>>, <<<<2>>, 0>>, <<<<3>>, 4>>>>]
f1b == [func |-> 1, size |-> 4, rows |-> <<<<<<9>>, 7>>, <<<<1>>, 6>>>>]
f2 == [func |-> 2, size |-> 4, rows |-> <<<<<<1, 2>>, 5>>, <<<<-4, 2>>, 6>>, <<<<1, 3>>, 0>>>>]
f2b == [func |-> 2, size |-> 2, rows |-> <<<<<<1, 9>>, 5>>, <<<<2, 1>>, 6>>>>]
f0 == [f1 EXCEPT !.func = 0]

\* The tables have an entry of zero, a negative entry and key and a
\* combination without an entry, or the padding value among their keys.  Two
\* one-input files with a key in common load in one order only; one directory
\* has a bad header.
MCDirectories == {{f1, f2}, {f1, f1b, f2b}, {f0, f1, f2}}
=============================================================================
