---------------------------- MODULE TableLookup -----------------------------
(***************************************************************************)
(* What a lookup promises: a query about inputs in the table is answered    *)
(* with their entry, a query about any others with a failure.  "table" maps *)
(* a tuple of one or two inputs to its value.  A value of zero is shown to   *)
(* the user as no value at all (EncData::decrypt keeps non-zero slots only).*)
(***************************************************************************)
CONSTANTS None, Failed

VARIABLES table, inputs, answer

vars == <<table, inputs, answer>>

Shown(v) == IF v = 0 THEN <<>> ELSE <<v>>

Expected(f, q) == IF q \in DOMAIN f THEN Shown(f[q]) ELSE Failed

Init == inputs = None /\ answer = None

\* The table may be loaded in several steps, before the query.
Load == inputs = None /\ UNCHANGED <<inputs, answer>>

Ask ==
  /\ inputs = None /\ inputs' # None
  /\ UNCHANGED <<table, answer>>

Reply ==
  /\ inputs # None /\ answer = None
  /\ answer' = Expected(table, inputs)
  /\ UNCHANGED <<table, inputs>>

Spec == Init /\ [][Load \/ Ask \/ Reply]_vars
=============================================================================
