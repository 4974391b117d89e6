------------------------------ MODULE MCSystem -------------------------------
(***************************************************************************)
(* Degrees 4, 8 and 16 have rows of 2, 4 and 8 slots: with columns of 8 and *)
(* 4 entries, two rows and one, or no row for two inputs.                   *)
(***************************************************************************)
EXTENDS System, TLC

CONSTANTS u1, u2

MCstoul == "4" :> 4 @@ "8" :> 8 @@ "16" :> 16 @@ "12" :> 12 @@ "786433" :> 786433

MCDefaults ==
  [poly_mod_degree |-> 8, coef_mod_192 |-> 8, plain_mod |-> 786433]

\* The second file is the test's, the third has the keys that README.md lists.
MCFiles == {
  NoFile,
  <<<<"poly_mod_degree", "8">>, <<"coef_mod_192", "8">>, <<"plain_mod", "786433">>>>,
  <<<<"poly", "16">>, <<"coeff", "16">>>>,
  <<<<"#", "poly_mod_degree", "4">>, <<"poly_mod_degree", "16", "#", "rows of 8">>,
    <<"poly_mod_degree", "4">>>>,
  <<<<"poly_mod_degree", "12">>>>,
  <<<<"poly_mod_degree", "many">>>>,
  <<>>}

\* The entry of 3 is zero; 1 and 3 have no entry together but NoValue; the
\* padding's value, 9, is a key as well.
MCTable ==
  <<1>> :> 5 @@ <<3>> :> 0 @@ <<9>> :> 4 @@
  <<1, 3>> :> 1000 @@ <<1, 4>> :> 6 @@ <<2, 3>> :> 7 @@ <<2, 4>> :> 8

\* The command lines of two users.  With an entry of each table; and beside a user
\* that asks nothing, or whose 0 ends its program, a zero entry, a missing one,
\* a negative number that leaves -1 as the input, and the padding's value.
MCCommandLines ==
  {u1 :> <<1>> @@ u2 :> <<1, 4>>} \cup
  {u1 :> <<-1>> @@ u2 :> y : y \in {<<3, -4>>, <<1, 3>>, <<-4, 3>>}} \cup
  {u1 :> <<0>> @@ u2 :> y : y \in {<<9>>, <<1, 9>>, <<0, 4>>}}
=============================================================================
