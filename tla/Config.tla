------------------------------- MODULE Config -------------------------------
(***************************************************************************)
(* fts_share::Config and how the Decryptor's demo program reads it.  A file *)
(* is a sequence of lines, a line the sequence of its tokens, with "#" as a *)
(* token of its own.  NoFile is a name that cannot be opened.               *)
(***************************************************************************)
EXTENDS Integers, Sequences, FiniteSetsExt

CONSTANTS
  NoFile,
  stoul,     \* the tokens that are numbers, and what number each is
  Defaults   \* User2DecParam: its three parameters when nothing sets them

Parameter == {"poly_mod_degree", "coef_mod_192", "plain_mod"}

ASSUME ConfigAssumption ==
  Defaults \in [Parameter -> Nat] /\ stoul \in [DOMAIN stoul -> Nat]

WithoutComment(line) ==
  LET marks == {i \in DOMAIN line : line[i] = "#"}
  IN  IF marks = {} THEN line ELSE SubSeq(line, 1, Min(marks) - 1)

\* What load_from_file emplaces, in order: the first two tokens of each line
\* that has two.
Pairs(file) ==
  SelectSeq([i \in DOMAIN file |-> WithoutComment(file[i])], LAMBDA line : Len(line) >= 2)

LinesOf(file, key) == {i \in DOMAIN Pairs(file) : Pairs(file)[i][1] = key}

is_exist_key(file, key) == LinesOf(file, key) # {}

\* emplace keeps the value that a key has already.
get_value(file, key) == Pairs(file)[Min(LinesOf(file, key))][2]

\* load_from_file throws for an empty file, config_get_value for a value that
\* is not a number: the Decryptor does not start.
Accepted(file) ==
  file # NoFile =>
  /\ file # <<>>
  /\ \A key \in Parameter : is_exist_key(file, key) => get_value(file, key) \in DOMAIN stoul

\* Without a file the defaults hold, and a key under any other name is ignored.
Parameters(file) ==
  IF file = NoFile THEN Defaults
  ELSE [key \in Parameter |-> IF is_exist_key(file, key) THEN stoul[get_value(file, key)]
                                                         ELSE Defaults[key]]
=============================================================================
