--------------------------- MODULE MCKeyContainer ---------------------------
(***************************************************************************)
(* Handlers and key ids are interchangeable in KeyContainer.               *)
(***************************************************************************)
EXTENDS KeyContainer, TLC

Symmetry == Permutations(Handler) \cup Permutations(KeyId)
=============================================================================
