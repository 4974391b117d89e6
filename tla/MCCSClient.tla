----------------------------- MODULE MCCSClient -----------------------------
(* CSClient for TLC: the cfg gives ids and the bound on queries. *)
EXTENDS CSClient
=============================================================================
