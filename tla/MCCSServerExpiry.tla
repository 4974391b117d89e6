-------------------------- MODULE MCCSServerExpiry --------------------------
(* CSServerExpiry for TLC, with the constants of MCCSServer. *)
EXTENDS CSServerExpiry, MCCSServer
=============================================================================
