------------------------------ MODULE MCEngine ------------------------------
(* Engine for TLC: one turn, of a child and a helper.                       *)
EXTENDS Engine

=============================================================================
