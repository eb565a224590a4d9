----------------------------- MODULE MCInstance -----------------------------
(* Instance for TLC. *)
EXTENDS Instance

=============================================================================
