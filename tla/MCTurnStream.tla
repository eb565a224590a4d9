---------------------------- MODULE MCTurnStream ----------------------------
(* TurnStream for TLC: every input of up to seven bytes, cut in every way   *)
(* into chunks of up to three.                                              *)
EXTENDS TurnStream

=============================================================================
