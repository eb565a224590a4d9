--------------------------- MODULE MCSessionClock ---------------------------
(* SessionClock for TLC: a second of three ticks, a window and a TTL that   *)
(* are no whole number of seconds.                                          *)
EXTENDS SessionClock

=============================================================================
