----------------------------- MODULE MCRecovery -----------------------------
(* Recovery for TLC.  Events meet only in the pump's sweep, whose insert    *)
(* reads one row, so one event is followed, through several parks, deaths   *)
(* and human retries.                                                       *)
EXTENDS Recovery

CONSTANT e1

=============================================================================
