----------------------------- MODULE MCSessions -----------------------------
(* Sessions for TLC.  Threads share only the directories, the clock and the *)
(* daemon's life, so one thread is followed through a long lineage; the     *)
(* proofs have any number of them.                                          *)
EXTENDS Sessions

CONSTANTS t1, s1, s2, s3, d1, d2

=============================================================================
