---------------------------- MODULE MCMigration ----------------------------
(* Migration for TLC: process a runs two callers over a pool of two, b is  *)
(* an older binary.                                                        *)
EXTENDS Migration

CONSTANTS a, b, r1, r2, r3

MCProc == [r \in Run |-> IF r = r3 THEN b ELSE a]
MCNewest == [p \in Process |-> IF p = b THEN 1 ELSE 2]
MCPool == [p \in Process |-> IF p = b THEN 0 ELSE 2]

=============================================================================
