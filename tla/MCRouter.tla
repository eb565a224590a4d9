------------------------------ MODULE MCRouter ------------------------------
(* Router for TLC: two events of one thread, two goroutines to drain it.    *)
EXTENDS Router, TLC

CONSTANTS e1, e2, t1, s1

MCThreadOf == e1 :> t1 @@ e2 :> t1
MCShardOf == t1 :> s1

=============================================================================
