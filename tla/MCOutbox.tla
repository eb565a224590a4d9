------------------------------ MODULE MCOutbox ------------------------------
(* Instances of Outbox for TLC.                                             *)
EXTENDS Outbox, TLC

CONSTANTS e1, e2, t1, t2

MCThreadOf1 == e1 :> t1
MCThreadOfApart == e1 :> t1 @@ e2 :> t2

\* States that differ only in the history variables that neither a guard nor the
\* two invariants of MCOutboxApart read are one state.
NoHistory == <<storeVars, outboxVars, ramVars, grants, everSent>>

\* The behaviours in which no handler panics.
CalmNext ==
    \/ Boot \/ GoLive \/ Crash \/ Pump
    \/ \E e \in Event :
        \/ Receive(e) \/ Start(e) \/ Handler(e)
        \/ HumanRetry(e) \/ HumanDiscard(e) \/ BootPark(e)

CalmSpec == Init /\ [][CalmNext]_vars

=============================================================================
