---------------------------- MODULE TurnContract ----------------------------
(***************************************************************************)
(* What the queue promises about turns, with no table, no queue and no     *)
(* goroutine in it.                                                        *)
(*                                                                         *)
(* A turn may have side effects nobody can undo, so each start of a turn   *)
(* spends a LICENCE.  A licence is issued when the event is received, when *)
(* the live turn itself proves it did nothing (an automatic retry, at most *)
(* MaxEventRetries of them), or when a human asks for another run.         *)
(* Nothing else issues one: a crash, a restart, a panic, a lost write or a *)
(* late timer never does.  Turns of one thread never overlap.              *)
(***************************************************************************)
EXTENDS Naturals

CONSTANTS Event, Thread, ThreadOf, MaxEventRetries

VARIABLES phase,    \* where the event stands with respect to licences
          live,     \* the events whose turn is executing now
          runs,     \* how many turns were started for the event
          retries,  \* automatic retries granted
          grants    \* human retries granted

contractVars == <<phase, live, runs, retries, grants>>

Phases == {"unseen", "licensed", "running", "parked", "closed"}

ContractTypeOK ==
    /\ phase \in [Event -> Phases]
    /\ live \in SUBSET Event
    /\ runs \in [Event -> Nat]
    /\ retries \in [Event -> Nat]
    /\ grants \in [Event -> Nat]

Init ==
    /\ phase = [e \in Event |-> "unseen"]
    /\ live = {}
    /\ runs = [e \in Event |-> 0]
    /\ retries = [e \in Event |-> 0]
    /\ grants = [e \in Event |-> 0]

Receive(e) ==
    /\ phase[e] = "unseen"
    /\ phase' = [phase EXCEPT ![e] = "licensed"]
    /\ UNCHANGED <<live, runs, retries, grants>>

Start(e) ==
    /\ phase[e] = "licensed"
    /\ \A f \in live : ThreadOf[f] # ThreadOf[e]
    /\ phase' = [phase EXCEPT ![e] = "running"]
    /\ live' = live \cup {e}
    /\ runs' = [runs EXCEPT ![e] = @ + 1]
    /\ UNCHANGED <<retries, grants>>

\* The live turn ends well ("closed") or hands the event to a human
\* ("parked"); a dying turn may also forfeit a licence it was just given.
Conclude(e, to) ==
    /\ e \in live
    /\ \/ phase[e] = "running"
       \/ phase[e] = "licensed" /\ to = "parked"
    /\ phase' = [phase EXCEPT ![e] = to]
    /\ UNCHANGED <<live, runs, retries, grants>>

AutoRetry(e) ==
    /\ e \in live
    /\ phase[e] = "running"
    /\ retries[e] < MaxEventRetries
    /\ phase' = [phase EXCEPT ![e] = "licensed"]
    /\ retries' = [retries EXCEPT ![e] = @ + 1]
    /\ UNCHANGED <<live, runs, grants>>

Return(e) ==
    /\ e \in live
    /\ live' = live \ {e}
    /\ UNCHANGED <<phase, runs, retries, grants>>

Die ==
    /\ live' = {}
    /\ UNCHANGED <<phase, runs, retries, grants>>

\* A turn cut short is put before a human, and only once nothing runs.
RecoverCut(e) ==
    /\ live = {}
    /\ phase[e] = "running"
    /\ phase' = [phase EXCEPT ![e] = "parked"]
    /\ UNCHANGED <<live, runs, retries, grants>>

HumanRetry(e) ==
    /\ phase[e] = "parked"
    /\ phase' = [phase EXCEPT ![e] = "licensed"]
    /\ grants' = [grants EXCEPT ![e] = @ + 1]
    /\ UNCHANGED <<live, runs, retries>>

HumanDiscard(e) ==
    /\ phase[e] = "parked"
    /\ phase' = [phase EXCEPT ![e] = "closed"]
    /\ UNCHANGED <<live, runs, retries, grants>>

Next ==
    \/ Die
    \/ \E e \in Event :
        \/ Receive(e) \/ Start(e) \/ AutoRetry(e) \/ Return(e)
        \/ RecoverCut(e) \/ HumanRetry(e) \/ HumanDiscard(e)
        \/ \E to \in {"parked", "closed"} : Conclude(e, to)

Spec == Init /\ [][Next]_contractVars

-----------------------------------------------------------------------------
\* Every start was licensed: one licence for the receipt, one per automatic
\* retry, one per human retry, and one still unspent while "licensed".
EveryRunLicensed ==
    \A e \in Event :
        runs[e] + (IF phase[e] = "licensed" THEN 1 ELSE 0)
            <= 1 + retries[e] + grants[e]

\* Turns of one thread never overlap.
Serial == \A e, f \in live : ThreadOf[e] = ThreadOf[f] => e = f

=============================================================================
