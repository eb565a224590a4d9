--------------------------- MODULE SessionPromise ---------------------------
(***************************************************************************)
(* What a thread is promised about its conversation, with no table, no     *)
(* link and no deadline in it.                                             *)
(*                                                                         *)
(* A conversation is opened by its first answered turn.  It may be shed (a *)
(* rotation), or its history may be lost; losing it OWES the thread one    *)
(* honest line, and the next turn that opens a conversation says the line  *)
(* exactly when it is owed.  Once a thread has a conversation it is never  *)
(* left with none, nor with two.                                           *)
(***************************************************************************)
CONSTANT Thread

VARIABLES conv,   \* none, fresh (owes its first turn) or open
          owed,   \* history was lost and the thread has not been told
          said    \* did the turn that opened the last conversation say so?

promiseVars == <<conv, owed, said>>

Init ==
    /\ conv = [t \in Thread |-> "none"]
    /\ owed = [t \in Thread |-> FALSE]
    /\ said = [t \in Thread |-> FALSE]

Begin(t) ==
    /\ conv[t] = "none"
    /\ conv' = [conv EXCEPT ![t] = "fresh"]
    /\ UNCHANGED <<owed, said>>

Open(t) ==
    /\ conv[t] = "fresh"
    /\ conv' = [conv EXCEPT ![t] = "open"]
    /\ said' = [said EXCEPT ![t] = owed[t]]
    /\ owed' = [owed EXCEPT ![t] = FALSE]

Shed(t) ==
    /\ conv[t] = "open"
    /\ conv' = [conv EXCEPT ![t] = "fresh"]
    /\ UNCHANGED <<owed, said>>

Forget(t) ==
    /\ conv[t] = "open"
    /\ conv' = [conv EXCEPT ![t] = "fresh"]
    /\ owed' = [owed EXCEPT ![t] = TRUE]
    /\ UNCHANGED said

Next == \E t \in Thread : Begin(t) \/ Open(t) \/ Shed(t) \/ Forget(t)

Spec == Init /\ [][Next]_promiseVars
=============================================================================
