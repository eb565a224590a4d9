---------------------------- MODULE GatewayProofs ----------------------------
(***************************************************************************)
(* Gateway for any number of listeners, drops and failed handshakes.       *)
(***************************************************************************)
EXTENDS Gateway, TLAPS

\* A handshake belongs to Run, or to the reaper of a drain.
CallOk ==
    /\ pc = "opening" => call # "none" /\ ~abandoned
    /\ call # "none" => pc = "opening" \/ abandoned
    /\ abandoned => cancelled /\ pc \in {"defer", "join", "returned"} /\ call # "none"

\* Nothing is up after a handshake that failed, nor once Run has left.
DownOk ==
    /\ call \in {"stale", "terminal", "transient"} \/ pc = "retry" => ~live
    /\ NoConnectionLeft

\* Run comes to a dial with its backoff slept.
PaceOk ==
    /\ pc = "top" \/ call \in {"running", "already"} => hot = "no"
    /\ pc = "watch" /\ aged => hot = "no"
    /\ pc = "watch" \/ call = "ok" => hot # "failed"

\* The gate shuts before the join, and only what is inside gets to it.
GateOk ==
    /\ pc \in {"join", "returned"} => draining
    /\ NoHandlerOutlivesRun

MessagesOk ==
    \A l \in Listener : dispatch[l] # NoMessage =>
        dispatch[l].type \in {"thread", "dm"} /\ ~dispatch[l].own

IInv == TypeOK /\ CallOk /\ DownOk /\ PaceOk /\ GateOk /\ MessagesOk

\* The adapter as New leaves it.
LEMMA InitIInv == Init => IInv
  <1> SUFFICES ASSUME Init PROVE IInv
    OBVIOUS
  <1>1. TypeOK
    <2>1. FlagsOK
      BY DEF Init, FlagsOK
    <2> QED BY <2>1, GatewayAssumption DEF Init, TypeOK
  <1>2. CallOk /\ DownOk /\ PaceOk /\ GateOk /\ MessagesOk
    BY DEF Init, CallOk, DownOk, PaceOk, GateOk, MessagesOk, NoConnectionLeft, NoHandlerOutlivesRun
  <1> QED BY <1>1, <1>2 DEF IInv

\* Flags stay flags.
LEMMA FlagsKept == TypeOK /\ [Next]_vars => FlagsOK'
  <1> SUFFICES ASSUME FlagsOK, [Next]_vars PROVE FlagsOK'
    BY DEF TypeOK
  <1> USE DEF FlagsOK, runVars, libVars, msgVars
  <1>1. CASE Run
    <2>1. CASE Top \/ WatchCancelled \/ Cool
      BY <2>1 DEF Top, WatchCancelled, Cool, Close
    <2>2. CASE Opened \/ AlreadyOpen \/ Refused \/ ResumeRefused \/ OpenFailed
      BY <2>2 DEF Opened, AlreadyOpen, Refused, ResumeRefused, OpenFailed
    <2>3. CASE Abandon \/ Retry \/ Woken \/ Drain \/ Join
      BY <2>3 DEF Abandon, Retry, Woken, Drain, Join
    <2> QED BY <1>1, <2>1, <2>2, <2>3 DEF Run
  <1>2. CASE Reap \/ OpenAnswers \/ Drop \/ Disconnected \/ Age \/ Cancel
    BY <1>2 DEF Reap, Close, OpenAnswers, Drop, Disconnected, Age, Cancel
  <1>3. ASSUME NEW l \in Listener, NEW m \in Message, NEW c \in BOOLEAN, NEW f \in BOOLEAN,
               OnMessageCreate(l, m, c, f)
        PROVE FlagsOK'
    BY <1>3 DEF OnMessageCreate
  <1>4. ASSUME NEW l \in Listener, Gate(l) \/ Handled(l) PROVE FlagsOK'
    BY <1>4 DEF Gate, Handled
  <1>5. CASE Ended \/ UNCHANGED vars
    BY <1>5 DEF Ended, vars
  <1> QED BY <1>1, <1>2, <1>3, <1>4, <1>5 DEF Next

\* The loop's own steps.
LEMMA RunIInv == IInv /\ Run => IInv'
  <1> SUFFICES ASSUME IInv, Run PROVE IInv'
    OBVIOUS
  <1>0. FlagsOK'
    BY FlagsKept DEF IInv, Next
  <1> USE DEF IInv, TypeOK, CallOk, DownOk, PaceOk, GateOk, MessagesOk, NoConnectionLeft,
              NoHandlerOutlivesRun, Answers, msgVars, libVars
  <1>1. CASE Top
    BY <1>0, <1>1 DEF Top, Close
  <1>2. CASE Opened
    BY <1>0, <1>2 DEF Opened
  <1>3. CASE AlreadyOpen
    BY <1>0, <1>3 DEF AlreadyOpen
  <1>4. CASE Refused
    BY <1>0, <1>4 DEF Refused
  <1>5. CASE ResumeRefused
    BY <1>0, <1>5 DEF ResumeRefused
  <1>6. CASE OpenFailed
    BY <1>0, <1>6 DEF OpenFailed
  <1>7. CASE Abandon
    BY <1>0, <1>7 DEF Abandon
  <1>8. CASE Retry
    BY <1>0, <1>8 DEF Retry
  <1>9. CASE WatchCancelled
    BY <1>0, <1>9 DEF WatchCancelled, Close
  <1>10. CASE Woken
    BY <1>0, <1>10 DEF Woken
  <1>11. CASE Cool
    BY <1>0, <1>11 DEF Cool, Close
  <1>12. CASE Drain
    BY <1>0, <1>12 DEF Drain
  <1>13. CASE Join
    BY <1>0, <1>13 DEF Join
  <1> QED BY <1>1, <1>2, <1>3, <1>4, <1>5, <1>6, <1>7, <1>8, <1>9, <1>10, <1>11, <1>12, <1>13 DEF Run

\* Everybody else's.
LEMMA NextIInv == IInv /\ [Next]_vars => IInv'
  <1> SUFFICES ASSUME IInv, [Next]_vars PROVE IInv'
    OBVIOUS
  <1>0. FlagsOK'
    BY FlagsKept DEF IInv
  <1> USE GatewayAssumption
      DEF IInv, TypeOK, CallOk, DownOk, PaceOk, GateOk, MessagesOk, NoConnectionLeft,
          NoHandlerOutlivesRun, Answers, runVars, msgVars, libVars
  <1>1. CASE Run
    BY <1>1, RunIInv
  <1>2. CASE Reap
    BY <1>0, <1>2 DEF Reap, Close
  <1>3. CASE OpenAnswers
    BY <1>0, <1>3 DEF OpenAnswers, Dial
  <1>4. CASE Drop
    BY <1>0, <1>4 DEF Drop
  <1>5. CASE Disconnected
    BY <1>0, <1>5 DEF Disconnected
  <1>6. CASE Age
    BY <1>0, <1>6 DEF Age
  <1>7. CASE Cancel
    BY <1>0, <1>7 DEF Cancel
  <1>8. ASSUME NEW l \in Listener, NEW m \in Message, NEW c \in BOOLEAN, NEW f \in BOOLEAN,
               OnMessageCreate(l, m, c, f)
        PROVE IInv'
    <2>1. m.type \in {"thread", "dm"} /\ ~m.own
      BY <1>0, <1>8 DEF OnMessageCreate, Inside, IsThread, IsDirectMessage, Message
    <2>2. MessagesOk'
      BY <1>8, <2>1 DEF OnMessageCreate
    <2> QED BY <1>0, <1>8, <2>2 DEF OnMessageCreate, Message
  <1>9. ASSUME NEW l \in Listener, Gate(l) PROVE IInv'
    BY <1>0, <1>9 DEF Gate
  <1>10. ASSUME NEW l \in Listener, Handled(l) PROVE IInv'
    BY <1>0, <1>10 DEF Handled
  <1>11. CASE Ended \/ UNCHANGED vars
    BY <1>0, <1>11 DEF Ended, vars
  <1> QED BY <1>1, <1>2, <1>3, <1>4, <1>5, <1>6, <1>7, <1>8, <1>9, <1>10, <1>11 DEF Next

-----------------------------------------------------------------------------
LEMMA AlwaysIInv == Spec => []IInv
  BY InitIInv, NextIInv, PTL DEF Spec

\* Whatever is dropped, delayed or announced twice: once Run is on its way
\* out no connection is left up behind it, and no message handler outlives
\* it.
THEOREM ShutdownIsClean == Spec => [](TypeOK /\ CleanExit)
  <1>1. IInv => TypeOK /\ CleanExit
    BY DEF IInv, TypeOK, DownOk, GateOk, CleanExit
  <1> QED BY <1>1, AlwaysIInv, PTL

\* Only messages from inside the boundary are ever handled, whatever the
\* cache holds and whichever lookups fail.
THEOREM BoundaryIsHeld == Spec => []BoundaryHeld
  <1>1. IInv => BoundaryHeld
    BY DEF IInv, TypeOK, MessagesOk, BoundaryHeld
  <1> QED BY <1>1, AlwaysIInv, PTL

\* Chasing a stale Disconnect never ends a healthy connection.
THEOREM HealthyConnectionIsKept == Spec => NoChurn
  <1>1. IInv /\ [Next]_vars => [live /\ ~live' => cancelled \/ drops' > drops]_vars
    <2> SUFFICES ASSUME IInv, [Next]_vars, live, ~live', ~cancelled
                 PROVE  drops' > drops
      OBVIOUS
    <2> USE DEF IInv, CallOk, runVars, libVars, msgVars
    <2>1. CASE Run
      BY <2>1 DEF Run, Top, Opened, AlreadyOpen, Refused, ResumeRefused, OpenFailed, Abandon,
                  Retry, WatchCancelled, Woken, Cool, Drain, Join, Close
    <2>2. CASE Reap \/ OpenAnswers \/ Disconnected \/ Age \/ Cancel
      BY <2>2 DEF Reap, OpenAnswers, Disconnected, Age, Cancel
    <2>3. CASE Drop
      BY <2>3, GatewayAssumption DEF Drop, TypeOK
    <2>4. ASSUME NEW l \in Listener, NEW m \in Message, NEW c \in BOOLEAN, NEW f \in BOOLEAN,
                 OnMessageCreate(l, m, c, f)
          PROVE FALSE
      BY <2>4 DEF OnMessageCreate
    <2>5. ASSUME NEW l \in Listener, Gate(l) \/ Handled(l) PROVE FALSE
      BY <2>5 DEF Gate, Handled
    <2>6. CASE Ended \/ UNCHANGED vars
      BY <2>6 DEF Ended, vars
    <2> QED BY <2>1, <2>2, <2>3, <2>4, <2>5, <2>6 DEF Next
  <1> QED BY <1>1, InitIInv, NextIInv, PTL DEF Spec, NoChurn

\* Between two handshakes a backoff is slept or a connection lived out
\* healthyReset, however the announcements are ordered.
THEOREM DialsArePaced == Spec => PacedDials
  <1>1. IInv => [Dial /\ call' # call => hot = "no"]_vars
    BY DEF IInv, PaceOk, Dial
  <1> QED BY <1>1, InitIInv, NextIInv, PTL DEF Spec, PacedDials

=============================================================================
