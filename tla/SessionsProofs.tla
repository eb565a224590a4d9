--------------------------- MODULE SessionsProofs ---------------------------
(***************************************************************************)
(* Sessions for any number of threads, sessions and directories, any turn  *)
(* cap and any number of lost writes and crashes.                          *)
(* At the end, the clock behind its verdicts: SessionClock.                *)
(***************************************************************************)
EXTENDS Sessions, SessionClock, TLAPS

-----------------------------------------------------------------------------
(* Links, as a function R from a row to its successor *)

Links == [Session -> Session \cup {NoSession}]

PredsIn(R, s) == {p \in Session : R[p] = s}

\* S holds every predecessor of its members in F.
Closed(R, F, S) == \A c \in S : c \in F => PredsIn(R, c) \subseteq S

\* The smallest set that holds B and the predecessors of its members in F.
Reach(R, F, B) ==
    {p \in Session :
        \A S \in SUBSET Session : B \subseteq S /\ Closed(R, F, S) => p \in S}

\* Reach is such a set ...
LEMMA ReachClosed ==
    ASSUME NEW R, NEW F, NEW B \in SUBSET Session
    PROVE  /\ Reach(R, F, B) \in SUBSET Session
           /\ B \subseteq Reach(R, F, B)
           /\ Closed(R, F, Reach(R, F, B))
  <1>1. Reach(R, F, B) \in SUBSET Session /\ B \subseteq Reach(R, F, B)
    BY DEF Reach
  <1>2. ASSUME NEW c \in Reach(R, F, B), c \in F, NEW p \in PredsIn(R, c)
        PROVE  p \in Reach(R, F, B)
    <2>1. ASSUME NEW S \in SUBSET Session, B \subseteq S, Closed(R, F, S) PROVE p \in S
      <3>1. c \in S
        BY <2>1, <1>2 DEF Reach
      <3> QED BY <3>1, <2>1, <1>2 DEF Closed
    <2> QED BY <2>1, <1>2 DEF Reach, PredsIn
  <1> QED BY <1>1, <1>2 DEF Closed

\* ... and in every other.
LEMMA ReachLeast ==
    ASSUME NEW R, NEW F, NEW B, NEW S \in SUBSET Session, B \subseteq S, Closed(R, F, S)
    PROVE  Reach(R, F, B) \subseteq S
  BY DEF Reach

\* A new link from s to f, of which neither had one, is met only through f.
LEMMA NewLink ==
    ASSUME NEW R \in Links, NEW s \in Session, NEW f \in Session, s # f,
           R[s] = NoSession, PredsIn(R, f) = {}, NoSession \notin Session
    PROVE  LET R2 == [R EXCEPT ![s] = f] IN
           /\ PredsIn(R2, f) = {s}
           /\ \A c \in Session : c # f => PredsIn(R2, c) = PredsIn(R, c)
  BY DEF Links, PredsIn

\* It leaves every set alone that does not hold f where it counts, or s as
\* a newcomer to F.
LEMMA ReachKept ==
    ASSUME NEW R \in Links, NEW s \in Session, NEW f \in Session, s # f,
           R[s] = NoSession, PredsIn(R, f) = {}, NoSession \notin Session,
           NEW F, NEW F2, NEW B \in SUBSET Session,
           \A c \in Session \ {s, f} : c \in F2 <=> c \in F,
           f \in F2 => f \notin Reach(R, F, B),
           s \in F => s \in F2,
           s \in F2 /\ s \notin F => s \notin Reach(R, F, B)
    PROVE  Reach([R EXCEPT ![s] = f], F2, B) = Reach(R, F, B)
  <1> DEFINE R2 == [R EXCEPT ![s] = f]
             A == Reach(R, F, B)
             A2 == Reach(R2, F2, B)
  <1>1. /\ PredsIn(R2, f) = {s}
        /\ \A c \in Session : c # f => PredsIn(R2, c) = PredsIn(R, c)
    BY NewLink, ZenonT(60)
  <1>2. A \in SUBSET Session /\ B \subseteq A /\ Closed(R, F, A)
    BY ReachClosed
  <1>3. A2 \in SUBSET Session /\ B \subseteq A2 /\ Closed(R2, F2, A2)
    BY ReachClosed
  <1> HIDE DEF R2, A, A2
  <1>4. Closed(R2, F2, A)
    <2> SUFFICES ASSUME NEW c \in A, c \in F2 PROVE PredsIn(R2, c) \subseteq A
      BY DEF Closed
    <2>1. c # f /\ c \in F
      BY <1>2 DEF A
    <2> QED BY <2>1, <1>1, <1>2 DEF Closed
  <1>5. Closed(R, F, A2)
    <2> SUFFICES ASSUME NEW c \in A2, c \in F PROVE PredsIn(R, c) \subseteq A2
      BY DEF Closed
    <2>1. CASE c = f
      BY <2>1
    <2>2. CASE c # f
      <3>1. c \in F2
        BY <2>2, <1>3
      <3> QED BY <3>1, <2>2, <1>1, <1>3 DEF Closed
    <2> QED BY <2>1, <2>2
  <1>6. A2 \subseteq A
    BY <1>2, <1>4, ReachLeast DEF A2
  <1>7. A \subseteq A2
    BY <1>3, <1>5, ReachLeast DEF A
  <1> QED BY <1>6, <1>7 DEF A, A2, R2

\* One step back from a single row.
LEMMA ReachOne ==
    ASSUME NEW R, NEW F, NEW x \in Session
    PROVE  Reach(R, F, {x}) =
               IF x \in F THEN {x} \cup Reach(R, F, PredsIn(R, x)) ELSE {x}
  <1>1. {x} \in SUBSET Session /\ PredsIn(R, x) \in SUBSET Session
    BY DEF PredsIn
  <1> DEFINE A == Reach(R, F, {x})
             P == Reach(R, F, PredsIn(R, x))
  <1>2. A \in SUBSET Session /\ {x} \subseteq A /\ Closed(R, F, A)
    BY <1>1, ReachClosed
  <1>3. P \in SUBSET Session /\ PredsIn(R, x) \subseteq P /\ Closed(R, F, P)
    BY <1>1, ReachClosed
  <1> HIDE DEF A, P
  <1>4. CASE x \notin F
    <2>1. Closed(R, F, {x})
      BY <1>4 DEF Closed
    <2>2. A \subseteq {x}
      BY <2>1, <1>1, ReachLeast DEF A
    <2> QED BY <1>2, <1>4, <2>2 DEF A
  <1>5. CASE x \in F
    <2>1. Closed(R, F, {x} \cup P)
      BY <1>3 DEF Closed
    <2>2. A \subseteq {x} \cup P
      <3>1. {x} \cup P \in SUBSET Session /\ {x} \subseteq {x} \cup P
        BY <1>3
      <3> QED BY <2>1, <3>1, ReachLeast DEF A
    <2>3. PredsIn(R, x) \subseteq A
      BY <1>2, <1>5 DEF Closed
    <2>4. P \subseteq A
      BY <1>2, <2>3, ReachLeast DEF P
    <2> QED BY <1>2, <1>5, <2>2, <2>4 DEF A, P
  <1> QED BY <1>4, <1>5

Failed == {c \in Session : status[c] = "failed"}

\* The walks of the module, in these terms.
WalksOk ==
    \A s \in Session :
        /\ Preds(s) = PredsIn(rotatedTo, s)
        /\ Chain(s) = Reach(rotatedTo, Failed, PredsIn(rotatedTo, s))
        /\ Ancestry(s) = Reach(rotatedTo, Session, {s})

\* They are so.
LEMMA WalksHere == WalksOk
  <1> SUFFICES ASSUME NEW s \in Session PROVE WalksOk!(s)
    BY DEF WalksOk
  <1>1. \A c \in Session : Preds(c) = PredsIn(rotatedTo, c)
    BY DEF Preds, PredsIn
  <1>2. ASSUME NEW S \in SUBSET Session
        PROVE  /\ (\A c \in S : status[c] = "failed" => Preds(c) \subseteq S)
                  <=> Closed(rotatedTo, Failed, S)
               /\ (\A c \in S : Preds(c) \subseteq S) <=> Closed(rotatedTo, Session, S)
    BY <1>1 DEF Closed, Failed
  <1>3. Chain(s) = Reach(rotatedTo, Failed, PredsIn(rotatedTo, s))
    <2>1. \A S \in SUBSET Session :
              Preds(s) \subseteq S <=> PredsIn(rotatedTo, s) \subseteq S
      BY <1>1
    <2> QED BY <2>1, <1>2 DEF Chain, Reach
  <1>4. Ancestry(s) = Reach(rotatedTo, Session, {s})
    <2>1. \A S \in SUBSET Session : s \in S <=> {s} \subseteq S
      OBVIOUS
    <2> QED BY <2>1, <1>2 DEF Ancestry, Reach
  <1> QED BY <1>1, <1>3, <1>4

\* And after a step.
LEMMA WalksThen == WalksOk'
  BY WalksHere, PTL

-----------------------------------------------------------------------------
(* The inductive invariant *)

Counters ==
    /\ turns \in [Session -> Nat]
    /\ ran \in [Session -> Nat]
    /\ lost \in [Session -> Nat]
    /\ orphaned \in [Session -> Nat]

Flags ==
    /\ late \in [Session -> BOOLEAN]
    /\ idle \in [Session -> BOOLEAN]
    /\ asked \in [Thread -> BOOLEAN]
    /\ note \in [Thread -> BOOLEAN]
    /\ said \in [Thread -> BOOLEAN]

Shapes ==
    /\ status \in [Session -> Statuses]
    /\ threadOf \in [Session -> Thread \cup {NoThread}]
    /\ cwd \in [Session -> Dir \cup {NoDir}]
    /\ rotatedTo \in [Session -> Session \cup {NoSession}]
    /\ dirs \in SUBSET Dir
    /\ home \in Dir
    /\ at \in [Thread -> Places]
    /\ id \in [Thread -> Session \cup {NoSession}]

\* A row belongs to a thread once it is minted; the links go from retired
\* rows to rows that exist.
RowsOk ==
    \A s \in Session :
        /\ status[s] = "unminted" <=> threadOf[s] = NoThread
        /\ status[s] \in Live \cup {"unminted"} => rotatedTo[s] = NoSession
        /\ \A p \in Session : rotatedTo[p] = s => status[s] # "unminted"

\* one_live_session.
OneLive ==
    \A s1, s2 \in Session :
        /\ threadOf[s1] = threadOf[s2]
        /\ status[s1] \in Live /\ status[s2] \in Live
        => s1 = s2

\* A call holds its thread's live row, in the status its place needs.
CallOk ==
    \A t \in Thread :
        /\ at[t] \in NoCall => id[t] = NoSession
        /\ at[t] \notin NoCall =>
            /\ id[t] \in Session /\ threadOf[id[t]] = t
            /\ status[id[t]] \in Live
        /\ at[t] \in {"first", "starting", "ran"} => status[id[t]] = "creating"
        /\ at[t] \in {"resume", "resuming", "touch", "degrade"} => status[id[t]] = "active"
        /\ at[t] \in {"resume", "resuming", "touch"} => turns[id[t]] < TurnCap

Owing == {"ran", "touch"}

Pending(s) == \E t \in Thread : at[t] \in Owing /\ id[t] = s

\* Every answered turn is in the table, lost, never activated, or about to
\* be written; before its activation a row has nothing to its name.
CountOk ==
    \A s \in Session :
        /\ ran[s] = turns[s] + lost[s] + orphaned[s] + (IF Pending(s) THEN 1 ELSE 0)
        /\ turns[s] <= TurnCap
        /\ status[s] \in {"creating", "unminted"} => turns[s] = 0 /\ lost[s] = 0
        /\ status[s] = "active" => ran[s] > orphaned[s]

IInv == Shapes /\ Flags /\ Counters /\ RowsOk /\ OneLive /\ CallOk /\ CountOk

\* An empty table and no call.
LEMMA InitIInv == Init => IInv
  <1> SUFFICES ASSUME Init PROVE IInv
    OBVIOUS
  <1>1. Shapes
    BY DEF Init, Shapes, Statuses, Places
  <1>2. Flags
    BY DEF Init, Flags
  <1>3. Counters
    BY DEF Init, Counters
  <1>4. RowsOk /\ OneLive /\ CallOk
    BY SessionsAssumption DEF Init, RowsOk, OneLive, CallOk, Live, NoCall
  <1>5. \A s \in Session : ~Pending(s)
    BY DEF Init, Pending, Owing
  <1>6. CountOk
    BY <1>5, SessionsAssumption DEF Init, CountOk
  <1> QED BY <1>1, <1>2, <1>3, <1>4, <1>6 DEF IInv

\* What Goto needs to know of the row it goes on with.
Fits(t, place, s) ==
    /\ place \in NoCall => s = NoSession
    /\ place \notin NoCall =>
        s \in Session /\ threadOf[s] = t /\ status[s] \in Live
    /\ place \in {"first", "starting", "ran"} => status[s] = "creating"
    /\ place \in {"resume", "resuming", "degrade"} => status[s] = "active"
    /\ place \in {"resume", "resuming"} => turns[s] < TurnCap

\* A step of a call that writes nothing.
LEMMA MoveIInv ==
    ASSUME IInv, NEW t \in Thread, NEW place \in Places \ Owing,
           NEW s \in Session \cup {NoSession}, NEW n \in BOOLEAN,
           Goto(t, place, s, n), Fits(t, place, s), at[t] \notin Owing,
           UNCHANGED <<rowVars, world, history>>
    PROVE  IInv'
  <1> USE DEF IInv, rowVars, world, history, Goto
  <1>1. Shapes'
    BY DEF Shapes
  <1>2. Flags'
    BY DEF Flags
  <1>3. Counters' /\ RowsOk' /\ OneLive'
    BY DEF Counters, RowsOk, OneLive
  <1>4. CallOk'
    BY DEF CallOk, Fits, Shapes, NoCall, Owing
  <1>5. \A x \in Session : Pending(x)' <=> Pending(x)
    BY DEF Pending, Owing, Shapes
  <1>6. CountOk'
    BY <1>5 DEF CountOk
  <1> QED BY <1>1, <1>2, <1>3, <1>4, <1>6

\* A call that ends.
LEMMA LeaveIInv ==
    ASSUME IInv, NEW t \in Thread, Leave(t) \/ Cut(t), at[t] \notin Owing,
           UNCHANGED <<rowVars, world, history>>
    PROVE  IInv'
  <1>1. Fits(t, "none", NoSession) /\ Fits(t, "cut", NoSession)
    BY DEF Fits, NoCall
  <1>2. "none" \in Places \ Owing /\ "cut" \in Places \ Owing
    BY DEF Places, Owing
  <1> QED BY <1>1, <1>2, MoveIInv DEF Leave, Cut

\* A row is born: nothing else of the table changes, but for the row it
\* succeeds.
LEMMA RetireIInv ==
    ASSUME IInv, NEW t \in Thread, NEW s \in Session, NEW f \in Session, NEW d \in Dir,
           NEW from \in Live, NEW to \in {"rotated", "resume_failed", "failed"},
           RetireSession(s, from, to, f, t, d),
           at[t] \notin Owing,
           \/ at[t] \in NoCall /\ UNCHANGED callVars
           \/ \E place \in {"ensured", "first"}, n \in BOOLEAN : Goto(t, place, f, n),
           UNCHANGED <<world, history>>
    PROVE  IInv'
  <1> USE DEF IInv, RetireSession, world, history, Goto, callVars
  <1>1. s # f
    BY DEF Live
  <1>2. Shapes'
    BY DEF Shapes, Statuses, Places
  <1>3. Flags'
    BY DEF Flags
  <1>4. Counters'
    BY DEF Counters
  <1>5. RowsOk'
    BY <1>1, SessionsAssumption DEF RowsOk, Shapes, Live
  <1>6. OneLive'
    <2>1. \A x \in Session : threadOf[x] = t /\ status[x] \in Live => x = s
      BY DEF ResolveLiveSession
    <2> QED BY <1>1, <2>1, SessionsAssumption DEF OneLive, RowsOk, Shapes, Live
  <1>7. CallOk'
    <2> SUFFICES ASSUME NEW u \in Thread PROVE CallOk!(u)'
      BY DEF CallOk
    <2> QED BY <1>1, SessionsAssumption DEF CallOk, RowsOk, Shapes, Live, NoCall
  <1>8. \A x \in Session : Pending(x)' <=> Pending(x)
    BY DEF Pending, Owing, Shapes
  <1>9. CountOk'
    BY <1>1, <1>8 DEF CountOk, Shapes, Counters, Live
  <1> QED BY <1>2, <1>3, <1>4, <1>5, <1>6, <1>7, <1>9

LEMMA InsertIInv ==
    ASSUME IInv, NEW t \in Thread, NEW f \in Session, NEW d \in Dir,
           InsertSession(f, t, d), at[t] \notin Owing, Goto(t, "ensured", f, FALSE),
           UNCHANGED <<world, history>>
    PROVE  IInv'
  <1> USE DEF IInv, InsertSession, world, history, Goto
  <1>2. Shapes'
    BY DEF Shapes, Statuses, Places
  <1>3. Flags'
    BY DEF Flags
  <1>4. Counters'
    BY DEF Counters
  <1>5. RowsOk'
    BY SessionsAssumption DEF RowsOk, Shapes, Live
  <1>6. OneLive'
    <2>1. \A x \in Session : ~(threadOf[x] = t /\ status[x] \in Live)
      BY DEF ResolveLiveSession
    <2> QED BY <2>1, SessionsAssumption DEF OneLive, RowsOk, Shapes, Live
  <1>7. CallOk'
    <2> SUFFICES ASSUME NEW u \in Thread PROVE CallOk!(u)'
      BY DEF CallOk
    <2> QED BY SessionsAssumption DEF CallOk, RowsOk, Shapes, Live, NoCall
  <1>8. \A x \in Session : Pending(x)' <=> Pending(x)
    BY DEF Pending, Owing, Shapes
  <1>9. CountOk'
    BY <1>8 DEF CountOk, Shapes, Counters, Live
  <1> QED BY <1>2, <1>3, <1>4, <1>5, <1>6, <1>7, <1>9

\* The bookkeeping of an answered turn: opened, activated, written or lost.
LEMMA CountIInv ==
    ASSUME IInv, NEW t \in Thread,
           \/ EngineStarted(t) \/ EngineResumed(t) \/ ActivateSession(t)
           \/ Touch(t) \/ TouchFails(t) \/ LateFirstTurn(t) \/ ActivationFails(t)
    PROVE  IInv'
  <1>0. id[t] \in Session /\ threadOf[id[t]] = t /\ status[id[t]] \in Live
    BY DEF IInv, CallOk, ActivateSession, EngineStarted, EngineResumed, Touch, TouchFails,
           LateFirstTurn, ActivationFails, NoCall
  <1>1. PICK s \in Session : s = id[t] /\ threadOf[s] = t /\ status[s] \in Live
    BY <1>0
  <1>2. \A u \in Thread : at[u] \notin NoCall /\ u # t => id[u] # s
    BY <1>1 DEF IInv, CallOk
  <1>n. \A x \in Session : turns[x] \in Nat /\ lost[x] \in Nat /\ ran[x] \in Nat /\ orphaned[x] \in Nat
    BY DEF IInv, Counters
  <1> USE DEF IInv, rowVars, world, history, Goto, Leave, Cut
  <1>3. CASE ActivateSession(t)
    <2> USE <1>3 DEF ActivateSession
    <2>1. Shapes'
      BY DEF Shapes, Statuses, Places
    <2>2. Flags'
      BY DEF Flags
    <2>3. Counters'
      BY DEF Counters
    <2>4. RowsOk' /\ OneLive'
      BY <1>1 DEF RowsOk, OneLive, Shapes, Live
    <2>5. turns[s] = 0 /\ lost[s] = 0 /\ turns[s] < TurnCap
      BY <1>1, SessionsAssumption DEF CountOk
    <2>6. CallOk'
      BY <1>1, <1>2, <2>5 DEF CallOk, Shapes, NoCall, Live
    <2>7. \A x \in Session : Pending(x)' <=> Pending(x)
      BY <1>1 DEF Pending, Owing, Shapes
    <2>8. Pending(s)
      BY <1>1 DEF Pending, Owing
    <2>9. CountOk'
      <3>1. ran[s] = orphaned[s] + 1
        BY <1>1, <1>n, <2>5, <2>8 DEF CountOk
      <3> QED BY <1>1, <1>n, <2>7, <3>1 DEF CountOk, Shapes
    <2> QED BY <2>1, <2>2, <2>3, <2>4, <2>6, <2>9
  <1>4. CASE EngineStarted(t) \/ EngineResumed(t)
    <2>0. /\ at[t] \in {"starting", "resuming"}
          /\ ran' = [ran EXCEPT ![s] = @ + 1]
          /\ UNCHANGED <<rowVars, world, lost, orphaned, said>>
          /\ \/ at[t] = "starting" /\ Goto(t, "ran", s, note[t])
             \/ at[t] = "resuming" /\ Goto(t, "touch", s, FALSE)
      BY <1>1, <1>4 DEF EngineStarted, EngineResumed
    <2>1. Shapes'
      BY <1>1, <2>0 DEF Shapes, Places
    <2>2. Flags'
      BY <2>0 DEF Flags
    <2>3. Counters'
      BY <2>0 DEF Counters
    <2>4. RowsOk' /\ OneLive'
      BY <2>0 DEF RowsOk, OneLive
    <2>6. CallOk'
      BY <1>1, <1>2, <2>0 DEF CallOk, Shapes, NoCall, Live
    <2>7. \A x \in Session : Pending(x)' <=> Pending(x) \/ x = s
      BY <1>1, <2>0 DEF Pending, Owing, Shapes
    <2>8. ~Pending(s)
      BY <1>2, <2>0 DEF Pending, Owing, NoCall
    <2>9. CountOk'
      <3> SUFFICES ASSUME NEW x \in Session PROVE CountOk!(x)'
        BY DEF CountOk
      <3>1. CASE x = s
        <4>1. ran'[s] = ran[s] + 1 /\ UNCHANGED <<turns, lost, orphaned, status>>
          BY <2>0 DEF Counters
        <4> QED BY <1>n, <2>7, <2>8, <3>1, <4>1 DEF CountOk
      <3>2. CASE x # s
        <4>1. ran'[x] = ran[x] /\ UNCHANGED <<turns, lost, orphaned, status>>
          BY <2>0, <3>2 DEF Counters
        <4> QED BY <2>7, <3>2, <4>1 DEF CountOk
      <3> QED BY <3>1, <3>2
    <2> QED BY <2>1, <2>2, <2>3, <2>4, <2>6, <2>9
  <1>5. CASE Touch(t) \/ TouchFails(t)
    <2>1. Shapes'
      BY <1>5 DEF Shapes, Places, Touch, TouchFails
    <2>2. Flags'
      BY <1>5 DEF Flags, Touch, TouchFails
    <2>3. Counters' /\ RowsOk' /\ OneLive'
      BY <1>5 DEF Counters, RowsOk, OneLive, Touch, TouchFails
    <2>4. turns[s] < TurnCap /\ Pending(s) /\ status[s] = "active"
      BY <1>1, <1>5 DEF CallOk, Touch, TouchFails, Pending, Owing
    <2>5. \A u \in Thread : u # t => at'[u] = at[u] /\ id'[u] = id[u]
      BY <1>5 DEF Touch, TouchFails, Shapes
    <2>6. CallOk'
      BY <1>1, <1>2, <1>5, <2>5 DEF CallOk, Shapes, Counters, NoCall, Touch, TouchFails
    <2>7. \A x \in Session : Pending(x)' <=> Pending(x) /\ x # s
      BY <1>1, <1>2, <1>5, <2>5 DEF Pending, Owing, Shapes, Touch, TouchFails, NoCall
    <2>8. CountOk'
      <3>1. CASE Touch(t)
        <4> SUFFICES ASSUME NEW x \in Session PROVE CountOk!(x)'
          BY DEF CountOk
        <4>1. CASE x = s
          <5>1. turns'[s] = turns[s] + 1 /\ UNCHANGED <<ran, lost, orphaned, status>>
            BY <1>1, <3>1 DEF Counters, Touch
          <5> QED BY <1>n, <2>4, <2>7, <4>1, <5>1, SessionsAssumption DEF CountOk
        <4>2. CASE x # s
          BY <1>1, <2>7, <3>1, <4>2 DEF CountOk, Counters, Touch
        <4> QED BY <4>1, <4>2
      <3>2. CASE TouchFails(t)
        <4> SUFFICES ASSUME NEW x \in Session PROVE CountOk!(x)'
          BY DEF CountOk
        <4>1. CASE x = s
          <5>1. lost'[s] = lost[s] + 1 /\ UNCHANGED <<ran, turns, orphaned, status>>
            BY <1>1, <3>2 DEF Counters, TouchFails
          <5> QED BY <1>n, <2>4, <2>7, <4>1, <5>1 DEF CountOk
        <4>2. CASE x # s
          BY <1>1, <2>7, <3>2, <4>2 DEF CountOk, Counters, TouchFails
        <4> QED BY <4>1, <4>2
      <3> QED BY <1>5, <3>1, <3>2
    <2> QED BY <2>1, <2>2, <2>3, <2>6, <2>8
  <1>6. CASE LateFirstTurn(t) \/ ActivationFails(t)
    <2>0. /\ at[t] = "ran"
          /\ orphaned' = [orphaned EXCEPT ![s] = @ + 1]
          /\ UNCHANGED <<rowVars, world, ran, lost, said>>
          /\ \E place \in NoCall : Goto(t, place, NoSession, FALSE)
      BY <1>1, <1>6 DEF LateFirstTurn, ActivationFails, NoCall
    <2>1. Shapes'
      BY <2>0 DEF Shapes, Places, NoCall
    <2>2. Flags'
      BY <2>0 DEF Flags
    <2>3. Counters' /\ RowsOk' /\ OneLive'
      BY <2>0 DEF Counters, RowsOk, OneLive
    <2>4. Pending(s) /\ status[s] = "creating"
      BY <1>1, <2>0 DEF CallOk, Pending, Owing
    <2>6. CallOk'
      BY <1>1, <1>2, <2>0 DEF CallOk, Shapes, NoCall
    <2>7. \A x \in Session : Pending(x)' <=> Pending(x) /\ x # s
      <3>1. at'[t] \in NoCall /\ \A u \in Thread : u # t => at'[u] = at[u] /\ id'[u] = id[u]
        BY <2>0 DEF Shapes
      <3> QED BY <1>1, <1>2, <2>0, <3>1 DEF Pending, Owing, NoCall
    <2>8. CountOk'
      <3> SUFFICES ASSUME NEW x \in Session PROVE CountOk!(x)'
        BY DEF CountOk
      <3>1. CASE x = s
        <4>1. orphaned'[s] = orphaned[s] + 1 /\ UNCHANGED <<turns, lost, ran, status>>
          BY <2>0 DEF Counters
        <4> QED BY <1>n, <2>4, <2>7, <3>1, <4>1 DEF CountOk
      <3>2. CASE x # s
        <4>1. orphaned'[x] = orphaned[x] /\ UNCHANGED <<turns, lost, ran, status>>
          BY <2>0, <3>2 DEF Counters
        <4> QED BY <2>7, <3>2, <4>1 DEF CountOk
      <3> QED BY <3>1, <3>2
    <2> QED BY <2>1, <2>2, <2>3, <2>6, <2>8
  <1> QED BY <1>3, <1>4, <1>5, <1>6

\* A crash loses the calls, and the bookkeeping they had not written.
LEMMA CrashIInv == IInv /\ Crash => IInv'
  <1> SUFFICES ASSUME IInv, Crash PROVE IInv'
    OBVIOUS
  <1> USE DEF IInv, Crash, rowVars
  <1>1. Shapes'
    BY DEF Shapes, Places, NoCall
  <1>2. Flags'
    BY DEF Flags
  <1>3. Counters' /\ RowsOk' /\ OneLive'
    BY DEF Counters, RowsOk, OneLive
  <1>4. CallOk'
    BY DEF CallOk, NoCall
  <1>5. \A x \in Session : ~Pending(x)'
    BY SessionsAssumption DEF Pending
  <1>6. CountOk'
    <2> SUFFICES ASSUME NEW x \in Session PROVE CountOk!(x)'
      BY DEF CountOk
    <2> DEFINE Ran == \E t \in Thread : at[t] = "ran" /\ id[t] = x
               Touching == \E t \in Thread : at[t] = "touch" /\ id[t] = x
    <2>1. /\ lost'[x] = IF Touching THEN lost[x] + 1 ELSE lost[x]
          /\ orphaned'[x] = IF Ran THEN orphaned[x] + 1 ELSE orphaned[x]
      OBVIOUS
    <2>2. /\ Pending(x) <=> Ran \/ Touching
          /\ Ran => status[x] = "creating"
          /\ Touching => status[x] = "active"
      BY DEF Pending, Owing, CallOk
    <2>3. turns[x] \in Nat /\ lost[x] \in Nat /\ ran[x] \in Nat /\ orphaned[x] \in Nat
      BY DEF Counters
    <2>4. UNCHANGED <<turns, ran, status>> /\ ~Pending(x)'
      BY <1>5
    <2> HIDE DEF Ran, Touching, Crash
    <2> QED BY <2>1, <2>2, <2>3, <2>4 DEF CountOk
  <1> QED BY <1>1, <1>2, <1>3, <1>4, <1>6

\* The world's steps touch no row's lineage and no call.
LEMMA WorldIInv ==
    ASSUME IInv,
           UNCHANGED <<status, threadOf, cwd, rotatedTo, turns, callVars, history>>,
           late' \in [Session -> BOOLEAN], idle' \in [Session -> BOOLEAN],
           dirs' \in SUBSET Dir, home' = home, asked' \in [Thread -> BOOLEAN]
    PROVE  IInv'
  <1> USE DEF IInv, callVars, history
  <1>1. Shapes' /\ Counters' /\ RowsOk' /\ OneLive' /\ CallOk'
    BY DEF Shapes, Counters, RowsOk, OneLive, CallOk
  <1>2. Flags'
    BY DEF Flags
  <1>3. \A x \in Session : Pending(x)' <=> Pending(x)
    BY DEF Pending
  <1>4. CountOk'
    BY <1>3 DEF CountOk
  <1> QED BY <1>1, <1>2, <1>4

\* A fresh id is a session.
LEMMA Fresh == NewSessionID \subseteq Session
  BY DEF NewSessionID

\* The steps of a call that write nothing.
LEMMA QuietIInv ==
    ASSUME IInv, NEW t \in Thread,
           \/ EnsureLive(t) \/ RotateDueCwdGone(t) \/ OweFirstTurn(t) \/ OweResume(t)
           \/ StartNew(t) \/ Resume(t)
           \/ EngineResumeFailed(t) \/ EngineFails(t) \/ StoreFails(t)
    PROVE  IInv'
  <1>1. CASE EnsureLive(t)
    <2>1. PICK s \in ResolveLiveSession(t) : Goto(t, "ensured", s, FALSE)
      BY <1>1 DEF EnsureLive
    <2>2. s \in Session /\ Fits(t, "ensured", s) /\ "ensured" \in Places \ Owing
      BY <2>1 DEF ResolveLiveSession, Fits, NoCall, Places, Owing
    <2>3. at[t] \notin Owing /\ UNCHANGED <<rowVars, world, history>>
      BY <1>1 DEF EnsureLive, NoCall, Owing
    <2> QED BY <2>1, <2>2, <2>3, MoveIInv
  <1>2. CASE RotateDueCwdGone(t) \/ EngineResumeFailed(t)
    <2>1. Goto(t, "degrade", id[t], FALSE) /\ at[t] \notin Owing /\ UNCHANGED <<rowVars, world, history>>
      BY <1>2 DEF RotateDueCwdGone, EngineResumeFailed, Owing
    <2>2. id[t] \in Session /\ Fits(t, "degrade", id[t]) /\ "degrade" \in Places \ Owing
      BY <1>2 DEF RotateDueCwdGone, EngineResumeFailed, IInv, CallOk, Fits, NoCall, Places, Owing
    <2> QED BY <2>1, <2>2, MoveIInv
  <1>3. CASE OweFirstTurn(t)
    <2>1. Goto(t, "first", id[t], SessionDegraded(id[t])) /\ at[t] \notin Owing
          /\ UNCHANGED <<rowVars, world, history>>
      BY <1>3 DEF OweFirstTurn, Owing
    <2>2. id[t] \in Session /\ Fits(t, "first", id[t]) /\ "first" \in Places \ Owing
      BY <1>3 DEF OweFirstTurn, IInv, CallOk, Fits, NoCall, Places, Owing
    <2>3. SessionDegraded(id[t]) \in BOOLEAN
      BY DEF SessionDegraded
    <2> QED BY <2>1, <2>2, <2>3, MoveIInv
  <1>4. CASE OweResume(t)
    <2>1. Goto(t, "resume", id[t], FALSE) /\ at[t] \notin Owing /\ UNCHANGED <<rowVars, world, history>>
      BY <1>4 DEF OweResume, Owing
    <2>2. id[t] \in Session
      BY <1>4 DEF OweResume, IInv, CallOk, NoCall, Owing
    <2>3. turns[id[t]] < TurnCap
      BY <1>4, <2>2, SessionsAssumption DEF OweResume, RotationDue, IInv, Counters
    <2>4. Fits(t, "resume", id[t]) /\ "resume" \in Places \ Owing
      BY <1>4, <2>2, <2>3 DEF OweResume, IInv, CallOk, Fits, NoCall, Places, Owing
    <2> QED BY <2>1, <2>2, <2>4, MoveIInv
  <1>5. CASE StartNew(t)
    <2>1. at[t] \notin Owing /\ UNCHANGED <<rowVars, world, history>>
      BY <1>5 DEF StartNew, Owing
    <2>2. Leave(t) \/ Goto(t, "starting", id[t], note[t])
      BY <1>5 DEF StartNew
    <2>3. Fits(t, "starting", id[t]) /\ "starting" \in Places \ Owing
      BY <1>5 DEF StartNew, IInv, CallOk, Fits, NoCall, Places, Owing
    <2>4. id[t] \in Session /\ note[t] \in BOOLEAN
      BY <1>5 DEF StartNew, IInv, CallOk, NoCall, Flags
    <2> QED BY <2>1, <2>2, <2>3, <2>4, LeaveIInv, MoveIInv
  <1>6. CASE Resume(t)
    <2>1. at[t] \notin Owing /\ UNCHANGED <<rowVars, world, history>>
      BY <1>6 DEF Resume, Owing
    <2>2. \/ Leave(t)
          \/ \E place \in {"resuming", "degrade"} : Goto(t, place, id[t], FALSE)
      BY <1>6 DEF Resume, Owing
    <2>3. id[t] \in Session /\ \A place \in {"resuming", "degrade"} :
              Fits(t, place, id[t]) /\ place \in Places \ Owing
      BY <1>6 DEF Resume, IInv, CallOk, Fits, NoCall, Places, Owing
    <2> QED BY <2>1, <2>2, <2>3, LeaveIInv, MoveIInv
  <1>7. CASE EngineFails(t) \/ StoreFails(t)
    BY <1>7, LeaveIInv DEF EngineFails, StoreFails, Owing
  <1> QED BY <1>1, <1>2, <1>3, <1>4, <1>5, <1>6, <1>7

\* The steps that mint a row.
LEMMA MintIInv ==
    ASSUME IInv, NEW t \in Thread,
           EnsureExpired(t) \/ EnsurePin(t) \/ RotateDue(t) \/ DegradeResumeFailed(t) \/ RotateNow(t)
    PROVE  IInv'
  <1>1. home \in Dir /\ dirs \subseteq Dir
    BY DEF IInv, Shapes
  <1>2. "creating" \in Live /\ "active" \in Live
    BY DEF Live
  <1>3. at[t] \notin NoCall => id[t] \in Session
    BY DEF IInv, CallOk
  <1>4. CASE EnsureExpired(t)
    BY <1>1, <1>2, <1>4, Fresh, RetireIInv
       DEF EnsureExpired, ExpireSession, ResolveLiveSession, NoCall, Owing
  <1>5. CASE EnsurePin(t)
    BY <1>1, <1>5, Fresh, InsertIInv DEF EnsurePin, NoCall, Owing
  <1>6. CASE RotateDue(t)
    BY <1>1, <1>2, <1>3, <1>6, Fresh, RetireIInv DEF RotateDue, RotateSession, NoCall, Owing
  <1>7. CASE DegradeResumeFailed(t)
    BY <1>1, <1>2, <1>3, <1>7, Fresh, RetireIInv
       DEF DegradeResumeFailed, ResumeFailSession, NoCall, Owing
  <1>8. CASE RotateNow(t)
    BY <1>1, <1>2, <1>8, Fresh, RetireIInv DEF RotateNow, RotateSession, ResolveLiveSession, NoCall, Owing
  <1> QED BY <1>4, <1>5, <1>6, <1>7, <1>8

\* Every step keeps the inductive invariant.
LEMMA NextIInv == IInv /\ [Next]_vars => IInv'
  <1> SUFFICES ASSUME IInv, [Next]_vars PROVE IInv'
    OBVIOUS
  <1>0. Flags /\ dirs \in SUBSET Dir
    BY DEF IInv, Shapes
  <1>1. ASSUME NEW t \in Thread, Turn(t) PROVE IInv'
    BY <1>1, QuietIInv, MintIInv, CountIInv DEF Turn
  <1>2. ASSUME NEW t \in Thread, RotateNow(t) PROVE IInv'
    BY <1>2, MintIInv
  <1>3. ASSUME NEW t \in Thread, Dispatch(t) \/ GiveUp(t) PROVE IInv'
    BY <1>0, <1>3, WorldIInv DEF Dispatch, GiveUp, rowVars, Flags
  <1>4. ASSUME NEW s \in Session, DeadlinePasses(s) \/ IdlePasses(s) PROVE IInv'
    BY <1>0, <1>4, WorldIInv DEF DeadlinePasses, IdlePasses, world, Flags
  <1>5. ASSUME NEW d \in Dir, DirMoves(d) PROVE IInv'
    BY <1>0, <1>5, WorldIInv DEF DirMoves, rowVars, Flags
  <1>6. CASE Crash
    BY <1>6, CrashIInv
  <1>7. CASE UNCHANGED vars
    BY <1>0, <1>7, WorldIInv DEF vars, rowVars, world, Flags
  <1> QED BY <1>1, <1>2, <1>3, <1>4, <1>5, <1>6, <1>7 DEF Next

-----------------------------------------------------------------------------
(* The table, the caps and the calls *)

LEMMA AlwaysIInv == Spec => []IInv
  BY InitIInv, NextIInv, PTL DEF Spec

\* For any number of threads and sessions, and however many calls fail, are
\* cut or lose their bookkeeping, a session outlives its turn cap by no more
\* than the TouchSession writes and the activations that were lost.
THEOREM CapHolds == Spec => [](TypeOK /\ CapOutlivedOnlyByLostTouches)
  <1>1. IInv => TypeOK
    BY DEF IInv, TypeOK, Shapes, Flags, Counters
  <1>2. IInv => CapOutlivedOnlyByLostTouches
    <2> SUFFICES ASSUME IInv, NEW s \in Session 
                 PROVE  ran[s] <= TurnCap + lost[s] + orphaned[s]
      BY DEF CapOutlivedOnlyByLostTouches
    <2>1. Pending(s) => turns[s] < TurnCap
      BY SessionsAssumption DEF IInv, CallOk, CountOk, Pending, Owing, NoCall
    <2> QED BY <2>1, SessionsAssumption DEF IInv, CountOk, Counters
  <1> QED BY <1>1, <1>2, AlwaysIInv, PTL

\* The engine is told to start a session only while all that was answered
\* on it are first turns whose activation was lost, and to resume it only
\* once something else was, whichever earlier attempts failed or were cut.
THEOREM EngineIsToldRight == Spec => []StartThenResume
  <1>1. IInv => StartThenResume
    <2> SUFFICES ASSUME IInv, NEW t \in Thread PROVE StartThenResume!(t)
      BY DEF StartThenResume
    <2>1. CASE at[t] = "starting"
      <3>1. PICK s \in Session : s = id[t] /\ threadOf[s] = t /\ status[s] = "creating"
        BY <2>1 DEF IInv, CallOk, NoCall
      <3>2. ~Pending(s)
        BY <2>1, <3>1 DEF IInv, CallOk, NoCall, Pending, Owing
      <3> QED BY <2>1, <3>1, <3>2 DEF IInv, CountOk, Counters
    <2>2. CASE at[t] = "resuming"
      BY <2>2 DEF IInv, CallOk, CountOk, NoCall
    <2> QED BY <2>1, <2>2
  <1> QED BY <1>1, AlwaysIInv, PTL

\* What a step may do to the table: nothing, a first row, a succession, an
\* activation, or the bookkeeping of a live row.
TableStep ==
    \/ UNCHANGED <<status, threadOf, cwd, rotatedTo, said>>
       /\ \A s \in Session : status[s] \notin Live => turns'[s] = turns[s]
    \/ \E t \in Thread, f \in Session :
           InsertSession(f, t, home) /\ UNCHANGED said
    \/ \E t \in Thread, s \in Session, f \in Session, d \in Dir :
           /\ \/ RetireSession(s, "creating", "failed", f, t, d)
              \/ RetireSession(s, "active", "rotated", f, t, d)
              \/ RetireSession(s, "active", "resume_failed", f, t, d)
           /\ UNCHANGED said
    \/ \E t \in Thread : ActivateSession(t) /\ id[t] \in Session /\ threadOf[id[t]] = t

\* Every step is one of these.
LEMMA StepsOfTable == IInv /\ [Next]_vars => TableStep
  <1> SUFFICES ASSUME IInv, [Next]_vars PROVE TableStep
    OBVIOUS
  <1>1. ASSUME NEW t \in Thread, Turn(t) \/ RotateNow(t) PROVE TableStep
    <2>0. at[t] \notin NoCall => id[t] \in Session /\ threadOf[id[t]] = t
      BY DEF IInv, CallOk
    <2>1. CASE \/ EnsureLive(t) \/ RotateDueCwdGone(t) \/ OweFirstTurn(t) \/ OweResume(t)
               \/ StartNew(t) \/ Resume(t) \/ EngineResumeFailed(t) \/ EngineFails(t) \/ StoreFails(t)
      <3>1. UNCHANGED <<rowVars, world, history>>
        BY <2>1 DEF EnsureLive, RotateDueCwdGone, OweFirstTurn, OweResume, StartNew, Resume,
                    EngineResumeFailed, EngineFails, StoreFails
      <3> QED BY <3>1 DEF TableStep, rowVars, history
    <2>2. CASE \/ EngineStarted(t) \/ EngineResumed(t) \/ TouchFails(t)
               \/ LateFirstTurn(t) \/ ActivationFails(t)
      BY <2>2 DEF TableStep, EngineStarted, EngineResumed, TouchFails, LateFirstTurn,
                  ActivationFails, rowVars
    <2>3. CASE Touch(t)
      <3>1. status[id[t]] \in Live
        BY <2>3 DEF Touch, IInv, CallOk, NoCall
      <3> QED BY <2>3, <3>1 DEF TableStep, Touch, history, IInv, Counters
    <2>4. CASE ActivateSession(t)
      BY <2>0, <2>4 DEF TableStep, ActivateSession, NoCall
    <2>5. CASE EnsurePin(t)
      BY <2>5, Fresh DEF TableStep, EnsurePin, history
    <2>6. CASE EnsureExpired(t)
      <3>1. home \in Dir
        BY DEF IInv, Shapes
      <3> QED BY <2>6, <3>1, Fresh
              DEF TableStep, EnsureExpired, ExpireSession, ResolveLiveSession, history
    <2>7. CASE RotateDue(t)
      <3>1. cwd[id[t]] \in Dir /\ id[t] \in Session
        BY <2>0, <2>7 DEF IInv, Shapes, RotateDue, NoCall
      <3> QED BY <2>7, <3>1, Fresh DEF TableStep, RotateDue, RotateSession, history
    <2>8. CASE DegradeResumeFailed(t)
      <3>1. home \in Dir /\ id[t] \in Session
        BY <2>0, <2>8 DEF IInv, Shapes, DegradeResumeFailed, NoCall
      <3> QED BY <2>8, <3>1, Fresh
              DEF TableStep, DegradeResumeFailed, ResumeFailSession, history
    <2>9. CASE RotateNow(t)
      <3>1. dirs \subseteq Dir
        BY DEF IInv, Shapes
      <3> QED BY <2>9, <3>1, Fresh
              DEF TableStep, RotateNow, RotateSession, ResolveLiveSession, history
    <2> QED BY <1>1, <2>1, <2>2, <2>3, <2>4, <2>5, <2>6, <2>7, <2>8, <2>9 DEF Turn
  <1>2. CASE Next /\ ~\E t \in Thread : Turn(t) \/ RotateNow(t)
    BY <1>2 DEF Next, Dispatch, GiveUp, DeadlinePasses, IdlePasses, DirMoves, Crash, TableStep,
                rowVars, history
  <1>3. CASE UNCHANGED vars
    BY <1>3 DEF vars, rowVars, history, TableStep
  <1> QED BY <1>1, <1>2, <1>3

\* A retired row is never written again, however late a turn that was
\* under way comes back.
THEOREM HistoryIsKept == Spec => RetiredIsHistory
  <1>1. IInv /\ TableStep =>
            \A s \in Session : status[s] \notin Live \cup {"unminted"} =>
                /\ status'[s] = status[s] /\ rotatedTo'[s] = rotatedTo[s]
                /\ turns'[s] = turns[s] /\ cwd'[s] = cwd[s]
    <2> SUFFICES ASSUME IInv, TableStep, NEW x \in Session, status[x] \notin Live \cup {"unminted"}
                 PROVE  /\ status'[x] = status[x] /\ rotatedTo'[x] = rotatedTo[x]
                        /\ turns'[x] = turns[x] /\ cwd'[x] = cwd[x]
      OBVIOUS
    <2>1. CASE UNCHANGED <<status, threadOf, cwd, rotatedTo, said>>
               /\ \A s \in Session : status[s] \notin Live => turns'[s] = turns[s]
      BY <2>1
    <2> DEFINE Kept == /\ status'[x] = status[x] /\ rotatedTo'[x] = rotatedTo[x]
                       /\ turns'[x] = turns[x] /\ cwd'[x] = cwd[x]
    <2>2. ASSUME NEW t \in Thread, NEW f \in Session, InsertSession(f, t, home) PROVE Kept
      BY <2>2 DEF InsertSession, IInv, Shapes
    <2>3. ASSUME NEW t \in Thread, NEW s \in Session, NEW f \in Session, NEW d \in Dir,
                 NEW from \in Live, NEW to, RetireSession(s, from, to, f, t, d)
          PROVE  Kept
      BY <2>3 DEF RetireSession, IInv, Shapes
    <2>4. ASSUME NEW t \in Thread, ActivateSession(t) PROVE Kept
      BY <2>4 DEF ActivateSession, IInv, Shapes, Live
    <2>5. "creating" \in Live /\ "active" \in Live
      BY DEF Live
    <2> QED BY <2>1, <2>2, <2>3, <2>4, <2>5 DEF TableStep
  <1>2. IInv /\ [Next]_vars => TableStep
    BY StepsOfTable
  <1> QED BY <1>1, <1>2, InitIInv, NextIInv, PTL DEF Spec, RetiredIsHistory

-----------------------------------------------------------------------------
(* The lineage *)

\* A succession lengthens its own thread's lineage and leaves the others.
LEMMA RetireLineage ==
    ASSUME IInv, OneLineage, NEW t \in Thread, NEW s \in Session, NEW f \in Session, NEW d \in Dir,
           NEW from \in Live, NEW to \in {"rotated", "resume_failed", "failed"},
           RetireSession(s, from, to, f, t, d)
    PROVE  OneLineage'
  <1> DEFINE R == rotatedTo
             R2 == [R EXCEPT ![s] = f]
  <1>1. s # f /\ R \in Links /\ R[s] = NoSession /\ PredsIn(R, f) = {} /\ NoSession \notin Session
    BY SessionsAssumption DEF IInv, RowsOk, Shapes, RetireSession, Live, Links, PredsIn
  <1>2. rotatedTo' = R2 /\ threadOf[f] = NoThread
    BY DEF RetireSession, IInv, RowsOk
  <1>3. \A x \in Session : Ancestry(x) = Reach(R, Session, {x})
    BY WalksHere DEF WalksOk
  <1>4. \A x \in Session : Ancestry(x)' = Reach(R2, Session, {x})
    BY WalksThen, <1>2 DEF WalksOk
  <1>5. ASSUME NEW x \in Session, f \notin Ancestry(x)
        PROVE  Reach(R2, Session, {x}) = Ancestry(x)
    <2>1. Reach(R2, Session, {x}) = Reach(R, Session, {x})
      <3> HIDE DEF R
      <3> QED BY <1>1, <1>3, <1>5, ReachKept
    <2> QED BY <2>1, <1>3
  <1>6. \A x \in Session \ {f} : threadOf'[x] = threadOf[x]
    BY DEF RetireSession, IInv, Shapes
  <1>7. threadOf'[f] = t /\ status'[f] = "creating"
    BY <1>1 DEF RetireSession, IInv, Shapes
  <1> SUFFICES ASSUME NEW u \in Thread, {x \in Session : threadOf'[x] = u} # {}
               PROVE  \E x \in ResolveLiveSession(u)' : Ancestry(x)' = {y \in Session : threadOf'[y] = u}
    BY DEF OneLineage
  <1>8. CASE u = t
    <2>1. s \in {x \in Session : threadOf[x] = t} /\ ResolveLiveSession(t) = {s}
      BY DEF RetireSession
    <2>2. Ancestry(s) = {x \in Session : threadOf[x] = t}
      BY <2>1 DEF OneLineage
    <2>3. f \notin Ancestry(s)
      BY <2>2, <1>2, SessionsAssumption
    <2>4. Reach(R2, Session, {f}) = {f} \cup Reach(R2, Session, PredsIn(R2, f))
      BY ReachOne
    <2>5. PredsIn(R2, f) = {s}
      <3> HIDE DEF R
      <3> QED BY <1>1, NewLink
    <2>6. Ancestry(f)' = {f} \cup {x \in Session : threadOf[x] = t}
      BY <1>4, <1>5, <2>2, <2>3, <2>4, <2>5
    <2>7. f \in ResolveLiveSession(t)'
      BY <1>7 DEF ResolveLiveSession, Live
    <2> QED BY <1>6, <1>7, <1>8, <2>6, <2>7
  <1>9. CASE u # t
    <2>1. {x \in Session : threadOf'[x] = u} = {x \in Session : threadOf[x] = u}
      BY <1>2, <1>6, <1>7, <1>9, SessionsAssumption
    <2>2. PICK x \in ResolveLiveSession(u) : Ancestry(x) = {y \in Session : threadOf[y] = u}
      BY <2>1 DEF OneLineage
    <2>3. x \in Session /\ threadOf[x] = u /\ status[x] \in Live
      BY <2>2 DEF ResolveLiveSession
    <2>4. x # s /\ x # f
      BY <2>3, <1>2, <1>9, SessionsAssumption DEF RetireSession
    <2>5. x \in ResolveLiveSession(u)'
      BY <2>3, <2>4, <1>6 DEF ResolveLiveSession, RetireSession, IInv, Shapes
    <2>6. f \notin Ancestry(x)
      BY <2>2, <1>2, SessionsAssumption
    <2>7. Ancestry(x)' = {y \in Session : threadOf'[y] = u}
      BY <1>4, <1>5, <2>1, <2>2, <2>3, <2>6
    <2> QED BY <2>5, <2>7
  <1> QED BY <1>8, <1>9

\* A first row is a lineage by itself.
LEMMA InsertLineage ==
    ASSUME IInv, OneLineage, NEW t \in Thread, NEW f \in Session, InsertSession(f, t, home)
    PROVE  OneLineage'
  <1>1. threadOf[f] = NoThread /\ PredsIn(rotatedTo, f) = {} /\ rotatedTo' = rotatedTo
    BY DEF InsertSession, IInv, RowsOk, PredsIn
  <1>2. \A x \in Session : Ancestry(x)' = Ancestry(x)
    BY <1>1, WalksHere, WalksThen DEF WalksOk
  <1>3. \A x \in Session \ {f} : threadOf'[x] = threadOf[x] /\ status'[x] = status[x]
    BY DEF InsertSession, IInv, Shapes
  <1>4. threadOf'[f] = t /\ status'[f] = "creating"
    BY DEF InsertSession, IInv, Shapes
  <1> SUFFICES ASSUME NEW u \in Thread, {x \in Session : threadOf'[x] = u} # {}
               PROVE  \E x \in ResolveLiveSession(u)' : Ancestry(x)' = {y \in Session : threadOf'[y] = u}
    BY DEF OneLineage
  <1>5. CASE u = t
    <2>1. {x \in Session : threadOf[x] = t} = {}
      BY DEF OneLineage, InsertSession
    <2>2. {x \in Session : threadOf'[x] = t} = {f}
      BY <2>1, <1>3, <1>4
    <2>3. Ancestry(f) = {f}
      <3>1. Ancestry(f) = Reach(rotatedTo, Session, {f})
        BY WalksHere DEF WalksOk
      <3>2. Closed(rotatedTo, Session, {f})
        BY <1>1 DEF Closed
      <3>3. Reach(rotatedTo, Session, {f}) \subseteq {f}
        <4>1. {f} \in SUBSET Session /\ {f} \subseteq {f}
          OBVIOUS
        <4> QED BY <3>2, <4>1, ReachLeast
      <3>4. {f} \subseteq Reach(rotatedTo, Session, {f})
        <4>1. {f} \in SUBSET Session
          OBVIOUS
        <4> QED BY <4>1, ReachClosed
      <3> QED BY <3>1, <3>3, <3>4
    <2>4. f \in ResolveLiveSession(t)'
      BY <1>4 DEF ResolveLiveSession, Live
    <2> QED BY <1>2, <1>5, <2>2, <2>3, <2>4
  <1>6. CASE u # t
    <2>1. {x \in Session : threadOf'[x] = u} = {x \in Session : threadOf[x] = u}
      BY <1>1, <1>3, <1>4, <1>6, SessionsAssumption
    <2>2. PICK x \in ResolveLiveSession(u) : Ancestry(x) = {y \in Session : threadOf[y] = u}
      BY <2>1 DEF OneLineage
    <2>3. x \in Session /\ threadOf[x] = u /\ status[x] \in Live
      BY <2>2 DEF ResolveLiveSession
    <2>4. x \in ResolveLiveSession(u)'
      <3>1. x # f
        BY <2>3, <1>1, SessionsAssumption
      <3> QED BY <2>3, <3>1, <1>3 DEF ResolveLiveSession
    <2> QED BY <1>2, <2>1, <2>2, <2>3, <2>4
  <1> QED BY <1>5, <1>6

\* Every step keeps every thread's lineage whole.
LEMMA NextLineage == IInv /\ OneLineage /\ TableStep => OneLineage'
  <1> SUFFICES ASSUME IInv, OneLineage, TableStep PROVE OneLineage'
    OBVIOUS
  <1>1. ASSUME UNCHANGED <<threadOf, rotatedTo>>,
               \A s \in Session : status'[s] \in Live <=> status[s] \in Live
        PROVE  OneLineage'
    <2>1. \A x \in Session : Ancestry(x)' = Ancestry(x)
      BY <1>1, WalksHere, WalksThen DEF WalksOk
    <2>2. \A t \in Thread : ResolveLiveSession(t)' = ResolveLiveSession(t)
      BY <1>1 DEF ResolveLiveSession
    <2>3. \A t \in Thread : ResolveLiveSession(t) \subseteq Session
      BY DEF ResolveLiveSession
    <2> QED BY <1>1, <2>1, <2>2, <2>3 DEF OneLineage
  <1>2. ASSUME NEW t \in Thread, ActivateSession(t) PROVE OneLineage'
    <2>1. \A s \in Session : status'[s] \in Live <=> status[s] \in Live
      BY <1>2 DEF ActivateSession, IInv, Shapes, Live
    <2> QED BY <1>1, <1>2, <2>1 DEF ActivateSession
  <1>3. "creating" \in Live /\ "active" \in Live
    BY DEF Live
  <1> QED BY <1>1, <1>2, <1>3, InsertLineage, RetireLineage DEF TableStep

\* Every row a thread ever had leads, link by link, to its one live row,
\* for any number of rotations, expiries, degradations and crashes.
THEOREM LineageIsWhole == Spec => []OneLineage
  <1>1. Init => OneLineage
    BY SessionsAssumption DEF Init, OneLineage
  <1>2. IInv /\ OneLineage /\ [Next]_vars => OneLineage'
    BY StepsOfTable, NextLineage
  <1> QED BY <1>1, <1>2, InitIInv, NextIInv, PTL DEF Spec

-----------------------------------------------------------------------------
(* What the links say of a lost history *)

\* Whoever is walked over has a successor: it is neither live nor new.
LEMMA ChainRetired ==
    ASSUME IInv, NEW x \in Session, NEW p \in Chain(x)
    PROVE  p \in Session /\ rotatedTo[p] # NoSession
  <1> DEFINE S == {q \in Session : rotatedTo[q] # NoSession}
  <1>1. S \in SUBSET Session /\ PredsIn(rotatedTo, x) \subseteq S /\ Closed(rotatedTo, Failed, S)
    BY SessionsAssumption DEF PredsIn, Closed
  <1>2. Chain(x) = Reach(rotatedTo, Failed, PredsIn(rotatedTo, x))
    BY WalksHere DEF WalksOk
  <1>3. Reach(rotatedTo, Failed, PredsIn(rotatedTo, x)) \subseteq S
    <2> HIDE DEF S
    <2> QED BY <1>1, ReachLeast
  <1> QED BY <1>2, <1>3

\* A row not yet minted is nobody's successor and has none.
LEMMA Unborn ==
    ASSUME IInv, NEW f \in Session, status[f] = "unminted"
    PROVE  PredsIn(rotatedTo, f) = {} /\ rotatedTo[f] = NoSession
  BY DEF IInv, RowsOk, PredsIn

\* A succession passes the debt on through a failed row, makes it on a
\* resume_failed one, and settles it on a rotated one.
LEMMA RetireDegraded ==
    ASSUME IInv, NEW t \in Thread, NEW s \in Session, NEW f \in Session, NEW d \in Dir,
           NEW from \in Live, NEW to \in {"rotated", "resume_failed", "failed"},
           RetireSession(s, from, to, f, t, d)
    PROVE  /\ \A x \in Session \ {f} : SessionDegraded(x)' <=> SessionDegraded(x)
           /\ SessionDegraded(f)' <=> to = "resume_failed" \/ (to = "failed" /\ SessionDegraded(s))
  <1> DEFINE R == rotatedTo
             R2 == [R EXCEPT ![s] = f]
  <1>1. s # f /\ R \in Links /\ R[s] = NoSession /\ R[f] = NoSession
        /\ PredsIn(R, f) = {} /\ NoSession \notin Session
    BY SessionsAssumption, Unborn DEF IInv, RowsOk, Shapes, RetireSession, Live, Links
  <1>2. rotatedTo' = R2
    BY DEF RetireSession
  <1>3. /\ PredsIn(R2, f) = {s}
        /\ \A c \in Session : c # f => PredsIn(R2, c) = PredsIn(R, c)
    <2> HIDE DEF R
    <2> QED BY <1>1, NewLink, ZenonT(60)
  <1>4. /\ \A c \in Session \ {s, f} : status'[c] = status[c]
        /\ status'[s] = to /\ status'[f] = "creating"
        /\ status[s] # "failed" /\ status[f] # "failed"
    BY <1>1 DEF RetireSession, IInv, Shapes, Live
  <1>5. \A x \in Session : Chain(x) = Reach(R, Failed, PredsIn(R, x))
    BY WalksHere DEF WalksOk
  <1>6. \A x \in Session : Chain(x)' = Reach(R2, Failed', PredsIn(R2, x))
    BY WalksThen, <1>2 DEF WalksOk
  <1>7. ASSUME NEW x \in Session
        PROVE  Reach(R2, Failed', PredsIn(R, x)) = Chain(x)
    <2>1. s \notin Chain(x) /\ f \notin Chain(x)
      BY <1>1, ChainRetired
    <2>2. /\ \A c \in Session \ {s, f} : c \in Failed' <=> c \in Failed
          /\ f \notin Failed' /\ s \notin Failed
      BY <1>4 DEF Failed
    <2>3. PredsIn(R, x) \in SUBSET Session
      BY DEF PredsIn
    <2> HIDE DEF R
    <2>4. Reach(R2, Failed', PredsIn(R, x)) = Reach(R, Failed, PredsIn(R, x))
      BY <1>1, <1>5, <2>1, <2>2, <2>3, ReachKept
    <2> QED BY <2>4, <1>5
  <1>8. \A x \in Session \ {f} : Chain(x)' = Chain(x)
    BY <1>3, <1>6, <1>7
  <1>9. \A x \in Session, p \in Session : p \in Chain(x) => status'[p] = status[p]
    BY <1>1, <1>4, ChainRetired
  <1>10. \A x \in Session : Chain(x) \subseteq Session
    BY DEF Chain
  <1>11. \A x \in Session \ {f} : SessionDegraded(x)' <=> SessionDegraded(x)
    BY <1>8, <1>9, <1>10 DEF SessionDegraded
  <1>12. Chain(f)' = IF s \in Failed' THEN {s} \cup Chain(s) ELSE {s}
    <2>1. Reach(R2, Failed', {s}) =
              IF s \in Failed' THEN {s} \cup Reach(R2, Failed', PredsIn(R2, s)) ELSE {s}
      <3> HIDE DEF R2
      <3> QED BY ReachOne
    <2>2. PredsIn(R2, s) = PredsIn(R, s)
      BY <1>1, <1>3
    <2>3. Reach(R2, Failed', PredsIn(R, s)) = Chain(s)
      BY <1>7
    <2>4. Chain(f)' = Reach(R2, Failed', {s})
      BY <1>3, <1>6
    <2> QED BY <2>1, <2>2, <2>3, <2>4
  <1>13. s \in Failed' <=> to = "failed"
    BY <1>4 DEF Failed
  <1>14. SessionDegraded(f)' <=> to = "resume_failed" \/ (to = "failed" /\ SessionDegraded(s))
    <2>1. CASE to = "failed"
      BY <2>1, <1>4, <1>9, <1>10, <1>12, <1>13 DEF SessionDegraded
    <2>2. CASE to # "failed"
      <3>1. Chain(f)' = {s}
        BY <2>2, <1>12, <1>13
      <3>2. SessionDegraded(f)' <=> status'[s] = "resume_failed"
        BY <3>1 DEF SessionDegraded
      <3> QED BY <2>2, <3>2, <1>4
    <2> QED BY <2>1, <2>2
  <1> QED BY <1>11, <1>14

\* A first row owes nothing.
LEMMA InsertDegraded ==
    ASSUME IInv, NEW t \in Thread, NEW f \in Session, InsertSession(f, t, home)
    PROVE  /\ \A x \in Session \ {f} : SessionDegraded(x)' <=> SessionDegraded(x)
           /\ ~SessionDegraded(f)'
  <1>1. rotatedTo' = rotatedTo /\ PredsIn(rotatedTo, f) = {} /\ rotatedTo[f] = NoSession
    BY Unborn DEF InsertSession
  <1>2. (\A x \in Session \ {f} : status'[x] = status[x]) /\ status'[f] = "creating"
    BY DEF InsertSession, IInv, Shapes
  <1>3. Failed' = Failed
    BY <1>2 DEF Failed, InsertSession
  <1>4. \A x \in Session : Chain(x)' = Chain(x)
    BY <1>1, <1>3, WalksHere, WalksThen DEF WalksOk
  <1>5. Chain(f) = {}
    <2>1. Closed(rotatedTo, Failed, {})
      BY DEF Closed
    <2>2. Reach(rotatedTo, Failed, {}) \subseteq {}
      BY <2>1, ReachLeast
    <2> QED BY <1>1, <2>2, WalksHere DEF WalksOk
  <1>6. \A x \in Session, p \in Session : p \in Chain(x) => status'[p] = status[p]
    BY <1>1, <1>2, ChainRetired
  <1>7. \A x \in Session : Chain(x) \subseteq Session
    BY DEF Chain
  <1> QED BY <1>4, <1>5, <1>6, <1>7 DEF SessionDegraded

\* No step changes what the links say of a row that exists.
LEMMA DegradedKept ==
    ASSUME IInv, TableStep, NEW x \in Session, status[x] # "unminted"
    PROVE  SessionDegraded(x)' <=> SessionDegraded(x)
  <1>1. ASSUME UNCHANGED rotatedTo, Failed' = Failed,
               \A p \in Session : status'[p] = "resume_failed" <=> status[p] = "resume_failed"
        PROVE  SessionDegraded(x)' <=> SessionDegraded(x)
    <2>1. Chain(x)' = Chain(x)
      BY <1>1, WalksHere, WalksThen DEF WalksOk
    <2>2. Chain(x) \subseteq Session
      BY DEF Chain
    <2> QED BY <1>1, <2>1, <2>2 DEF SessionDegraded
  <1>2. CASE UNCHANGED <<status, rotatedTo>>
    BY <1>1, <1>2 DEF Failed
  <1>3. ASSUME NEW t \in Thread, ActivateSession(t), id[t] \in Session
        PROVE  SessionDegraded(x)' <=> SessionDegraded(x)
    <2>1. \A p \in Session : \/ status'[p] = status[p]
                             \/ status[p] = "creating" /\ status'[p] = "active"
      BY <1>3 DEF ActivateSession, IInv, Shapes
    <2>2. Failed' = Failed
      BY <2>1 DEF Failed
    <2> QED BY <1>1, <1>3, <2>1, <2>2 DEF ActivateSession
  <1>4. ASSUME NEW t \in Thread, NEW f \in Session, InsertSession(f, t, home)
        PROVE  SessionDegraded(x)' <=> SessionDegraded(x)
    BY <1>4, InsertDegraded DEF InsertSession
  <1>5. ASSUME NEW t \in Thread, NEW s \in Session, NEW f \in Session, NEW d \in Dir,
               NEW from \in Live, NEW to \in {"rotated", "resume_failed", "failed"},
               RetireSession(s, from, to, f, t, d)
        PROVE  SessionDegraded(x)' <=> SessionDegraded(x)
    <2>1. x # f
      BY <1>5 DEF RetireSession
    <2> QED BY <1>5, <2>1, RetireDegraded
  <1>6. "creating" \in Live /\ "active" \in Live
    BY DEF Live
  <1> QED BY <1>2, <1>3, <1>4, <1>5, <1>6 DEF TableStep

-----------------------------------------------------------------------------
(* The note a call carries is the one that is owed *)

Opening == {"first", "starting", "ran"}

NoteOk ==
    \A t \in Thread, x \in Session :
        at[t] \in Opening /\ id[t] = x => (note[t] <=> SessionDegraded(x))

\* How a call comes to hold a note.
CallStep(t) ==
    \/ at'[t] \notin Opening
    \/ at[t] \in Opening /\ id'[t] = id[t] /\ note'[t] = note[t]
    \/ at[t] = "ensured" /\ id'[t] = id[t] /\ note'[t] = SessionDegraded(id[t])
    \/ DegradeResumeFailed(t)

\* Every step, for every thread.
LEMMA StepsOfCalls == IInv /\ [Next]_vars => \A t \in Thread : CallStep(t)
  <1> SUFFICES ASSUME IInv, [Next]_vars, NEW t \in Thread PROVE CallStep(t)
    OBVIOUS
  <1>0. at \in [Thread -> Places] /\ id \in [Thread -> Session \cup {NoSession}]
        /\ note \in [Thread -> BOOLEAN]
    BY DEF IInv, Shapes, Flags
  <1>1. ASSUME NEW u \in Thread, Turn(u) PROVE CallStep(t)
    <2>1. CASE u # t
      <3>1. at'[t] = at[t] /\ id'[t] = id[t] /\ note'[t] = note[t]
        BY <1>0, <1>1, <2>1
           DEF Turn, EnsureLive, EnsureExpired, EnsurePin, RotateDue, RotateDueCwdGone, OweFirstTurn,
               OweResume, DegradeResumeFailed, StartNew, EngineStarted, ActivateSession, LateFirstTurn,
               Resume, EngineResumed, EngineResumeFailed, EngineFails, Touch, TouchFails,
               ActivationFails, StoreFails, Goto, Leave, Cut
      <3> QED BY <3>1 DEF CallStep
    <2>2. CASE u = t
      <3>1. CASE EnsureLive(t) \/ EnsureExpired(t) \/ EnsurePin(t) \/ RotateDue(t)
        BY <3>1, <1>0 DEF EnsureLive, EnsureExpired, EnsurePin, RotateDue, Goto, CallStep, Opening
      <3>2. CASE RotateDueCwdGone(t) \/ OweResume(t) \/ LateFirstTurn(t) \/ Resume(t)
        BY <3>2, <1>0 DEF RotateDueCwdGone, OweResume, LateFirstTurn, Resume, Goto, Leave,
                          CallStep, Opening
      <3>3. CASE OweFirstTurn(t)
        BY <3>3, <1>0 DEF OweFirstTurn, Goto, CallStep
      <3>4. CASE StartNew(t) \/ EngineStarted(t)
        BY <3>4, <1>0 DEF StartNew, EngineStarted, Goto, Leave, CallStep, Opening
      <3>5. CASE ActivateSession(t) \/ EngineResumed(t) \/ EngineResumeFailed(t) \/ EngineFails(t)
        BY <3>5, <1>0 DEF ActivateSession, EngineResumed, EngineResumeFailed, EngineFails, Goto, Cut,
                          CallStep, Opening
      <3>6. CASE Touch(t) \/ TouchFails(t) \/ ActivationFails(t) \/ StoreFails(t)
        BY <3>6, <1>0 DEF Touch, TouchFails, ActivationFails, StoreFails, Goto, Leave, Cut,
                          CallStep, Opening
      <3> QED BY <1>1, <2>2, <3>1, <3>2, <3>3, <3>4, <3>5, <3>6 DEF Turn, CallStep
    <2> QED BY <2>1, <2>2
  <1>2. CASE Crash
    BY <1>2, <1>0 DEF Crash, CallStep, Opening, NoCall
  <1>3. ASSUME UNCHANGED callVars PROVE CallStep(t)
    BY <1>3 DEF callVars, CallStep
  <1>4. CASE Next /\ ~(\E u \in Thread : Turn(u)) /\ ~Crash
    <2>1. UNCHANGED callVars
      BY <1>4 DEF Next, RotateNow, Dispatch, GiveUp, DeadlinePasses, IdlePasses, DirMoves
    <2> QED BY <2>1, <1>3
  <1>5. CASE UNCHANGED vars
    BY <1>3, <1>5 DEF vars
  <1> QED BY <1>1, <1>2, <1>4, <1>5

\* No expiry, restart or other thread gets between the note and the debt.
LEMMA NextNote == IInv /\ NoteOk /\ [Next]_vars => NoteOk'
  <1> SUFFICES ASSUME IInv, NoteOk, [Next]_vars, NEW t \in Thread, NEW x \in Session,
                      at'[t] \in Opening, id'[t] = x
               PROVE  note'[t] <=> SessionDegraded(x)'
    BY DEF NoteOk
  <1>1. TableStep /\ CallStep(t)
    BY StepsOfTable, StepsOfCalls
  <1>2. at[t] \in Opening \cup {"ensured"} => id[t] \in Session /\ status[id[t]] # "unminted"
    BY DEF IInv, CallOk, Opening, NoCall, Live
  <1>3. CASE at[t] \in Opening /\ id'[t] = id[t] /\ note'[t] = note[t]
    BY <1>1, <1>2, <1>3, DegradedKept DEF NoteOk
  <1>4. CASE at[t] = "ensured" /\ id'[t] = id[t] /\ note'[t] = SessionDegraded(id[t])
    <2>1. SessionDegraded(x)' <=> SessionDegraded(x)
      BY <1>1, <1>2, <1>4, DegradedKept
    <2>2. note'[t] <=> SessionDegraded(x)
      BY <1>4
    <2> QED BY <2>1, <2>2
  <1>5. CASE DegradeResumeFailed(t)
    <2>1. PICK f \in Session : /\ RetireSession(id[t], "active", "resume_failed", f, t, home)
                               /\ Goto(t, "first", f, TRUE)
      BY <1>5, Fresh DEF DegradeResumeFailed, ResumeFailSession
    <2>2. f = x /\ note'[t] = TRUE
      BY <2>1 DEF Goto, IInv, Shapes, Flags
    <2>3. PICK s \in Session : s = id[t]
      BY <1>5 DEF DegradeResumeFailed, IInv, CallOk, NoCall
    <2>4. home \in Dir /\ "active" \in Live
      BY DEF IInv, Shapes, Live
    <2>5. SessionDegraded(x)'
      BY <2>1, <2>2, <2>3, <2>4, RetireDegraded
    <2> QED BY <2>2, <2>5
  <1> QED BY <1>1, <1>3, <1>4, <1>5 DEF CallStep

-----------------------------------------------------------------------------
(* The refinement *)

\* The conversation of a thread is that of its one live row.
ConvOk ==
    \A t \in Thread :
        /\ \A s \in Session : threadOf[s] = t /\ status[s] \in Live =>
            /\ Conv(t) = IF status[s] = "creating" THEN "fresh" ELSE "open"
            /\ Owed(t) <=> status[s] = "creating" /\ SessionDegraded(s)
        /\ (\A s \in Session : threadOf[s] # t) => Conv(t) = "none" /\ ~Owed(t)

\* one_live_session makes it so.
LEMMA ConvHere == IInv => ConvOk
  <1> SUFFICES ASSUME IInv, NEW t \in Thread PROVE ConvOk!(t)
    BY DEF ConvOk
  <1>1. ASSUME NEW s \in Session, threadOf[s] = t, status[s] \in Live
        PROVE  /\ Conv(t) = IF status[s] = "creating" THEN "fresh" ELSE "open"
               /\ Owed(t) <=> status[s] = "creating" /\ SessionDegraded(s)
    <2>1. ResolveLiveSession(t) = {s}
      BY <1>1 DEF IInv, OneLive, ResolveLiveSession
    <2>2. Owed(t) <=> status[s] = "creating" /\ SessionDegraded(s)
      BY <2>1 DEF Owed
    <2>3. Conv(t) = IF status[s] = "creating" THEN "fresh" ELSE "open"
      BY <1>1, <2>1 DEF Conv, Live
    <2> QED BY <2>2, <2>3
  <1>2. ASSUME \A s \in Session : threadOf[s] # t PROVE Conv(t) = "none" /\ ~Owed(t)
    <2>1. ResolveLiveSession(t) = {}
      BY <1>2 DEF ResolveLiveSession
    <2> QED BY <1>2, <2>1 DEF Conv, Owed
  <1> QED BY <1>1, <1>2

\* And after a step.
LEMMA ConvThen == IInv' => ConvOk'
  BY ConvHere, PTL

PInv == IInv /\ OneLineage /\ NoteOk

\* A thread has a live row or no row.
LEMMA LiveOrNone ==
    ASSUME OneLineage, NEW t \in Thread
    PROVE  \/ \E s \in Session : threadOf[s] = t /\ status[s] \in Live
           \/ \A s \in Session : threadOf[s] # t
  BY DEF OneLineage, ResolveLiveSession

\* A thread whose rows a step leaves alone keeps its conversation.
LEMMA Untouched ==
    ASSUME PInv, IInv', TableStep, NEW u \in Thread,
           \A x \in Session : threadOf[x] = u \/ threadOf'[x] = u =>
               threadOf'[x] = threadOf[x] /\ status'[x] = status[x]
    PROVE  Conv(u)' = Conv(u) /\ (Owed(u)' <=> Owed(u))
  <1>1. ConvOk /\ ConvOk'
    BY ConvHere, ConvThen DEF PInv
  <1>2. CASE \E s \in Session : threadOf[s] = u /\ status[s] \in Live
    <2>1. PICK s \in Session : threadOf[s] = u /\ status[s] \in Live
      BY <1>2
    <2>2. threadOf'[s] = u /\ status'[s] = status[s]
      BY <2>1
    <2>3. SessionDegraded(s)' <=> SessionDegraded(s)
      BY <2>1, DegradedKept DEF PInv, Live
    <2>4. /\ Conv(u) = IF status[s] = "creating" THEN "fresh" ELSE "open"
          /\ Owed(u) <=> status[s] = "creating" /\ SessionDegraded(s)
      BY <1>1, <2>1 DEF ConvOk
    <2>5. /\ Conv(u)' = IF status'[s] = "creating" THEN "fresh" ELSE "open"
          /\ Owed(u)' <=> status'[s] = "creating" /\ SessionDegraded(s)'
      BY <1>1, <2>1, <2>2 DEF ConvOk
    <2> QED BY <2>2, <2>3, <2>4, <2>5
  <1>3. CASE \A s \in Session : threadOf[s] # u
    <2>1. \A s \in Session : threadOf'[s] # u
      BY <1>3
    <2>2. Conv(u) = "none" /\ ~Owed(u)
      BY <1>1, <1>3 DEF ConvOk
    <2>3. Conv(u)' = "none" /\ ~Owed(u)'
      BY <1>1, <2>1 DEF ConvOk
    <2> QED BY <2>2, <2>3
  <1> QED BY <1>2, <1>3, LiveOrNone DEF PInv

\* What a step does to its own thread's conversation.
Talk(t, c1, o1, c2, o2) ==
    /\ Conv(t) = c1 /\ (Owed(t) <=> o1)
    /\ Conv(t)' = c2 /\ (Owed(t)' <=> o2)
    /\ \A u \in Thread \ {t} : Conv(u)' = Conv(u) /\ (Owed(u)' <=> Owed(u))

LEMMA InsertTalk ==
    ASSUME PInv, IInv', TableStep, NEW t \in Thread, NEW f \in Session, InsertSession(f, t, home)
    PROVE  Talk(t, "none", FALSE, "fresh", FALSE)
  <1>1. ConvOk /\ ConvOk'
    BY ConvHere, ConvThen DEF PInv
  <1>2. /\ threadOf'[f] = t /\ status'[f] = "creating" /\ threadOf[f] = NoThread
        /\ \A x \in Session \ {f} : threadOf'[x] = threadOf[x] /\ status'[x] = status[x]
    BY DEF InsertSession, PInv, IInv, Shapes, RowsOk
  <1>3. \A s \in Session : threadOf[s] # t
    BY LiveOrNone DEF PInv, InsertSession, ResolveLiveSession
  <1>4. Conv(t) = "none" /\ ~Owed(t)
    BY <1>1, <1>3 DEF ConvOk
  <1>5. ~SessionDegraded(f)'
    BY InsertDegraded DEF PInv
  <1>6. Conv(t)' = "fresh" /\ ~Owed(t)'
    BY <1>1, <1>2, <1>5 DEF ConvOk, Live
  <1>7. ASSUME NEW u \in Thread \ {t} PROVE Conv(u)' = Conv(u) /\ (Owed(u)' <=> Owed(u))
    <2>1. \A x \in Session : threadOf[x] = u \/ threadOf'[x] = u =>
              threadOf'[x] = threadOf[x] /\ status'[x] = status[x]
      BY <1>2, SessionsAssumption
    <2> QED BY <2>1, Untouched
  <1> QED BY <1>4, <1>6, <1>7 DEF Talk

LEMMA RetireTalk ==
    ASSUME PInv, IInv', TableStep, NEW t \in Thread, NEW s \in Session, NEW f \in Session, NEW d \in Dir,
           NEW from \in Live, NEW to \in {"rotated", "resume_failed", "failed"},
           RetireSession(s, from, to, f, t, d)
    PROVE  Talk(t, IF from = "creating" THEN "fresh" ELSE "open",
                   from = "creating" /\ SessionDegraded(s),
                   "fresh",
                   to = "resume_failed" \/ (to = "failed" /\ SessionDegraded(s)))
  <1>1. ConvOk /\ ConvOk'
    BY ConvHere, ConvThen DEF PInv
  <1>2. s # f /\ threadOf[s] = t /\ status[s] = from /\ threadOf[f] = NoThread
    BY DEF RetireSession, PInv, IInv, RowsOk, Live
  <1>3. /\ threadOf'[f] = t /\ status'[f] = "creating"
        /\ \A x \in Session \ {s, f} : threadOf'[x] = threadOf[x] /\ status'[x] = status[x]
        /\ threadOf'[s] = t
    BY <1>2 DEF RetireSession, PInv, IInv, Shapes
  <1>4. /\ Conv(t) = IF from = "creating" THEN "fresh" ELSE "open"
        /\ Owed(t) <=> from = "creating" /\ SessionDegraded(s)
    BY <1>1, <1>2 DEF ConvOk
  <1>5. SessionDegraded(f)' <=> to = "resume_failed" \/ (to = "failed" /\ SessionDegraded(s))
    BY RetireDegraded DEF PInv
  <1>6. Conv(t)' = "fresh" /\ (Owed(t)' <=> SessionDegraded(f)')
    BY <1>1, <1>3 DEF ConvOk, Live
  <1>7. ASSUME NEW u \in Thread \ {t} PROVE Conv(u)' = Conv(u) /\ (Owed(u)' <=> Owed(u))
    <2>1. \A x \in Session : threadOf[x] = u \/ threadOf'[x] = u =>
              threadOf'[x] = threadOf[x] /\ status'[x] = status[x]
      BY <1>2, <1>3, SessionsAssumption
    <2> QED BY <2>1, Untouched
  <1> QED BY <1>4, <1>5, <1>6, <1>7 DEF Talk

LEMMA ActivateTalk ==
    ASSUME PInv, IInv', TableStep, NEW t \in Thread, ActivateSession(t)
    PROVE  /\ Talk(t, "fresh", note[t], "open", FALSE)
           /\ said' = [said EXCEPT ![t] = note[t]]
  <1>1. ConvOk /\ ConvOk'
    BY ConvHere, ConvThen DEF PInv
  <1>2. PICK s \in Session : s = id[t] /\ threadOf[s] = t /\ status[s] = "creating"
    BY DEF ActivateSession, PInv, IInv, CallOk, NoCall
  <1>3. /\ threadOf' = threadOf /\ status'[s] = "active"
        /\ \A x \in Session \ {s} : status'[x] = status[x]
    BY <1>2 DEF ActivateSession, PInv, IInv, Shapes
  <1>4. note[t] <=> SessionDegraded(s)
    BY <1>2 DEF ActivateSession, PInv, NoteOk, Opening
  <1>5. Conv(t) = "fresh" /\ (Owed(t) <=> note[t])
    BY <1>1, <1>2, <1>4 DEF ConvOk, Live
  <1>6. Conv(t)' = "open" /\ ~Owed(t)'
    BY <1>1, <1>2, <1>3 DEF ConvOk, Live
  <1>7. ASSUME NEW u \in Thread \ {t} PROVE Conv(u)' = Conv(u) /\ (Owed(u)' <=> Owed(u))
    <2>1. \A x \in Session : threadOf[x] = u \/ threadOf'[x] = u =>
              threadOf'[x] = threadOf[x] /\ status'[x] = status[x]
      BY <1>2, <1>3
    <2> QED BY <2>1, Untouched
  <1> QED BY <1>5, <1>6, <1>7 DEF Talk, ActivateSession

\* In the abstract variables.
LEMMA TalkMapped ==
    ASSUME NEW t \in Thread, NEW c1, NEW o1 \in BOOLEAN, NEW c2, NEW o2 \in BOOLEAN,
           Talk(t, c1, o1, c2, o2)
    PROVE  LET c == [u \in Thread |-> Conv(u)]
               o == [u \in Thread |-> Owed(u)] IN
           /\ c[t] = c1 /\ o[t] = o1
           /\ c' = [c EXCEPT ![t] = c2] /\ o' = [o EXCEPT ![t] = o2]
  <1>1. \A u \in Thread : Owed(u) \in BOOLEAN /\ Owed(u)' \in BOOLEAN
    BY DEF Owed
  <1>2. Owed(t) = o1 /\ Owed(t)' = o2
    BY <1>1 DEF Talk
  <1>3. \A u \in Thread \ {t} : Conv(u)' = Conv(u) /\ Owed(u)' = Owed(u)
    BY <1>1 DEF Talk
  <1>4. Conv(t) = c1 /\ Conv(t)' = c2
    BY DEF Talk
  <1> QED BY <1>2, <1>3, <1>4

\* Every step is a step of the promise, or none.
LEMMA PromiseStep == PInv /\ IInv' /\ TableStep => [Promise!Next]_(Promise!promiseVars)
  <1> SUFFICES ASSUME PInv, IInv', TableStep PROVE [Promise!Next]_(Promise!promiseVars)
    OBVIOUS
  <1> DEFINE c == [u \in Thread |-> Conv(u)]
             o == [u \in Thread |-> Owed(u)]
  <1>1. CASE UNCHANGED <<status, threadOf, cwd, rotatedTo, said>>
    <2>1. \A u \in Thread : Conv(u)' = Conv(u) /\ (Owed(u)' <=> Owed(u))
      BY <1>1, Untouched
    <2>2. \A u \in Thread : Owed(u)' = Owed(u)
      <3>1. \A u \in Thread : Owed(u) \in BOOLEAN /\ Owed(u)' \in BOOLEAN
        BY DEF Owed
      <3> QED BY <2>1, <3>1
    <2>3. c' = c /\ o' = o
      BY <2>1, <2>2
    <2> QED BY <1>1, <2>3 DEF Promise!promiseVars
  <1>2. ASSUME NEW t \in Thread, NEW f \in Session, InsertSession(f, t, home), UNCHANGED said
        PROVE  Promise!Next
    <2>1. /\ c[t] = "none" /\ o[t] = FALSE
          /\ c' = [c EXCEPT ![t] = "fresh"] /\ o' = [o EXCEPT ![t] = FALSE]
      BY <1>2, InsertTalk, TalkMapped
    <2>2. o' = o
      BY <2>1
    <2>3. Promise!Begin(t)
      BY <1>2, <2>1, <2>2 DEF Promise!Begin
    <2> QED BY <2>3 DEF Promise!Next
  <1>3. "creating" \in Live /\ "active" \in Live
    BY DEF Live
  <1>4. ASSUME NEW t \in Thread, NEW s \in Session, NEW f \in Session, NEW d \in Dir,
               RetireSession(s, "creating", "failed", f, t, d), UNCHANGED said
        PROVE  UNCHANGED Promise!promiseVars
    <2>0. SessionDegraded(s) \in BOOLEAN
      BY DEF SessionDegraded
    <2>1. PICK b \in BOOLEAN : b = SessionDegraded(s)
      BY <2>0
    <2>2. Talk(t, "fresh", b, "fresh", b)
      BY <1>3, <1>4, <2>1, RetireTalk DEF Talk
    <2>3. /\ c[t] = "fresh" /\ o[t] = b
          /\ c' = [c EXCEPT ![t] = "fresh"] /\ o' = [o EXCEPT ![t] = b]
      <3>1. CASE b = TRUE
        BY <2>2, <3>1, TalkMapped
      <3>2. CASE b = FALSE
        BY <2>2, <3>2, TalkMapped
      <3> QED BY <3>1, <3>2
    <2>4. c' = c /\ o' = o
      BY <2>3
    <2> QED BY <1>4, <2>4 DEF Promise!promiseVars
  <1>5. ASSUME NEW t \in Thread, NEW s \in Session, NEW f \in Session, NEW d \in Dir,
               RetireSession(s, "active", "rotated", f, t, d), UNCHANGED said
        PROVE  Promise!Next
    <2>1. Talk(t, "open", FALSE, "fresh", FALSE)
      BY <1>3, <1>5, RetireTalk DEF Talk
    <2>2. /\ c[t] = "open" /\ o[t] = FALSE
          /\ c' = [c EXCEPT ![t] = "fresh"] /\ o' = [o EXCEPT ![t] = FALSE]
      BY <2>1, TalkMapped
    <2>3. o' = o
      BY <2>2
    <2>4. Promise!Shed(t)
      BY <1>5, <2>2, <2>3 DEF Promise!Shed
    <2> QED BY <2>4 DEF Promise!Next
  <1>6. ASSUME NEW t \in Thread, NEW s \in Session, NEW f \in Session, NEW d \in Dir,
               RetireSession(s, "active", "resume_failed", f, t, d), UNCHANGED said
        PROVE  Promise!Next
    <2>1. Talk(t, "open", FALSE, "fresh", TRUE)
      BY <1>3, <1>6, RetireTalk DEF Talk
    <2>2. /\ c[t] = "open"
          /\ c' = [c EXCEPT ![t] = "fresh"] /\ o' = [o EXCEPT ![t] = TRUE]
      BY <2>1, TalkMapped
    <2>3. Promise!Forget(t)
      BY <1>6, <2>2 DEF Promise!Forget
    <2> QED BY <2>3 DEF Promise!Next
  <1>7. ASSUME NEW t \in Thread, ActivateSession(t) PROVE Promise!Next
    <2>0. note[t] \in BOOLEAN
      BY DEF PInv, IInv, Flags
    <2>1. PICK b \in BOOLEAN : b = note[t]
      BY <2>0
    <2>4. Talk(t, "fresh", b, "open", FALSE) /\ said' = [said EXCEPT ![t] = b]
      BY <1>7, <2>1, ActivateTalk
    <2>2. /\ c[t] = "fresh" /\ o[t] = b
          /\ c' = [c EXCEPT ![t] = "open"] /\ o' = [o EXCEPT ![t] = FALSE]
      <3>1. CASE b = TRUE
        BY <2>4, <3>1, TalkMapped
      <3>2. CASE b = FALSE
        BY <2>4, <3>2, TalkMapped
      <3> QED BY <3>1, <3>2
    <2>3. Promise!Open(t)
      BY <2>2, <2>4 DEF Promise!Open
    <2> QED BY <2>3 DEF Promise!Next
  <1> QED BY <1>1, <1>2, <1>4, <1>5, <1>6, <1>7 DEF TableStep

\* The rows and their links implement the promise: a thread that lost its
\* history is told so by the first turn answered afterwards, and only then,
\* however many expiries, failures and restarts lie between; and it is
\* never left without a session, or with two.
THEOREM PromiseIsKept == Spec => PromiseKept
  <1>1. Init => PInv
    <2>1. Init => NoteOk
      BY DEF Init, NoteOk, Opening
    <2>2. Init => OneLineage
      BY SessionsAssumption DEF Init, OneLineage
    <2> QED BY <2>1, <2>2, InitIInv DEF PInv
  <1>2. PInv /\ [Next]_vars => PInv'
    BY NextIInv, StepsOfTable, NextLineage, NextNote DEF PInv
  <1>3. Init => Promise!Init
    <2> SUFFICES ASSUME Init PROVE Promise!Init
      OBVIOUS
    <2>1. ConvOk
      BY InitIInv, ConvHere
    <2>2. \A t \in Thread : Conv(t) = "none" /\ ~Owed(t)
      BY <2>1, SessionsAssumption DEF Init, ConvOk
    <2>3. \A t \in Thread : Owed(t) = FALSE
      BY <2>2 DEF Owed
    <2> QED BY <2>2, <2>3 DEF Init, Promise!Init
  <1>4. PInv /\ [Next]_vars => [Promise!Next]_(Promise!promiseVars)
    BY <1>2, StepsOfTable, PromiseStep DEF PInv
  <1> QED BY <1>1, <1>2, <1>3, <1>4, PTL DEF Spec, PromiseKept, Promise!Spec

-----------------------------------------------------------------------------
(* The clock behind the verdicts late and idle: the rounding is right for  *)
(* every length of a second, every window and every idle TTL, and without  *)
(* a horizon that matters.                                                 *)

\* Flooring to whole seconds loses less than a second.
LEMMA Floor ==
    ASSUME NEW i \in Nat
    PROVE  /\ Unix(i) \in Nat
           /\ Unix(i) * Second <= i
           /\ i < Unix(i) * Second + Second
  BY ClockAssumption, SMTT(30) DEF Unix

\* A floored instant has reached a whole second exactly when it has.
LEMMA FloorReaches ==
    ASSUME NEW i \in Nat, NEW n \in Nat
    PROVE  Unix(i) >= n <=> i >= n * Second
  <1>1. Unix(i) \in Nat /\ Unix(i) * Second <= i /\ i < Unix(i) * Second + Second
    BY Floor
  <1>2. ASSUME Unix(i) >= n PROVE i >= n * Second
    <2>1. Unix(i) * Second >= n * Second
      BY <1>1, <1>2, ClockAssumption, SMTT(30)
    <2> QED BY <2>1, <1>1, ClockAssumption
  <1>3. ASSUME Unix(i) < n PROVE i < n * Second
    <2>1. (Unix(i) + 1) * Second <= n * Second
      BY <1>1, <1>3, ClockAssumption, SMTT(30)
    <2>2. (Unix(i) + 1) * Second = Unix(i) * Second + Second
      BY <1>1, ClockAssumption, SMTT(30)
    <2> QED BY <2>1, <2>2, <1>1, ClockAssumption
  <1>4. n * Second \in Nat
    BY ClockAssumption, SMTT(30)
  <1> QED BY <1>1, <1>2, <1>3, <1>4

\* The deadline is the first whole second at which the window has passed.
LEMMA DeadlineCovers ==
    ASSUME NEW b \in Nat
    PROVE  /\ Deadline(b) \in Nat
           /\ Deadline(b) * Second \in Nat
           /\ Deadline(b) * Second >= b + Window
           /\ Deadline(b) * Second < b + Window + Second
  <1>1. b + Window \in Nat
    BY ClockAssumption
  <1> DEFINE u == Unix(b + Window)
  <1>2. u \in Nat /\ u * Second <= b + Window /\ b + Window < u * Second + Second
    BY <1>1, Floor
  <1>3. (u + 1) * Second = u * Second + Second /\ u * Second \in Nat
    BY <1>2, ClockAssumption, SMTT(30)
  <1>4. Deadline(b) = IF b + Window > u * Second THEN u + 1 ELSE u
    BY DEF Deadline
  <1> HIDE DEF u
  <1> QED BY <1>1, <1>2, <1>3, <1>4, ClockAssumption

-----------------------------------------------------------------------------
\* What ties the columns to the instants they round.
Columns ==
    phase # "none" =>
        /\ createdAt = Unix(born)
        /\ deadline = Deadline(born)
        /\ born >= Second /\ born <= now
        /\ used >= Second /\ used <= now
        /\ lastSeen = 0 => used = born
        /\ lastSeen # 0 => lastSeen = Unix(used)

Limits == limit # 0 => phase = "creating" /\ limit = deadline * Second

ClockInv == ClockTypeOK /\ Columns /\ Limits

\* The initial state satisfies the inductive invariant.
LEMMA InitClock == ClockInit => ClockInv
  BY ClockAssumption DEF ClockInit, ClockInv, ClockTypeOK, Columns, Limits

\* A mint and a touch write columns that round the present instant.
LEMMA MintClock == ClockInv /\ Mint /\ limit = 0 => ClockInv'
  <1> SUFFICES ASSUME ClockInv, Mint, limit = 0 PROVE ClockInv'
    OBVIOUS
  <1>1. Unix(now) \in Nat /\ Deadline(now) \in Nat
    BY Floor, DeadlineCovers DEF ClockInv, ClockTypeOK
  <1>2. ClockTypeOK'
    BY <1>1 DEF ClockInv, ClockTypeOK, Mint
  <1>3. Columns'
    BY DEF ClockInv, ClockTypeOK, Columns, Mint, Unix, Deadline
  <1>4. Limits'
    BY DEF ClockInv, Limits, Mint
  <1> QED BY <1>2, <1>3, <1>4 DEF ClockInv

LEMMA TouchClock ==
    ASSUME ClockInv, phase # "none", TouchSession,
           UNCHANGED <<now, createdAt, deadline, born>>,
           \/ phase' = phase /\ UNCHANGED limit
           \/ phase' = "active" /\ limit' = 0
    PROVE  ClockInv'
  <1>1. Unix(now) \in Nat
    BY Floor DEF ClockInv, ClockTypeOK
  <1>2. Unix(now) >= 1
    BY FloorReaches, ClockAssumption DEF ClockInv, ClockTypeOK
  <1>3. ClockTypeOK'
    BY <1>1 DEF ClockInv, ClockTypeOK, TouchSession
  <1>4. Columns'
    BY <1>1, <1>2 DEF ClockInv, ClockTypeOK, Columns, TouchSession, Unix, Deadline
  <1>5. Limits'
    BY DEF ClockInv, Limits, TouchSession
  <1> QED BY <1>3, <1>4, <1>5 DEF ClockInv

\* Every step keeps the inductive invariant.
LEMMA NextClock == ClockInv /\ [ClockNext]_clockVars => ClockInv'
  <1> SUFFICES ASSUME ClockInv, [ClockNext]_clockVars PROVE ClockInv'
    OBVIOUS
  <1>1. CASE Tick
    BY <1>1, ClockAssumption DEF Tick, ClockInv, ClockTypeOK, Columns, Limits, Unix, Deadline
  <1>2. CASE Pin
    BY <1>2, MintClock DEF Pin, ClockInv, Limits
  <1>3. CASE Expire
    BY <1>3, MintClock DEF Expire
  <1>4. CASE Rotate
    BY <1>4, MintClock DEF Rotate
  <1>5. CASE StartTurn
    <2>1. deadline * Second \in Nat
      BY ClockAssumption, SMTT(30) DEF ClockInv, ClockTypeOK
    <2>2. limit' = deadline * Second
      BY <1>5, <2>1 DEF StartTurn, WindowLeft, ClockInv, ClockTypeOK
    <2> QED BY <1>5, <2>1, <2>2 DEF StartTurn, ClockInv, ClockTypeOK, Columns, Limits, Unix, Deadline
  <1>6. CASE FirstTurnOk
    <2>1. CASE TouchSession
      BY <1>6, <2>1, TouchClock DEF FirstTurnOk
    <2>2. CASE UNCHANGED <<lastSeen, used>>
      BY <1>6, <2>2 DEF FirstTurnOk, ClockInv, ClockTypeOK, Columns, Limits, Unix, Deadline
    <2> QED BY <1>6, <2>1, <2>2 DEF FirstTurnOk
  <1>7. CASE FirstTurnEnds
    BY <1>7 DEF FirstTurnEnds, ClockInv, ClockTypeOK, Columns, Limits, Unix, Deadline
  <1>8. CASE ResumeTurn
    BY <1>8, TouchClock DEF ResumeTurn
  <1>9. CASE UNCHANGED clockVars
    BY <1>9 DEF clockVars, ClockInv, ClockTypeOK, Columns, Limits, Unix, Deadline
  <1> QED BY <1>1, <1>2, <1>3, <1>4, <1>5, <1>6, <1>7, <1>8, <1>9 DEF ClockNext

\* The inductive invariant holds throughout.
LEMMA ClockInductive == ClockSpec => []ClockInv
  BY InitClock, NextClock, PTL DEF ClockSpec

-----------------------------------------------------------------------------
\* A row's deadline, seen from the instant it was minted.
LEMMA DeadlineFacts ==
    ASSUME ClockInv, phase # "none"
    PROVE  /\ deadline * Second \in Nat
           /\ deadline * Second >= born + Window
           /\ deadline * Second < born + Window + Second
           /\ Expired <=> now >= deadline * Second
  BY DeadlineCovers, FloorReaches DEF ClockInv, ClockTypeOK, Columns, Expired

\* What the columns are worth, in one instant: each of the properties.
LEMMA Readings == ClockInv => /\ NotBornExpired /\ VerdictsAgree /\ WindowIsWhole
                          /\ KilledWhenExpired /\ IdleIsWhole
  <1> SUFFICES ASSUME ClockInv
               PROVE  /\ NotBornExpired /\ VerdictsAgree /\ WindowIsWhole
                      /\ KilledWhenExpired /\ IdleIsWhole
    OBVIOUS
  <1>0. Window \in Nat /\ Second \in Nat /\ Window >= Second /\ Second > 0
    BY ClockAssumption
  <1>1. NotBornExpired
    <2> SUFFICES ASSUME phase # "none" PROVE deadline > createdAt
      BY DEF NotBornExpired
    <2>1. createdAt \in Nat /\ createdAt * Second <= born
      BY Floor DEF ClockInv, ClockTypeOK, Columns
    <2>2. (createdAt + 1) * Second = createdAt * Second + Second
      BY <2>1, <1>0, SMTT(30)
    <2>3. createdAt * Second \in Nat
      BY <2>1, <1>0, SMTT(30)
    <2>4. deadline * Second >= (createdAt + 1) * Second
      BY <2>1, <2>2, <2>3, <1>0, DeadlineFacts DEF ClockInv, ClockTypeOK
    <2>5. deadline >= createdAt + 1
      <3>1. SUFFICES ASSUME deadline < createdAt + 1 PROVE FALSE
        BY <2>1 DEF ClockInv, ClockTypeOK
      <3>2. deadline <= createdAt
        BY <3>1, <2>1 DEF ClockInv, ClockTypeOK
      <3>3. deadline * Second <= createdAt * Second
        BY <3>2, <2>1, <1>0, SMTT(30) DEF ClockInv, ClockTypeOK
      <3> QED BY <3>3, <2>2, <2>3, <2>4, <1>0, DeadlineFacts
    <2> QED BY <2>5, <2>1 DEF ClockInv, ClockTypeOK
  <1>2. VerdictsAgree
    BY DeadlineFacts DEF VerdictsAgree, WindowLeft, ClockInv, ClockTypeOK
  <1>3. WindowIsWhole
    BY <1>0, DeadlineFacts DEF WindowIsWhole, ClockInv, ClockTypeOK
  <1>4. KilledWhenExpired
    BY DeadlineFacts DEF KilledWhenExpired, ClockInv, ClockTypeOK, Limits
  <1>5. IdleIsWhole
    <2> SUFFICES ASSUME phase = "active"
                 PROVE  /\ IdleDue => now >= used + IdleTTL
                        /\ now >= used + IdleTTL + 2 * Second => IdleDue
      BY DEF IdleIsWhole
    <2>1. IdleSince = Unix(used)
      BY DEF IdleSince, ClockInv, Columns
    <2> DEFINE u == Unix(used)
               n == Unix(now)
    <2>2. u \in Nat /\ u * Second <= used /\ used < u * Second + Second
      BY Floor DEF ClockInv, ClockTypeOK
    <2>3. n \in Nat /\ n * Second <= now /\ now < n * Second + Second
      BY Floor DEF ClockInv, ClockTypeOK
    <2>4. IdleDue <=> (n - u) * Second >= IdleTTL + Second
      BY <2>1 DEF IdleDue
    <2> HIDE DEF u, n
    <2>5. (n - u) * Second = n * Second - u * Second
      BY <2>2, <2>3, <1>0, SMTT(30)
    <2>6. n * Second \in Nat /\ u * Second \in Nat
      BY <2>2, <2>3, <1>0, SMTT(30)
    <2> QED BY <2>2, <2>3, <2>4, <2>5, <2>6, <1>0, ClockAssumption DEF ClockInv, ClockTypeOK
  <1> QED BY <1>1, <1>2, <1>3, <1>4, <1>5

\* No minted row is refused as born expired; Ensure and startNew read one
\* deadline the same way at every instant; the activation window is given
\* whole, and at most a second more; the engine is stopped exactly when its
\* row expires.
THEOREM DeadlineIsOneInstant == ClockSpec => []DeadlineIsExact
  <1>1. NotBornExpired /\ VerdictsAgree /\ WindowIsWhole /\ KilledWhenExpired => DeadlineIsExact
    BY DEF DeadlineIsExact
  <1> QED BY <1>1, ClockInductive, Readings, PTL

\* Idleness never rotates a session early, nor two seconds late.
THEOREM IdleOnTime == ClockSpec => []IdleIsWhole
  BY ClockInductive, Readings, PTL

=============================================================================
