--------------------------- MODULE RecoveryProofs ---------------------------
(***************************************************************************)
(* Proofs about Recovery for every set of events, every retry budget and   *)
(* every number of human retries: the machine never reruns a turn whose    *)
(* side effects are unknown, the two tables agree on who is dead, and only *)
(* a failed write leaves an event between states.                          *)
(***************************************************************************)
EXTENDS Recovery, TLAPS

\* An event that does not exist has no journal.
JournalOK ==
    \A e \in Event : status[e] = "absent" => journal[e] = {}

\* A handler in its last act has already moved its row.
HandlersOK ==
    \A e \in Event : at[e] \in {"parked", "died", "unwound"} => status[e] # "processing"

IInv ==
    /\ TypeOK
    /\ JournalOK
    /\ HandlersOK
    /\ NoBlindRerun
    /\ OnlyFailureStrands
    /\ DeathOnRecord

-----------------------------------------------------------------------------
\* The initial state satisfies the inductive invariant.
LEMMA InitIInv == Init => IInv
  BY DEF Init, StoreInit, IInv, TypeOK, StoreTypeOK, JournalOK, HandlersOK,
         NoBlindRerun, OnlyFailureStrands, DeathOnRecord, Unkeyed,
         Statuses, Resolutions, AttemptKinds, Modes, Places, Kinds

\* The transactions of a handler's error leg and of its success leg.
HandlerWrite(e) ==
    \/ MarkEventProcessing(e) \/ MarkEventCompleted(e) \/ SkipEvent(e)
    \/ ParkEvent(e) \/ DeadLetterEvent(e)

\* The store keeps its types, and only the row of e moves.
LEMMA StoreStep ==
    ASSUME StoreTypeOK, NEW e \in Event,
           \/ HandlerWrite(e) \/ InsertEvent(e) \/ RequeueEventForRetry(e)
           \/ RequeueInterruptedEvent(e) \/ ResolveDeadLetterRequeue(e)
           \/ ResolveDeadLetterDiscard(e)
           \/ \E kind \in AttemptKinds : InsertToolAttempt(e, kind)
    PROVE  /\ StoreTypeOK'
           /\ \A f \in Event : f # e =>
                /\ status'[f] = status[f]
                /\ journal'[f] = journal[f]
                /\ deadLetter'[f] = deadLetter[f]
  BY DEF StoreTypeOK, HandlerWrite, InsertEvent, MarkEventProcessing,
         MarkEventCompleted, SkipEvent, ParkEvent, RequeueInterruptedEvent,
         RequeueEventForRetry, DeadLetterEvent, ResolveDeadLetterRequeue,
         ResolveDeadLetterDiscard, InsertToolAttempt, Move, storeVars,
         Statuses, Resolutions

\* A handler's write never makes a row 'received', touches no journal, and
\* keeps the two tables in agreement.
LEMMA HandlerWrites ==
    ASSUME IInv, NEW e \in Event, HandlerWrite(e)
    PROVE  /\ StoreTypeOK'
           /\ JournalOK' /\ DeathOnRecord'
           /\ journal' = journal
           /\ \A f \in Event : status'[f] = "received" => status[f] = "received"
           /\ \A f \in Event : f # e => status'[f] = status[f]
  <1>1. /\ StoreTypeOK'
        /\ \A f \in Event : f # e => status'[f] = status[f] /\ deadLetter'[f] = deadLetter[f]
    BY StoreStep DEF IInv, TypeOK
  <1>2. /\ journal' = journal
        /\ status'[e] = "received" => status[e] = "received"
        /\ status'[e] = "absent" => status[e] = "absent"
        /\ status'[e] = "dead" <=> deadLetter'[e] \in {"open", "discarded"}
    BY DEF IInv, TypeOK, StoreTypeOK, DeathOnRecord, HandlerWrite, MarkEventProcessing,
           MarkEventCompleted, SkipEvent, ParkEvent, DeadLetterEvent, Move, storeVars
  <1>3. JournalOK'
    BY <1>1, <1>2 DEF IInv, JournalOK
  <1>4. DeathOnRecord'
    BY <1>1, <1>2 DEF IInv, DeathOnRecord
  <1> QED BY <1>1, <1>2, <1>3, <1>4

\* A surfaced notice is a well-typed row and changes no event.
LEMMA SurfaceTyped ==
    ASSUME TypeOK, NEW e \in Event, NEW kind \in Kinds,
           Surface(kind, e) \/ UNCHANGED <<notices, unheard>>
    PROVE  /\ notices' \in SUBSET (Kinds \X Event \X Nat)
           /\ unheard' \in SUBSET (Kinds \X Event)
  <1>1. ParkKey(e) \in Kinds \X Event \X Nat /\ DeathKey(e) \in Kinds \X Event \X Nat
    BY DEF TypeOK, StoreTypeOK, ParkKey, DeathKey, Kinds
  <1> QED
    BY <1>1 DEF TypeOK, Surface, SurfaceInterrupted, SurfaceDeadLetter, Compose

-----------------------------------------------------------------------------
\* The steps of a handler that move no row: it goes to another place, or
\* gives up and leaves its row behind.
LEMMA HandlerMoves ==
    ASSUME IInv, NEW e \in Event, NEW place \in Places,
           UNCHANGED <<storeVars, mode, owner, sweep, licence, grants>>,
           notices' \in SUBSET (Kinds \X Event \X Nat),
           unheard' \in SUBSET (Kinds \X Event),
           \/ /\ Goto(e, place) /\ stranded' = stranded
              /\ place \notin {"parked", "died", "unwound"}
              /\ place = "none" => status[e] # "processing"
           \/ Strand(e)
    PROVE  IInv'
  <1>1. TypeOK'
    BY DEF IInv, TypeOK, StoreTypeOK, storeVars, Goto, Strand, Places
  <1>2. JournalOK' /\ NoBlindRerun' /\ DeathOnRecord'
    BY DEF IInv, JournalOK, NoBlindRerun, DeathOnRecord, Unkeyed, storeVars
  <1>3. HandlersOK' /\ OnlyFailureStrands'
    BY DEF IInv, TypeOK, HandlersOK, OnlyFailureStrands, storeVars, Goto, Strand, Places
  <1> QED BY <1>1, <1>2, <1>3 DEF IInv

\* The steps of a handler that move its row.
LEMMA HandlerSteps ==
    ASSUME IInv, NEW e \in Event, HandlerWrite(e), NEW place \in Places, Goto(e, place),
           status'[e] = "processing" => place \notin {"none", "parked", "died", "unwound"},
           UNCHANGED <<owner, sweep, notices, licence, grants>>,
           mode' = mode,
           unheard' \in SUBSET (Kinds \X Event),
           \/ stranded' = stranded
           \/ stranded' = stranded \ {e}
    PROVE  IInv'
  <1>1. TypeOK'
    BY HandlerWrites DEF IInv, TypeOK, Goto
  <1>2. JournalOK' /\ DeathOnRecord'
    BY HandlerWrites
  <1>3. NoBlindRerun'
    BY HandlerWrites DEF IInv, NoBlindRerun, Unkeyed
  <1>4. HandlersOK' /\ OnlyFailureStrands'
    BY HandlerWrites DEF IInv, TypeOK, HandlersOK, OnlyFailureStrands, Goto
  <1> QED BY <1>1, <1>2, <1>3, <1>4 DEF IInv

\* The human's commands, the receipt and the granted retry: the four ways a
\* row becomes 'received', each with the licence it records.
LEMMA LicensingSteps ==
    ASSUME IInv, NEW e \in Event,
           \/ Receive(e)
           \/ HumanRetry(e)
           \/ /\ at[e] = "clean" /\ RequeueEventForRetry(e)
              /\ Goto(e, "none")
              /\ licence' = [licence EXCEPT ![e] = "auto"]
              /\ UNCHANGED <<mode, owner, sweep, notices, grants, stranded, unheard>>
    PROVE  IInv'
  <1>1. /\ StoreTypeOK'
        /\ \A f \in Event : f # e =>
             /\ status'[f] = status[f]
             /\ journal'[f] = journal[f]
             /\ deadLetter'[f] = deadLetter[f]
    BY StoreStep DEF IInv, TypeOK, Receive, HumanRetry
  <1>2. /\ status'[e] = "received"
        /\ journal' = journal
        /\ deadLetter'[e] \notin {"open", "discarded"}
        /\ mode' = mode /\ stranded' = stranded
        /\ Unkeyed(e) => licence'[e] = "human"
        /\ \A f \in Event : f # e => licence'[f] = licence[f] /\ at'[f] = at[f]
    BY DEF Receive, HumanRetry, InsertEvent, RequeueInterruptedEvent, RequeueEventForRetry,
           RequeueVerdict, ResolveDeadLetterRequeue, Move, IInv, TypeOK, StoreTypeOK,
           JournalOK, DeathOnRecord, Unkeyed, ramVars, Goto
  <1>3. TypeOK'
    BY <1>1 DEF IInv, TypeOK, Receive, HumanRetry, ramVars, Goto, Places
  <1>4. JournalOK' /\ NoBlindRerun' /\ DeathOnRecord'
    BY <1>1, <1>2 DEF IInv, JournalOK, NoBlindRerun, DeathOnRecord, Unkeyed
  <1>5. HandlersOK' /\ OnlyFailureStrands'
    BY <1>1, <1>2 DEF IInv, HandlersOK, OnlyFailureStrands
  <1> QED BY <1>3, <1>4, <1>5 DEF IInv

-----------------------------------------------------------------------------
\* What happens outside a handler, and touches no row but by the journal and
\* the discard of a dead letter.
LEMMA OtherSteps ==
    ASSUME IInv,
           \/ Boot \/ GoLive \/ Crash
           \/ \E kind \in Kinds : SweepScan(kind)
           \/ \E e \in Event :
                \/ ToolAttempt(e) \/ HumanDiscard(e)
                \/ \E kind \in Kinds : SweepSurface(kind, e) \/ SweepFails(kind, e)
    PROVE  IInv'
  <1>1. CASE Boot \/ GoLive \/ Crash
    BY <1>1 DEF Boot, GoLive, Crash, IInv, TypeOK, StoreTypeOK, JournalOK, HandlersOK,
                NoBlindRerun, OnlyFailureStrands, DeathOnRecord, Unkeyed, storeVars,
                history, Modes, Places
  <1>2. ASSUME NEW kind \in Kinds, SweepScan(kind) PROVE IInv'
    <2>1. sweep' \in SUBSET (Kinds \X Event)
      BY <1>2 DEF SweepScan, Unsurfaced, UnsurfacedInterruptedEvents, UnsurfacedDeadLetters
    <2> QED
      BY <1>2, <2>1 DEF SweepScan, IInv, TypeOK, StoreTypeOK, JournalOK, HandlersOK,
                NoBlindRerun, OnlyFailureStrands, DeathOnRecord, Unkeyed, storeVars, history
  <1>3. ASSUME NEW e \in Event, NEW kind \in Kinds,
               SweepSurface(kind, e) \/ SweepFails(kind, e)
        PROVE  IInv'
    <2>1. /\ notices' \in SUBSET (Kinds \X Event \X Nat)
          /\ unheard' \in SUBSET (Kinds \X Event)
      BY <1>3, SurfaceTyped DEF SweepSurface, SweepFails, history, IInv
    <2> QED
      BY <1>3, <2>1 DEF SweepSurface, SweepFails, IInv, TypeOK, StoreTypeOK, JournalOK,
                HandlersOK, NoBlindRerun, OnlyFailureStrands, DeathOnRecord, Unkeyed,
                storeVars, history
  <1>4. ASSUME NEW e \in Event, ToolAttempt(e) PROVE IInv'
    <2>1. /\ StoreTypeOK'
          /\ status[e] = "processing"
          /\ \A f \in Event : f # e => journal'[f] = journal[f]
          /\ UNCHANGED <<status, deadLetter>>
      BY <1>4, StoreStep DEF ToolAttempt, InsertToolAttempt, IInv, TypeOK
    <2> QED
      BY <1>4, <2>1 DEF ToolAttempt, IInv, TypeOK, JournalOK, HandlersOK, NoBlindRerun,
                OnlyFailureStrands, DeathOnRecord, Unkeyed, ramVars, history
  <1>5. ASSUME NEW e \in Event, HumanDiscard(e) PROVE IInv'
    <2>1. /\ StoreTypeOK'
          /\ deadLetter[e] = "open" /\ deadLetter'[e] = "discarded"
          /\ \A f \in Event : f # e => deadLetter'[f] = deadLetter[f]
          /\ UNCHANGED <<status, journal>>
      BY <1>5, StoreStep DEF HumanDiscard, ResolveDeadLetterDiscard, IInv, TypeOK, StoreTypeOK
    <2> QED
      BY <1>5, <2>1 DEF HumanDiscard, IInv, TypeOK, JournalOK, HandlersOK, NoBlindRerun,
                OnlyFailureStrands, DeathOnRecord, Unkeyed, ramVars, history
  <1> QED BY <1>1, <1>2, <1>3, <1>4, <1>5

\* The steps of one event's handler, and of the boot on its behalf.
LEMMA EventSteps ==
    ASSUME IInv, NEW e \in Event,
           \/ Start(e) \/ Finish(e) \/ Judge(e) \/ Requeue(e)
           \/ DeadLetterMalformed(e) \/ DeadLetterExhausted(e) \/ Park(e)
           \/ Notify(e) \/ Panic(e) \/ BootPark(e)
    PROVE  IInv'
  <1>p. {"none", "turn", "clean", "exhausted", "ambiguous", "parked", "died",
        "unwound"} = Places
    BY DEF Places
  <1>u. /\ unheard \in SUBSET (Kinds \X Event)
        /\ notices \in SUBSET (Kinds \X Event \X Nat)
        /\ <<"park", e>> \in Kinds \X Event
        /\ <<"death", e>> \in Kinds \X Event
    BY DEF IInv, TypeOK, Kinds
  <1>d. ASSUME DeadLetterEvent(e) PROVE status'[e] = "dead"
    BY <1>d DEF DeadLetterEvent, IInv, TypeOK, StoreTypeOK
  <1>k. ASSUME ParkEvent(e) PROVE status'[e] # "processing"
    BY <1>k DEF ParkEvent, Move, IInv, TypeOK, StoreTypeOK, storeVars
  <1>w. ASSUME Strand(e), UNCHANGED <<mode, owner, sweep, notices, licence, grants>>
        PROVE  IInv'
    BY <1>w, <1>u, <1>p, HandlerMoves DEF Strand
  <1>1. CASE Start(e)
    BY <1>1, <1>p, <1>u, HandlerSteps DEF Start, HandlerWrite, history
  <1>2. CASE Finish(e)
    <2>1. ASSUME MarkEventCompleted(e) \/ SkipEvent(e) PROVE status'[e] # "processing"
      BY <2>1 DEF MarkEventCompleted, SkipEvent, Move, IInv, TypeOK, StoreTypeOK
    <2> QED
      BY <1>2, <1>p, <1>u, <1>w, <2>1, HandlerSteps DEF Finish, HandlerWrite
  <1>3. CASE Judge(e)
    BY <1>3, <1>p, <1>u, <1>w, HandlerMoves DEF Judge
  <1>4. CASE Requeue(e)
    <2>1. CASE RequeueEventForRetry(e)
                /\ Goto(e, "none")
                /\ licence' = [licence EXCEPT ![e] = "auto"]
                /\ UNCHANGED <<stranded, unheard>>
      BY <1>4, <2>1, LicensingSteps DEF Requeue
    <2>2. CASE Goto(e, IF RequeueVerdict(e) = "exhausted" THEN "exhausted" ELSE "ambiguous")
                /\ UNCHANGED <<storeVars, licence, stranded, unheard>>
      BY <1>4, <2>2, <1>p, <1>u, HandlerMoves DEF Requeue
    <2>3. CASE Strand(e) /\ UNCHANGED licence
      BY <1>4, <2>3, <1>w DEF Requeue
    <2> QED BY <1>4, <2>1, <2>2, <2>3 DEF Requeue
  <1>5. CASE DeadLetterMalformed(e) \/ DeadLetterExhausted(e)
    <2>1. CASE Die(e)
      BY <1>5, <2>1, <1>p, <1>u, <1>d, HandlerSteps
      DEF DeadLetterMalformed, DeadLetterExhausted, Die, HandlerWrite
    <2>2. CASE ~Die(e)
      BY <1>5, <2>2, <1>p, <1>u, <1>w, HandlerMoves DEF DeadLetterMalformed, DeadLetterExhausted
    <2> QED BY <2>1, <2>2
  <1>6. CASE Park(e) \/ Panic(e) \/ BootPark(e)
    <2>1. CASE ParkOpens(e)
      <3>1. unheard' \in SUBSET (Kinds \X Event)
        BY <2>1, <1>u DEF ParkOpens
      <3>2. \/ Goto(e, "parked") \/ Goto(e, "unwound") \/ Goto(e, "none")
        BY <1>6, <2>1 DEF Park, Panic, BootPark, Strand
      <3>3. CASE ~Strand(e)
        BY <1>6, <2>1, <3>1, <3>2, <3>3, <1>p, <1>k, HandlerSteps
        DEF Park, Panic, BootPark, ParkOpens, HandlerWrite
      <3>4. CASE Strand(e)
        BY <1>6, <3>4, <1>w DEF Park, Panic, BootPark
      <3> QED BY <3>3, <3>4
    <2>2. CASE ~ParkOpens(e)
      BY <1>6, <2>2, <1>w DEF Park, Panic, BootPark
    <2> QED BY <2>1, <2>2
  <1>7. CASE Notify(e)
    <2>1. /\ notices' \in SUBSET (Kinds \X Event \X Nat)
          /\ unheard' \in SUBSET (Kinds \X Event)
      BY <1>7, SurfaceTyped DEF Notify, IInv, Kinds
    <2>2. status[e] # "processing"
      BY <1>7 DEF Notify, IInv, HandlersOK
    <2> QED
      BY <1>7, <2>1, <2>2, <1>p, HandlerMoves DEF Notify
  <1> QED BY <1>1, <1>2, <1>3, <1>4, <1>5, <1>6, <1>7

\* Every step keeps the inductive invariant.
LEMMA NextIInv == IInv /\ [Next]_vars => IInv'
  <1> SUFFICES ASSUME IInv, [Next]_vars PROVE IInv'
    OBVIOUS
  <1>1. CASE Next
    BY <1>1, OtherSteps, EventSteps, LicensingSteps DEF Next
  <1>2. CASE UNCHANGED vars
    BY <1>2 DEF vars, storeVars, ramVars, history, IInv, TypeOK, StoreTypeOK, JournalOK,
                HandlersOK, NoBlindRerun, OnlyFailureStrands, DeathOnRecord, Unkeyed
  <1> QED BY <1>1, <1>2

\* The inductive invariant holds in every reachable state.
LEMMA Invariance == Spec => []IInv
  BY InitIInv, NextIInv, PTL DEF Spec

-----------------------------------------------------------------------------
\* recovery.go: handlers, timers, notices and rows keep their types, whatever
\* is refused or cut short.
THEOREM TypeCorrect == Spec => []TypeOK
  <1>1. IInv => TypeOK
    BY DEF IInv
  <1> QED BY <1>1, Invariance, PTL

\* recovery.go, HandleEngineFailure with RequeueEventForRetry's own check: an
\* event with an unkeyed side effect is never requeued by the machine.
THEOREM NeverRerunBlind == Spec => []NoBlindRerun
  <1>1. IInv => NoBlindRerun
    BY DEF IInv
  <1> QED BY <1>1, Invariance, PTL

\* recovery.go, deadLetter and park: only a failed write leaves a row in
\* 'processing' without a handler.
THEOREM StrandedByFailureOnly == Spec => []OnlyFailureStrands
  <1>1. IInv => OnlyFailureStrands
    BY DEF IInv
  <1> QED BY <1>1, Invariance, PTL

\* dead_letters.go: events.status and dead_letters.resolution agree after
\* every transaction.
THEOREM TablesAgree == Spec => []DeathOnRecord
  <1>1. IInv => DeathOnRecord
    BY DEF IInv
  <1> QED BY <1>1, Invariance, PTL

=============================================================================
