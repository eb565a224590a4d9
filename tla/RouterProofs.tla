---------------------------- MODULE RouterProofs ----------------------------
(***************************************************************************)
(* Proofs about Router for every set of events, threads and goroutines:    *)
(* dispatch is serial per thread, a wakeup is never lost, a live turn owns *)
(* its row, and no received event is forgotten while the daemon runs.      *)
(* First turns come in receipt order (OInv carries the order from the      *)
(* table through ingest and queue to the dispatch), and the router         *)
(* implements TurnContract, step by step, so that every run is licensed.   *)
(***************************************************************************)
EXTENDS Router, TLAPS

\* What a goroutine's registers say about where it is.
WorkersOK ==
    \A w \in Worker :
        /\ pc[w] = "idle" <=> on[w] = NoThread
        /\ pc[w] \in {"idle", "loop"} <=> ev[w] = NoEvent
        /\ ev[w] # NoEvent => ThreadOf[ev[w]] = on[w]

\* The claim table is exactly the set of threads with a goroutine.
ClaimsOK ==
    \A t \in Thread : t \in claimed <=> \E w \in Worker : on[w] = t

\* One goroutine per thread.
OneDrain ==
    \A v, w \in Worker : on[v] = on[w] /\ on[v] # NoThread => v = w

\* A queue holds only events of its own thread, and only if it is claimed.
QueuesOK ==
    \A t \in Thread :
        /\ \A i \in 1..Len(pending[t]) : ThreadOf[pending[t][i]] = t
        /\ pending[t] # <<>> => t \in claimed

\* While the daemon is down or parks cut turns, no goroutine exists.
QuietBoot ==
    mode \in {"down", "parking"} =>
        \A w \in Worker : pc[w] = "idle"

\* Rebuild's scan has every received row until the first one is enqueued.
ScanComplete ==
    mode = "parking" => \A e \in Event : status[e] = "received" => e \in rescan

IInv ==
    /\ TypeOK
    /\ WorkersOK
    /\ ClaimsOK
    /\ OneDrain
    /\ QueuesOK
    /\ QuietBoot
    /\ TurnOwnsRow
    /\ ScanComplete
    /\ NoForgottenEvent

-----------------------------------------------------------------------------
\* The initial state satisfies the inductive invariant.
LEMMA InitIInv == Init => IInv
  BY RouterAssumption, RetriesAssumption
  DEF Init, StoreInit, IInv, TypeOK, StoreTypeOK, WorkersOK, ClaimsOK, OneDrain,
      QueuesOK, QuietBoot, TurnOwnsRow, ScanComplete, NoForgottenEvent,
      Statuses, Resolutions, AttemptKinds, Modes, PCs, Accepting

\* What a transaction on e may do to the tables: it keeps them well typed and
\* moves no other event's row.
LEMMA StoreStep ==
    ASSUME StoreTypeOK, NEW e \in Event,
           \/ InsertEvent(e) \/ MarkEventProcessing(e) \/ EndOfTurn(e)
           \/ ParkEvent(e) \/ RequeueInterruptedEvent(e)
           \/ RequeueEventForRetry(e) \/ ResolveDeadLetterRequeue(e)
           \/ ResolveDeadLetterDiscard(e)
    PROVE  /\ StoreTypeOK'
           /\ \A f \in Event : f # e =>
                UNCHANGED <<status[f], rowid[f], attempts[f], deadLetter[f]>>
  BY DEF StoreTypeOK, InsertEvent, MarkEventProcessing, MarkEventCompleted,
         SkipEvent, ParkEvent, RequeueInterruptedEvent, RequeueEventForRetry,
         DeadLetterEvent, ResolveDeadLetterRequeue, ResolveDeadLetterDiscard,
         EndOfTurn, Move, storeVars, Statuses, Resolutions

\* Where each transaction leaves the row it moves.
LEMMA StoreMoves ==
    ASSUME StoreTypeOK, NEW e \in Event
    PROVE  /\ InsertEvent(e) => status[e] = "absent"
           /\ MarkEventProcessing(e) => status'[e] = "processing"
           /\ EndOfTurn(e) => status'[e] \notin {"received", "processing"}
           /\ ParkEvent(e) => status'[e] \notin {"received", "processing"}
           /\ RequeueInterruptedEvent(e) \/ ResolveDeadLetterRequeue(e)
                => status[e] \in {"interrupted", "dead"}
           /\ ResolveDeadLetterDiscard(e) => status' = status
  BY DEF StoreTypeOK, InsertEvent, MarkEventProcessing, MarkEventCompleted,
         SkipEvent, ParkEvent, RequeueInterruptedEvent, DeadLetterEvent,
         ResolveDeadLetterRequeue, ResolveDeadLetterDiscard, EndOfTurn, Move,
         storeVars, Statuses

\* An event a goroutine holds is an event, and belongs to its thread.
LEMMA HeldEvent ==
    ASSUME IInv, NEW w \in Worker, pc[w] \notin {"idle", "loop"}
    PROVE  ev[w] \in Event /\ on[w] \in Thread /\ ThreadOf[ev[w]] = on[w]
  BY RouterAssumption DEF IInv, TypeOK, WorkersOK, PCs

\* Enqueue leaves the queues, claims and goroutines well formed.
LEMMA EnqueueEffect ==
    ASSUME IInv, NEW e \in Event, Enqueue(e), ev' = ev
    PROVE  /\ pending' \in [Thread -> Seq(Event)]
           /\ claimed' \in SUBSET Thread
           /\ pc' \in [Worker -> PCs]
           /\ on' \in [Worker -> Thread \cup {NoThread}]
           /\ WorkersOK' /\ ClaimsOK' /\ OneDrain' /\ QueuesOK'
  <1> DEFINE t == ThreadOf[e]
  <1>t. t \in Thread
    BY RouterAssumption
  <1>1. CASE ~Accepting
    <2>1. UNCHANGED <<pending, claimed, pc, on>>
      BY <1>1 DEF Enqueue
    <2> QED
      BY <2>1 DEF IInv, TypeOK, WorkersOK, ClaimsOK, OneDrain, QueuesOK
  <1>2. CASE Accepting
    <2>1. /\ pending' = [pending EXCEPT ![t] = Append(@, e)]
          /\ pending'[t] = Append(pending[t], e)
          /\ pending' \in [Thread -> Seq(Event)]
      <3>1. pending' = [pending EXCEPT ![t] = Append(@, e)]
        BY <1>2 DEF Enqueue
      <3> QED
        BY <3>1, <1>t DEF IInv, TypeOK
    <2>2. \A u \in Thread : \A i \in 1..Len(pending'[u]) : ThreadOf[pending'[u][i]] = u
      <3> SUFFICES ASSUME NEW u \in Thread, NEW i \in 1..Len(pending'[u])
                   PROVE  ThreadOf[pending'[u][i]] = u
        OBVIOUS
      <3>1. CASE u = t
        BY <3>1, <2>1, <1>t, SMTT(30) DEF IInv, TypeOK, QueuesOK
      <3>2. CASE u # t
        BY <3>2, <2>1, <1>t DEF IInv, TypeOK, QueuesOK
      <3> QED BY <3>1, <3>2
    <2>3. CASE t \in claimed
      <3>1. UNCHANGED <<claimed, pc, on>>
        BY <2>3, <1>2 DEF Enqueue
      <3>2. \A u \in Thread : pending'[u] # <<>> => u \in claimed
        BY <2>1, <2>3, <1>t DEF IInv, TypeOK, QueuesOK
      <3> QED
        BY <2>1, <2>2, <3>1, <3>2 DEF IInv, TypeOK, WorkersOK, ClaimsOK, OneDrain, QueuesOK
    <2>4. CASE t \notin claimed
      <3>1. claimed' = claimed \cup {t}
        BY <2>4, <1>2 DEF Enqueue
      <3>2. PICK w \in Worker : /\ pc[w] = "idle"
                                /\ pc' = [pc EXCEPT ![w] = "loop"]
                                /\ on' = [on EXCEPT ![w] = t]
        BY <2>4, <1>2 DEF Enqueue
      <3>3. \A u \in Thread : pending'[u] # <<>> => u \in claimed'
        BY <2>1, <3>1, <1>t DEF IInv, TypeOK, QueuesOK
      <3>4. \A v \in Worker : on[v] # t
        BY <2>4, <1>t DEF IInv, ClaimsOK
      <3>5. /\ pc' \in [Worker -> PCs]
            /\ on' \in [Worker -> Thread \cup {NoThread}]
            /\ claimed' \in SUBSET Thread
        BY <3>1, <3>2, <1>t DEF IInv, TypeOK, PCs
      <3>6. WorkersOK'
        BY <3>2, <1>t, RouterAssumption DEF IInv, TypeOK, WorkersOK
      <3>7. ClaimsOK' /\ OneDrain'
        BY <3>1, <3>2, <3>4, <1>t, RouterAssumption DEF IInv, TypeOK, WorkersOK, ClaimsOK, OneDrain
      <3> QED
        BY <2>1, <2>2, <3>3, <3>5, <3>6, <3>7 DEF QueuesOK
    <2> QED BY <2>3, <2>4
  <1> QED BY <1>1, <1>2

\* Enqueue keeps indexed what was, and indexes the event it is given.
LEMMA EnqueueIndexes ==
    ASSUME IInv, Accepting, NEW e \in Event, Enqueue(e), ev' = ev
    PROVE  /\ \E i \in 1..Len(pending'[ThreadOf[e]]) : pending'[ThreadOf[e]][i] = e
           /\ \A f \in Event :
                (\E i \in 1..Len(pending[ThreadOf[f]]) : pending[ThreadOf[f]][i] = f)
                => \E i \in 1..Len(pending'[ThreadOf[f]]) : pending'[ThreadOf[f]][i] = f
           /\ \A w \in Worker : pc[w] = "popped" => pc'[w] = "popped"
  <1> DEFINE t == ThreadOf[e]
             q == pending[t]
  <1>1. /\ t \in Thread
        /\ q \in Seq(Event)
        /\ pending'[t] = Append(q, e)
        /\ \A u \in Thread : u # t => pending'[u] = pending[u]
    BY RouterAssumption DEF Enqueue, IInv, TypeOK
  <1>2. /\ Len(Append(q, e)) = Len(q) + 1
        /\ Append(q, e)[Len(q) + 1] = e
        /\ \A i \in 1..Len(q) : Append(q, e)[i] = q[i]
        /\ Len(q) \in Nat
    BY <1>1
  <1>3. \E i \in 1..Len(pending'[t]) : pending'[t][i] = e
    BY <1>1, <1>2
  <1>4. ASSUME NEW f \in Event, NEW i \in 1..Len(pending[ThreadOf[f]]),
               pending[ThreadOf[f]][i] = f
        PROVE  \E j \in 1..Len(pending'[ThreadOf[f]]) : pending'[ThreadOf[f]][j] = f
    <2>1. CASE ThreadOf[f] = t
      <3>1. i \in 1..Len(pending'[ThreadOf[f]]) /\ pending'[ThreadOf[f]][i] = f
        BY <2>1, <1>1, <1>2, <1>4
      <3> QED BY <3>1
    <2>2. CASE ThreadOf[f] # t
      BY <2>2, <1>1, <1>4, RouterAssumption
    <2> QED BY <2>1, <2>2
  <1>5. \A w \in Worker : pc[w] = "popped" => pc'[w] = "popped"
    BY DEF Enqueue, IInv, TypeOK
  <1> QED BY <1>3, <1>4, <1>5

\* A goroutine that holds an event and stays alive keeps the claims in order.
LEMMA WorkerStep ==
    ASSUME IInv, NEW w \in Worker, pc[w] \notin {"idle", "loop"},
           NEW p \in PCs \ {"idle"}, pc' = [pc EXCEPT ![w] = p],
           \/ p = "loop" /\ ev' = [ev EXCEPT ![w] = NoEvent]
           \/ p # "loop" /\ ev' = ev,
           UNCHANGED <<mode, pending, claimed, on>>
    PROVE  /\ pc' \in [Worker -> PCs]
           /\ ev' \in [Worker -> Event \cup {NoEvent}]
           /\ WorkersOK' /\ ClaimsOK' /\ OneDrain' /\ QueuesOK' /\ QuietBoot'
  <1>1. pc' \in [Worker -> PCs] /\ ev' \in [Worker -> Event \cup {NoEvent}]
    BY DEF IInv, TypeOK
  <1>2. WorkersOK'
    BY HeldEvent, RouterAssumption DEF IInv, TypeOK, WorkersOK, PCs
  <1>3. ClaimsOK' /\ OneDrain' /\ QueuesOK'
    BY DEF IInv, ClaimsOK, OneDrain, QueuesOK
  <1>4. QuietBoot'
    BY DEF IInv, QuietBoot
  <1> QED BY <1>1, <1>2, <1>3, <1>4

\* A step that neither enqueues nor pops keeps every event indexed that is
\* still to be served, if it accounts for the event it may drop or hold.
LEMMA StillIndexed ==
    ASSUME IInv, UNCHANGED <<mode, pending>>,
           ingesting \subseteq ingesting', rescan \subseteq rescan',
           dropped \subseteq dropped',
           \A e \in Event : readmits[e] > 0 => readmits'[e] > 0,
           \A e \in Event : status'[e] = "received" =>
               \/ status[e] = "received" \/ e \in ingesting' \/ readmits'[e] > 0,
           \A w \in Worker : pc[w] = "popped" =>
               \/ pc'[w] = "popped" /\ ev'[w] = ev[w]
               \/ status'[ev[w]] # "received"
               \/ ev[w] \in dropped'
               \/ ~Accepting
    PROVE  NoForgottenEvent'
  BY DEF IInv, NoForgottenEvent, Indexed, Accepting

\* Persist: the insert, or the collapse of a duplicate.
LEMMA PersistIInv ==
    ASSUME IInv, NEW e \in Event, Persist(e) PROVE IInv'
  <1>1. /\ StoreTypeOK'
        /\ \A f \in Event : f # e => status'[f] = status[f]
        /\ status[e] # "processing" \/ status' = status
    <2>1. CASE status[e] = "absent"
      BY <2>1, StoreStep DEF Persist, IInv, TypeOK
    <2>2. CASE status[e] # "absent"
      BY <2>2 DEF Persist, IInv, TypeOK, StoreTypeOK, storeVars
    <2> QED BY <2>1, <2>2
  <1>2. TypeOK'
    BY <1>1 DEF Persist, IInv, TypeOK, history
  <1>3. WorkersOK' /\ ClaimsOK' /\ OneDrain' /\ QueuesOK' /\ QuietBoot' /\ ScanComplete'
    BY DEF Persist, IInv, WorkersOK, ClaimsOK, OneDrain, QueuesOK, QuietBoot, ScanComplete
  <1>4. TurnOwnsRow'
    BY <1>1, HeldEvent DEF Persist, IInv, TurnOwnsRow
  <1>5. \A f \in Event : status'[f] = "received" => status[f] = "received" \/ f \in ingesting'
    BY <1>1 DEF Persist, storeVars
  <1>6. NoForgottenEvent'
    BY <1>5, StillIndexed DEF Persist, history
  <1> QED BY <1>2, <1>3, <1>4, <1>6 DEF IInv

\* The three callers of Enqueue.
LEMMA EnqueuersIInv ==
    ASSUME IInv, NEW e \in Event,
           PersistEnqueue(e) \/ Readmit(e) \/ RebuildEnqueue(e)
    PROVE  IInv'
  <1>1. /\ Enqueue(e) /\ ev' = ev
        /\ UNCHANGED <<storeVars, mode, runs, grants, dropped>>
        /\ ingesting' \in SUBSET Event /\ rescan' \in SUBSET Event
        /\ readmits' \in [Event -> Nat]
        /\ ingesting \subseteq ingesting' \cup {e}
        /\ rescan \subseteq rescan' \cup {e}
        /\ \A f \in Event : f # e => readmits'[f] = readmits[f]
    <2>1. CASE PersistEnqueue(e)
      BY <2>1 DEF PersistEnqueue, IInv, TypeOK, history
    <2>2. CASE Readmit(e)
      BY <2>2 DEF Readmit, IInv, TypeOK, history
    <2>3. CASE RebuildEnqueue(e)
      BY <2>3 DEF RebuildEnqueue, IInv, TypeOK, history
    <2> QED BY <2>1, <2>2, <2>3
  <1>2. TypeOK' /\ WorkersOK' /\ ClaimsOK' /\ OneDrain' /\ QueuesOK'
    BY <1>1, EnqueueEffect DEF IInv, TypeOK, StoreTypeOK, storeVars
  <1>3. QuietBoot' /\ ScanComplete'
    <2>1. CASE Accepting
      BY <2>1, <1>1 DEF QuietBoot, ScanComplete, Accepting
    <2>2. CASE ~Accepting
      BY <2>2, <1>1 DEF Enqueue, PersistEnqueue, Readmit, RebuildEnqueue, IInv,
                        QuietBoot, ScanComplete, Accepting, storeVars
    <2> QED BY <2>1, <2>2
  <1>4. \A w \in Worker : pc'[w] = "turn" => pc[w] = "turn"
    BY <1>1 DEF Enqueue, IInv, TypeOK
  <1>5. TurnOwnsRow'
    BY <1>1, <1>4 DEF IInv, TurnOwnsRow, storeVars
  <1>6. NoForgottenEvent'
    <2>1. CASE Accepting
      BY <2>1, <1>1, EnqueueIndexes DEF IInv, NoForgottenEvent, Indexed, Accepting, storeVars
    <2>2. CASE ~Accepting
      BY <2>2, <1>1 DEF NoForgottenEvent, Accepting
    <2> QED BY <2>1, <2>2
  <1> QED BY <1>2, <1>3, <1>5, <1>6 DEF IInv

\* The human commands and the boot park: the table moves, RAM at most gains a
\* readmission.
LEMMA TableStepsIInv ==
    ASSUME IInv, NEW e \in Event,
           HumanRequeue(e) \/ HumanDiscard(e) \/ RebuildPark(e)
    PROVE  IInv'
  <1>1. /\ StoreTypeOK'
        /\ \A f \in Event : f # e => status'[f] = status[f]
    BY StoreStep DEF HumanRequeue, HumanDiscard, RebuildPark, IInv, TypeOK
  <1>2. /\ UNCHANGED <<mode, pending, claimed, pc, on, ev, ingesting, rescan, runs, dropped>>
        /\ readmits' \in [Event -> Nat]
        /\ grants' \in [Event -> Nat]
        /\ \A f \in Event : readmits[f] > 0 => readmits'[f] > 0
    <2>1. CASE HumanRequeue(e)
      BY <2>1 DEF HumanRequeue, IInv, TypeOK
    <2>2. CASE HumanDiscard(e) \/ RebuildPark(e)
      BY <2>2 DEF HumanDiscard, RebuildPark, ramVars, history, IInv, TypeOK
    <2> QED BY <2>1, <2>2
  <1>3. TypeOK'
    BY <1>1, <1>2 DEF IInv, TypeOK
  <1>4. WorkersOK' /\ ClaimsOK' /\ OneDrain' /\ QueuesOK' /\ QuietBoot'
    BY <1>2 DEF IInv, WorkersOK, ClaimsOK, OneDrain, QueuesOK, QuietBoot
  <1>5. /\ TurnOwnsRow'
        /\ ScanComplete'
        /\ \A f \in Event : status'[f] = "received" => status[f] = "received" \/ readmits'[f] > 0
    <2>1. CASE HumanRequeue(e)
      <3>1. /\ status[e] \in {"interrupted", "dead"}
            /\ readmits'[e] > 0
            /\ mode \notin {"down", "parking"}
        BY <2>1, StoreMoves DEF HumanRequeue, IInv, TypeOK
      <3> QED
        BY <3>1, <1>1, <1>2, HeldEvent DEF IInv, TurnOwnsRow, ScanComplete
    <2>2. CASE HumanDiscard(e)
      BY <2>2, <1>2, StoreMoves DEF HumanDiscard, IInv, TypeOK, TurnOwnsRow, ScanComplete
    <2>3. CASE RebuildPark(e)
      BY <2>3, <1>1, <1>2, StoreMoves
      DEF RebuildPark, IInv, TypeOK, QuietBoot, TurnOwnsRow, ScanComplete
    <2> QED BY <2>1, <2>2, <2>3
  <1>6. NoForgottenEvent'
    BY <1>2, <1>5, StillIndexed
  <1> QED BY <1>3, <1>4, <1>5, <1>6 DEF IInv

\* The critical section at the head of the drain loop.
LEMMA DrainNextIInv ==
    ASSUME IInv, NEW w \in Worker, DrainNext(w) PROVE IInv'
  <1> DEFINE t == on[w]
  <1>1. /\ pc[w] = "loop" /\ t \in Thread /\ ev[w] = NoEvent
        /\ UNCHANGED <<storeVars, mode, ingesting, readmits, rescan, runs, grants, dropped>>
    BY DEF DrainNext, IInv, TypeOK, WorkersOK, history
  <1>2. CASE ~Accepting \/ pending[t] = <<>>
    <2>1. /\ claimed' = claimed \ {t}
          /\ pending' = [pending EXCEPT ![t] = <<>>]
          /\ pc' = [pc EXCEPT ![w] = "idle"]
          /\ on' = [on EXCEPT ![w] = NoThread]
          /\ ev' = ev
      BY <1>2 DEF DrainNext
    <2>2. TypeOK'
      BY <2>1, <1>1 DEF IInv, TypeOK, StoreTypeOK, storeVars, PCs
    <2>3. WorkersOK'
      BY <2>1, <1>1 DEF IInv, TypeOK, WorkersOK
    <2>4. ClaimsOK' /\ OneDrain'
      BY <2>1, <1>1, RouterAssumption DEF IInv, TypeOK, ClaimsOK, OneDrain
    <2>5. QueuesOK'
      BY <2>1, <1>1 DEF IInv, TypeOK, QueuesOK
    <2>6. QuietBoot' /\ TurnOwnsRow' /\ ScanComplete'
      BY <2>1, <1>1 DEF IInv, TypeOK, QuietBoot, TurnOwnsRow, ScanComplete, storeVars
    <2>7. NoForgottenEvent'
      <3>1. CASE ~Accepting
        BY <3>1, <1>1 DEF NoForgottenEvent, Accepting
      <3>2. CASE Accepting
        <4>1. pending' = pending
          BY <3>2, <1>2, <2>1, <1>1 DEF IInv, TypeOK
        <4>2. \A v \in Worker : pc[v] = "popped" => pc'[v] = "popped"
          BY <2>1, <1>1 DEF IInv, TypeOK
        <4> QED
          BY <4>1, <4>2, <2>1, <1>1, StillIndexed DEF storeVars
      <3> QED BY <3>1, <3>2
    <2> QED BY <2>2, <2>3, <2>4, <2>5, <2>6, <2>7 DEF IInv
  <1>3. CASE Accepting /\ pending[t] # <<>>
    <2> DEFINE q == pending[t]
    <2>1. /\ ev' = [ev EXCEPT ![w] = Head(q)]
          /\ pending' = [pending EXCEPT ![t] = Tail(q)]
          /\ pc' = [pc EXCEPT ![w] = "popped"]
          /\ UNCHANGED <<claimed, on>>
      BY <1>3 DEF DrainNext
    <2>2. /\ q \in Seq(Event) /\ Len(q) \in Nat /\ Len(q) > 0
          /\ Head(q) = q[1] /\ Head(q) \in Event
          /\ Tail(q) \in Seq(Event)
          /\ Len(Tail(q)) = Len(q) - 1
          /\ \A i \in 1..Len(Tail(q)) : Tail(q)[i] = q[i + 1]
      BY <1>1, <1>3 DEF IInv, TypeOK
    <2>3. TypeOK'
      BY <2>1, <2>2, <1>1 DEF IInv, TypeOK, StoreTypeOK, storeVars, PCs
    <2>4. ThreadOf[Head(q)] = t
      BY <2>2, <1>1 DEF IInv, QueuesOK
    <2>5. WorkersOK'
      BY <2>1, <2>2, <2>4, <1>1, RouterAssumption DEF IInv, TypeOK, WorkersOK
    <2>6. ClaimsOK' /\ OneDrain'
      BY <2>1 DEF IInv, ClaimsOK, OneDrain
    <2>7. QueuesOK'
      <3>1. t \in claimed
        BY <1>1 DEF IInv, ClaimsOK
      <3>2. \A i \in 1..Len(Tail(q)) : ThreadOf[Tail(q)[i]] = t
        BY <2>2, <1>1 DEF IInv, QueuesOK
      <3> QED
        BY <3>1, <3>2, <2>1, <1>1 DEF IInv, TypeOK, QueuesOK
    <2>8. QuietBoot' /\ TurnOwnsRow' /\ ScanComplete'
      BY <2>1, <1>1, HeldEvent DEF IInv, TypeOK, QuietBoot, TurnOwnsRow, ScanComplete, storeVars
    <2>9. NoForgottenEvent'
      <3> SUFFICES ASSUME NEW e \in Event, Indexed(e) PROVE Indexed(e)'
        BY <1>1 DEF IInv, NoForgottenEvent, Accepting, storeVars
      <3>1. CASE \E v \in Worker : pc[v] = "popped" /\ ev[v] = e
        BY <3>1, <2>1, <1>1 DEF Indexed, IInv, TypeOK
      <3>2. CASE e \in ingesting \cup rescan \/ readmits[e] > 0
        BY <3>2, <1>1 DEF Indexed
      <3>3. ASSUME NEW i \in 1..Len(pending[ThreadOf[e]]), pending[ThreadOf[e]][i] = e
            PROVE  Indexed(e)'
        <4>1. CASE ThreadOf[e] # t
          BY <4>1, <3>3, <2>1, <1>1, RouterAssumption DEF Indexed, IInv, TypeOK
        <4>2. CASE ThreadOf[e] = t /\ i = 1
          BY <4>2, <3>3, <2>1, <2>2, <1>1 DEF Indexed, IInv, TypeOK
        <4>3. CASE ThreadOf[e] = t /\ i # 1
          <5>1. i - 1 \in 1..Len(Tail(q)) /\ Tail(q)[i - 1] = q[(i - 1) + 1]
            BY <4>3, <3>3, <2>2
          <5>2. q[(i - 1) + 1] = e
            BY <4>3, <3>3, <2>2
          <5>3. pending'[ThreadOf[e]] = Tail(q)
            BY <4>3, <2>1, <1>1 DEF IInv, TypeOK
          <5> QED BY <5>1, <5>2, <5>3 DEF Indexed
        <4> QED BY <4>1, <4>2, <4>3
      <3> QED BY <3>1, <3>2, <3>3 DEF Indexed
    <2> QED BY <2>3, <2>5, <2>6, <2>7, <2>8, <2>9 DEF IInv
  <1> QED BY <1>2, <1>3

\* The steps of a goroutine that holds an event.
LEMMA HandlerIInv ==
    ASSUME IInv, NEW w \in Worker,
           \/ StartTurn(w) \/ RefuseTurn(w) \/ StampFails(w) \/ SettleTurn(w)
           \/ RetryTurn(w) \/ Panic(w) \/ Return(w)
    PROVE  IInv'
  <1> DEFINE e == ev[w]
  <1>1. /\ pc[w] \notin {"idle", "loop"}
        /\ e \in Event /\ on[w] \in Thread
        /\ \A v \in Worker : v # w /\ pc[v] \notin {"idle", "loop"} => ev[v] # e
    <2>1. pc[w] \notin {"idle", "loop"}
      BY DEF StartTurn, RefuseTurn, StampFails, SettleTurn, RetryTurn, Panic, Return, InTurn
    <2> QED
      BY <2>1, HeldEvent, RouterAssumption DEF IInv, OneDrain
  <1>2. /\ UNCHANGED <<mode, pending, claimed, on, ingesting, rescan, grants>>
        /\ \E p \in PCs \ {"idle"} :
             /\ pc' = [pc EXCEPT ![w] = p]
             /\ \/ p = "loop" /\ ev' = [ev EXCEPT ![w] = NoEvent]
                \/ p # "loop" /\ ev' = ev
    BY DEF StartTurn, RefuseTurn, StampFails, SettleTurn, RetryTurn, Panic, Return,
           history, PCs
  <1>3. /\ pc' \in [Worker -> PCs]
        /\ ev' \in [Worker -> Event \cup {NoEvent}]
        /\ WorkersOK' /\ ClaimsOK' /\ OneDrain' /\ QueuesOK' /\ QuietBoot'
    BY <1>1, <1>2, WorkerStep
  <1>4. /\ StoreTypeOK'
        /\ \A f \in Event : f # e => status'[f] = status[f]
    BY <1>1, StoreStep DEF StartTurn, RefuseTurn, StampFails, SettleTurn, RetryTurn,
       Panic, Return, IInv, TypeOK, StoreTypeOK, storeVars
  <1>5. readmits' \in [Event -> Nat] /\ \A f \in Event : readmits[f] > 0 => readmits'[f] > 0
    <2>1. CASE RetryTurn(w)
      BY <2>1, <1>1 DEF RetryTurn, IInv, TypeOK
    <2>2. CASE ~RetryTurn(w)
      BY <2>2 DEF StartTurn, RefuseTurn, StampFails, SettleTurn, Panic, Return, IInv, TypeOK
    <2> QED BY <2>1, <2>2
  <1>6. runs' \in [Event -> Nat] /\ dropped' \in SUBSET Event /\ dropped \subseteq dropped'
    <2>1. CASE StartTurn(w)
      BY <2>1, <1>1 DEF StartTurn, IInv, TypeOK
    <2>2. CASE ~StartTurn(w)
      BY <2>2, <1>1 DEF RefuseTurn, StampFails, SettleTurn, RetryTurn, Panic, Return,
                        history, IInv, TypeOK
    <2> QED BY <2>1, <2>2
  <1>7. TypeOK'
    BY <1>2, <1>3, <1>4, <1>5, <1>6 DEF IInv, TypeOK
  <1>8. /\ pc'[w] = "turn" => status'[e] = "processing"
        /\ status'[e] = "received" => status[e] = "received" \/ readmits'[e] > 0
        /\ pc[w] = "popped" => \/ status'[e] # "received" \/ e \in dropped'
                               \/ ~Accepting
    <2>1. CASE StartTurn(w)
      BY <2>1, <1>1, StoreMoves DEF StartTurn, IInv, TypeOK
    <2>2. CASE RefuseTurn(w) \/ StampFails(w) \/ Return(w)
      BY <2>2, <1>1 DEF RefuseTurn, StampFails, Return, IInv, TypeOK, InTurn, storeVars
    <2>3. CASE SettleTurn(w)
      BY <2>3, <1>1, StoreMoves DEF SettleTurn, IInv, TypeOK
    <2>4. CASE RetryTurn(w)
      BY <2>4, <1>1 DEF RetryTurn, IInv, TypeOK
    <2>5. CASE Panic(w)
      BY <2>5, <1>1, StoreMoves DEF Panic, IInv, TypeOK, storeVars
    <2> QED BY <2>1, <2>2, <2>3, <2>4, <2>5
  <1>9. TurnOwnsRow'
    <2> SUFFICES ASSUME NEW v \in Worker, pc'[v] = "turn"
                 PROVE  status'[ev'[v]] = "processing"
      BY DEF TurnOwnsRow
    <2>1. CASE v = w
      <3>1. ev' = ev
        BY <2>1, <1>2 DEF IInv, TypeOK
      <3> QED BY <3>1, <2>1, <1>8
    <2>2. CASE v # w
      <3>1. pc[v] = "turn" /\ ev'[v] = ev[v]
        BY <2>2, <1>2 DEF IInv, TypeOK
      <3>2. ev[v] \in Event /\ ev[v] # e
        BY <3>1, <2>2, <1>1, HeldEvent
      <3> QED
        BY <3>1, <3>2, <1>4 DEF IInv, TurnOwnsRow
    <2> QED BY <2>1, <2>2
  <1>10. ScanComplete'
    BY <1>1, <1>2 DEF IInv, QuietBoot, ScanComplete
  <1>11. NoForgottenEvent'
    <2>1. \A f \in Event : status'[f] = "received" => status[f] = "received" \/ readmits'[f] > 0
      BY <1>4, <1>8
    <2>2. \A v \in Worker : pc[v] = "popped" =>
             \/ pc'[v] = "popped" /\ ev'[v] = ev[v]
             \/ status'[ev[v]] # "received"
             \/ ev[v] \in dropped' \/ ~Accepting
      BY <1>2, <1>8 DEF IInv, TypeOK
    <2> QED BY <2>1, <2>2, <1>2, <1>5, <1>6, StillIndexed
  <1> QED BY <1>3, <1>7, <1>9, <1>10, <1>11 DEF IInv

\* Boot, shutdown and crash.
LEMMA LifeIInv ==
    ASSUME IInv,
           \/ Boot \/ RebuildFails \/ RebuildParked \/ GoLive \/ Stop \/ Exit \/ Crash
    PROVE  IInv'
  <1>1. CASE Exit \/ Crash
    <2>1. /\ mode' = "down" /\ ForgetRAM
          /\ UNCHANGED <<storeVars, runs, grants>>
      BY <1>1 DEF Exit, Crash
    <2>2. TypeOK'
      BY <2>1 DEF ForgetRAM, IInv, TypeOK, StoreTypeOK, storeVars, Modes, PCs
    <2>3. WorkersOK' /\ ClaimsOK' /\ OneDrain' /\ QueuesOK'
      BY <2>1, RouterAssumption DEF ForgetRAM, WorkersOK, ClaimsOK, OneDrain, QueuesOK
    <2>4. QuietBoot' /\ TurnOwnsRow' /\ ScanComplete' /\ NoForgottenEvent'
      BY <2>1 DEF ForgetRAM, QuietBoot, TurnOwnsRow, ScanComplete, NoForgottenEvent, Accepting
    <2> QED BY <2>2, <2>3, <2>4 DEF IInv
  <1>2. CASE Boot \/ RebuildFails \/ RebuildParked \/ GoLive \/ Stop
    <2>1. /\ UNCHANGED <<storeVars, pending, claimed, pc, on, ev, ingesting, readmits,
                         runs, grants, dropped>>
          /\ mode' \in Modes /\ rescan' \in SUBSET Event
          /\ mode' \in {"down", "parking"} => mode \in {"down", "parking"}
      BY <1>2 DEF Boot, RebuildFails, RebuildParked, GoLive, Stop, IInv, TypeOK, Modes,
         history, UnprocessedEvents
    <2>2. TypeOK'
      BY <2>1 DEF IInv, TypeOK, StoreTypeOK, storeVars
    <2>3. WorkersOK' /\ ClaimsOK' /\ OneDrain' /\ QueuesOK' /\ QuietBoot' /\ TurnOwnsRow'
      BY <2>1 DEF IInv, WorkersOK, ClaimsOK, OneDrain, QueuesOK, QuietBoot, TurnOwnsRow, storeVars
    <2>4. ScanComplete'
      BY <1>2, <2>1 DEF Boot, RebuildFails, RebuildParked, GoLive, Stop, ScanComplete,
         UnprocessedEvents, storeVars
    <2>5. NoForgottenEvent'
      BY <1>2, <2>1 DEF Boot, RebuildFails, RebuildParked, GoLive, Stop, IInv, ScanComplete,
         NoForgottenEvent, Indexed, Accepting, storeVars
    <2> QED BY <2>2, <2>3, <2>4, <2>5 DEF IInv
  <1> QED BY <1>1, <1>2

\* Every step keeps the inductive invariant.
LEMMA NextIInv == IInv /\ [Next]_vars => IInv'
  <1> SUFFICES ASSUME IInv, [Next]_vars PROVE IInv'
    OBVIOUS
  <1>1. ASSUME NEW e \in Event,
               \/ Persist(e) \/ PersistEnqueue(e) \/ Readmit(e) \/ HumanRequeue(e)
               \/ HumanDiscard(e) \/ RebuildPark(e) \/ RebuildEnqueue(e)
        PROVE  IInv'
    BY <1>1, PersistIInv, EnqueuersIInv, TableStepsIInv
  <1>2. ASSUME NEW w \in Worker, Drain(w) PROVE IInv'
    BY <1>2, DrainNextIInv, HandlerIInv DEF Drain
  <1>3. CASE Boot \/ RebuildFails \/ RebuildParked \/ GoLive \/ Stop \/ Exit \/ Crash
    BY <1>3, LifeIInv
  <1>4. CASE UNCHANGED vars
    BY <1>4 DEF vars, storeVars, ramVars, history, IInv, TypeOK, StoreTypeOK, WorkersOK,
       ClaimsOK, OneDrain, QueuesOK, QuietBoot, TurnOwnsRow, ScanComplete,
       NoForgottenEvent, Indexed, Accepting
  <1> QED BY <1>1, <1>2, <1>3, <1>4 DEF Next

\* The inductive invariant holds in every reachable state.
LEMMA Invariance == Spec => []IInv
  BY InitIInv, NextIInv, PTL DEF Spec

-----------------------------------------------------------------------------
\* Every variable of the router and of the store keeps its type.
THEOREM TypeCorrect == Spec => []TypeOK
  <1>1. IInv => TypeOK
    BY DEF IInv
  <1> QED BY <1>1, Invariance, PTL

\* router.go, drain: at most one goroutine, hence one turn, per thread key.
THEOREM Serial == Spec => []SerialDispatch
  <1>1. IInv => SerialDispatch
    BY DEF IInv, WorkersOK, OneDrain, SerialDispatch
  <1> QED BY <1>1, Invariance, PTL

\* router.go, drain: releasing the claim with the empty-check under one lock
\* acquisition never leaves queued work without a goroutine.
THEOREM WakeupKept == Spec => []NoLostWakeup
  <1>1. IInv => NoLostWakeup
    BY RouterAssumption DEF IInv, TypeOK, WorkersOK, ClaimsOK, QueuesOK, NoLostWakeup
  <1> QED BY <1>1, Invariance, PTL

\* router.go, dispatch: while a handler has not made its last write, its row
\* is 'processing' and nothing else moves it.
THEOREM RowOwned == Spec => []TurnOwnsRow
  <1>1. IInv => TurnOwnsRow
    BY DEF IInv
  <1> QED BY <1>1, Invariance, PTL

\* router.go, Rebuild and Persist: the RAM index covers every received row of
\* the table while the daemon accepts work.
THEOREM NothingForgotten == Spec => []NoForgottenEvent
  <1>1. IInv => NoForgottenEvent
    BY DEF IInv
  <1> QED BY <1>1, Invariance, PTL

-----------------------------------------------------------------------------
(* The router implements the contract on turns.                            *)

\* Only the phase of the event that moved changes.
LEMMA PhaseMoved ==
    ASSUME NEW e \in Event,
           \A f \in Event : f # e => UNCHANGED <<status[f], deadLetter[f]>>
    PROVE  [f \in Event |-> TurnPhase(f)]'
             = [[f \in Event |-> TurnPhase(f)] EXCEPT ![e] = TurnPhase(e)']
  <1>1. \A f \in Event : f # e => TurnPhase(f)' = TurnPhase(f)
    BY DEF TurnPhase
  <1> QED BY <1>1

\* The phases stand for the table alone.
LEMMA PhasesKept ==
    ASSUME \A f \in Event : UNCHANGED <<status[f], deadLetter[f]>>
    PROVE  UNCHANGED [f \in Event |-> TurnPhase(f)]
  <1>1. \A f \in Event : TurnPhase(f)' = TurnPhase(f)
    BY DEF TurnPhase
  <1> QED BY <1>1

\* The live turns are those of the goroutines inside a handler.
LEMMA LiveKept ==
    ASSUME \A w \in Worker :
             /\ pc'[w] \in InTurn <=> pc[w] \in InTurn
             /\ pc[w] \in InTurn => ev'[w] = ev[w]
    PROVE  UNCHANGED LiveTurns
  BY DEF LiveTurns

\* Two handlers never serve one thread.
LEMMA LiveApart ==
    ASSUME IInv, NEW w \in Worker, pc[w] \notin {"idle", "loop"}
    PROVE  /\ ev[w] \in Event
           /\ \A v \in Worker :
                v # w /\ pc[v] \notin {"idle", "loop"} => ThreadOf[ev[v]] # ThreadOf[ev[w]]
  BY HeldEvent, RouterAssumption DEF IInv, OneDrain

\* A handler's steps, as the contract sees them.
LEMMA HandlerContract ==
    ASSUME IInv, NEW w \in Worker,
           \/ StartTurn(w) \/ RefuseTurn(w) \/ StampFails(w) \/ SettleTurn(w)
           \/ RetryTurn(w) \/ Panic(w) \/ Return(w)
    PROVE  Contract!Next \/ UNCHANGED Contract!contractVars
  <1> DEFINE ph == [f \in Event |-> TurnPhase(f)]
  <1>0. pc[w] \notin {"idle", "loop"}
    BY DEF StartTurn, RefuseTurn, StampFails, SettleTurn, RetryTurn, Panic, Return, InTurn
  <1>1. PICK e \in Event :
          /\ e = ev[w]
          /\ \A v \in Worker :
               v # w /\ pc[v] \notin {"idle", "loop"} => ThreadOf[ev[v]] # ThreadOf[e]
    BY <1>0, LiveApart
  <1>2. /\ status \in [Event -> Statuses] /\ deadLetter \in [Event -> Resolutions]
        /\ pc \in [Worker -> PCs] /\ ev \in [Worker -> Event \cup {NoEvent}]
    BY DEF IInv, TypeOK, StoreTypeOK
  <1>3. pc[w] \in InTurn => e \in LiveTurns
    BY <1>1 DEF LiveTurns
  <1>4. CASE StartTurn(w)
    <2>1. /\ pc[w] = "popped" /\ pc' = [pc EXCEPT ![w] = "turn"] /\ ev' = ev
          /\ MarkEventProcessing(e)
          /\ runs' = [runs EXCEPT ![e] = @ + 1] /\ UNCHANGED grants
      BY <1>4, <1>1 DEF StartTurn
    <2>2. ph' = [ph EXCEPT ![e] = "running"] /\ ph[e] = "licensed" /\ UNCHANGED attempts
      <3>1. /\ \A f \in Event : f # e => UNCHANGED <<status[f], deadLetter[f]>>
            /\ status[e] = "received" /\ status'[e] = "processing" /\ UNCHANGED attempts
        BY <2>1, <1>1, <1>2 DEF MarkEventProcessing, Move
      <3>2. TurnPhase(e)' = "running" /\ TurnPhase(e) = "licensed"
        BY <3>1 DEF TurnPhase
      <3> QED BY <3>1, <3>2, <1>1, PhaseMoved
    <2>3. LiveTurns' = LiveTurns \cup {e}
      BY <2>1, <1>1, <1>2 DEF LiveTurns, InTurn
    <2>4. \A f \in LiveTurns : ThreadOf[f] # ThreadOf[e]
      BY <2>1, <1>1 DEF LiveTurns, InTurn
    <2>5. Contract!Start(e)
      BY <2>1, <2>2, <2>3, <2>4 DEF Contract!Start
    <2> QED BY <2>5, <1>1 DEF Contract!Next
  <1>5. CASE RefuseTurn(w) \/ StampFails(w)
    <2>1. /\ pc[w] = "popped" /\ pc' = [pc EXCEPT ![w] = "loop"]
          /\ ev' = [ev EXCEPT ![w] = NoEvent]
          /\ UNCHANGED <<status, deadLetter, attempts, runs, grants>>
      BY <1>5 DEF RefuseTurn, StampFails, storeVars, history
    <2>2. UNCHANGED LiveTurns
      BY <2>1, <1>2, LiveKept DEF InTurn
    <2>3. UNCHANGED ph
      BY <2>1, PhasesKept
    <2> QED BY <2>1, <2>2, <2>3 DEF Contract!contractVars
  <1>6. CASE SettleTurn(w)
    <2>1. /\ pc[w] = "turn" /\ pc' = [pc EXCEPT ![w] = "settled"] /\ ev' = ev
          /\ EndOfTurn(e) /\ UNCHANGED <<runs, grants>>
          /\ status[e] = "processing"
      BY <1>6, <1>1 DEF SettleTurn, history, IInv, TurnOwnsRow
    <2>2. UNCHANGED LiveTurns
      BY <2>1, <1>2, LiveKept DEF InTurn
    <2>3. PICK to \in {"parked", "closed"} :
            ph[e] = "running" /\ ph' = [ph EXCEPT ![e] = to] /\ UNCHANGED attempts
      <3>1. /\ \A f \in Event : f # e => UNCHANGED <<status[f], deadLetter[f]>>
            /\ UNCHANGED attempts
            /\ status'[e] \in {"skipped", "completed", "interrupted", "dead"}
        BY <2>1, <1>1, <1>2 DEF EndOfTurn, SkipEvent, MarkEventCompleted, ParkEvent,
           DeadLetterEvent, Move
      <3>2. TurnPhase(e)' \in {"parked", "closed"} /\ TurnPhase(e) = "running"
        BY <3>1, <2>1 DEF TurnPhase
      <3> QED BY <3>1, <3>2, <1>1, PhaseMoved
    <2>4. Contract!Conclude(e, to)
      BY <2>1, <2>2, <2>3, <1>3 DEF Contract!Conclude, InTurn
    <2> QED BY <2>4, <1>1 DEF Contract!Next
  <1>7. CASE RetryTurn(w)
    <2>1. /\ pc[w] = "turn" /\ pc' = [pc EXCEPT ![w] = "settled"] /\ ev' = ev
          /\ RequeueEventForRetry(e) /\ UNCHANGED <<runs, grants>>
      BY <1>7, <1>1 DEF RetryTurn, history
    <2>2. UNCHANGED LiveTurns
      BY <2>1, <1>2, LiveKept DEF InTurn
    <2>3. /\ status[e] = "processing" /\ attempts[e] < MaxEventRetries
          /\ status' = [status EXCEPT ![e] = "received"]
          /\ attempts' = [attempts EXCEPT ![e] = @ + 1] /\ UNCHANGED deadLetter
      BY <2>1, <1>1, RetriesAssumption
      DEF RequeueEventForRetry, RequeueVerdict, IInv, TypeOK, StoreTypeOK
    <2>4. ph[e] = "running" /\ ph' = [ph EXCEPT ![e] = "licensed"]
      <3>1. TurnPhase(e)' = "licensed" /\ TurnPhase(e) = "running"
        BY <2>3, <1>1, <1>2 DEF TurnPhase
      <3> QED BY <3>1, <2>3, <1>1, <1>2, PhaseMoved
    <2>5. Contract!AutoRetry(e)
      BY <2>1, <2>2, <2>3, <2>4, <1>3 DEF Contract!AutoRetry, InTurn
    <2> QED BY <2>5, <1>1 DEF Contract!Next
  <1>8. CASE Panic(w)
    <2>1. /\ pc[w] \in {"turn", "settled"} /\ pc' = [pc EXCEPT ![w] = "unwinding"] /\ ev' = ev
          /\ ParkEvent(e) \/ UNCHANGED storeVars
          /\ UNCHANGED <<runs, grants>>
      BY <1>8, <1>1 DEF Panic, history
    <2>2. UNCHANGED LiveTurns
      BY <2>1, <1>2, LiveKept DEF InTurn
    <2>3. CASE UNCHANGED storeVars
      <3>1. UNCHANGED <<status, deadLetter, attempts>>
        BY <2>3 DEF storeVars
      <3>2. UNCHANGED ph
        BY <3>1, PhasesKept
      <3> QED BY <2>1, <2>2, <3>1, <3>2 DEF Contract!contractVars
    <2>4. CASE ~UNCHANGED storeVars
      <3>1. /\ status[e] \in {"received", "processing"}
            /\ status' = [status EXCEPT ![e] = "interrupted"]
            /\ UNCHANGED <<attempts, deadLetter>>
        BY <2>1, <2>4 DEF ParkEvent, Move
      <3>2. TurnPhase(e)' = "parked" /\ TurnPhase(e) \in {"licensed", "running"}
        BY <3>1, <1>1, <1>2 DEF TurnPhase
      <3>3. ph[e] \in {"licensed", "running"} /\ ph' = [ph EXCEPT ![e] = "parked"]
        BY <3>1, <3>2, <1>1, <1>2, PhaseMoved
      <3>4. Contract!Conclude(e, "parked")
        BY <2>1, <2>2, <3>1, <3>3, <1>3 DEF Contract!Conclude, InTurn
      <3> QED BY <3>4, <1>1 DEF Contract!Next
    <2> QED BY <2>3, <2>4
  <1>9. CASE Return(w)
    <2>1. /\ pc[w] \in InTurn /\ pc' = [pc EXCEPT ![w] = "loop"]
          /\ ev' = [ev EXCEPT ![w] = NoEvent]
          /\ UNCHANGED <<status, deadLetter, attempts, runs, grants>>
      BY <1>9 DEF Return, storeVars, history
    <2>2. LiveTurns' = LiveTurns \ {e}
      <3>1. \A v \in Worker : v # w /\ pc[v] \in InTurn => ev[v] # e
        BY <1>1 DEF InTurn
      <3> QED BY <3>1, <2>1, <1>1, <1>2 DEF LiveTurns, InTurn
    <2>3. UNCHANGED ph
      BY <2>1, PhasesKept
    <2>4. Contract!Return(e)
      BY <2>1, <2>2, <2>3, <1>3 DEF Contract!Return
    <2> QED BY <2>4, <1>1 DEF Contract!Next
  <1> QED BY <1>4, <1>5, <1>6, <1>7, <1>8, <1>9

\* The steps on the table made outside a handler: a receipt licenses, the
\* boot parks what was cut, a human decides.
LEMMA TableContract ==
    ASSUME IInv, NEW e \in Event,
           Persist(e) \/ HumanRequeue(e) \/ HumanDiscard(e) \/ RebuildPark(e)
    PROVE  Contract!Next \/ UNCHANGED Contract!contractVars
  <1> DEFINE ph == [f \in Event |-> TurnPhase(f)]
  <1>1. UNCHANGED LiveTurns
    <2>1. UNCHANGED <<pc, ev>>
      BY DEF Persist, HumanRequeue, HumanDiscard, RebuildPark, ramVars
    <2> QED BY <2>1 DEF LiveTurns
  <1>2. status \in [Event -> Statuses] /\ deadLetter \in [Event -> Resolutions]
    BY DEF IInv, TypeOK, StoreTypeOK
  <1>3. CASE Persist(e)
    <2>1. UNCHANGED <<runs, grants, attempts, deadLetter>>
      BY <1>3 DEF Persist, InsertEvent, storeVars, history
    <2>2. CASE status[e] = "absent"
      <3>1. status' = [status EXCEPT ![e] = "received"]
        BY <1>3, <2>2 DEF Persist, InsertEvent
      <3>2. TurnPhase(e) = "unseen" /\ TurnPhase(e)' = "licensed"
        BY <2>2, <3>1, <1>2 DEF TurnPhase
      <3>3. ph[e] = "unseen" /\ ph' = [ph EXCEPT ![e] = "licensed"]
        BY <3>1, <3>2, <2>1, <1>2, PhaseMoved
      <3>4. Contract!Receive(e)
        BY <1>1, <2>1, <3>3 DEF Contract!Receive
      <3> QED BY <3>4 DEF Contract!Next
    <2>3. CASE status[e] # "absent"
      <3>1. UNCHANGED status
        BY <1>3, <2>3 DEF Persist, storeVars
      <3>2. UNCHANGED ph
        BY <3>1, <2>1, PhasesKept
      <3> QED BY <1>1, <2>1, <3>2 DEF Contract!contractVars
    <2> QED BY <2>2, <2>3
  <1>4. CASE HumanRequeue(e)
    <2>1. /\ \/ status[e] = "interrupted" /\ UNCHANGED deadLetter
             \/ /\ status[e] = "dead" /\ deadLetter[e] = "open"
                /\ deadLetter' = [deadLetter EXCEPT ![e] = "requeued"]
          /\ status' = [status EXCEPT ![e] = "received"]
          /\ grants' = [grants EXCEPT ![e] = @ + 1]
          /\ UNCHANGED <<attempts, runs>>
      BY <1>4 DEF HumanRequeue, RequeueInterruptedEvent, ResolveDeadLetterRequeue, Move
    <2>2. TurnPhase(e) = "parked" /\ TurnPhase(e)' = "licensed"
      BY <2>1, <1>2 DEF TurnPhase
    <2>3. ph[e] = "parked" /\ ph' = [ph EXCEPT ![e] = "licensed"]
      BY <2>1, <2>2, <1>2, PhaseMoved
    <2>4. Contract!HumanRetry(e)
      BY <1>1, <2>1, <2>3 DEF Contract!HumanRetry
    <2> QED BY <2>4 DEF Contract!Next
  <1>5. CASE HumanDiscard(e)
    <2>1. /\ deadLetter[e] = "open"
          /\ deadLetter' = [deadLetter EXCEPT ![e] = "discarded"]
          /\ UNCHANGED <<status, attempts, runs, grants>>
      BY <1>5 DEF HumanDiscard, ResolveDeadLetterDiscard, history
    <2>2. CASE status[e] = "dead"
      <3>1. TurnPhase(e) = "parked" /\ TurnPhase(e)' = "closed"
        BY <2>1, <2>2, <1>2 DEF TurnPhase
      <3>2. ph[e] = "parked" /\ ph' = [ph EXCEPT ![e] = "closed"]
        BY <2>1, <3>1, <1>2, PhaseMoved
      <3>3. Contract!HumanDiscard(e)
        BY <1>1, <2>1, <3>2 DEF Contract!HumanDiscard
      <3> QED BY <3>3 DEF Contract!Next
    <2>3. CASE status[e] # "dead"
      <3>1. \A f \in Event : TurnPhase(f)' = TurnPhase(f)
        BY <2>1, <2>3, <1>2 DEF TurnPhase
      <3>2. UNCHANGED ph
        BY <3>1
      <3> QED BY <1>1, <2>1, <3>2 DEF Contract!contractVars
    <2> QED BY <2>2, <2>3
  <1>6. CASE RebuildPark(e)
    <2>1. /\ status[e] = "processing"
          /\ status' = [status EXCEPT ![e] = "interrupted"]
          /\ UNCHANGED <<attempts, deadLetter, runs, grants>>
      BY <1>6 DEF RebuildPark, ParkEvent, Move, history
    <2>2. TurnPhase(e) = "running" /\ TurnPhase(e)' = "parked"
      BY <2>1, <1>2 DEF TurnPhase
    <2>3. ph[e] = "running" /\ ph' = [ph EXCEPT ![e] = "parked"]
      BY <2>1, <2>2, <1>2, PhaseMoved
    <2>4. LiveTurns = {}
      BY <1>6 DEF RebuildPark, IInv, QuietBoot, LiveTurns, InTurn
    <2>5. Contract!RecoverCut(e)
      BY <1>1, <2>1, <2>3, <2>4 DEF Contract!RecoverCut
    <2> QED BY <2>5 DEF Contract!Next
  <1> QED BY <1>3, <1>4, <1>5, <1>6

\* The index moves and the table does not: the contract sees nothing, or,
\* when the process ends, the death of its turns.
LEMMA IndexContract ==
    ASSUME IInv,
           \/ \E e \in Event : PersistEnqueue(e) \/ Readmit(e) \/ RebuildEnqueue(e)
           \/ \E w \in Worker : DrainNext(w)
           \/ Boot \/ RebuildFails \/ RebuildParked \/ GoLive \/ Stop \/ Exit \/ Crash
           \/ UNCHANGED vars
    PROVE  Contract!Next \/ UNCHANGED Contract!contractVars
  <1> DEFINE ph == [f \in Event |-> TurnPhase(f)]
  <1>1. UNCHANGED <<status, deadLetter, attempts, runs, grants>>
    BY DEF PersistEnqueue, Readmit, RebuildEnqueue, DrainNext, Boot, RebuildFails,
       RebuildParked, GoLive, Stop, Exit, Crash, vars, storeVars, history
  <1>2. UNCHANGED ph
    BY <1>1, PhasesKept
  <1>3. pc \in [Worker -> PCs] /\ ev \in [Worker -> Event \cup {NoEvent}]
    BY DEF IInv, TypeOK
  <1>4. CASE Exit \/ Crash
    <2>1. LiveTurns' = {}
      BY <1>4 DEF Exit, Crash, ForgetRAM, LiveTurns, InTurn
    <2>2. Contract!Die
      BY <1>1, <1>2, <2>1 DEF Contract!Die
    <2> QED BY <2>2 DEF Contract!Next
  <1>5. CASE \/ \E e \in Event : PersistEnqueue(e) \/ Readmit(e) \/ RebuildEnqueue(e)
             \/ \E w \in Worker : DrainNext(w)
             \/ Boot \/ RebuildFails \/ RebuildParked \/ GoLive \/ Stop
             \/ UNCHANGED vars
    <2>1. UNCHANGED LiveTurns
      <3>1. CASE \E e \in Event : PersistEnqueue(e) \/ Readmit(e) \/ RebuildEnqueue(e)
        <4>1. PICK e \in Event : Enqueue(e) /\ ev' = ev
          BY <3>1 DEF PersistEnqueue, Readmit, RebuildEnqueue
        <4>2. \A w \in Worker : pc'[w] \in InTurn <=> pc[w] \in InTurn
          BY <4>1, <1>3 DEF Enqueue, InTurn
        <4> QED BY <4>1, <4>2, LiveKept
      <3>2. CASE \E w \in Worker : DrainNext(w)
        <4>1. PICK w \in Worker : DrainNext(w)
          BY <3>2
        <4>2. \A v \in Worker : /\ pc'[v] \in InTurn <=> pc[v] \in InTurn
                                /\ pc[v] \in InTurn => ev'[v] = ev[v]
          BY <4>1, <1>3 DEF DrainNext, InTurn
        <4> QED BY <4>2, LiveKept
      <3>3. CASE Boot \/ RebuildFails \/ RebuildParked \/ GoLive \/ Stop \/ UNCHANGED vars
        <4>1. UNCHANGED <<pc, ev>>
          BY <3>3 DEF Boot, RebuildFails, RebuildParked, GoLive, Stop, vars, ramVars
        <4> QED BY <4>1 DEF LiveTurns
      <3> QED BY <1>5, <3>1, <3>2, <3>3
    <2> QED BY <1>1, <1>2, <2>1 DEF Contract!contractVars
  <1> QED BY <1>4, <1>5

\* router.go and store/events.go implement the contract on turns: every step
\* of a queue, a goroutine, a timer, a human or the boot is a step of the
\* contract or invisible to it, so a turn starts only on a licence and
\* never beside another turn of its thread.
THEOREM ContractKept == Spec => ImplementsContract
  <1>1. Init => Contract!Init
    <2> SUFFICES ASSUME Init PROVE Contract!Init
      OBVIOUS
    <2>1. \A e \in Event : TurnPhase(e) = "unseen"
      BY DEF Init, StoreInit, TurnPhase
    <2>2. LiveTurns = {}
      BY DEF Init, LiveTurns, InTurn
    <2> QED BY <2>1, <2>2 DEF Contract!Init, Init, StoreInit
  <1>2. IInv /\ [Next]_vars => [Contract!Next]_(Contract!contractVars)
    <2> SUFFICES ASSUME IInv, [Next]_vars
                 PROVE  Contract!Next \/ UNCHANGED Contract!contractVars
      OBVIOUS
    <2> QED BY HandlerContract, TableContract, IndexContract DEF Next, Drain
  <1> QED BY <1>1, <1>2, Invariance, PTL DEF Spec, ImplementsContract, Contract!Spec

-----------------------------------------------------------------------------
(* What the table's history says, and the order of first turns.            *)

\* The history behind an event's row: what was never received has had no
\* turn, what has left the queue or waits for a timer or a human has had one,
\* and the turns never outnumber the licences.
HistoryOK ==
    /\ \A e \in Event :
         /\ status[e] = "absent" => runs[e] = 0
         /\ status[e] \notin {"absent", "received"} => runs[e] > 0
         /\ readmits[e] > 0 => runs[e] > 0
         /\ runs[e] + (IF status[e] = "received" THEN 1 ELSE 0) <= 1 + attempts[e] + grants[e]
    /\ \A w \in Worker : pc[w] \in InTurn => runs[ev[w]] > 0

\* An event owed its first turn.
First(e) == status[e] = "received" /\ runs[e] = 0

\* Both are owed their first turn, and e was received before f.
Older(e, f) ==
    First(e) /\ First(f) /\ ThreadOf[e] = ThreadOf[f] /\ rowid[e] < rowid[f]

\* What RAM refers to has a row, and rows are numbered in order of receipt.
RowsOK ==
    /\ \A e \in Event : rowid[e] <= lastId
    /\ \A t \in Thread : \A i \in 1..Len(pending[t]) : status[pending[t][i]] # "absent"
    /\ \A w \in Worker : pc[w] \notin {"idle", "loop"} => status[ev[w]] # "absent"
    /\ \A e \in ingesting \cup rescan : status[e] # "absent"

\* Two callbacks between insert and enqueue hold different ingest locks, and
\* the boot scan is over before the first callback runs.
IngestOK ==
    /\ \A e, f \in ingesting : ShardOf[ThreadOf[e]] = ShardOf[ThreadOf[f]] => e = f
    /\ mode \in {"down", "parking", "indexing"} => ingesting = {}
    /\ mode = "up" => rescan = {}

\* Ahead of a queued event owed its first turn are all older ones of its
\* thread: in the queue before it, or popped, or refused a stamp.
QueueOrder ==
    Accepting => \A t \in Thread : \A j \in 1..Len(pending[t]) : \A e \in Event :
        Older(e, pending[t][j]) =>
            \/ e \in dropped
            \/ \E i \in 1..Len(pending[t]) : i < j /\ pending[t][i] = e
            \/ \E w \in Worker : pc[w] = "popped" /\ ev[w] = e

\* No older event waits behind a popped one.
PopOrder ==
    Accepting => \A w \in Worker : \A e \in Event :
        pc[w] = "popped" /\ Older(e, ev[w]) => e \in dropped

OInv == HistoryOK /\ RowsOK /\ IngestOK /\ QueueOrder /\ PopOrder

\* The table's side of HistoryOK survives a transaction on e that follows the
\* licences.
LEMMA HistoryStep ==
    ASSUME IInv, IInv', HistoryOK, NEW e \in Event,
           \A f \in Event : f # e =>
               UNCHANGED <<status[f], attempts[f], runs[f], grants[f], readmits[f]>>,
           runs'[e] >= runs[e],
           status'[e] = "absent" => status[e] = "absent" /\ runs'[e] = runs[e],
           status'[e] \notin {"absent", "received"} => runs'[e] > 0,
           readmits'[e] > 0 => runs'[e] > 0,
           runs'[e] + (IF status'[e] = "received" THEN 1 ELSE 0)
               <= 1 + attempts'[e] + grants'[e],
           \A w \in Worker : pc'[w] \in InTurn =>
               \/ pc[w] \in InTurn /\ ev'[w] = ev[w]
               \/ runs'[ev'[w]] > 0
    PROVE  HistoryOK'
  <1>1. /\ runs \in [Event -> Nat] /\ runs' \in [Event -> Nat]
        /\ \A w \in Worker : pc[w] \in InTurn => ev[w] \in Event
    BY HeldEvent DEF IInv, TypeOK, InTurn
  <1>2. \A f \in Event :
          /\ status'[f] = "absent" => runs'[f] = 0
          /\ status'[f] \notin {"absent", "received"} => runs'[f] > 0
          /\ readmits'[f] > 0 => runs'[f] > 0
          /\ runs'[f] + (IF status'[f] = "received" THEN 1 ELSE 0) <= 1 + attempts'[f] + grants'[f]
    <2> SUFFICES ASSUME NEW f \in Event
                 PROVE  /\ status'[f] = "absent" => runs'[f] = 0
                        /\ status'[f] \notin {"absent", "received"} => runs'[f] > 0
                        /\ readmits'[f] > 0 => runs'[f] > 0
                        /\ runs'[f] + (IF status'[f] = "received" THEN 1 ELSE 0)
                             <= 1 + attempts'[f] + grants'[f]
      OBVIOUS
    <2>1. CASE f = e
      BY <2>1 DEF HistoryOK
    <2>2. CASE f # e
      BY <2>2 DEF HistoryOK
    <2> QED BY <2>1, <2>2
  <1>3. \A f \in Event : runs'[f] >= runs[f]
    <2> SUFFICES ASSUME NEW f \in Event PROVE runs'[f] >= runs[f]
      OBVIOUS
    <2>1. CASE f = e
      BY <2>1
    <2>2. CASE f # e
      BY <2>2, <1>1
    <2> QED BY <2>1, <2>2
  <1>4. \A w \in Worker : pc'[w] \in InTurn => runs'[ev'[w]] > 0
    <2> SUFFICES ASSUME NEW w \in Worker, pc[w] \in InTurn, ev'[w] = ev[w]
                 PROVE  runs'[ev'[w]] > 0
      OBVIOUS
    <2>1. ev[w] \in Event /\ runs[ev[w]] > 0
      BY <1>1 DEF HistoryOK
    <2> QED BY <2>1, <1>1, <1>3
  <1> QED BY <1>2, <1>4 DEF HistoryOK

\* A handler's steps spend and win licences.
LEMMA HandlerHistory ==
    ASSUME IInv, IInv', HistoryOK, NEW w \in Worker,
           \/ StartTurn(w) \/ RefuseTurn(w) \/ StampFails(w) \/ SettleTurn(w)
           \/ RetryTurn(w) \/ Panic(w) \/ Return(w)
    PROVE  HistoryOK'
  <1>1. /\ pc[w] \notin {"idle", "loop"} /\ ev[w] \in Event
        /\ status \in [Event -> Statuses] /\ attempts \in [Event -> Nat]
        /\ runs \in [Event -> Nat] /\ grants \in [Event -> Nat]
        /\ readmits \in [Event -> Nat] /\ pc \in [Worker -> PCs]
        /\ ev \in [Worker -> Event \cup {NoEvent}]
    <2>1. pc[w] \notin {"idle", "loop"}
      BY DEF StartTurn, RefuseTurn, StampFails, SettleTurn, RetryTurn, Panic, Return, InTurn
    <2> QED BY <2>1, HeldEvent DEF IInv, TypeOK, StoreTypeOK
  <1>2. PICK e \in Event : e = ev[w]
    BY <1>1
  <1>3. /\ status[e] = "absent" => runs[e] = 0
        /\ status[e] \notin {"absent", "received"} => runs[e] > 0
        /\ readmits[e] > 0 => runs[e] > 0
        /\ runs[e] + (IF status[e] = "received" THEN 1 ELSE 0) <= 1 + attempts[e] + grants[e]
        /\ pc[w] \in InTurn => runs[e] > 0
    BY <1>2 DEF HistoryOK
  <1>4. CASE StartTurn(w)
    <2>1. /\ status[e] = "received" /\ status' = [status EXCEPT ![e] = "processing"]
          /\ runs' = [runs EXCEPT ![e] = @ + 1] /\ ev' = ev
          /\ pc' = [pc EXCEPT ![w] = "turn"]
          /\ UNCHANGED <<attempts, grants, readmits>>
      BY <1>4, <1>2 DEF StartTurn, MarkEventProcessing, Move
    <2>2. runs'[e] = runs[e] + 1 /\ status'[e] = "processing"
      BY <2>1, <1>1
    <2>3. \A v \in Worker : pc'[v] \in InTurn =>
             (pc[v] \in InTurn /\ ev'[v] = ev[v]) \/ runs'[ev'[v]] > 0
      BY <2>1, <2>2, <1>1, <1>2
    <2> QED BY <2>1, <2>2, <2>3, <1>1, <1>3, HistoryStep
  <1>5. CASE RefuseTurn(w) \/ StampFails(w) \/ Return(w)
    <2>1. /\ UNCHANGED <<status, attempts, runs, grants, readmits>>
          /\ pc' = [pc EXCEPT ![w] = "loop"] /\ ev' = [ev EXCEPT ![w] = NoEvent]
      BY <1>5 DEF RefuseTurn, StampFails, Return, storeVars, history
    <2> QED BY <2>1, <1>1, <1>3, HistoryStep DEF InTurn
  <1>6. CASE SettleTurn(w)
    <2>1. /\ status[e] = "processing" /\ EndOfTurn(e)
          /\ UNCHANGED <<runs, grants, readmits, ev>>
          /\ pc[w] = "turn" /\ pc' = [pc EXCEPT ![w] = "settled"]
      BY <1>6, <1>2 DEF SettleTurn, history, IInv, TurnOwnsRow
    <2>2. /\ UNCHANGED attempts
          /\ \A f \in Event : f # e => UNCHANGED status[f]
          /\ status'[e] \notin {"absent", "received"}
      BY <2>1, <1>1 DEF EndOfTurn, SkipEvent, MarkEventCompleted, ParkEvent,
         DeadLetterEvent, Move
    <2> QED BY <2>1, <2>2, <1>1, <1>3, HistoryStep DEF InTurn
  <1>7. CASE RetryTurn(w)
    <2>1. /\ status[e] = "processing"
          /\ status' = [status EXCEPT ![e] = "received"]
          /\ attempts' = [attempts EXCEPT ![e] = @ + 1]
          /\ readmits' = [readmits EXCEPT ![e] = @ + 1]
          /\ UNCHANGED <<runs, grants, ev>>
          /\ pc[w] = "turn" /\ pc' = [pc EXCEPT ![w] = "settled"]
      BY <1>7, <1>2 DEF RetryTurn, RequeueEventForRetry, RequeueVerdict, history
    <2>2. attempts'[e] = attempts[e] + 1 /\ status'[e] = "received"
      BY <2>1, <1>1
    <2> QED BY <2>1, <2>2, <1>1, <1>3, HistoryStep DEF InTurn
  <1>8. CASE Panic(w)
    <2>1. /\ UNCHANGED <<runs, grants, readmits, ev>>
          /\ pc[w] \in InTurn /\ pc' = [pc EXCEPT ![w] = "unwinding"]
          /\ ParkEvent(e) \/ UNCHANGED storeVars
      BY <1>8, <1>2 DEF Panic, InTurn, history
    <2>2. /\ UNCHANGED attempts
          /\ \A f \in Event : f # e => UNCHANGED status[f]
          /\ status'[e] = status[e] \/ status'[e] = "interrupted"
      BY <2>1, <1>1 DEF ParkEvent, Move, storeVars
    <2> QED BY <2>1, <2>2, <1>1, <1>3, HistoryStep DEF InTurn
  <1> QED BY <1>4, <1>5, <1>6, <1>7, <1>8

\* So do the steps made outside a handler.
LEMMA OthersHistory ==
    ASSUME IInv, IInv', HistoryOK, NEW e \in Event,
           \/ Persist(e) \/ HumanRequeue(e) \/ HumanDiscard(e) \/ RebuildPark(e)
           \/ PersistEnqueue(e) \/ Readmit(e) \/ RebuildEnqueue(e)
    PROVE  HistoryOK'
  <1>1. /\ status \in [Event -> Statuses] /\ attempts \in [Event -> Nat]
        /\ runs \in [Event -> Nat] /\ grants \in [Event -> Nat]
        /\ readmits \in [Event -> Nat] /\ pc \in [Worker -> PCs]
    BY DEF IInv, TypeOK, StoreTypeOK
  <1>2. /\ status[e] = "absent" => runs[e] = 0
        /\ status[e] \notin {"absent", "received"} => runs[e] > 0
        /\ readmits[e] > 0 => runs[e] > 0
        /\ runs[e] + (IF status[e] = "received" THEN 1 ELSE 0) <= 1 + attempts[e] + grants[e]
    BY DEF HistoryOK
  <1>3. CASE PersistEnqueue(e) \/ Readmit(e) \/ RebuildEnqueue(e)
    <2>1. /\ UNCHANGED <<status, attempts, runs, grants, ev>> /\ Enqueue(e)
          /\ \A f \in Event : f # e => readmits'[f] = readmits[f]
          /\ readmits'[e] > 0 => readmits[e] > 0
      <3>1. CASE Readmit(e)
        BY <3>1, <1>1 DEF Readmit, storeVars, history
      <3>2. CASE PersistEnqueue(e) \/ RebuildEnqueue(e)
        BY <3>2 DEF PersistEnqueue, RebuildEnqueue, storeVars, history
      <3> QED BY <1>3, <3>1, <3>2
    <2>2. \A w \in Worker : pc'[w] \in InTurn => pc[w] \in InTurn
      BY <2>1, <1>1 DEF Enqueue, InTurn
    <2> QED BY <2>1, <2>2, <1>1, <1>2, HistoryStep
  <1>4. CASE Persist(e)
    <2>1. UNCHANGED <<attempts, runs, grants, readmits, pc, ev>>
      BY <1>4 DEF Persist, InsertEvent, storeVars, history
    <2>2. \/ UNCHANGED status
          \/ status[e] = "absent" /\ status' = [status EXCEPT ![e] = "received"]
      BY <1>4 DEF Persist, InsertEvent, storeVars
    <2> QED BY <2>1, <2>2, <1>1, <1>2, HistoryStep
  <1>5. CASE HumanRequeue(e)
    <2>1. /\ status[e] \in {"interrupted", "dead"}
          /\ status' = [status EXCEPT ![e] = "received"]
          /\ readmits' = [readmits EXCEPT ![e] = @ + 1]
          /\ grants' = [grants EXCEPT ![e] = @ + 1]
          /\ UNCHANGED <<attempts, runs, pc, ev>>
      BY <1>5 DEF HumanRequeue, RequeueInterruptedEvent, ResolveDeadLetterRequeue, Move
    <2>2. grants'[e] = grants[e] + 1 /\ status'[e] = "received"
      BY <2>1, <1>1
    <2> QED BY <2>1, <2>2, <1>1, <1>2, HistoryStep
  <1>6. CASE HumanDiscard(e) \/ RebuildPark(e)
    <2>1. /\ UNCHANGED <<attempts, runs, grants, readmits, pc, ev>>
          /\ \/ UNCHANGED status
             \/ status[e] = "processing" /\ status' = [status EXCEPT ![e] = "interrupted"]
      BY <1>6 DEF HumanDiscard, RebuildPark, ResolveDeadLetterDiscard, ParkEvent, Move,
         ramVars, history
    <2> QED BY <2>1, <1>1, <1>2, HistoryStep
  <1> QED BY <1>3, <1>4, <1>5, <1>6

\* Every step keeps the history.
LEMMA NextHistory ==
    ASSUME IInv, IInv', HistoryOK, [Next]_vars PROVE HistoryOK'
  <1>1. CASE \/ Boot \/ RebuildFails \/ RebuildParked \/ GoLive \/ Stop \/ UNCHANGED vars
             \/ \E w \in Worker : DrainNext(w)
    <2>1. UNCHANGED <<status, attempts, runs, grants, readmits>>
      BY <1>1 DEF Boot, RebuildFails, RebuildParked, GoLive, Stop, DrainNext, vars,
         storeVars, ramVars, history
    <2>2. \A w \in Worker : pc'[w] \in InTurn => pc[w] \in InTurn /\ ev'[w] = ev[w]
      <3>1. CASE \E w \in Worker : DrainNext(w)
        BY <3>1, ZenonT(60) DEF DrainNext, InTurn, IInv, TypeOK
      <3>2. CASE \/ Boot \/ RebuildFails \/ RebuildParked \/ GoLive \/ Stop \/ UNCHANGED vars
        BY <3>2 DEF Boot, RebuildFails, RebuildParked, GoLive, Stop, vars, ramVars
      <3> QED BY <1>1, <3>1, <3>2
    <2> QED BY <2>1, <2>2 DEF HistoryOK
  <1>2. CASE Exit \/ Crash
    BY <1>2 DEF Exit, Crash, ForgetRAM, storeVars, HistoryOK, InTurn
  <1> QED BY <1>1, <1>2, HandlerHistory, OthersHistory DEF Next, Drain

\* A step that hands no new event to RAM keeps what RAM refers to in the
\* table.
LEMMA RowsStep ==
    ASSUME IInv, RowsOK,
           lastId' >= lastId, lastId' \in Nat,
           \A e \in Event : rowid'[e] = rowid[e] \/ rowid'[e] = lastId',
           \A e \in Event : status[e] # "absent" => status'[e] # "absent",
           UNCHANGED pending,
           \A w \in Worker : pc'[w] \notin {"idle", "loop"} =>
               pc[w] \notin {"idle", "loop"} /\ ev'[w] = ev[w],
           \A e \in ingesting' \cup rescan' :
               e \in Event /\ (e \in ingesting \cup rescan \/ status'[e] # "absent")
    PROVE  RowsOK'
  <1>1. \A e \in Event : rowid'[e] <= lastId'
    <2> SUFFICES ASSUME NEW e \in Event PROVE rowid'[e] <= lastId'
      OBVIOUS
    <2>1. rowid[e] <= lastId /\ rowid[e] \in Nat /\ lastId \in Nat
      BY DEF RowsOK, IInv, TypeOK, StoreTypeOK
    <2>2. CASE rowid'[e] = rowid[e]
      BY <2>1, <2>2
    <2>3. CASE rowid'[e] = lastId'
      BY <2>3
    <2> QED BY <2>2, <2>3
  <1>2. \A t \in Thread : \A i \in 1..Len(pending[t]) : status'[pending[t][i]] # "absent"
    <2> SUFFICES ASSUME NEW t \in Thread, NEW i \in 1..Len(pending[t])
                 PROVE  status'[pending[t][i]] # "absent"
      OBVIOUS
    <2>1. pending[t] \in Seq(Event)
      BY DEF IInv, TypeOK
    <2>2. pending[t][i] \in Event
      BY <2>1
    <2> QED BY <2>2 DEF RowsOK
  <1>3. \A w \in Worker : pc'[w] \notin {"idle", "loop"} => status'[ev'[w]] # "absent"
    BY HeldEvent DEF RowsOK
  <1>4. \A e \in ingesting' \cup rescan' : status'[e] # "absent"
    BY DEF RowsOK
  <1> QED BY <1>1, <1>2, <1>3, <1>4 DEF RowsOK

\* Every step keeps them.
LEMMA NextRows ==
    ASSUME IInv, IInv', RowsOK, HistoryOK, [Next]_vars PROVE RowsOK'
  <1>t. /\ status \in [Event -> Statuses] /\ rowid \in [Event -> Nat] /\ lastId \in Nat
        /\ pc \in [Worker -> PCs] /\ ev \in [Worker -> Event \cup {NoEvent}]
        /\ ingesting \in SUBSET Event /\ rescan \in SUBSET Event
        /\ pending \in [Thread -> Seq(Event)]
    BY DEF IInv, TypeOK, StoreTypeOK
  <1>1. ASSUME NEW e \in Event, Persist(e) PROVE RowsOK'
    <2>1. UNCHANGED <<pending, pc, ev, rescan>>
      BY <1>1 DEF Persist
    <2>2. CASE status[e] = "absent"
      BY <1>1, <2>1, <2>2, <1>t, RowsStep DEF Persist, InsertEvent
    <2>3. CASE status[e] # "absent"
      BY <1>1, <2>1, <2>3, <1>t, RowsStep DEF Persist, storeVars
    <2> QED BY <2>2, <2>3
  <1>2. ASSUME NEW e \in Event, HumanRequeue(e) \/ HumanDiscard(e) \/ RebuildPark(e)
        PROVE  RowsOK'
    <2>1. /\ UNCHANGED <<pending, pc, ev, ingesting, rescan>>
          /\ UNCHANGED <<rowid, lastId>>
          /\ \A f \in Event : status[f] # "absent" => status'[f] # "absent"
      BY <1>2, <1>t DEF HumanRequeue, HumanDiscard, RebuildPark, RequeueInterruptedEvent,
         ResolveDeadLetterRequeue, ResolveDeadLetterDiscard, ParkEvent, Move, ramVars
    <2> QED BY <2>1, <1>t, RowsStep
  <1>3. ASSUME NEW e \in Event, PersistEnqueue(e) \/ Readmit(e) \/ RebuildEnqueue(e)
        PROVE  RowsOK'
    <2>1. /\ UNCHANGED <<status, rowid, lastId, ev>> /\ Enqueue(e)
          /\ ingesting' \subseteq ingesting /\ rescan' \subseteq rescan
          /\ status[e] # "absent"
      <3>1. CASE Readmit(e)
        BY <3>1 DEF Readmit, storeVars, HistoryOK
      <3>2. CASE PersistEnqueue(e) \/ RebuildEnqueue(e)
        BY <3>2 DEF PersistEnqueue, RebuildEnqueue, storeVars, RowsOK
      <3> QED BY <1>3, <3>1, <3>2
    <2>2. \A w \in Worker : pc'[w] \notin {"idle", "loop"} => pc[w] \notin {"idle", "loop"}
      BY <2>1, <1>t DEF Enqueue
    <2>3. \A t \in Thread : \A i \in 1..Len(pending'[t]) : status[pending'[t][i]] # "absent"
      <3>1. CASE ~Accepting
        BY <3>1, <2>1 DEF Enqueue, RowsOK
      <3>2. CASE Accepting
        <4>1. pending' = [pending EXCEPT ![ThreadOf[e]] = Append(@, e)]
          BY <3>2, <2>1 DEF Enqueue
        <4> SUFFICES ASSUME NEW t \in Thread, NEW i \in 1..Len(pending'[t])
                     PROVE  status[pending'[t][i]] # "absent"
          OBVIOUS
        <4>2. CASE t # ThreadOf[e]
          BY <4>1, <4>2, <1>t DEF RowsOK
        <4>3. CASE t = ThreadOf[e]
          <5>1. pending[t] \in Seq(Event) /\ pending'[t] = Append(pending[t], e)
            BY <4>1, <4>3, <1>t
          <5>2. /\ Len(pending'[t]) = Len(pending[t]) + 1
                /\ pending'[t][i] = IF i = Len(pending[t]) + 1 THEN e ELSE pending[t][i]
            BY <5>1
          <5> QED BY <5>1, <5>2, <2>1 DEF RowsOK
        <4> QED BY <4>2, <4>3
      <3> QED BY <3>1, <3>2
    <2> QED BY <2>1, <2>2, <2>3 DEF RowsOK
  <1>4. ASSUME NEW w \in Worker, DrainNext(w) PROVE RowsOK'
    <2>1. UNCHANGED <<status, rowid, lastId, ingesting, rescan>> /\ on[w] \in Thread
      BY <1>4 DEF DrainNext, storeVars, IInv, TypeOK, WorkersOK
    <2>2. CASE ~Accepting \/ pending[on[w]] = <<>>
      <3>1. /\ pending' = [pending EXCEPT ![on[w]] = <<>>]
            /\ pc' = [pc EXCEPT ![w] = "idle"] /\ ev' = ev
        BY <1>4, <2>2 DEF DrainNext
      <3>2. \A t \in Thread : pending'[t] = <<>> \/ pending'[t] = pending[t]
        BY <3>1, <1>t
      <3>3. \A t \in Thread : \A i \in 1..Len(pending'[t]) : status[pending'[t][i]] # "absent"
        BY <3>2 DEF RowsOK
      <3>4. \A v \in Worker : pc'[v] \notin {"idle", "loop"} => status[ev'[v]] # "absent"
        BY <3>1, <1>t DEF RowsOK
      <3> QED BY <2>1, <3>3, <3>4 DEF RowsOK
    <2>3. CASE Accepting /\ pending[on[w]] # <<>>
      <3> DEFINE q == pending[on[w]]
      <3>1. /\ ev' = [ev EXCEPT ![w] = Head(q)]
            /\ pending' = [pending EXCEPT ![on[w]] = Tail(q)]
            /\ pc' = [pc EXCEPT ![w] = "popped"]
        BY <1>4, <2>3 DEF DrainNext
      <3>2. /\ q \in Seq(Event) /\ Len(q) \in Nat /\ Len(q) > 0
            /\ Head(q) = q[1]
            /\ Len(Tail(q)) = Len(q) - 1
            /\ \A i \in 1..Len(Tail(q)) : Tail(q)[i] = q[i + 1]
        BY <2>1, <2>3, <1>t
      <3>3. \A i \in 1..Len(q) : status[q[i]] # "absent"
        BY <2>1 DEF RowsOK
      <3>4. \A t \in Thread : \A i \in 1..Len(pending'[t]) : status[pending'[t][i]] # "absent"
        <4> SUFFICES ASSUME NEW t \in Thread, NEW i \in 1..Len(pending'[t])
                     PROVE  status[pending'[t][i]] # "absent"
          OBVIOUS
        <4>1. CASE t # on[w]
          BY <4>1, <3>1, <1>t DEF RowsOK
        <4>2. CASE t = on[w]
          <5>1. pending'[t] = Tail(q)
            BY <4>2, <3>1, <1>t
          <5>2. i + 1 \in 1..Len(q) /\ pending'[t][i] = q[i + 1]
            BY <5>1, <3>2
          <5> QED BY <5>2, <3>3
        <4> QED BY <4>1, <4>2
      <3>5. \A v \in Worker : pc'[v] \notin {"idle", "loop"} => status[ev'[v]] # "absent"
        <4> SUFFICES ASSUME NEW v \in Worker, pc'[v] \notin {"idle", "loop"}
                     PROVE  status[ev'[v]] # "absent"
          OBVIOUS
        <4>1. CASE v = w
          BY <4>1, <3>1, <3>2, <3>3, <1>t
        <4>2. CASE v # w
          BY <4>2, <3>1, <1>t DEF RowsOK
        <4> QED BY <4>1, <4>2
      <3> QED BY <2>1, <3>4, <3>5 DEF RowsOK
    <2> QED BY <2>2, <2>3
  <1>5. ASSUME NEW w \in Worker,
               \/ StartTurn(w) \/ RefuseTurn(w) \/ StampFails(w) \/ SettleTurn(w)
               \/ RetryTurn(w) \/ Panic(w) \/ Return(w)
        PROVE  RowsOK'
    <2>1. /\ UNCHANGED <<pending, ingesting, rescan>>
          /\ UNCHANGED <<rowid, lastId>>
      BY <1>5 DEF StartTurn, RefuseTurn, StampFails, SettleTurn, RetryTurn, Panic, Return,
         MarkEventProcessing, EndOfTurn, SkipEvent, MarkEventCompleted, ParkEvent,
         DeadLetterEvent, RequeueEventForRetry, Move, storeVars
    <2>2. \A f \in Event : status[f] # "absent" => status'[f] # "absent"
      BY <1>5, <1>t DEF StartTurn, RefuseTurn, StampFails, SettleTurn, RetryTurn, Panic, Return,
         MarkEventProcessing, EndOfTurn, SkipEvent, MarkEventCompleted, ParkEvent,
         DeadLetterEvent, RequeueEventForRetry, Move, storeVars
    <2>3. \A v \in Worker : pc'[v] \notin {"idle", "loop"} =>
             pc[v] \notin {"idle", "loop"} /\ ev'[v] = ev[v]
      BY <1>5, <1>t DEF StartTurn, RefuseTurn, StampFails, SettleTurn, RetryTurn, Panic,
         Return, InTurn
    <2> QED BY <2>1, <2>2, <2>3, <1>t, RowsStep
  <1>6. CASE Boot \/ RebuildFails \/ RebuildParked \/ GoLive \/ Stop \/ UNCHANGED vars
    <2>1. /\ UNCHANGED <<status, rowid, lastId, pending, pc, ev, ingesting>>
          /\ \A e \in rescan' : e \in rescan \/ status[e] = "received"
      BY <1>6 DEF Boot, RebuildFails, RebuildParked, GoLive, Stop, vars, storeVars, ramVars,
         UnprocessedEvents
    <2>2. rescan' \in SUBSET Event
      BY DEF IInv, TypeOK
    <2> QED BY <2>1, <2>2, <1>t, RowsStep
  <1>7. CASE Exit \/ Crash
    BY <1>7, <1>t DEF Exit, Crash, ForgetRAM, storeVars, RowsOK
  <1> QED BY <1>1, <1>2, <1>3, <1>4, <1>5, <1>6, <1>7 DEF Next, Drain

\* Every step keeps the ingest locks apart.
LEMMA NextIngest ==
    ASSUME IInv, IInv', IngestOK, [Next]_vars PROVE IngestOK'
  <1>1. ASSUME NEW e \in Event, Persist(e) PROVE IngestOK'
    BY <1>1 DEF Persist, IngestLockFree, IngestOK
  <1>2. ASSUME NEW e \in Event,
               \/ PersistEnqueue(e) \/ Readmit(e) \/ RebuildEnqueue(e)
               \/ HumanRequeue(e) \/ HumanDiscard(e) \/ RebuildPark(e)
        PROVE  IngestOK'
    <2>1. mode' = mode /\ ingesting' \subseteq ingesting /\ rescan' \subseteq rescan
      BY <1>2 DEF PersistEnqueue, Readmit, RebuildEnqueue, HumanRequeue, HumanDiscard,
         RebuildPark, ramVars
    <2> QED BY <2>1 DEF IngestOK
  <1>3. ASSUME NEW w \in Worker, Drain(w) PROVE IngestOK'
    <2>1. UNCHANGED <<mode, ingesting, rescan>>
      BY <1>3 DEF Drain, DrainNext, StartTurn, RefuseTurn, StampFails, SettleTurn, RetryTurn,
         Panic, Return
    <2> QED BY <2>1 DEF IngestOK
  <1>4. CASE Boot \/ RebuildFails \/ RebuildParked \/ GoLive \/ Stop
    BY <1>4 DEF Boot, RebuildFails, RebuildParked, GoLive, Stop, IngestOK
  <1>5. CASE Exit \/ Crash
    BY <1>5 DEF Exit, Crash, ForgetRAM, IngestOK
  <1>6. CASE UNCHANGED vars
    BY <1>6 DEF vars, ramVars, IngestOK
  <1> QED BY <1>1, <1>2, <1>3, <1>4, <1>5, <1>6 DEF Next

\* A step that leaves the queues alone keeps the order: an event newly owed
\* its first turn has the highest id and is in no queue yet, and a popped
\* event is let go of only when it is owed none, or refused a stamp.
LEMMA OrderStep ==
    ASSUME IInv, OInv, Accepting' => Accepting, UNCHANGED pending,
           \A e \in Event : First(e)' => First(e) \/ status[e] = "absent",
           \A e, f \in Event : First(e)' /\ First(f)' /\ rowid'[e] < rowid'[f] =>
               /\ First(e)
               /\ status[f] # "absent" => First(f) /\ rowid[e] < rowid[f],
           dropped \subseteq dropped',
           \A w \in Worker : pc'[w] = "popped" => pc[w] = "popped" /\ ev'[w] = ev[w],
           \A w \in Worker : \A e \in Event : Accepting' /\ pc[w] = "popped" /\ ev[w] = e =>
               \/ pc'[w] = "popped" /\ ev'[w] = e
               \/ ~First(e)'
               \/ e \in dropped'
    PROVE  QueueOrder' /\ PopOrder'
  <1> SUFFICES ASSUME Accepting' PROVE QueueOrder' /\ PopOrder'
    BY DEF QueueOrder, PopOrder
  <1>1. Accepting
    OBVIOUS
  <1>2. ASSUME NEW t \in Thread, NEW j \in 1..Len(pending[t]), NEW e \in Event,
               Older(e, pending[t][j])'
        PROVE  \/ e \in dropped'
               \/ \E i \in 1..Len(pending[t]) : i < j /\ pending[t][i] = e
               \/ \E w \in Worker : pc'[w] = "popped" /\ ev'[w] = e
    <2>1. PICK f \in Event : f = pending[t][j]
      <3>1. pending[t] \in Seq(Event)
        BY DEF IInv, TypeOK
      <3> QED BY <3>1
    <2>2. status[f] # "absent"
      BY <2>1 DEF OInv, RowsOK
    <2>3. First(e)' /\ First(f)' /\ rowid'[e] < rowid'[f] /\ ThreadOf[e] = ThreadOf[f]
      BY <1>2, <2>1 DEF Older, First
    <2>4. Older(e, f)
      BY <2>2, <2>3 DEF Older
    <2>5. \/ e \in dropped
          \/ \E i \in 1..Len(pending[t]) : i < j /\ pending[t][i] = e
          \/ \E w \in Worker : pc[w] = "popped" /\ ev[w] = e
      BY <1>1, <2>1, <2>4 DEF OInv, QueueOrder
    <2>6. ASSUME NEW w \in Worker, pc[w] = "popped", ev[w] = e
          PROVE  e \in dropped' \/ \E v \in Worker : pc'[v] = "popped" /\ ev'[v] = e
      <3>1. \/ pc'[w] = "popped" /\ ev'[w] = e
            \/ ~First(e)'
            \/ e \in dropped'
        BY <2>6
      <3> QED BY <3>1, <2>3
    <2> QED BY <2>5, <2>6
  <1>3. QueueOrder'
    BY <1>2 DEF QueueOrder
  <1>4. PopOrder'
    <2> SUFFICES ASSUME NEW w \in Worker, NEW e \in Event, pc'[w] = "popped",
                        Older(e, ev[w])'
                 PROVE  e \in dropped'
      BY DEF PopOrder
    <2>1. PICK f \in Event : f = ev[w] /\ ev'[w] = f
      BY HeldEvent
    <2>2. status[f] # "absent" /\ pc[w] = "popped"
      BY <2>1 DEF OInv, RowsOK
    <2>3. First(e)' /\ First(f)' /\ rowid'[e] < rowid'[f] /\ ThreadOf[e] = ThreadOf[f]
      BY <2>1 DEF Older, First
    <2>4. Older(e, f)
      BY <2>2, <2>3 DEF Older
    <2> QED BY <1>1, <2>1, <2>2, <2>4 DEF OInv, PopOrder
  <1> QED BY <1>3, <1>4

\* Who enqueues an event owed its first turn finds its elders ahead of it.
LEMMA EldersAhead ==
    ASSUME IInv, OInv, Accepting, NEW e \in Event, NEW f \in Event, Older(e, f),
           PersistEnqueue(f) \/ Readmit(f) \/ RebuildEnqueue(f)
    PROVE  \/ e \in dropped
           \/ \E i \in 1..Len(pending[ThreadOf[f]]) : pending[ThreadOf[f]][i] = e
           \/ \E w \in Worker : pc[w] = "popped" /\ ev[w] = e
  <1>1. Indexed(e) \/ e \in dropped
    BY DEF IInv, NoForgottenEvent, Older, First
  <1>2. ~(readmits[e] > 0) /\ ~(readmits[f] > 0)
    BY DEF OInv, HistoryOK, Older, First
  <1>3. rowid[e] \in Nat /\ rowid[f] \in Nat /\ rowid[e] < rowid[f] /\ e # f
    BY DEF IInv, TypeOK, StoreTypeOK, Older
  <1>4. e \notin ingesting \cup rescan
    <2>1. CASE PersistEnqueue(f)
      <3>1. f \in ingesting /\ e \notin ingesting
        BY <2>1, <1>3 DEF PersistEnqueue, OInv, IngestOK, Older
      <3>2. mode = "up" /\ rescan = {}
        BY <3>1 DEF OInv, IngestOK, Accepting
      <3> QED BY <3>1, <3>2
    <2>2. CASE Readmit(f)
      BY <2>2, <1>2 DEF Readmit
    <2>3. CASE RebuildEnqueue(f)
      BY <2>3, <1>3 DEF RebuildEnqueue, OInv, IngestOK
    <2> QED BY <2>1, <2>2, <2>3
  <1> QED BY <1>1, <1>2, <1>4 DEF Indexed, Older

\* The three callers of Enqueue keep the order.
LEMMA EnqueuersOrder ==
    ASSUME IInv, OInv, NEW f \in Event,
           PersistEnqueue(f) \/ Readmit(f) \/ RebuildEnqueue(f)
    PROVE  QueueOrder' /\ PopOrder'
  <1>1. /\ Enqueue(f) /\ ev' = ev
        /\ UNCHANGED <<mode, status, rowid, runs, dropped>>
    BY DEF PersistEnqueue, Readmit, RebuildEnqueue, storeVars, history
  <1>2. \A w \in Worker : pc'[w] = "popped" <=> pc[w] = "popped"
    BY <1>1 DEF Enqueue, IInv, TypeOK
  <1>3. \A e \in Event : \A g \in Event : Older(e, g)' <=> Older(e, g)
    BY <1>1 DEF Older, First
  <1> SUFFICES ASSUME Accepting' PROVE QueueOrder' /\ PopOrder'
    BY DEF QueueOrder, PopOrder
  <1>4. Accepting
    BY <1>1 DEF Accepting
  <1>5. PopOrder'
    <2> SUFFICES ASSUME NEW w \in Worker, NEW e \in Event, pc[w] = "popped", Older(e, ev[w])'
                 PROVE  e \in dropped
      BY <1>1, <1>2 DEF PopOrder
    <2>1. ev[w] \in Event
      BY HeldEvent
    <2>2. Older(e, ev[w])
      BY <1>1, <2>1 DEF Older, First
    <2> QED BY <1>4, <2>2 DEF OInv, PopOrder
  <1>6. ASSUME NEW t \in Thread, NEW j \in 1..Len(pending'[t]), NEW e \in Event,
               Older(e, pending[t][j])'
        PROVE  \/ e \in dropped'
               \/ \E i \in 1..Len(pending'[t]) : i < j /\ pending'[t][i] = e
               \/ \E w \in Worker : pc'[w] = "popped" /\ ev'[w] = e
    <2> DEFINE q == pending[t]
    <2>1. pending' = [pending EXCEPT ![ThreadOf[f]] = Append(@, f)] /\ q \in Seq(Event)
      BY <1>1, <1>4 DEF Enqueue, IInv, TypeOK
    <2>2. Older(e, pending'[t][j])
      BY <1>1, <1>6 DEF Older, First
    <2>3. CASE t # ThreadOf[f]
      <3>1. pending'[t] = q
        BY <2>1, <2>3 DEF IInv, TypeOK
      <3> QED BY <3>1, <1>1, <1>2, <1>4, <2>2 DEF OInv, QueueOrder
    <2>4. CASE t = ThreadOf[f]
      <3>1. pending'[t] = Append(q, f)
        BY <2>1, <2>4 DEF IInv, TypeOK
      <3>2. /\ Len(q) \in Nat /\ Len(pending'[t]) = Len(q) + 1
            /\ pending'[t][Len(q) + 1] = f
            /\ \A i \in 1..Len(q) : pending'[t][i] = q[i]
        BY <2>1, <3>1
      <3>3. CASE j = Len(q) + 1
        <4>1. Older(e, f)
          BY <2>2, <3>2, <3>3
        <4>2. \/ e \in dropped
              \/ \E i \in 1..Len(q) : q[i] = e
              \/ \E w \in Worker : pc[w] = "popped" /\ ev[w] = e
          BY <4>1, <1>4, <2>4, EldersAhead
        <4>3. ASSUME NEW i \in 1..Len(q), q[i] = e
              PROVE  \E k \in 1..Len(pending'[t]) : k < j /\ pending'[t][k] = e
          <5>1. i \in 1..Len(pending'[t]) /\ i < j /\ pending'[t][i] = e
            BY <4>3, <3>2, <3>3
          <5> QED BY <5>1
        <4> QED BY <4>2, <4>3, <1>1, <1>2
      <3>4. CASE j # Len(q) + 1
        <4>1. j \in 1..Len(q) /\ Older(e, q[j])
          BY <2>2, <3>2, <3>4
        <4>2. \/ e \in dropped
              \/ \E i \in 1..Len(q) : i < j /\ q[i] = e
              \/ \E w \in Worker : pc[w] = "popped" /\ ev[w] = e
          BY <4>1, <1>4 DEF OInv, QueueOrder
        <4>3. ASSUME NEW i \in 1..Len(q), i < j, q[i] = e
              PROVE  \E k \in 1..Len(pending'[t]) : k < j /\ pending'[t][k] = e
          <5>1. i \in 1..Len(pending'[t]) /\ i < j /\ pending'[t][i] = e
            BY <4>3, <3>2
          <5> QED BY <5>1
        <4> QED BY <4>2, <4>3, <1>1, <1>2
      <3> QED BY <3>3, <3>4
    <2> QED BY <2>3, <2>4
  <1> QED BY <1>5, <1>6 DEF QueueOrder

\* Popping the head keeps the order: its elders are all refused a stamp,
\* since no other goroutine serves the thread.
LEMMA PopKeepsOrder ==
    ASSUME IInv, OInv, NEW w \in Worker, DrainNext(w)
    PROVE  QueueOrder' /\ PopOrder'
  <1> DEFINE u == on[w]
             q == pending[u]
  <1>1. /\ pc[w] = "loop" /\ u \in Thread
        /\ UNCHANGED <<mode, status, rowid, runs, dropped>>
        /\ pc \in [Worker -> PCs] /\ ev \in [Worker -> Event \cup {NoEvent}]
        /\ pending \in [Thread -> Seq(Event)]
    BY DEF DrainNext, IInv, TypeOK, WorkersOK, history, storeVars
  <1> SUFFICES ASSUME Accepting' PROVE QueueOrder' /\ PopOrder'
    BY DEF QueueOrder, PopOrder
  <1>2. Accepting
    BY <1>1 DEF Accepting
  <1>3. CASE q = <<>>
    <2>1. /\ pending' = pending /\ pc' = [pc EXCEPT ![w] = "idle"] /\ ev' = ev
      BY <1>1, <1>2, <1>3, ZenonT(60) DEF DrainNext
    <2>2. \A v \in Worker : pc'[v] = "popped" <=> pc[v] = "popped"
      BY <2>1, <1>1
    <2>3. \A e, g : Older(e, g)' <=> Older(e, g)
      BY <1>1 DEF Older, First
    <2> QED BY <1>1, <2>1, <2>2, OrderStep DEF First, Accepting
  <1>4. CASE q # <<>>
    <2>1. /\ ev' = [ev EXCEPT ![w] = Head(q)]
          /\ pending' = [pending EXCEPT ![u] = Tail(q)]
          /\ pc' = [pc EXCEPT ![w] = "popped"]
      BY <1>2, <1>4 DEF DrainNext
    <2>2. /\ q \in Seq(Event) /\ Len(q) \in Nat /\ Len(q) > 0
          /\ Head(q) = q[1] /\ Head(q) \in Event
          /\ Len(Tail(q)) = Len(q) - 1
          /\ \A i \in 1..Len(Tail(q)) : Tail(q)[i] = q[i + 1]
      BY <1>1, <1>4
    <2>3. \A v \in Worker : v # w => ev'[v] = ev[v] /\ pc'[v] = pc[v]
      BY <2>1, <1>1
    <2>4. pc'[w] = "popped" /\ ev'[w] = q[1]
      BY <2>1, <2>2, <1>1
    <2>5. PopOrder'
      <3> SUFFICES ASSUME NEW v \in Worker, NEW e \in Event, pc'[v] = "popped",
                          Older(e, ev[v])'
                   PROVE  e \in dropped
        BY <1>1 DEF PopOrder
      <3>1. CASE v # w
        <4>1. Older(e, ev[v]) /\ pc[v] = "popped"
          BY <3>1, <2>3, <1>1 DEF Older, First
        <4> QED BY <4>1, <1>2 DEF OInv, PopOrder
      <3>2. CASE v = w
        <4>1. Older(e, q[1])
          BY <3>2, <2>4, <1>1 DEF Older, First
        <4>2. ThreadOf[e] = u
          BY <4>1, <2>2, <1>1 DEF Older, IInv, QueuesOK
        <4>3. \/ e \in dropped
              \/ \E i \in 1..Len(q) : i < 1 /\ q[i] = e
              \/ \E x \in Worker : pc[x] = "popped" /\ ev[x] = e
          <5>1. 1 \in 1..Len(q)
            BY <2>2
          <5> QED BY <5>1, <4>1, <1>1, <1>2 DEF OInv, QueueOrder
        <4>4. ASSUME NEW x \in Worker, pc[x] = "popped", ev[x] = e PROVE FALSE
          <5>1. on[x] = u
            BY <4>4, <4>2, HeldEvent
          <5>2. x = w
            BY <5>1, <1>1, RouterAssumption DEF IInv, OneDrain
          <5> QED BY <5>2, <4>4, <1>1
        <4> QED BY <4>3, <4>4
      <3> QED BY <3>1, <3>2
    <2>6. ASSUME NEW t \in Thread, NEW j \in 1..Len(pending'[t]), NEW e \in Event,
                 Older(e, pending[t][j])'
          PROVE  \/ e \in dropped'
                 \/ \E i \in 1..Len(pending'[t]) : i < j /\ pending'[t][i] = e
                 \/ \E v \in Worker : pc'[v] = "popped" /\ ev'[v] = e
      <3>1. Older(e, pending'[t][j])
        BY <1>1, <2>6 DEF Older, First
      <3>p. (\E x \in Worker : pc[x] = "popped" /\ ev[x] = e)
              => \E x \in Worker : pc'[x] = "popped" /\ ev'[x] = e
        BY <2>3, <1>1
      <3>2. CASE t # u
        <4>1. pending'[t] = pending[t]
          BY <2>1, <3>2, <1>1
        <4> QED BY <4>1, <3>1, <3>p, <1>1, <1>2 DEF OInv, QueueOrder
      <3>3. CASE t = u
        <4>1. pending'[t] = Tail(q)
          BY <2>1, <3>3, <1>1
        <4>2. j + 1 \in 1..Len(q) /\ pending'[t][j] = q[j + 1]
          BY <4>1, <2>2
        <4>3. \/ e \in dropped
              \/ \E i \in 1..Len(q) : i < j + 1 /\ q[i] = e
              \/ \E x \in Worker : pc[x] = "popped" /\ ev[x] = e
          BY <4>2, <3>1, <1>1, <1>2, ZenonT(60) DEF OInv, QueueOrder
        <4>4. ASSUME NEW i \in 1..Len(q), i < j + 1, q[i] = e
              PROVE  \/ \E k \in 1..Len(pending'[t]) : k < j /\ pending'[t][k] = e
                     \/ \E x \in Worker : pc'[x] = "popped" /\ ev'[x] = e
          <5>1. CASE i = 1
            BY <5>1, <4>4, <2>4
          <5>2. CASE i # 1
            <6>1. /\ i - 1 \in 1..Len(pending'[t]) /\ i - 1 < j
                  /\ pending'[t][i - 1] = q[(i - 1) + 1] /\ q[(i - 1) + 1] = e
              BY <5>2, <4>4, <4>1, <2>2
            <6> QED BY <6>1
          <5> QED BY <5>1, <5>2
        <4> QED BY <4>3, <4>4, <3>p, <1>1
      <3> QED BY <3>2, <3>3
    <2> QED BY <2>5, <2>6 DEF QueueOrder
  <1> QED BY <1>3, <1>4

\* A handler's steps keep the order.
LEMMA HandlerOrder ==
    ASSUME IInv, OInv, HistoryOK', NEW w \in Worker,
           \/ StartTurn(w) \/ RefuseTurn(w) \/ StampFails(w) \/ SettleTurn(w)
           \/ RetryTurn(w) \/ Panic(w) \/ Return(w)
    PROVE  QueueOrder' /\ PopOrder'
  <1>1. /\ pc[w] \notin {"idle", "loop"} /\ ev[w] \in Event
        /\ status \in [Event -> Statuses] /\ runs \in [Event -> Nat]
        /\ pc \in [Worker -> PCs] /\ ev \in [Worker -> Event \cup {NoEvent}]
        /\ dropped \in SUBSET Event
    <2>1. pc[w] \notin {"idle", "loop"}
      BY DEF StartTurn, RefuseTurn, StampFails, SettleTurn, RetryTurn, Panic, Return, InTurn
    <2> QED BY <2>1, HeldEvent DEF IInv, TypeOK, StoreTypeOK
  <1>2. PICK e \in Event : e = ev[w]
    BY <1>1
  <1>3. /\ UNCHANGED <<pending, mode, rowid>> /\ dropped \subseteq dropped'
        /\ \A f \in Event : f # e => UNCHANGED <<status[f], runs[f]>>
    <2>1. CASE StartTurn(w)
      BY <2>1, <1>1, <1>2 DEF StartTurn, MarkEventProcessing, Move
    <2>2. CASE RefuseTurn(w) \/ StampFails(w) \/ Return(w)
      BY <2>2 DEF RefuseTurn, StampFails, Return, storeVars, history
    <2>3. CASE SettleTurn(w) \/ RetryTurn(w) \/ Panic(w)
      BY <2>3, <1>1, <1>2 DEF SettleTurn, RetryTurn, Panic, EndOfTurn, SkipEvent,
         MarkEventCompleted, ParkEvent, DeadLetterEvent, RequeueEventForRetry, Move,
         storeVars, history
    <2> QED BY <2>1, <2>2, <2>3
  <1>4. /\ First(e)' => First(e)
        /\ pc[w] = "popped" => ~First(e)' \/ e \in dropped' \/ ~Accepting
    <2>1. CASE StartTurn(w)
      BY <2>1, <1>1, <1>2 DEF StartTurn, MarkEventProcessing, Move, First
    <2>2. CASE RefuseTurn(w) \/ StampFails(w)
      BY <2>2, <1>2 DEF RefuseTurn, StampFails, storeVars, history, First
    <2>3. CASE SettleTurn(w) \/ RetryTurn(w) \/ Panic(w) \/ Return(w)
      <3>1. pc[w] \in InTurn /\ runs[e] > 0
        BY <2>3, <1>2 DEF SettleTurn, RetryTurn, Panic, Return, InTurn, OInv, HistoryOK
      <3>2. runs' = runs
        BY <2>3 DEF SettleTurn, RetryTurn, Panic, Return, history
      <3> QED BY <3>1, <3>2, <1>1 DEF First, InTurn
    <2> QED BY <2>1, <2>2, <2>3
  <1>5. \A f \in Event : First(f)' => First(f)
    BY <1>3, <1>4 DEF First
  <1>6. \A v \in Worker :
          /\ pc'[v] = "popped" => pc[v] = "popped" /\ ev'[v] = ev[v]
          /\ v # w => pc'[v] = pc[v] /\ ev'[v] = ev[v]
    BY <1>1 DEF StartTurn, RefuseTurn, StampFails, SettleTurn, RetryTurn, Panic, Return
  <1>7. \A v \in Worker : \A f \in Event : Accepting' /\ pc[v] = "popped" /\ ev[v] = f =>
          \/ pc'[v] = "popped" /\ ev'[v] = f
          \/ ~First(f)'
          \/ f \in dropped'
    <2> SUFFICES ASSUME NEW v \in Worker, Accepting', pc[v] = "popped", pc'[v] # "popped"
                 PROVE  ev[v] = e /\ (~First(e)' \/ e \in dropped')
      BY <1>6
    <2>1. v = w /\ Accepting
      BY <1>3, <1>6 DEF Accepting
    <2> QED BY <2>1, <1>2, <1>4
  <1> QED BY <1>3, <1>5, <1>6, <1>7, OrderStep DEF Accepting

\* The steps on the table made outside a handler keep the order.
LEMMA TableOrder ==
    ASSUME IInv, OInv, NEW e \in Event,
           Persist(e) \/ HumanRequeue(e) \/ HumanDiscard(e) \/ RebuildPark(e)
    PROVE  QueueOrder' /\ PopOrder'
  <1>1. /\ UNCHANGED <<mode, pending, pc, ev, runs, dropped>>
        /\ status \in [Event -> Statuses] /\ rowid \in [Event -> Nat] /\ lastId \in Nat
    BY DEF Persist, HumanRequeue, HumanDiscard, RebuildPark, ramVars, history,
       IInv, TypeOK, StoreTypeOK
  <1>2. CASE Persist(e) /\ status[e] = "absent"
    <2>1. /\ status' = [status EXCEPT ![e] = "received"]
          /\ rowid' = [rowid EXCEPT ![e] = lastId + 1]
      BY <1>2 DEF Persist, InsertEvent
    <2>2. /\ \A f \in Event : rowid[f] <= lastId
          /\ rowid'[e] = lastId + 1
          /\ \A f \in Event : f # e => rowid'[f] = rowid[f] /\ status'[f] = status[f]
      BY <2>1, <1>1 DEF OInv, RowsOK
    <2>3. \A f \in Event : First(f)' => First(f) \/ status[f] = "absent"
      BY <2>2, <1>1, <1>2 DEF First
    <2>4. \A f, g \in Event : First(f)' /\ First(g)' /\ rowid'[f] < rowid'[g] =>
            First(f) /\ (status[g] # "absent" => First(g) /\ rowid[f] < rowid[g])
      <3> SUFFICES ASSUME NEW f \in Event, NEW g \in Event, First(f)', First(g)',
                          rowid'[f] < rowid'[g]
                   PROVE  First(f) /\ (status[g] # "absent" => First(g) /\ rowid[f] < rowid[g])
        OBVIOUS
      <3>1. f # e
        BY <2>2, <1>1
      <3>2. First(f)
        BY <3>1, <2>2, <1>1 DEF First
      <3>3. CASE g = e
        BY <3>2, <3>3, <1>2
      <3>4. CASE g # e
        BY <3>1, <3>2, <3>4, <2>2, <1>1 DEF First
      <3> QED BY <3>3, <3>4
    <2> QED BY <2>3, <2>4, <1>1, OrderStep DEF Accepting
  <1>3. CASE ~(Persist(e) /\ status[e] = "absent")
    <2>1. /\ rowid' = rowid
          /\ \A f \in Event : f # e => status'[f] = status[f]
          /\ status'[e] = "received" => status[e] = "received" \/ runs[e] > 0
      <3>1. CASE Persist(e)
        BY <3>1, <1>3 DEF Persist, storeVars
      <3>2. CASE HumanRequeue(e)
        BY <3>2, <1>1 DEF HumanRequeue, RequeueInterruptedEvent, ResolveDeadLetterRequeue,
           Move, OInv, HistoryOK
      <3>3. CASE HumanDiscard(e) \/ RebuildPark(e)
        BY <3>3, <1>1 DEF HumanDiscard, RebuildPark, ResolveDeadLetterDiscard, ParkEvent, Move
      <3> QED BY <3>1, <3>2, <3>3
    <2>2. \A f \in Event : First(f)' => First(f)
      <3>1. First(e)' => First(e)
        BY <2>1, <1>1 DEF First, IInv, TypeOK
      <3> QED BY <2>1, <3>1, <1>1 DEF First
    <2> QED BY <2>1, <2>2, <1>1, OrderStep DEF Accepting
  <1> QED BY <1>2, <1>3

\* Boot, shutdown and crash: the queues are empty when the daemon begins to
\* accept work.
LEMMA LifeOrder ==
    ASSUME IInv, OInv,
           \/ Boot \/ RebuildFails \/ RebuildParked \/ GoLive \/ Stop \/ Exit \/ Crash
           \/ UNCHANGED vars
    PROVE  QueueOrder' /\ PopOrder'
  <1>1. CASE GoLive \/ UNCHANGED vars
    <2>1. /\ UNCHANGED <<pending, pc, ev, status, rowid, runs, dropped>>
          /\ Accepting' => Accepting
      BY <1>1 DEF GoLive, vars, ramVars, storeVars, history, Accepting
    <2>2. \A f \in Event : First(f)' <=> First(f)
      BY <2>1 DEF First
    <2> QED BY <2>1, <2>2, OrderStep
  <1>2. CASE RebuildParked
    <2>1. mode = "parking" /\ UNCHANGED <<pending, pc>>
      BY <1>2 DEF RebuildParked
    <2>2. \A w \in Worker : pc[w] = "idle" /\ on[w] = NoThread
      BY <2>1 DEF IInv, QuietBoot, WorkersOK
    <2>3. \A t \in Thread : pending[t] = <<>>
      BY <2>2, RouterAssumption DEF IInv, ClaimsOK, QueuesOK
    <2> QED BY <2>1, <2>2, <2>3 DEF QueueOrder, PopOrder
  <1>3. CASE Boot \/ RebuildFails \/ Stop \/ Exit \/ Crash
    BY <1>3 DEF Boot, RebuildFails, Stop, Exit, Crash, QueueOrder, PopOrder, Accepting
  <1> QED BY <1>1, <1>2, <1>3

\* History, rows, ingest locks and order hold in every reachable state.
LEMMA OrderInvariance == Spec => [](IInv /\ OInv)
  <1>1. Init => OInv
    BY RetriesAssumption DEF Init, StoreInit, OInv, HistoryOK, RowsOK, IngestOK, QueueOrder,
       PopOrder, Accepting, InTurn
  <1>2. IInv /\ OInv /\ [Next]_vars => IInv' /\ OInv'
    <2> SUFFICES ASSUME IInv, OInv, [Next]_vars PROVE IInv' /\ OInv'
      OBVIOUS
    <2>1. IInv'
      BY NextIInv
    <2>2. HistoryOK' /\ RowsOK' /\ IngestOK'
      BY <2>1, NextHistory, NextRows, NextIngest DEF OInv
    <2>3. QueueOrder' /\ PopOrder'
      BY <2>2, EnqueuersOrder, PopKeepsOrder, HandlerOrder, TableOrder, LifeOrder
      DEF Next, Drain
    <2> QED BY <2>1, <2>2, <2>3 DEF OInv
  <1> QED BY <1>1, <1>2, InitIInv, PTL DEF Spec

\* router.go, Persist, Rebuild and drain: the first turns of a thread start
\* in the order its events were received, because the ingest lock spans
\* insert and enqueue, Rebuild enqueues by id before the adapter goes live,
\* and a thread's one goroutine pops from the front.
THEOREM FirstTurnsOrdered == Spec => FirstTurnsInReceiptOrder
  <1>1. ASSUME IInv, OInv, Next, NEW w \in Worker, pc[w] = "popped", pc'[w] = "turn"
        PROVE  StartTurn(w)
    <2>t. pc \in [Worker -> PCs]
      BY <1>1 DEF IInv, TypeOK
    <2>1. ASSUME NEW e \in Event, \/ PersistEnqueue(e) \/ Readmit(e) \/ RebuildEnqueue(e)
          PROVE  FALSE
      BY <2>1, <2>t, <1>1 DEF PersistEnqueue, Readmit, RebuildEnqueue, Enqueue
    <2>2. ASSUME NEW e \in Event,
                 Persist(e) \/ HumanRequeue(e) \/ HumanDiscard(e) \/ RebuildPark(e)
          PROVE  FALSE
      BY <2>2, <1>1 DEF Persist, HumanRequeue, HumanDiscard, RebuildPark, ramVars
    <2>3. CASE Boot \/ RebuildFails \/ RebuildParked \/ GoLive \/ Stop \/ Exit \/ Crash
      BY <2>3, <1>1 DEF Boot, RebuildFails, RebuildParked, GoLive, Stop, Exit, Crash, ForgetRAM
    <2>4. ASSUME NEW v \in Worker, Drain(v) PROVE StartTurn(w)
      BY <2>4, <2>t, <1>1 DEF Drain, DrainNext, StartTurn, RefuseTurn, StampFails, SettleTurn,
         RetryTurn, Panic, Return
    <2> QED BY <1>1, <2>1, <2>2, <2>3, <2>4 DEF Next
  <1>2. IInv /\ OInv /\ [Next]_vars =>
          [\A w \in Worker :
             pc[w] = "popped" /\ pc'[w] = "turn" /\ runs[ev[w]] = 0 =>
               \A e \in Event :
                 /\ ThreadOf[e] = ThreadOf[ev[w]]
                 /\ status[e] = "received" /\ runs[e] = 0
                 /\ rowid[e] < rowid[ev[w]]
                 => e \in dropped]_vars
    <2> SUFFICES ASSUME IInv, OInv, Next, NEW w \in Worker, pc[w] = "popped", pc'[w] = "turn",
                        runs[ev[w]] = 0, NEW e \in Event,
                        ThreadOf[e] = ThreadOf[ev[w]],
                        status[e] = "received", runs[e] = 0, rowid[e] < rowid[ev[w]]
                 PROVE  e \in dropped
      OBVIOUS
    <2>1. Accepting /\ status[ev[w]] = "received"
      BY <1>1 DEF StartTurn, MarkEventProcessing, Move
    <2>2. Older(e, ev[w])
      BY <2>1 DEF Older, First
    <2> QED BY <2>1, <2>2 DEF OInv, PopOrder
  <1> QED BY <1>2, OrderInvariance, PTL DEF Spec, FirstTurnsInReceiptOrder

\* turn.go, router.go, store/events.go: every start of a turn was licensed by
\* the receipt, by a clean retry or by a human, across any number of crashes
\* and restarts.
THEOREM RunsAreLicensed == Spec => []Contract!EveryRunLicensed
  <1>1. IInv /\ OInv => Contract!EveryRunLicensed
    <2>1. \A e \in Event : TurnPhase(e) = "licensed" <=> status[e] = "received"
      BY DEF TurnPhase
    <2> QED BY <2>1 DEF OInv, HistoryOK, Contract!EveryRunLicensed
  <1> QED BY <1>1, OrderInvariance, PTL

\* router.go, drain: the turns of one thread never overlap.
THEOREM TurnsAreSerial == Spec => []Contract!Serial
  <1>1. IInv => Contract!Serial
    <2> SUFFICES ASSUME IInv PROVE Contract!Serial
      OBVIOUS
    <2>1. \A v, w \in Worker :
            pc[v] \in InTurn /\ pc[w] \in InTurn /\ ThreadOf[ev[v]] = ThreadOf[ev[w]]
              => v = w
      BY LiveApart DEF InTurn
    <2> QED BY <2>1 DEF LiveTurns, Contract!Serial
  <1> QED BY <1>1, Invariance, PTL

=============================================================================
