------------------------------- MODULE Router -------------------------------
(***************************************************************************)
(* The per-thread dispatch queues of internal/router, run over the durable *)
(* rows of EventStore: ingest (Persist), the drain goroutine of each       *)
(* thread, readmission after a retry, graceful shutdown, a crash at any    *)
(* point, and the two-phase Rebuild of the next boot.                      *)
(*                                                                         *)
(* The queues are an index over the table.  Everything below `mode` is     *)
(* RAM and is lost by a crash.  A goroutine is a member of Worker; the Go  *)
(* mutex q.mu makes each of its critical sections one atomic step here.    *)
(* The turn itself (cli/turn.go) appears by the store transaction it ends  *)
(* in; Recovery and Outbox model its inside, so no tool attempt is         *)
(* journalled and no reply is sent here.                                   *)
(***************************************************************************)
EXTENDS EventStore, Sequences

CONSTANTS Thread,      \* thread keys
          ThreadOf,    \* the thread of each event
          Shard,       \* the ingest lock table
          ShardOf,     \* the shard a thread key hashes to
          Worker,      \* identities of drain goroutines
          NoEvent,     \* "no event" in a goroutine's register
          NoThread,    \* "no thread" in a goroutine's register
          MaxGrants    \* bound: human retries per event

ASSUME RouterAssumption ==
    /\ ThreadOf \in [Event -> Thread]
    /\ ShardOf \in [Thread -> Shard]
    /\ NoEvent \notin Event
    /\ NoThread \notin Thread
    /\ MaxGrants \in Nat

VARIABLES
    mode,       \* the daemon: down, parking, indexing, up, stopping
    pending,    \* per-thread FIFO of events not yet dispatched
    claimed,    \* threads with a live drain goroutine
    pc,         \* where each goroutine is
    on,         \* the thread a goroutine drains
    ev,         \* the event a goroutine has popped
    ingesting,  \* inserted, not yet enqueued: holders of an ingest lock
    readmits,   \* Readmit calls still to come: backoff timers armed, or
                \* a human's command between its two calls
    rescan,     \* Rebuild: received rows it has read and not yet enqueued
    \* history variables, that no guard reads (but for the bound MaxGrants)
    runs,       \* turns started per event
    grants,     \* human retries per event
    dropped     \* events this life's dispatch could not stamp

ramVars == <<mode, pending, claimed, pc, on, ev, ingesting, readmits, rescan>>
history == <<runs, grants, dropped>>
vars == <<storeVars, ramVars, history>>

Modes == {"down", "parking", "indexing", "up", "stopping"}

\* loop: about to take q.mu; popped: holds an event, not stamped; turn: the
\* handler runs and has not moved the row; settled: it has, and is still in
\* its tail; unwinding: recover() parked a panicking turn.
PCs == {"idle", "loop", "popped", "turn", "settled", "unwinding"}

InTurn == {"turn", "settled", "unwinding"}

TypeOK ==
    /\ StoreTypeOK
    /\ mode \in Modes
    /\ pending \in [Thread -> Seq(Event)]
    /\ claimed \in SUBSET Thread
    /\ pc \in [Worker -> PCs]
    /\ on \in [Worker -> Thread \cup {NoThread}]
    /\ ev \in [Worker -> Event \cup {NoEvent}]
    /\ ingesting \in SUBSET Event
    /\ readmits \in [Event -> Nat]
    /\ rescan \in SUBSET Event
    /\ runs \in [Event -> Nat]
    /\ grants \in [Event -> Nat]
    /\ dropped \in SUBSET Event

Init ==
    /\ StoreInit
    /\ mode = "down"
    /\ pending = [t \in Thread |-> <<>>]
    /\ claimed = {}
    /\ pc = [w \in Worker |-> "idle"]
    /\ on = [w \in Worker |-> NoThread]
    /\ ev = [w \in Worker |-> NoEvent]
    /\ ingesting = {}
    /\ readmits = [e \in Event |-> 0]
    /\ rescan = {}
    /\ runs = [e \in Event |-> 0]
    /\ grants = [e \in Event |-> 0]
    /\ dropped = {}

-----------------------------------------------------------------------------
(* Enqueue and ingest.                                                     *)

Accepting == mode \in {"indexing", "up"}      \* q.ctx is not cancelled

\* Under q.mu: append, and claim the thread if nobody drains it.
Enqueue(e) ==
    LET t == ThreadOf[e] IN
    IF ~Accepting
    THEN UNCHANGED <<pending, claimed, pc, on>>
    ELSE /\ pending' = [pending EXCEPT ![t] = Append(@, e)]
         /\ IF t \in claimed
            THEN UNCHANGED <<claimed, pc, on>>
            ELSE /\ claimed' = claimed \cup {t}
                 /\ \E w \in Worker :
                      /\ pc[w] = "idle"
                      /\ pc' = [pc EXCEPT ![w] = "loop"]
                      /\ on' = [on EXCEPT ![w] = t]

\* Does another Persist hold the ingest lock that e's thread hashes to?
IngestLockFree(e) ==
    \A f \in ingesting : ShardOf[ThreadOf[f]] # ShardOf[ThreadOf[e]]

\* Seeded fault: insert and enqueue are not fenced by the ingest lock.
Persist_Unlocked(e) ==
    /\ mode \in {"up", "stopping"}
    /\ IF status[e] = "absent"
       THEN /\ InsertEvent(e)
            /\ ingesting' = ingesting \cup {e}
       ELSE UNCHANGED <<storeVars, ingesting>>
    /\ UNCHANGED <<mode, pending, claimed, pc, on, ev, readmits, rescan, history>>

\* Persist, up to the insert.  A duplicate dedup_key releases the lock at
\* once and enqueues nothing.  The adapter may still be finishing callbacks
\* after the context is cancelled.
Persist(e) ==
    /\ mode \in {"up", "stopping"}
    /\ IngestLockFree(e)
    /\ IF status[e] = "absent"
       THEN /\ InsertEvent(e)
            /\ ingesting' = ingesting \cup {e}
       ELSE UNCHANGED <<storeVars, ingesting>>
    /\ UNCHANGED <<mode, pending, claimed, pc, on, ev, readmits, rescan, history>>

\* Persist, from the insert to the unlock.
PersistEnqueue(e) ==
    /\ e \in ingesting
    /\ Enqueue(e)
    /\ ingesting' = ingesting \ {e}
    /\ UNCHANGED <<storeVars, mode, ev, readmits, rescan, history>>

\* The backoff timer fires, or the human command makes its second call.
Readmit(e) ==
    /\ readmits[e] > 0
    /\ IngestLockFree(e)
    /\ Enqueue(e)
    /\ readmits' = [readmits EXCEPT ![e] = @ - 1]
    /\ UNCHANGED <<storeVars, mode, ev, ingesting, rescan, history>>

\* `retry` and `dead requeue`: the table first, then Readmit.
HumanRequeue(e) ==
    /\ mode \in {"up", "stopping"}
    /\ grants[e] < MaxGrants
    /\ RequeueInterruptedEvent(e) \/ ResolveDeadLetterRequeue(e)
    /\ readmits' = [readmits EXCEPT ![e] = @ + 1]
    /\ grants' = [grants EXCEPT ![e] = @ + 1]
    /\ UNCHANGED <<mode, pending, claimed, pc, on, ev, ingesting, rescan, runs, dropped>>

HumanDiscard(e) ==
    /\ mode \in {"up", "stopping"}
    /\ ResolveDeadLetterDiscard(e)
    /\ UNCHANGED <<ramVars, history>>

-----------------------------------------------------------------------------
(* The drain goroutine.                                                    *)

\* Seeded fault: the goroutine exits without releasing its thread's claim.
DrainNext_KeepsClaim(w) ==
    LET t == on[w] IN
    /\ pc[w] = "loop"
    /\ IF ~Accepting \/ pending[t] = <<>>
       THEN /\ pc' = [pc EXCEPT ![w] = "idle"]
            /\ on' = [on EXCEPT ![w] = NoThread]
            /\ UNCHANGED <<claimed, pending, ev>>
       ELSE /\ ev' = [ev EXCEPT ![w] = Head(pending[t])]
            /\ pending' = [pending EXCEPT ![t] = Tail(@)]
            /\ pc' = [pc EXCEPT ![w] = "popped"]
            /\ UNCHANGED <<claimed, on>>
    /\ UNCHANGED <<storeVars, mode, ingesting, readmits, rescan, history>>

\* Under q.mu: release the claim when cancelled or empty, else pop the head.
DrainNext(w) ==
    LET t == on[w] IN
    /\ pc[w] = "loop"
    /\ IF ~Accepting \/ pending[t] = <<>>
       THEN /\ claimed' = claimed \ {t}
            /\ pending' = [pending EXCEPT ![t] = <<>>]
            /\ pc' = [pc EXCEPT ![w] = "idle"]
            /\ on' = [on EXCEPT ![w] = NoThread]
            /\ UNCHANGED ev
       ELSE /\ ev' = [ev EXCEPT ![w] = Head(pending[t])]
            /\ pending' = [pending EXCEPT ![t] = Tail(@)]
            /\ pc' = [pc EXCEPT ![w] = "popped"]
            /\ UNCHANGED <<claimed, on>>
    /\ UNCHANGED <<storeVars, mode, ingesting, readmits, rescan, history>>

\* dispatch, when the stamp is written: only a received row may start.
StartTurn(w) ==
    /\ pc[w] = "popped"
    /\ Accepting
    /\ MarkEventProcessing(ev[w])
    /\ pc' = [pc EXCEPT ![w] = "turn"]
    /\ runs' = [runs EXCEPT ![ev[w]] = @ + 1]
    /\ UNCHANGED <<mode, pending, claimed, on, ev, ingesting, readmits, rescan, grants, dropped>>

\* dispatch, when the row is no longer 'received' or shutdown has begun.
RefuseTurn(w) ==
    /\ pc[w] = "popped"
    /\ ~Accepting \/ status[ev[w]] # "received"
    /\ pc' = [pc EXCEPT ![w] = "loop"]
    /\ ev' = [ev EXCEPT ![w] = NoEvent]
    /\ UNCHANGED <<storeVars, mode, pending, claimed, on, ingesting, readmits, rescan, history>>

\* dispatch, when the store refuses the stamp of a received row: the turn
\* does not run, and nothing in RAM remembers the event.
StampFails(w) ==
    /\ pc[w] = "popped"
    /\ Accepting
    /\ status[ev[w]] = "received"
    /\ pc' = [pc EXCEPT ![w] = "loop"]
    /\ ev' = [ev EXCEPT ![w] = NoEvent]
    /\ dropped' = dropped \cup {ev[w]}
    /\ UNCHANGED <<storeVars, mode, pending, claimed, on, ingesting, readmits, rescan, runs, grants>>

\* The store transaction a turn ends in, other than a retry.
EndOfTurn(e) ==
    \/ SkipEvent(e)                                   \* not the owner's
    \/ MarkEventCompleted(e)
    \/ ParkEvent(e)                                   \* ambiguous failure
    \/ DeadLetterEvent(e)                             \* malformed, exhausted

SettleTurn(w) ==
    /\ pc[w] = "turn"
    /\ EndOfTurn(ev[w])
    /\ pc' = [pc EXCEPT ![w] = "settled"]
    /\ UNCHANGED <<mode, pending, claimed, on, ev, ingesting, readmits, rescan, history>>

\* Seeded fault: the requeue is durable, the backoff timer is not armed.
RetryTurn_NoTimer(w) ==
    /\ pc[w] = "turn"
    /\ RequeueEventForRetry(ev[w])
    /\ pc' = [pc EXCEPT ![w] = "settled"]
    /\ UNCHANGED <<mode, pending, claimed, on, ev, ingesting, readmits, rescan, history>>

\* A clean failure: durable requeue, then the backoff timer is armed.
RetryTurn(w) ==
    /\ pc[w] = "turn"
    /\ RequeueEventForRetry(ev[w])
    /\ readmits' = [readmits EXCEPT ![ev[w]] = @ + 1]
    /\ pc' = [pc EXCEPT ![w] = "settled"]
    /\ UNCHANGED <<mode, pending, claimed, on, ev, ingesting, rescan, history>>

\* The handler panics, before or after its last write; recover() parks the
\* event, unless that write fails too.
Panic(w) ==
    /\ pc[w] \in {"turn", "settled"}
    /\ ParkEvent(ev[w]) \/ UNCHANGED storeVars
    /\ pc' = [pc EXCEPT ![w] = "unwinding"]
    /\ UNCHANGED <<mode, pending, claimed, on, ev, ingesting, readmits, rescan, history>>

\* The handler returns.  From "turn": cancelled by shutdown, or its last
\* write failed, and the row is left 'processing' for the next boot.
Return(w) ==
    /\ pc[w] \in InTurn
    /\ pc' = [pc EXCEPT ![w] = "loop"]
    /\ ev' = [ev EXCEPT ![w] = NoEvent]
    /\ UNCHANGED <<storeVars, mode, pending, claimed, on, ingesting, readmits, rescan, history>>

-----------------------------------------------------------------------------
(* Boot, shutdown, crash.                                                  *)

ForgetRAM ==
    /\ pending' = [t \in Thread |-> <<>>]
    /\ claimed' = {}
    /\ pc' = [w \in Worker |-> "idle"]
    /\ ev' = [w \in Worker |-> NoEvent]
    /\ ingesting' = {}
    /\ readmits' = [e \in Event |-> 0]
    /\ rescan' = {}
    /\ on' = [w \in Worker |-> NoThread]
    /\ dropped' = {}

\* Rebuild reads every unprocessed row once.
Boot ==
    /\ mode = "down"
    /\ mode' = "parking"
    /\ rescan' = {e \in UnprocessedEvents : status[e] = "received"}
    /\ UNCHANGED <<storeVars, pending, claimed, pc, on, ev, ingesting, readmits, history>>

\* Seeded fault: a cut turn is put back into the queue.
RebuildPark_Rerun(e) ==
    /\ mode = "parking"
    /\ Move(e, {"processing"}, "received")
    /\ rescan' = rescan \cup {e}
    /\ UNCHANGED <<parks, mode, pending, claimed, pc, on, ev, ingesting, readmits, history>>

\* Phase one: every row found mid-turn is parked, before any turn starts.
RebuildPark(e) ==
    /\ mode = "parking"
    /\ status[e] = "processing"
    /\ ParkEvent(e)
    /\ UNCHANGED <<ramVars, history>>

\* A park that cannot be written refuses the boot.
RebuildFails ==
    /\ mode = "parking"
    /\ \E e \in Event : status[e] = "processing"
    /\ mode' = "down"
    /\ rescan' = {}
    /\ UNCHANGED <<storeVars, pending, claimed, pc, on, ev, ingesting, readmits, history>>

RebuildParked ==
    /\ mode = "parking"
    /\ \A e \in Event : status[e] # "processing"
    /\ mode' = "indexing"
    /\ UNCHANGED <<storeVars, pending, claimed, pc, on, ev, ingesting, readmits, rescan, history>>

\* Phase two: the received rows, in id order.  Drains already run.
RebuildEnqueue(e) ==
    /\ mode = "indexing"
    /\ e \in rescan
    /\ \A f \in rescan : rowid[e] <= rowid[f]
    /\ Enqueue(e)
    /\ rescan' = rescan \ {e}
    /\ UNCHANGED <<storeVars, mode, ev, ingesting, readmits, history>>

\* The adapter and the admin socket go live only after Rebuild.
GoLive ==
    /\ mode = "indexing"
    /\ rescan = {}
    /\ mode' = "up"
    /\ UNCHANGED <<storeVars, pending, claimed, pc, on, ev, ingesting, readmits, rescan, history>>

\* The context is cancelled; what Rebuild had left to enqueue is a no-op.
Stop ==
    /\ mode \in {"indexing", "up"}
    /\ mode' = "stopping"
    /\ rescan' = {}
    /\ UNCHANGED <<storeVars, pending, claimed, pc, on, ev, ingesting, readmits, history>>

\* The adapter has joined its callbacks and Wait has joined the drains.
Exit ==
    /\ mode = "stopping"
    /\ ingesting = {}
    /\ \A w \in Worker : pc[w] = "idle"
    /\ mode' = "down"
    /\ ForgetRAM
    /\ UNCHANGED <<storeVars, runs, grants>>

Crash ==
    /\ mode # "down"
    /\ mode' = "down"
    /\ ForgetRAM
    /\ UNCHANGED <<storeVars, runs, grants>>

-----------------------------------------------------------------------------
\* What the goroutine w does next.
Drain(w) ==
    \/ DrainNext(w) \/ StartTurn(w) \/ RefuseTurn(w) \/ StampFails(w)
    \/ SettleTurn(w) \/ RetryTurn(w) \/ Panic(w) \/ Return(w)

Next ==
    \/ Boot \/ RebuildFails \/ RebuildParked \/ GoLive \/ Stop \/ Exit \/ Crash
    \/ \E e \in Event :
        \/ Persist(e) \/ PersistEnqueue(e) \/ Readmit(e) \/ HumanRequeue(e)
        \/ HumanDiscard(e) \/ RebuildPark(e) \/ RebuildEnqueue(e)
    \/ \E w \in Worker : Drain(w)

Spec == Init /\ [][Next]_vars

\* A started goroutine keeps running: the engine child is killed at its
\* turn timeout, so a turn ends.  A callback past its insert reaches its
\* enqueue.  A timer fires and its Readmit gets the ingest lock, which Go's
\* mutex hands over in FIFO order to a starved waiter.  Rebuild and the
\* shutdown joins proceed.  Nothing forces an event, a human, a crash, a
\* signal, or the success of any write.
Fairness ==
    /\ \A w \in Worker : WF_vars(Drain(w))
    /\ \A e \in Event :
         /\ WF_vars(PersistEnqueue(e))
         /\ SF_vars(Readmit(e))
         /\ WF_vars(RebuildEnqueue(e))
    /\ WF_vars(GoLive)
    /\ WF_vars(Exit)

FairSpec == Spec /\ Fairness

-----------------------------------------------------------------------------
(* Safety.                                                                 *)

\* Dispatch is strictly serial within a thread: one goroutine per thread,
\* and so one turn, whatever Enqueue, Readmit and Rebuild do meanwhile.
SerialDispatch ==
    \A v, w \in Worker :
        pc[v] # "idle" /\ pc[w] # "idle" /\ on[v] = on[w] => v = w

\* A wakeup is never lost: queued work always has a goroutine that will look
\* at it, because the claim is released in the same critical section that
\* finds the queue empty.
NoLostWakeup ==
    \A t \in Thread :
        pending[t] # <<>> => \E w \in Worker : pc[w] # "idle" /\ on[w] = t

\* A turn that has not ended owns its row: nothing else (a human command, a
\* timer, the boot scan, a duplicate) moves the row out of 'processing'
\* under it.
TurnOwnsRow ==
    \A w \in Worker : pc[w] = "turn" => status[ev[w]] = "processing"

\* Where RAM holds an event that is owed a turn.
Indexed(e) ==
    \/ e \in ingesting \cup rescan
    \/ readmits[e] > 0
    \/ \E i \in 1..Len(pending[ThreadOf[e]]) : pending[ThreadOf[e]][i] = e
    \/ \E w \in Worker : pc[w] = "popped" /\ ev[w] = e

\* No event is forgotten: while the daemon accepts work, a row that is owed
\* a turn is somewhere in RAM that leads to its dispatch, unless its stamp
\* could not be written in this life (it then waits for a restart).
NoForgottenEvent ==
    Accepting => \A e \in Event : status[e] = "received" => Indexed(e) \/ e \in dropped

\* Receipt order is dispatch order: the first turn of an event starts only
\* when no older event of its thread still waits for its own first turn.
FirstTurnsInReceiptOrder ==
    [][\A w \in Worker :
         pc[w] = "popped" /\ pc'[w] = "turn" /\ runs[ev[w]] = 0 =>
           \A e \in Event :
             /\ ThreadOf[e] = ThreadOf[ev[w]]
             /\ status[e] = "received" /\ runs[e] = 0
             /\ rowid[e] < rowid[ev[w]]
             => e \in dropped]_vars

\* Every event owed a turn gets one while the daemon stays up, however the
\* queue, the claim, the timer and the other threads interleave.
ReceivedIsServed ==
    \A e \in Event :
        Accepting /\ status[e] = "received"
            ~> status[e] # "received" \/ ~Accepting \/ e \in dropped

\* What a row says about the licences of its event.
TurnPhase(e) ==
    CASE status[e] = "absent"      -> "unseen"
      [] status[e] = "received"    -> "licensed"
      [] status[e] = "processing"  -> "running"
      [] status[e] = "interrupted" -> "parked"
      [] status[e] = "dead" /\ deadLetter[e] = "open" -> "parked"
      [] OTHER                     -> "closed"

\* The events whose handler is executing.
LiveTurns == {ev[w] : w \in {v \in Worker : pc[v] \in InTurn}}

\* The router implements the contract on turns.
Contract == INSTANCE TurnContract WITH
    phase <- [e \in Event |-> TurnPhase(e)],
    live <- LiveTurns,
    retries <- attempts

\* Every step of the router is a step of TurnContract or none: turns are
\* serial, and each is licensed by receipt, a bounded clean retry or a human.
ImplementsContract == Contract!Spec

=============================================================================
