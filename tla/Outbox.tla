------------------------------- MODULE Outbox -------------------------------
(***************************************************************************)
(* How replies and notices reach the platform: the `deliveries` table, the *)
(* success leg of cli/turn.go (productionTurn and finishTurn), the live    *)
(* relay, the claim table and target gates of delivery/inflight.go, and    *)
(* the outbox pump.                                                        *)
(*                                                                         *)
(* Two kinds of goroutine send: the handler of a live turn, through its    *)
(* relay, and the one pump.  Each step below is one store transaction, one *)
(* critical section of InFlight or one platform call, so pump and handlers *)
(* interleave between them.  Turns of a thread are serial (Router proves   *)
(* it).  A row is identified by its position, which is its id; its payload *)
(* is the generation of the run that composed it.  An owner is enrolled.   *)
(* A graceful shutdown is failed calls followed by Crash.                  *)
(***************************************************************************)
EXTENDS EventStore, Sequences, FiniteSetsExt

CONSTANTS Thread,       \* thread keys, which are also delivery targets
          ThreadOf,     \* the thread of each event
          OwnerTarget,  \* the enrolled owner's DM
          NoEvent,      \* a gate nobody holds
          MaxChunks,    \* bound: messages per reply
          MaxGrants     \* bound: human retries per event

ASSUME OutboxAssumption ==
    /\ ThreadOf \in [Event -> Thread]
    /\ OwnerTarget \in Thread
    /\ NoEvent \notin Event
    /\ MaxChunks \in Nat \ {0}
    /\ MaxGrants \in Nat

VARIABLES
    rows,       \* deliveries, in id order
    acked,      \* ids with an ack
    mode,       \* the daemon: down, boot, up
    turn,       \* the handler of each event
    gate,       \* InFlight.targets: the live turn that holds each gate
    fenced,     \* InFlight.keys: reply keys claimed by a live send
    pump,       \* the outbox pump
    posted,     \* relay.posted of each run <<event, generation>>; those of
                \* earlier runs are kept, as history, until the next grant
    \* history variables, that no guard reads (but for the bound MaxGrants)
    grants,     \* human retries per event
    everSent,   \* ids the platform has accepted
    sentNow,    \* ids the platform has accepted in this life
    lost,       \* ids sent whose ack this life cannot record: the platform's
                \* answer, the ack write, or the handler about to write it
                \* was lost
    torn,       \* events whose handler panicked between its compose and its
                \* completion stamp, in this life and since the last grant
    faulty,     \* some store write has failed in this life
    unheard,    \* runs since the last grant that have shown a partial without
                \* knowing it: the platform took it, its answer was lost
    quiet       \* events completed by a run that had no text

outboxVars == <<rows, acked>>
ramVars == <<mode, turn, gate, fenced, pump, posted>>
sendHistory == <<everSent, sentNow, lost>>
history == <<grants, sendHistory, torn, faulty, unheard, quiet>>
vars == <<storeVars, outboxVars, ramVars, history>>

\* start: waits for its gate; run: the engine runs; claimed: keys claimed;
\* composed: rows durable or found durable; send, ack: the relay's final
\* send and its acks; failed: in recovery; unsent: the reply could not be
\* composed; notice: the row has moved, the notice is still to write;
\* unwound, reparked: the router's recover(), before and after its park.
Places == {"none", "start", "run", "claimed", "composed", "send", "ack",
           "failed", "unsent", "notice", "unwound", "reparked"}

\* size: chunks of the reply; fresh: this run's compose inserted them;
\* accepted, recorded: chunks the platform took, and acks tried so far.
Blank == [at |-> "none", size |-> 0, fresh |-> FALSE, accepted |-> 0, recorded |-> 0]

Turns == [at : Places, size : 0..MaxChunks, fresh : BOOLEAN,
          accepted : 0..MaxChunks, recorded : 0..MaxChunks]

\* parks, deaths: the sweep; resend: the scan's rows in id order; stamp,
\* send, ack: the stages of the row at its head.
PumpPlaces == {"idle", "parks", "deaths", "resend", "stamp", "send", "ack"}

Rest == [at |-> "idle", sweep |-> {}, todo |-> {}, stopped |-> {}]

RowKinds == {"reply", "park", "death"}

TypeOK ==
    /\ StoreTypeOK
    /\ rows \in Seq([kind : RowKinds, ev : Event, n : Nat, gen : Nat, of : Nat])
    /\ acked \in SUBSET (1..Len(rows))
    /\ mode \in {"down", "boot", "up"}
    /\ turn \in [Event -> Turns]
    /\ gate \in [Thread -> Event \cup {NoEvent}]
    /\ fenced \in SUBSET (Event \X (0..MaxChunks - 1))
    /\ pump \in [at : PumpPlaces, sweep : SUBSET Event,
                 todo : SUBSET (1..Len(rows)), stopped : SUBSET Thread]
    /\ grants \in [Event -> Nat]
    /\ everSent \in SUBSET (1..Len(rows))
    /\ sentNow \in SUBSET everSent
    /\ lost \in SUBSET (1..Len(rows))
    /\ faulty \in BOOLEAN
    /\ posted \in SUBSET (Event \X Nat)
    /\ torn \in SUBSET Event
    /\ unheard \in SUBSET (Event \X Nat)
    /\ quiet \in SUBSET Event

Init ==
    /\ StoreInit
    /\ rows = <<>>
    /\ acked = {}
    /\ mode = "down"
    /\ turn = [e \in Event |-> Blank]
    /\ gate = [t \in Thread |-> NoEvent]
    /\ fenced = {}
    /\ pump = Rest
    /\ grants = [e \in Event |-> 0]
    /\ everSent = {}
    /\ sentNow = {}
    /\ lost = {}
    /\ faulty = FALSE
    /\ posted = {}
    /\ torn = {}
    /\ unheard = {}
    /\ quiet = {}

-----------------------------------------------------------------------------
(* The deliveries table.                                                   *)

Ids == 1..Len(rows)
Target(r) == IF rows[r].kind = "death" THEN OwnerTarget ELSE ThreadOf[rows[r].ev]

\* The single definition of "owed a send" (no caller marks a row failed).
ResendableDeliveries == Ids \ acked
HasOwedDeliveries(t) == \E r \in ResendableDeliveries : Target(r) = t
OwedDeliveriesBefore(t, id) == {r \in ResendableDeliveries : Target(r) = t /\ r < id}

\* Rows bound to the event: its replies.  Notices are unbound on purpose.
ReplyRows(e) == {r \in Ids : rows[r].kind = "reply" /\ rows[r].ev = e}
EventHasDeliveries(e) == ReplyRows(e) # {}

RowOf(e, i) == CHOOSE r \in ReplyRows(e) : rows[r].n = i

\* A run's identity: each rerun spends a retry or a grant.
Generation(e) == attempts[e] + grants[e]

ReplyBatch(e, size) ==
    [i \in 1..size |->
        [kind |-> "reply", ev |-> e, n |-> i - 1, gen |-> Generation(e), of |-> size]]

\* Seeded fault: only the last chunk's key is looked up.
Duplicate_LastKey(e, size) == \E r \in ReplyRows(e) : rows[r].n = size - 1

\* InsertDeliveries: the whole batch, or nothing when one key exists.
\* (Only a processing event composes, so the seal on 'replied' is open.)
Duplicate(e, size) == \E r \in ReplyRows(e) : rows[r].n < size
InsertDeliveries(e, size) == rows' = rows \o ReplyBatch(e, size)

\* A notice row, keyed by its episode: INSERT ... ON CONFLICT DO NOTHING.
InsertNotice(kind, e, n) ==
    IF \E r \in Ids : rows[r].kind = kind /\ rows[r].ev = e /\ rows[r].n = n
    THEN UNCHANGED rows
    ELSE rows' = Append(rows, [kind |-> kind, ev |-> e, n |-> n, gen |-> 0, of |-> 1])

SurfaceInterrupted(e) ==
    IF status[e] = "interrupted" THEN InsertNotice("park", e, parks[e])
    ELSE UNCHANGED rows

SurfaceDeadLetter(e) ==
    IF deadLetter[e] = "open" THEN InsertNotice("death", e, entries[e])
    ELSE UNCHANGED rows

UnsurfacedInterruptedEvents ==
    {e \in Event : status[e] = "interrupted" /\ ~\E r \in Ids :
        rows[r].kind = "park" /\ rows[r].ev = e /\ rows[r].n = parks[e]}

UnsurfacedDeadLetters ==
    {e \in Event : deadLetter[e] = "open" /\ ~\E r \in Ids :
        rows[r].kind = "death" /\ rows[r].ev = e /\ rows[r].n = entries[e]}

\* An ack is refused while the bound event has not completed its turn.
AckRefused(r) ==
    /\ r \notin acked
    /\ rows[r].kind = "reply"
    /\ status[rows[r].ev] \in {"received", "processing"}

\* AckDelivery, when it commits: the last sibling's ack seals the event, and
\* a repeated ack does nothing.
AckDelivery(r) ==
    /\ ~AckRefused(r)
    /\ acked' = acked \cup {r}
    /\ LET e == rows[r].ev IN
       IF /\ r \notin acked
          /\ rows[r].kind = "reply"
          /\ status[e] = "completed"
          /\ ReplyRows(e) \subseteq acked \cup {r}
       THEN AdvanceToReplied(e)
       ELSE UNCHANGED storeVars
    /\ UNCHANGED rows

\* The platform takes row r.
Accept(r) ==
    /\ everSent' = everSent \cup {r}
    /\ sentNow' = sentNow \cup {r}

Deliver(r) == Accept(r) /\ UNCHANGED lost

\* The call fails: the platform refused the row, or took it and the answer
\* (or the message id in it) was lost.
SendFails(r) ==
    \/ UNCHANGED sendHistory
    \/ Accept(r) /\ lost' = lost \cup {r}

-----------------------------------------------------------------------------
(* The live turn: productionTurn.                                          *)

GateFree(t) == gate[t] = NoEvent
HasRelay(e) == gate[ThreadOf[e]] = e
FreeGate(e) ==
    gate' = IF HasRelay(e) THEN [gate EXCEPT ![ThreadOf[e]] = NoEvent] ELSE gate

At(e, place) == turn[e].at = place
Goto(e, place) == turn' = [turn EXCEPT ![e].at = place]
EndTurn(e) == turn' = [turn EXCEPT ![e] = Blank]

\* A write failed; the handler logs it and returns, the row stays put.
GiveUp(e) == EndTurn(e) /\ faulty' = TRUE /\ UNCHANGED storeVars

Receive(e) ==
    /\ mode = "up"
    /\ InsertEvent(e)
    /\ UNCHANGED <<outboxVars, ramVars, history>>

\* The router starts the turn; turns of one thread do not overlap.
Start(e) ==
    /\ mode = "up"
    /\ \A f \in Event : ThreadOf[f] = ThreadOf[e] => At(f, "none")
    /\ MarkEventProcessing(e)
    /\ Goto(e, "start")
    /\ UNCHANGED <<outboxVars, mode, gate, fenced, pump, posted, history>>

\* The gate is taken, and kept only by a turn that may relay: no adapter, a
\* failed check, reply history or a backlog suppress the relay.
AcquireTarget(e) ==
    /\ At(e, "start")
    /\ GateFree(ThreadOf[e])
    /\ Goto(e, "run")
    /\ \/ UNCHANGED gate
       \/ /\ ~EventHasDeliveries(e)
          /\ ~HasOwedDeliveries(ThreadOf[e])
          /\ gate' = [gate EXCEPT ![ThreadOf[e]] = e]
    /\ UNCHANGED <<storeVars, outboxVars, mode, fenced, pump, posted, history>>

\* Relay.Push puts a partial message on the thread.  When the platform took
\* it but the call failed, or its answer had no message id, text is visible
\* and the relay does not know.
Push(e) ==
    LET run == <<e, Generation(e)>> IN
    /\ At(e, "run")
    /\ HasRelay(e)
    /\ \/ posted' = posted \cup {run} /\ unheard' = unheard \ {run}
       \/ run \notin posted /\ unheard' = unheard \cup {run} /\ UNCHANGED posted
    /\ UNCHANGED <<storeVars, outboxVars, mode, turn, gate, fenced, pump,
                   grants, sendHistory, torn, faulty, quiet>>

\* Seeded fault: recovery is entered with the gate still held.
TurnFails_KeepsGate(e) ==
    /\ At(e, "run")
    /\ Goto(e, "failed")
    /\ UNCHANGED <<storeVars, outboxVars, mode, gate, fenced, pump, posted,
                   history>>

\* The engine fails: the relay is cancelled and its gate released before
\* recovery, which may compose to the same target.
TurnFails(e) ==
    /\ At(e, "run")
    /\ Goto(e, "failed")
    /\ FreeGate(e)
    /\ UNCHANGED <<storeVars, outboxVars, mode, fenced, pump, posted, history>>

\* Before its gate: an event that is not the owner's is skipped, one whose
\* payload does not parse dies.
RefuseEvent(e) ==
    /\ At(e, "start")
    /\ \/ SkipEvent(e) /\ EndTurn(e) /\ UNCHANGED faulty
       \/ DeadLetterEvent(e) /\ Goto(e, "notice") /\ UNCHANGED faulty
       \/ GiveUp(e)
    /\ UNCHANGED <<outboxVars, mode, gate, fenced, pump, grants, sendHistory,
                   torn, unheard, posted, quiet>>

\* Seeded fault: a visible partial does not stop the automatic retry.
Recover_IgnoresPartial(e) ==
    /\ At(e, "failed")
    /\ \/ ParkEvent(e) /\ Goto(e, "notice") /\ UNCHANGED faulty
       \/ /\ RequeueEventForRetry(e)
          /\ EndTurn(e)
          /\ UNCHANGED faulty
    /\ UNCHANGED <<outboxVars, mode, gate, fenced, pump, grants, sendHistory,
                   torn, unheard, posted, quiet>>

\* Recovery's outcomes (see Recovery): a run whose relay has posted is
\* parked on that evidence alone.
Recover(e) ==
    /\ At(e, "failed")
    /\ \/ ParkEvent(e) /\ Goto(e, "notice") /\ UNCHANGED faulty
       \/ /\ <<e, Generation(e)>> \notin posted
          /\ RequeueVerdict(e) = "exhausted"
          /\ DeadLetterEvent(e)
          /\ Goto(e, "notice")
          /\ UNCHANGED faulty
       \/ /\ <<e, Generation(e)>> \notin posted
          /\ RequeueEventForRetry(e)
          /\ EndTurn(e)
          /\ UNCHANGED faulty
       \/ GiveUp(e)
    /\ UNCHANGED <<outboxVars, mode, gate, fenced, pump, grants, sendHistory,
                   torn, unheard, posted, quiet>>

\* The reply could not be composed: ParkAmbiguous.
ParkUnsent(e) ==
    /\ At(e, "unsent")
    /\ \/ ParkEvent(e) /\ Goto(e, "notice") /\ UNCHANGED faulty
       \/ GiveUp(e)
    /\ UNCHANGED <<outboxVars, mode, gate, fenced, pump, grants, sendHistory,
                   torn, unheard, posted, quiet>>

\* Seeded fault: the notice does not wait for its target's gate.
Notify_NoGate(e) ==
    /\ At(e, "notice")
    /\ IF status[e] = "dead" THEN SurfaceDeadLetter(e) ELSE SurfaceInterrupted(e)
    /\ EndTurn(e)
    /\ UNCHANGED <<storeVars, acked, mode, gate, fenced, pump, posted, history>>

\* The notice, under its target's gate; a refused insert only logs.
Notify(e) ==
    /\ turn[e].at \in {"notice", "reparked"}
    /\ IF At(e, "notice") /\ status[e] = "dead"
       THEN GateFree(OwnerTarget) /\ (SurfaceDeadLetter(e) \/ UNCHANGED rows)
       ELSE GateFree(ThreadOf[e]) /\ (SurfaceInterrupted(e) \/ UNCHANGED rows)
    /\ EndTurn(e)
    /\ UNCHANGED <<storeVars, acked, mode, gate, fenced, pump, posted, history>>

-----------------------------------------------------------------------------
(* finishTurn.                                                             *)

\* A turn without text completes without touching the outbox.
FinishEmpty(e) ==
    /\ At(e, "run")
    /\ EndTurn(e)
    /\ FreeGate(e)
    /\ \/ MarkEventCompleted(e) /\ quiet' = quiet \cup {e} /\ UNCHANGED faulty
       \/ faulty' = TRUE /\ UNCHANGED <<storeVars, quiet>>
    /\ UNCHANGED <<outboxVars, mode, fenced, pump, grants, sendHistory, posted,
                   torn, unheard>>

Keys(e) == {e} \X (0..turn[e].size - 1)

\* Seeded fault: one key too many is claimed.
Claim_OneTooMany(e) ==
    /\ At(e, "run")
    /\ \E size \in 1..MaxChunks :
         /\ turn' = [turn EXCEPT ![e].at = "claimed", ![e].size = size]
         /\ fenced' = fenced \cup ({e} \X (0..size))
    /\ UNCHANGED <<storeVars, outboxVars, mode, gate, pump, posted, history>>

\* The claim lands before the first row does.
Claim(e) ==
    /\ At(e, "run")
    /\ \E size \in 1..MaxChunks :
         /\ turn' = [turn EXCEPT ![e].at = "claimed", ![e].size = size]
         /\ fenced' = fenced \cup ({e} \X (0..size - 1))
    /\ UNCHANGED <<storeVars, outboxVars, mode, gate, pump, posted, history>>

Compose(e) ==
    /\ At(e, "claimed")
    /\ IF Duplicate(e, turn[e].size)
       THEN Goto(e, "composed") /\ UNCHANGED rows
       ELSE /\ turn' = [turn EXCEPT ![e].at = "composed", ![e].fresh = TRUE]
            /\ InsertDeliveries(e, turn[e].size)
    /\ UNCHANGED <<storeVars, acked, mode, gate, fenced, pump, posted, history>>

\* The batch is rolled back: gate and claims are released, then the park.
ComposeFails(e) ==
    /\ At(e, "claimed")
    /\ Goto(e, "unsent")
    /\ FreeGate(e)
    /\ fenced' = fenced \ Keys(e)
    /\ faulty' = TRUE
    /\ UNCHANGED <<storeVars, outboxVars, mode, pump, grants, sendHistory,
                   posted, torn, unheard, quiet>>

\* A direct send: a relay, a fresh compose, and no older row owed.
Direct(e) ==
    /\ HasRelay(e)
    /\ turn[e].fresh
    /\ OwedDeliveriesBefore(ThreadOf[e], RowOf(e, 0)) = {}

AllAcked(e) == EventHasDeliveries(e) /\ ReplyRows(e) \subseteq acked

\* The completion stamp, then the relay's send or the pump's.
Complete(e) ==
    /\ At(e, "composed")
    /\ IF turn[e].fresh THEN MarkEventCompleted(e)
                        ELSE MarkEventCompletedReconciled(e, AllAcked(e))
    /\ quiet' = quiet \ {e}
    /\ \/ Direct(e) /\ Goto(e, "send") /\ UNCHANGED <<gate, fenced>>
       \/ \* also when the order check itself fails
          EndTurn(e) /\ FreeGate(e) /\ fenced' = fenced \ Keys(e)
    /\ UNCHANGED <<outboxVars, mode, pump, grants, sendHistory, faulty, posted,
                   torn, unheard>>

\* The stamp fails: the claims are kept for the rest of this life.
CompleteFails(e) ==
    /\ At(e, "composed")
    /\ EndTurn(e)
    /\ FreeGate(e)
    /\ faulty' = TRUE
    /\ UNCHANGED <<storeVars, outboxVars, mode, fenced, pump, grants,
                   sendHistory, posted, torn, unheard, quiet>>

\* FinishJournaled: stamp and send the next chunk (the edit that turns the
\* partial into chunk 0, and its fallback, are one send), or stop at a
\* failure.
SendChunk(e) ==
    LET r == RowOf(e, turn[e].accepted) IN
    /\ At(e, "send")
    /\ \/ /\ r \notin acked
          /\ Deliver(r)
          /\ turn' = [turn EXCEPT ![e].accepted = @ + 1,
                        ![e].at = IF turn[e].accepted + 1 = turn[e].size THEN "ack" ELSE "send"]
       \/ Goto(e, "ack") /\ SendFails(r)
    /\ UNCHANGED <<storeVars, outboxVars, mode, gate, fenced, pump, grants,
                   faulty, posted, torn, unheard, quiet>>

\* The ack of the next accepted chunk; a failed write only logs.
AckChunk(e) ==
    LET r == RowOf(e, turn[e].recorded) IN
    /\ At(e, "ack")
    /\ turn[e].recorded < turn[e].accepted
    /\ turn' = [turn EXCEPT ![e].recorded = @ + 1]
    /\ \/ AckDelivery(r) /\ UNCHANGED <<lost, faulty>>
       \/ /\ lost' = lost \cup {r}
          /\ faulty' = TRUE
          /\ UNCHANGED <<storeVars, outboxVars>>
    /\ UNCHANGED <<mode, gate, fenced, pump, grants, everSent, sentNow, posted,
                   torn, unheard, quiet>>

\* The claims go first, the gate with the handler's return.
Return(e) ==
    /\ At(e, "ack")
    /\ turn[e].recorded = turn[e].accepted
    /\ EndTurn(e)
    /\ FreeGate(e)
    /\ fenced' = fenced \ Keys(e)
    /\ UNCHANGED <<storeVars, outboxVars, mode, pump, posted, history>>

\* A panic unwinds the handler: deferred calls release the claims and the
\* gate, and only then does the router's recover() park the event.  Acks the
\* handler had still to write are lost with it.
Panic(e) ==
    /\ mode = "up"
    /\ turn[e].at \notin {"none", "unwound", "reparked"}
    /\ Goto(e, "unwound")
    /\ FreeGate(e)
    /\ fenced' = fenced \ Keys(e)
    /\ lost' = lost \cup {r \in ReplyRows(e) :
                           turn[e].recorded <= rows[r].n /\ rows[r].n < turn[e].accepted}
    /\ torn' = IF At(e, "composed") THEN torn \cup {e} ELSE torn
    /\ UNCHANGED <<storeVars, outboxVars, mode, pump, posted, grants, everSent, sentNow,
                   faulty, unheard, quiet>>

PanicPark(e) ==
    /\ At(e, "unwound")
    /\ \/ ParkEvent(e) /\ Goto(e, "reparked") /\ UNCHANGED faulty
       \/ EndTurn(e) /\ faulty' = TRUE /\ UNCHANGED storeVars
    /\ UNCHANGED <<outboxVars, mode, gate, fenced, pump, posted, grants,
                   sendHistory, torn, unheard, quiet>>

-----------------------------------------------------------------------------
(* The pump: one goroutine, a sweep and then a resend pass.                *)

\* The scan for unannounced parks; if it fails the sweep is over, deaths too.
PumpStart ==
    /\ mode = "up"
    /\ pump.at = "idle"
    /\ \/ pump' = [pump EXCEPT !.at = "parks", !.sweep = UnsurfacedInterruptedEvents]
       \/ pump' = [pump EXCEPT !.at = "deaths"]
    /\ UNCHANGED <<storeVars, outboxVars, mode, turn, gate, fenced, posted,
                   history>>

\* It waits for the gate of the oldest event's target.
PumpSurface ==
    /\ pump.at \in {"parks", "deaths"}
    /\ \E e \in pump.sweep :
         /\ \A f \in pump.sweep : rowid[e] <= rowid[f]
         /\ IF pump.at = "parks"
            THEN GateFree(ThreadOf[e]) /\ (SurfaceInterrupted(e) \/ UNCHANGED rows)
            ELSE GateFree(OwnerTarget) /\ (SurfaceDeadLetter(e) \/ UNCHANGED rows)
         /\ pump' = [pump EXCEPT !.sweep = @ \ {e}]
    /\ UNCHANGED <<storeVars, acked, mode, turn, gate, fenced, posted, history>>

\* From parks to deaths (a failed scan finds none), and on to the resend scan,
\* which reads the owed rows once, or fails and ends the pass.
PumpScan ==
    /\ pump.sweep = {}
    /\ \/ /\ pump.at = "parks"
          /\ \E found \in {UnsurfacedDeadLetters, {}} :
               pump' = [pump EXCEPT !.at = "deaths", !.sweep = found]
       \/ /\ pump.at = "deaths"
          /\ pump' = [pump EXCEPT !.at = "resend", !.todo = ResendableDeliveries]
       \/ pump.at = "deaths" /\ pump' = Rest
    /\ UNCHANGED <<storeVars, outboxVars, mode, turn, gate, fenced, posted,
                   history>>

Current == Min(pump.todo)
Skip == pump' = [pump EXCEPT !.at = "resend", !.todo = @ \ {Current}]
StopTarget == pump' = [pump EXCEPT !.at = "resend", !.todo = @ \ {Current},
                                   !.stopped = @ \cup {Target(Current)}]

\* Seeded fault: the pump does not consult the claim table.
Held_Never(r) == FALSE

Held(r) == rows[r].kind = "reply" /\ <<rows[r].ev, rows[r].n>> \in fenced

\* Seeded fault: a held row is skipped, its target is not stopped.
PumpPick_SkipsHeld ==
    /\ pump.at = "resend"
    /\ pump.todo # {}
    /\ \/ (Target(Current) \in pump.stopped \/ Held(Current)) /\ Skip
       \/ /\ Target(Current) \notin pump.stopped
          /\ ~Held(Current)
          /\ pump' = [pump EXCEPT !.at = "stamp"]
    /\ UNCHANGED <<storeVars, outboxVars, mode, turn, gate, fenced, posted,
                   history>>

\* The row at the head of the pass: skipped, held by a live send, or taken.
PumpPick ==
    /\ pump.at = "resend"
    /\ pump.todo # {}
    /\ \/ Target(Current) \in pump.stopped /\ Skip
       \/ Target(Current) \notin pump.stopped /\ Held(Current) /\ StopTarget
       \/ /\ Target(Current) \notin pump.stopped
          /\ ~Held(Current)
          /\ pump' = [pump EXCEPT !.at = "stamp"]
    /\ UNCHANGED <<storeVars, outboxVars, mode, turn, gate, fenced, posted,
                   history>>

\* MarkDeliveryAttempt refuses a row that was acked since the scan.
PumpStamp ==
    /\ pump.at = "stamp"
    /\ \/ /\ Current \in ResendableDeliveries
          /\ pump' = [pump EXCEPT !.at = "send"]
          /\ UNCHANGED faulty
       \/ Current \in acked /\ StopTarget /\ UNCHANGED faulty
       \/ StopTarget /\ faulty' = TRUE
    /\ UNCHANGED <<storeVars, outboxVars, mode, turn, gate, fenced, posted,
                   grants, sendHistory, torn, unheard, quiet>>

PumpSend ==
    /\ pump.at = "send"
    /\ \/ Deliver(Current) /\ pump' = [pump EXCEPT !.at = "ack"]
       \/ StopTarget /\ SendFails(Current)
    /\ UNCHANGED <<storeVars, outboxVars, mode, turn, gate, fenced, grants,
                   faulty, posted, torn, unheard, quiet>>

PumpAck ==
    /\ pump.at = "ack"
    /\ \/ AckDelivery(Current) /\ Skip /\ UNCHANGED <<lost, faulty>>
       \/ /\ AckRefused(Current)
          /\ StopTarget
          /\ UNCHANGED <<storeVars, outboxVars, lost, faulty>>
       \/ /\ lost' = lost \cup {Current}
          /\ faulty' = TRUE
          /\ StopTarget
          /\ UNCHANGED <<storeVars, outboxVars>>
    /\ UNCHANGED <<mode, turn, gate, fenced, grants, everSent, sentNow, posted,
                   torn, unheard, quiet>>

PumpEnd ==
    /\ pump.at = "resend"
    /\ pump.todo = {}
    /\ pump' = Rest
    /\ UNCHANGED <<storeVars, outboxVars, mode, turn, gate, fenced, posted,
                   history>>

-----------------------------------------------------------------------------
(* The human, the crash, the boot.                                         *)

HumanRetry(e) ==
    /\ mode = "up"
    /\ grants[e] < MaxGrants
    /\ RequeueInterruptedEvent(e) \/ ResolveDeadLetterRequeue(e)
    /\ grants' = [grants EXCEPT ![e] = @ + 1]
    /\ posted' = {run \in posted : run[1] # e}
    /\ unheard' = {run \in unheard : run[1] # e}
    /\ torn' = torn \ {e}
    /\ UNCHANGED <<outboxVars, mode, turn, gate, fenced, pump, sendHistory,
                   faulty, quiet>>

HumanDiscard(e) ==
    /\ mode = "up"
    /\ ResolveDeadLetterDiscard(e)
    /\ UNCHANGED <<outboxVars, ramVars, history>>

Crash ==
    /\ mode # "down"
    /\ mode' = "down"
    /\ turn' = [e \in Event |-> Blank]
    /\ gate' = [t \in Thread |-> NoEvent]
    /\ fenced' = {}
    /\ pump' = Rest
    /\ sentNow' = {}
    /\ lost' = {}
    /\ torn' = {}
    /\ faulty' = FALSE
    /\ UNCHANGED <<storeVars, outboxVars, grants, everSent, posted, unheard,
                   quiet>>

Boot ==
    /\ mode = "down"
    /\ mode' = "boot"
    /\ UNCHANGED <<storeVars, outboxVars, turn, gate, fenced, pump, posted,
                   history>>

\* Rebuild parks a row it found mid-turn and tries its notice (Notify).
BootPark(e) ==
    /\ mode = "boot"
    /\ status[e] = "processing"
    /\ ParkEvent(e)
    /\ Goto(e, "notice")
    /\ UNCHANGED <<outboxVars, mode, gate, fenced, pump, posted, history>>

GoLive ==
    /\ mode = "boot"
    /\ \A e \in Event : status[e] # "processing" /\ At(e, "none")
    /\ mode' = "up"
    /\ UNCHANGED <<storeVars, outboxVars, turn, gate, fenced, pump, posted,
                   history>>

-----------------------------------------------------------------------------
\* What the handler of e does next.
Handler(e) ==
    \/ RefuseEvent(e) \/ AcquireTarget(e) \/ Push(e) \/ TurnFails(e) \/ Recover(e)
    \/ ParkUnsent(e) \/ Notify(e) \/ FinishEmpty(e) \/ Claim(e) \/ Compose(e)
    \/ ComposeFails(e) \/ Complete(e) \/ CompleteFails(e) \/ SendChunk(e)
    \/ AckChunk(e) \/ Return(e) \/ PanicPark(e)

Pump ==
    \/ PumpStart \/ PumpSurface \/ PumpScan \/ PumpPick \/ PumpStamp
    \/ PumpSend \/ PumpAck \/ PumpEnd

Next ==
    \/ Boot \/ GoLive \/ Crash \/ Pump
    \/ \E e \in Event :
        \/ Receive(e) \/ Start(e) \/ Handler(e) \/ Panic(e)
        \/ HumanRetry(e) \/ HumanDiscard(e) \/ BootPark(e)

Spec == Init /\ [][Next]_vars

PumpScanned == PumpScan /\ pump'.at = "resend"
PumpAccepted == PumpSend /\ pump'.at = "ack"

\* An event owed a turn is dispatched (Router's ReceivedIsServed).  A started
\* handler goes on: the engine is killed at its turn timeout and every
\* platform call has a deadline.  The pump's ticker never stops; its scan,
\* and the platform, asked again and again, answer in the end.  Nothing forces
\* an event, a human, a panic, a crash, or the success of a write.
Fairness ==
    /\ \A e \in Event : WF_vars(Start(e)) /\ WF_vars(Handler(e))
    /\ WF_vars(Pump)
    /\ SF_vars(PumpScanned)
    /\ SF_vars(PumpAccepted)

FairSpec == Spec /\ Fairness

-----------------------------------------------------------------------------
(* Safety.                                                                 *)

\* 'replied' is never claimed for less than the whole reply: every chunk was
\* accepted by the platform and every ack is on record.
RepliedIsDelivered ==
    \A e \in Event : status[e] = "replied" =>
        ReplyRows(e) # {} /\ ReplyRows(e) \subseteq acked \cap everSent

\* What the outbox holds of an event is one run's reply, whole: a rerun never
\* stitches its own chunks onto those of an earlier life.
WholeReply ==
    \A e \in Event : ReplyRows(e) # {} =>
        /\ \A q, r \in ReplyRows(e) : rows[q].gen = rows[r].gen
        /\ {rows[r].n : r \in ReplyRows(e)} = 0..Cardinality(ReplyRows(e)) - 1
        /\ \A r \in ReplyRows(e) : rows[r].of = Cardinality(ReplyRows(e))

\* A reply is delivered whole or not called delivered, and never made of two.
DeliveredWhole == RepliedIsDelivered /\ WholeReply

\* A target sees its messages in the order they were composed, whoever sends
\* them: what it has seen is a prefix of what was composed for it.
SentInOrder ==
    \A r \in everSent, q \in Ids : q < r /\ Target(q) = Target(r) => q \in everSent

\* While a turn may stream partials, nothing older is owed to its thread: a
\* partial never jumps a notice or an earlier reply.
RelayNeverJumps ==
    \A e \in Event : HasRelay(e) =>
        \A r \in ResendableDeliveries : Target(r) = ThreadOf[e] => r \in ReplyRows(e)

\* The runs of an event that a human may have seen text of, and those among
\* them that have shown a partial without knowing it.
Unheard(e) == {g \in 0..Generation(e) : <<e, g>> \in unheard}

Answers(e) ==
    {g \in 0..Generation(e) : <<e, g>> \in posted} \cup Unheard(e)
        \cup {rows[r].gen : r \in ReplyRows(e) \cap everSent}

\* Until a human has it run again, an event shows text of one run only,
\* whatever failed, was retried automatically, crashed or panicked in between
\* ("a turn that showed one must never silently auto-retry": Relay.Posted).
\* The exception is a run that showed a partial without knowing it (the error
\* legs of Push), after which the automatic retry shows a second one.
AnswersAreLicensed ==
    \A e \in Event : Cardinality(Answers(e)) <= 1 + Cardinality(Unheard(e))

\* The rows a sender is about to hand to the platform, and among them those
\* the platform has already taken in this life, with no ack lost since.
InHand ==
    {RowOf(e, turn[e].accepted) : e \in {f \in Event : At(f, "send")}}
        \cup (IF pump.at = "send" THEN {Current} ELSE {})

Repeats == InHand \cap (sentNow \ lost)

\* One life sends a row once, unless its ack was lost on the way (between
\* goroutines "of one living daemon" delivery "must not manufacture"
\* duplicates: InFlight) ...
NoRepeatInOneLife == Repeats = {}

\* ... as far as the code keeps to it.  A repeated row is a reply that was
\* owed when a human had its event run again, or when a panic freed its claim
\* before the completion stamp: in both the pump sends it and its ack is
\* refused, since the event is received or processing, so the row stays owed.
RepeatsHaveCause ==
    \A r \in Repeats :
        rows[r].kind = "reply" /\ (grants[rows[r].ev] > 0 \/ rows[r].ev \in torn)

\* A completed event with a reply still owes part of it: no event rests at
\* 'completed' with every ack recorded, since no later ack would seal it.
\* The exception is a rerun without text, whose completion reconciles no
\* earlier ack (finishTurn's empty-text leg).
CompletedIsOwedUnlessQuiet ==
    \A e \in Event : status[e] = "completed" /\ AllAcked(e) => e \in quiet

-----------------------------------------------------------------------------
(* Liveness.                                                               *)

\* A turn comes to its end, and what it and the notices owe its target is sent
\* and settled, while the daemon stays up and its store takes writes: no handler
\* waits for a gate it holds itself, and no row is fenced, skipped or starved
\* for ever.
WorkSettles ==
    \A t \in Thread :
        LET unsettled == \/ HasOwedDeliveries(t)
                         \/ \E e \in Event : ThreadOf[e] = t /\ ~At(e, "none")
        IN mode = "up" /\ unsettled ~> ~unsettled \/ mode # "up" \/ faulty

=============================================================================
