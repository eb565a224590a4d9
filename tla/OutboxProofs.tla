---------------------------- MODULE OutboxProofs ----------------------------
(***************************************************************************)
(* Proofs about Outbox for every set of events and threads, any number of  *)
(* chunks, retries and human grants.                                       *)
(*                                                                         *)
(* The inductive invariant has a part per event (EventOK: what the place   *)
(* of its handler says about its row, its keys and its batch of reply      *)
(* rows), a part about the gates, and a part about the pump's pass.  A     *)
(* step of one event's handler leaves the part of the others alone         *)
(* (FrameEvent), so each action is examined for its own event only.        *)
(*                                                                         *)
(* Two more parts stand on it.  Seen: a partial its relay knows of is the  *)
(* last run's, as is any reply composed since.  Once, about one life of    *)
(* the daemon: a row sent in it is acked, lost (its answer or its ack),    *)
(* about to be acked, or a reply whose event a human had run again or      *)
(* whose handler panicked between its compose and its completion stamp.    *)
(***************************************************************************)
EXTENDS Outbox, FiniteSetTheorems, SequenceTheorems, TLAPS

Row == [kind : RowKinds, ev : Event, n : Nat, gen : Nat, of : Nat]

\* Where a turn owns its row, and where it has claimed its keys.
Owning == {"start", "run", "claimed", "composed", "failed", "unsent"}

Claiming == {"claimed", "composed", "send", "ack"}

\* What the place of a handler says about its event, its registers and the
\* daemon.
Control(e) ==
    /\ turn[e].at \in Owning => status[e] = "processing"
    /\ turn[e].at \in {"send", "ack"} => status[e] \in {"completed", "replied"}
    /\ turn[e].at \in {"none", "start", "run", "claimed"} => ~turn[e].fresh
    /\ turn[e].at \in {"send", "ack"} => turn[e].fresh
    /\ turn[e].at \in {"none", "start", "run", "claimed", "composed"} =>
         turn[e].accepted = 0 /\ turn[e].recorded = 0
    /\ turn[e].at \notin {"none", "notice"} => mode = "up"
    /\ turn[e].at # "none" => mode # "down"

\* The reply rows of an event are one batch, in consecutive rows.
Batch(e) ==
    \A r \in ReplyRows(e) :
        /\ rows[r].of \in 1..MaxChunks /\ rows[r].n < rows[r].of
        /\ \A i \in 0..rows[r].of - 1 :
             /\ r - rows[r].n + i \in ReplyRows(e)
             /\ rows[r - rows[r].n + i].n = i
        /\ \A q \in ReplyRows(e) :
             /\ rows[q].of = rows[r].of /\ rows[q].gen = rows[r].gen
             /\ q - rows[q].n = r - rows[r].n

\* A turn past its claim holds its keys, and a batch it composed is its size.
Fence(e) ==
    turn[e].at \in Claiming =>
        /\ turn[e].size >= 1
        /\ Keys(e) \subseteq fenced
        /\ turn[e].fresh => /\ ReplyRows(e) # {}
                            /\ \A r \in ReplyRows(e) : rows[r].of = turn[e].size

\* A batch is not acked before the completion stamp; after it, it is owed
\* unless the event is sealed or was completed without text.
Owed(e) ==
    /\ turn[e].at = "composed" /\ turn[e].fresh => ReplyRows(e) \cap acked = {}
    /\ status[e] = "replied" => ReplyRows(e) # {} /\ ReplyRows(e) \subseteq acked
    /\ status[e] = "completed" /\ AllAcked(e) => e \in quiet

\* How far a direct send has come.
Sending(e) ==
    turn[e].at \in {"send", "ack"} =>
        /\ turn[e].recorded <= turn[e].accepted /\ turn[e].accepted <= turn[e].size
        /\ turn[e].at = "send" => turn[e].accepted < turn[e].size
        /\ \A r \in ReplyRows(e) : rows[r].n < turn[e].accepted => r \in everSent
        /\ \A r \in ReplyRows(e) : \A q \in Ids :
             q < r /\ q \notin ReplyRows(e) /\ Target(q) = ThreadOf[e] => q \in everSent

EventOK(e) ==
    Control(e) /\ Batch(e) /\ Fence(e) /\ Owed(e) /\ Sending(e)

\* One turn of a thread at a time once the daemon is up.
SerialOK ==
    mode = "up" => \A e, f \in Event :
        turn[e].at # "none" /\ turn[f].at # "none" /\ ThreadOf[e] = ThreadOf[f] => e = f

\* A gate is held by a turn of its target that may still relay.
GateOK ==
    \A t \in Thread : gate[t] # NoEvent =>
        /\ ThreadOf[gate[t]] = t
        /\ turn[gate[t]].at \in {"run", "claimed", "composed", "send", "ack"}

\* The pump has a row in hand.
Busy == pump.at \in {"stamp", "send", "ack"}

\* The pass of the pump, and the row at its head.
PumpOK ==
    /\ pump.at # "idle" => mode = "up"
    /\ Busy => pump.todo # {} /\ Target(Current) \notin pump.stopped
    /\ pump.at = "send" => Current \notin acked
    /\ pump.at = "ack" => Current \in sentNow

\* What the pass has left behind on a target it has not stopped is sent.
PassOrder ==
    pump.at \in {"resend", "stamp", "send", "ack"} =>
        \A r \in pump.todo : \A q \in Ids :
            /\ q < r /\ Target(q) = Target(r)
            /\ q \notin pump.todo /\ Target(r) \notin pump.stopped
            => q \in everSent

\* The pump does not hold a row of a batch that a live turn composed.
Apart ==
    \A e \in Event :
        turn[e].at \in Claiming /\ turn[e].fresh /\ Busy => Current \notin ReplyRows(e)

IInv ==
    /\ TypeOK
    /\ \A e \in Event : EventOK(e)
    /\ SerialOK
    /\ GateOK
    /\ PumpOK
    /\ PassOrder
    /\ Apart
    /\ acked \subseteq everSent
    /\ SentInOrder
    /\ RelayNeverJumps

-----------------------------------------------------------------------------
(* Operators.                                                              *)

\* The oldest row of a pass is a row of the pass.
LEMMA MinIsMin ==
    ASSUME NEW S \in SUBSET Nat, S # {}
    PROVE  Min(S) \in S /\ \A x \in S : Min(S) <= x
  <1> DEFINE R == {ss \in Nat \X Nat : ss[1] < ss[2]}
  <1>1. IsWellFoundedOn(R, Nat)
    BY NatLessThanWellFounded, Zenon DEF OpToRel
  <1>2. PICK x \in S : \A y \in S : ~(<<y, x>> \in R)
    BY <1>1, WFMin
  <1>3. ASSUME NEW y \in S PROVE x <= y
    <2>1. ~(<<y, x>> \in R)
      BY <1>2
    <2>2. ~(y < x)
      BY <2>1
    <2> QED BY <2>2
  <1> QED BY <1>3 DEF Min

\* The row in the pump's hand is a row of the table and the oldest of the pass.
LEMMA CurrentIs ==
    ASSUME TypeOK, pump.todo # {}
    PROVE  Current \in Ids /\ Current \in pump.todo /\ \A r \in pump.todo : Current <= r
  <1>1. pump.todo \in SUBSET (1..Len(rows)) /\ Len(rows) \in Nat
    BY DEF TypeOK
  <1>2. pump.todo \in SUBSET Nat
    BY <1>1
  <1> QED BY <1>1, <1>2, MinIsMin DEF Current, Ids

\* What a row is made of.
LEMMA RowTypes ==
    ASSUME TypeOK
    PROVE  /\ rows \in Seq(Row) /\ Len(rows) \in Nat
           /\ \A r \in Ids : /\ r \in Nat /\ rows[r] \in Row
                             /\ rows[r].n \in Nat /\ rows[r].of \in Nat
                             /\ rows[r].ev \in Event /\ rows[r].kind \in RowKinds
                             /\ Target(r) \in Thread
           /\ \A e \in Event : \A r \in ReplyRows(e) :
                /\ r \in Ids /\ r \in Nat /\ rows[r].n \in Nat /\ rows[r].of \in Nat
                /\ rows[r].kind = "reply" /\ rows[r].ev = e
                /\ Target(r) = ThreadOf[e]
  <1>1. rows \in Seq(Row) /\ Len(rows) \in Nat
    BY DEF TypeOK, Row
  <1>2. \A r \in Ids : r \in Nat /\ rows[r] \in Row
    BY <1>1 DEF Ids
  <1>3. \A r \in Ids : /\ rows[r].n \in Nat /\ rows[r].of \in Nat
                       /\ rows[r].ev \in Event /\ rows[r].kind \in RowKinds
    BY <1>2 DEF Row
  <1>4. \A r \in Ids : Target(r) \in Thread
    BY <1>3, OutboxAssumption DEF Target
  <1>5. \A e \in Event : \A r \in ReplyRows(e) :
          r \in Ids /\ rows[r].kind = "reply" /\ rows[r].ev = e /\ Target(r) = ThreadOf[e]
    BY DEF ReplyRows, Target
  <1> QED BY <1>1, <1>2, <1>3, <1>4, <1>5

\* Rows are only ever appended.
RowsGrow ==
    /\ rows' \in Seq(Row)
    /\ Len(rows) <= Len(rows')
    /\ \A r \in Ids : rows'[r] = rows[r]

\* What an append leaves alone.
LEMMA GrowKeeps ==
    ASSUME TypeOK, RowsGrow
    PROVE  /\ Len(rows) \in Nat /\ Len(rows') \in Nat
           /\ Ids \subseteq Ids'
           /\ \A r \in Ids : rows[r] \in Row /\ Target(r)' = Target(r) /\ Target(r) \in Thread
           /\ \A e \in Event : ReplyRows(e) \subseteq ReplyRows(e)'
           /\ \A e \in Event : \A r \in Ids : r \in ReplyRows(e)' <=> r \in ReplyRows(e)
  <1>1. Len(rows) \in Nat /\ Len(rows') \in Nat /\ rows \in Seq(Row)
    BY DEF TypeOK, RowsGrow, Row
  <1>2. Ids \subseteq Ids'
    BY <1>1 DEF Ids, RowsGrow
  <1>3. \A r \in Ids : rows[r] \in Row
    BY <1>1 DEF Ids
  <1>4. \A r \in Ids : Target(r)' = Target(r) /\ Target(r) \in Thread
    BY <1>3, OutboxAssumption DEF RowsGrow, Target, Row
  <1>5. \A e \in Event : \A r \in Ids : r \in ReplyRows(e)' <=> r \in ReplyRows(e)
    BY <1>2 DEF ReplyRows, RowsGrow
  <1>6. \A e \in Event : ReplyRows(e) \subseteq ReplyRows(e)'
    BY <1>5 DEF ReplyRows
  <1> QED BY <1>1, <1>2, <1>3, <1>4, <1>5, <1>6

\* The chunk i of a whole batch is the row at distance i from its start.
LEMMA RowOfIs ==
    ASSUME TypeOK, NEW e \in Event, Batch(e), NEW r \in ReplyRows(e),
           NEW i \in 0..rows[r].of - 1
    PROVE  /\ RowOf(e, i) = r - rows[r].n + i
           /\ RowOf(e, i) \in ReplyRows(e)
           /\ rows[RowOf(e, i)].n = i
           /\ RowOf(e, i) \in Ids
  <1>1. /\ r - rows[r].n + i \in ReplyRows(e)
        /\ rows[r - rows[r].n + i].n = i
    BY DEF Batch
  <1>2. RowOf(e, i) \in ReplyRows(e) /\ rows[RowOf(e, i)].n = i
    BY <1>1 DEF RowOf
  <1>3. \A q \in ReplyRows(e) : q \in Ids /\ rows[q].n \in Nat /\ q \in Nat
    BY RowTypes
  <1>4. RowOf(e, i) - rows[RowOf(e, i)].n = r - rows[r].n
    BY <1>2 DEF Batch
  <1> QED BY <1>2, <1>3, <1>4

\* A handler that only changes its place keeps its registers.
LEMMA GotoIs ==
    ASSUME TypeOK, NEW e \in Event, NEW p \in Places, Goto(e, p)
    PROVE  /\ turn' \in [Event -> Turns]
           /\ turn'[e].at = p /\ turn'[e].size = turn[e].size /\ turn'[e].fresh = turn[e].fresh
           /\ turn'[e].accepted = turn[e].accepted /\ turn'[e].recorded = turn[e].recorded
           /\ \A f \in Event : f # e => turn'[f] = turn[f]
  BY DEF TypeOK, Goto, Turns

\* A handler that returns leaves nothing behind.
LEMMA EndIs ==
    ASSUME TypeOK, NEW e \in Event, EndTurn(e)
    PROVE  /\ turn' \in [Event -> Turns]
           /\ turn'[e].at = "none" /\ ~turn'[e].fresh
           /\ turn'[e].accepted = 0 /\ turn'[e].recorded = 0
           /\ \A f \in Event : f # e => turn'[f] = turn[f]
  BY OutboxAssumption DEF TypeOK, EndTurn, Turns, Blank, Places

\* What a step of someone else leaves of an event: its part of the invariant.
LEMMA FrameEvent ==
    ASSUME TypeOK, RowsGrow, NEW f \in Event, EventOK(f),
           UNCHANGED <<mode, turn[f], status[f], ReplyRows(f)>>,
           f \in quiet => f \in quiet',
           \A i \in Nat : <<f, i>> \in fenced => <<f, i>> \in fenced',
           ReplyRows(f) \cap acked' = ReplyRows(f) \cap acked,
           everSent \subseteq everSent'
    PROVE  EventOK(f)'
  <1> DEFINE R == ReplyRows(f)
  <1>1. /\ \A r \in R : r \in Ids /\ r \in Nat /\ rows'[r] = rows[r]
        /\ ReplyRows(f)' = R
        /\ \A r \in Ids : Target(r)' = Target(r)
    BY RowTypes, GrowKeeps DEF RowsGrow
  <1>2. Control(f)'
    BY DEF EventOK, Control
  <1>3. Batch(f)'
    <2>1. \A r \in R : \A i \in 0..rows[r].of - 1 : rows'[r - rows[r].n + i] = rows[r - rows[r].n + i]
      BY <1>1 DEF EventOK, Batch
    <2> QED BY <1>1, <2>1 DEF EventOK, Batch
  <1>4. Fence(f)'
    <2>1. Keys(f)' = Keys(f)
      BY DEF Keys
    <2>2. Keys(f) \subseteq fenced => Keys(f) \subseteq fenced'
      <3>1. turn[f].size \in Nat
        BY OutboxAssumption DEF TypeOK, Turns
      <3> QED BY <3>1 DEF Keys
    <2> QED BY <1>1, <2>1, <2>2 DEF EventOK, Fence
  <1>5. Owed(f)'
    BY <1>1 DEF EventOK, Owed, AllAcked, EventHasDeliveries
  <1>6. Sending(f)'
    <2>1. \A r \in R : \A q \in Ids' : q < r => q \in Ids
      BY <1>1, GrowKeeps DEF Ids
    <2> QED BY <1>1, <2>1 DEF EventOK, Sending
  <1> QED BY <1>2, <1>3, <1>4, <1>5, <1>6 DEF EventOK

-----------------------------------------------------------------------------
(* Steps of a handler that touch neither the rows nor the sends.           *)

\* The rest of the invariant survives such a step, if the step's own event
\* is in order after it.
LEMMA LocalStep ==
    ASSUME IInv, NEW e \in Event,
           turn' \in [Event -> Turns], \A f \in Event : f # e => turn'[f] = turn[f],
           StoreTypeOK', \A f \in Event : f # e => status'[f] = status[f],
           UNCHANGED <<rows, acked, mode, pump, everSent, sentNow>>,
           grants' \in [Event -> Nat], lost' \in SUBSET (1..Len(rows)), faulty' \in BOOLEAN,
           posted' \in SUBSET (Event \X Nat), unheard' \in SUBSET (Event \X Nat), torn' \in SUBSET Event,
           quiet' \in SUBSET Event, \A f \in Event : f # e => (f \in quiet' <=> f \in quiet),
           fenced' \in SUBSET (Event \X (0..MaxChunks - 1)),
           \A f \in Event : \A i \in Nat : f # e /\ <<f, i>> \in fenced => <<f, i>> \in fenced',
           gate' \in [Thread -> Event \cup {NoEvent}],
           \A t \in Thread :
               \/ gate'[t] = gate[t] \/ gate'[t] = NoEvent
               \/ t = ThreadOf[e] /\ gate'[t] = e /\ ~HasOwedDeliveries(t),
           gate'[ThreadOf[e]] = e => turn'[e].at \in {"run", "claimed", "composed", "send", "ack"},
           turn'[e].at # "none" => \/ turn[e].at # "none" \/ mode # "up"
                                   \/ \A f \in Event : ThreadOf[f] = ThreadOf[e] => turn[f].at = "none",
           turn'[e].at \in Claiming /\ turn'[e].fresh => turn[e].at \in Claiming /\ turn[e].fresh,
           EventOK(e)'
    PROVE  IInv'
  <1>1. TypeOK'
    BY DEF IInv, TypeOK
  <1>2. RowsGrow /\ \A f \in Event : ReplyRows(f)' = ReplyRows(f)
    BY RowTypes DEF IInv, RowsGrow, ReplyRows, Ids
  <1>3. \A f \in Event : EventOK(f)'
    BY <1>2, FrameEvent DEF IInv
  <1>4. SerialOK'
    <2> SUFFICES ASSUME mode = "up", NEW f \in Event, NEW g \in Event, turn'[f].at # "none",
                        turn'[g].at # "none", ThreadOf[f] = ThreadOf[g]
                 PROVE  f = g
      BY DEF SerialOK
    <2> QED BY DEF IInv, SerialOK
  <1>5. GateOK'
    <2> SUFFICES ASSUME NEW t \in Thread, gate'[t] # NoEvent
                 PROVE  /\ ThreadOf[gate'[t]] = t
                        /\ turn'[gate'[t]].at \in {"run", "claimed", "composed", "send", "ack"}
      BY DEF GateOK
    <2>1. CASE gate'[t] = e
      BY <2>1 DEF IInv, GateOK
    <2>2. CASE gate'[t] # e
      <3>1. gate'[t] = gate[t] /\ gate[t] \in Event
        BY <2>2 DEF IInv, TypeOK
      <3> QED BY <3>1, <2>2 DEF IInv, GateOK
    <2> QED BY <2>1, <2>2
  <1>6. PumpOK' /\ PassOrder' /\ SentInOrder' /\ acked' \subseteq everSent'
    BY DEF IInv, PumpOK, PassOrder, SentInOrder, Busy, Current, Target, Ids
  <1>7. Apart'
    <2>1. Busy' = Busy /\ Current' = Current
      BY DEF Busy, Current
    <2> QED BY <1>2, <2>1 DEF IInv, Apart
  <1>8. RelayNeverJumps'
    <2>1. ResendableDeliveries' = ResendableDeliveries /\ \A r : Target(r)' = Target(r)
      BY DEF ResendableDeliveries, Target, Ids
    <2> SUFFICES ASSUME NEW f \in Event, gate'[ThreadOf[f]] = f, NEW r \in ResendableDeliveries,
                        Target(r) = ThreadOf[f]
                 PROVE  r \in ReplyRows(f)
      BY <1>2, <2>1 DEF RelayNeverJumps, HasRelay
    <2>2. ThreadOf[f] \in Thread /\ f # NoEvent
      BY OutboxAssumption
    <2>3. gate[ThreadOf[f]] = f
      BY <2>2 DEF HasOwedDeliveries
    <2> QED BY <2>3 DEF IInv, RelayNeverJumps, HasRelay
  <1> QED BY <1>1, <1>3, <1>4, <1>5, <1>6, <1>7, <1>8 DEF IInv

\* An event whose handler holds no keys is in order when its row moves as the
\* turn's protocol lets it.
LEMMA OutsideClaim ==
    ASSUME IInv, NEW e \in Event, UNCHANGED <<rows, acked, everSent>>,
           turn'[e].at \notin Claiming, Control(e)',
           status'[e] = "replied" => status[e] = "replied",
           status'[e] = "completed" => e \in quiet' \/ (status[e] = "completed" /\ e \notin quiet)
    PROVE  EventOK(e)'
  <1>1. ReplyRows(e)' = ReplyRows(e)
    BY DEF ReplyRows, Ids
  <1>2. Batch(e)'
    BY <1>1 DEF IInv, EventOK, Batch
  <1>3. Fence(e)' /\ Sending(e)'
    BY DEF Fence, Sending, Claiming
  <1>4. Owed(e)'
    BY <1>1 DEF IInv, EventOK, Owed, AllAcked, EventHasDeliveries, Claiming
  <1> QED BY <1>2, <1>3, <1>4 DEF EventOK

\* Every transaction of a handler, a human or the boot.
Transaction(e) ==
    \/ InsertEvent(e) \/ MarkEventProcessing(e) \/ MarkEventCompleted(e)
    \/ (\E b \in BOOLEAN : MarkEventCompletedReconciled(e, b))
    \/ AdvanceToReplied(e) \/ SkipEvent(e) \/ ParkEvent(e) \/ RequeueInterruptedEvent(e)
    \/ RequeueEventForRetry(e) \/ DeadLetterEvent(e) \/ ResolveDeadLetterRequeue(e)
    \/ ResolveDeadLetterDiscard(e)
    \/ UNCHANGED storeVars

\* A transaction keeps the tables well typed and moves no other event's row.
LEMMA StoreStep ==
    ASSUME StoreTypeOK, NEW e \in Event, Transaction(e)
    PROVE  /\ StoreTypeOK'
           /\ \A f \in Event : f # e => status'[f] = status[f]
  BY DEF Transaction, StoreTypeOK, InsertEvent, MarkEventProcessing, MarkEventCompleted,
         MarkEventCompletedReconciled, AdvanceToReplied, SkipEvent, ParkEvent,
         RequeueInterruptedEvent, RequeueEventForRetry, DeadLetterEvent,
         ResolveDeadLetterRequeue, ResolveDeadLetterDiscard, Move, storeVars,
         Statuses, Resolutions

\* Where the transactions leave the row they move.
LEMMA StoreMoves ==
    ASSUME StoreTypeOK, NEW e \in Event
    PROVE  /\ InsertEvent(e) => status[e] = "absent" /\ status'[e] = "received"
           /\ MarkEventProcessing(e) => status[e] = "received" /\ status'[e] = "processing"
           /\ MarkEventCompleted(e) => status[e] = "processing" /\ status'[e] = "completed"
           /\ SkipEvent(e) => status'[e] = "skipped"
           /\ ParkEvent(e) => status'[e] = IF status[e] \in {"received", "processing"}
                                           THEN "interrupted" ELSE status[e]
           /\ RequeueEventForRetry(e) => status[e] = "processing" /\ status'[e] = "received"
           /\ DeadLetterEvent(e) => status'[e] = "dead"
           /\ RequeueInterruptedEvent(e) \/ ResolveDeadLetterRequeue(e)
                => status[e] \in {"interrupted", "dead"} /\ status'[e] = "received"
           /\ ResolveDeadLetterDiscard(e) \/ UNCHANGED storeVars => status' = status
  BY DEF StoreTypeOK, InsertEvent, MarkEventProcessing, MarkEventCompleted, SkipEvent,
         ParkEvent, RequeueInterruptedEvent, RequeueEventForRetry, RequeueVerdict,
         DeadLetterEvent, ResolveDeadLetterRequeue, ResolveDeadLetterDiscard, Move,
         storeVars, Statuses

\* A released gate is nobody's, or another turn's.
LEMMA FreeIs ==
    ASSUME TypeOK, NEW e \in Event, FreeGate(e)
    PROVE  /\ gate' \in [Thread -> Event \cup {NoEvent}]
           /\ \A t \in Thread : gate'[t] = gate[t] \/ gate'[t] = NoEvent
           /\ gate'[ThreadOf[e]] # e
  BY OutboxAssumption DEF TypeOK, FreeGate, HasRelay

\* A turn outside the places that may relay holds no gate.
LEMMA NoGate ==
    ASSUME IInv, NEW e \in Event,
           turn[e].at \notin {"run", "claimed", "composed", "send", "ack"}
    PROVE  gate[ThreadOf[e]] # e
  BY OutboxAssumption DEF IInv, GateOK

\* The parts of the invariant that the lemmas on actions start from.
LEMMA Parts ==
    ASSUME IInv, NEW e \in Event
    PROVE  /\ TypeOK /\ StoreTypeOK /\ EventOK(e) /\ Control(e)
           /\ turn[e].at \in Places
           /\ turn[e].size \in 0..MaxChunks /\ turn[e].size \in Nat
           /\ ThreadOf[e] \in Thread
  <1>1. TypeOK /\ StoreTypeOK /\ EventOK(e) /\ Control(e)
    BY DEF IInv, TypeOK, EventOK
  <1>2. turn[e] \in Turns /\ ThreadOf[e] \in Thread /\ MaxChunks \in Nat
    BY <1>1, OutboxAssumption DEF TypeOK
  <1>3. turn[e].at \in Places /\ turn[e].size \in 0..MaxChunks
    BY <1>2 DEF Turns
  <1> QED BY <1>1, <1>2, <1>3

\* A row moved in a way that the turn's protocol allows outside the claim.
PlainMove(e) ==
    /\ Transaction(e)
    /\ status'[e] = "replied" => status[e] = "replied"
    /\ status'[e] = "completed" => e \in quiet' \/ (status[e] = "completed" /\ e \notin quiet)

\* A step of e's handler, in or out of its gate, that leaves it without keys.
LEMMA PlainStep ==
    ASSUME IInv, NEW e \in Event,
           turn' \in [Event -> Turns], \A f \in Event : f # e => turn'[f] = turn[f],
           turn'[e].at \notin Claiming, PlainMove(e), Control(e)',
           UNCHANGED <<rows, acked, mode, pump, everSent, sentNow>>,
           grants' \in [Event -> Nat], lost' \in SUBSET (1..Len(rows)), faulty' \in BOOLEAN,
           posted' \in SUBSET (Event \X Nat), unheard' \in SUBSET (Event \X Nat), torn' \in SUBSET Event,
           quiet' \in {quiet, quiet \cup {e}, quiet \ {e}},
           fenced' \in {fenced, fenced \ Keys(e)},
           \/ FreeGate(e)
           \/ gate' = gate /\ turn[e].at \notin {"run", "claimed", "composed", "send", "ack"}
           \/ /\ turn'[e].at = "run"
              /\ \/ gate' = gate
                 \/ /\ gate' = [gate EXCEPT ![ThreadOf[e]] = e]
                    /\ ~HasOwedDeliveries(ThreadOf[e]),
           turn'[e].at # "none" => \/ turn[e].at # "none" \/ mode # "up"
                                   \/ \A f \in Event : ThreadOf[f] = ThreadOf[e] => turn[f].at = "none"
    PROVE  IInv'
  <1>1. EventOK(e)'
    BY OutsideClaim DEF PlainMove
  <1>2. StoreTypeOK' /\ \A f \in Event : f # e => status'[f] = status[f]
    BY StoreStep, Parts DEF PlainMove
  <1>3. /\ quiet' \in SUBSET Event /\ \A f \in Event : f # e => (f \in quiet' <=> f \in quiet)
    BY DEF IInv, TypeOK
  <1>4. /\ fenced' \in SUBSET (Event \X (0..MaxChunks - 1))
        /\ \A f \in Event : \A i \in Nat : f # e /\ <<f, i>> \in fenced => <<f, i>> \in fenced'
    <2>1. fenced \in SUBSET (Event \X (0..MaxChunks - 1))
      BY DEF IInv, TypeOK
    <2>2. \A f \in Event : \A i \in Nat : f # e => <<f, i>> \notin Keys(e)
      BY DEF Keys
    <2> QED BY <2>1, <2>2
  <1>5. /\ gate' \in [Thread -> Event \cup {NoEvent}]
        /\ \A t \in Thread :
               \/ gate'[t] = gate[t] \/ gate'[t] = NoEvent
               \/ t = ThreadOf[e] /\ gate'[t] = e /\ ~HasOwedDeliveries(t)
        /\ gate'[ThreadOf[e]] = e => turn'[e].at \in {"run", "claimed", "composed", "send", "ack"}
    <2>1. CASE FreeGate(e)
      BY <2>1, Parts, FreeIs
    <2>2. CASE gate' = gate /\ turn[e].at \notin {"run", "claimed", "composed", "send", "ack"}
      BY <2>2, NoGate DEF IInv, TypeOK
    <2>3. CASE turn'[e].at = "run" /\ gate' = gate
      BY <2>3 DEF IInv, TypeOK
    <2>4. CASE /\ turn'[e].at = "run" /\ gate' = [gate EXCEPT ![ThreadOf[e]] = e]
               /\ ~HasOwedDeliveries(ThreadOf[e])
      BY <2>4, Parts DEF IInv, TypeOK
    <2> QED BY <2>1, <2>2, <2>3, <2>4
  <1> QED BY <1>1, <1>2, <1>3, <1>4, <1>5, LocalStep

\* The dispatch of an event, when no turn of its thread is live.
LEMMA StartKeeps ==
    ASSUME IInv, NEW e \in Event, Start(e) PROVE IInv'
  <1>1. /\ Goto(e, "start") /\ mode = "up" /\ MarkEventProcessing(e)
        /\ \A f \in Event : ThreadOf[f] = ThreadOf[e] => turn[f].at = "none"
        /\ UNCHANGED <<outboxVars, mode, gate, fenced, pump, posted, history>>
    BY DEF Start, At
  <1>2. /\ turn' \in [Event -> Turns] /\ \A f \in Event : f # e => turn'[f] = turn[f]
        /\ turn'[e].at = "start" /\ ~turn'[e].fresh
        /\ turn'[e].accepted = 0 /\ turn'[e].recorded = 0
    BY <1>1, Parts, GotoIs DEF Places, Control
  <1>3. status'[e] = "processing" /\ PlainMove(e)
    BY <1>1, Parts, StoreMoves DEF PlainMove, Transaction
  <1>4. Control(e)'
    BY <1>1, <1>2, <1>3 DEF Control, Owning
  <1> QED
    BY <1>1, <1>2, <1>3, <1>4, PlainStep
    DEF Claiming, outboxVars, history, sendHistory, IInv, TypeOK

\* The gate, and the partials of the run.
LEMMA RunKeeps ==
    ASSUME IInv, NEW e \in Event, AcquireTarget(e) \/ Push(e) \/ TurnFails(e) PROVE IInv'
  <1>1. CASE AcquireTarget(e)
    <2>1. /\ Goto(e, "run") /\ turn[e].at = "start"
          /\ \/ gate' = gate
             \/ /\ gate' = [gate EXCEPT ![ThreadOf[e]] = e]
                /\ ~HasOwedDeliveries(ThreadOf[e])
          /\ UNCHANGED <<storeVars, outboxVars, mode, fenced, pump, posted, history>>
      BY <1>1 DEF AcquireTarget, At
    <2>2. /\ turn' \in [Event -> Turns] /\ \A f \in Event : f # e => turn'[f] = turn[f]
          /\ turn'[e].at = "run" /\ turn'[e].fresh = turn[e].fresh
          /\ turn'[e].accepted = turn[e].accepted /\ turn'[e].recorded = turn[e].recorded
      BY <2>1, Parts, GotoIs DEF Places
    <2>3. Control(e)' /\ PlainMove(e)
      BY <2>1, <2>2, Parts
      DEF Control, Owning, PlainMove, Transaction, storeVars, history
    <2> QED
      BY <2>1, <2>2, <2>3, PlainStep
      DEF Claiming, outboxVars, history, sendHistory, IInv, TypeOK
  <1>2. CASE Push(e)
    <2>1. /\ turn[e].at = "run"
          /\ UNCHANGED <<storeVars, outboxVars, mode, turn, gate, fenced, pump,
                         grants, sendHistory, torn, faulty, quiet>>
      BY <1>2 DEF Push, At
    <2>2. /\ turn' \in [Event -> Turns] /\ turn' = turn
          /\ posted' \in SUBSET (Event \X Nat) /\ unheard' \in SUBSET (Event \X Nat)
      <3>1. posted \in SUBSET (Event \X Nat) /\ unheard \in SUBSET (Event \X Nat)
        BY Parts DEF TypeOK
      <3>2. <<e, Generation(e)>> \in Event \X Nat
        BY Parts DEF TypeOK, StoreTypeOK, Generation
      <3>3. /\ posted' = posted \/ posted' = posted \cup {<<e, Generation(e)>>}
            /\ \/ unheard' = unheard \ {<<e, Generation(e)>>}
               \/ unheard' = unheard \cup {<<e, Generation(e)>>}
        BY <1>2 DEF Push
      <3>4. turn' \in [Event -> Turns] /\ turn' = turn
        BY <2>1, Parts DEF TypeOK
      <3> QED BY <3>1, <3>2, <3>3, <3>4
    <2>3. Control(e)' /\ PlainMove(e)
      BY <2>1, <2>2, Parts
      DEF Control, Owning, PlainMove, Transaction, storeVars, history
    <2> QED
      BY <2>1, <2>2, <2>3, PlainStep
      DEF Claiming, outboxVars, history, sendHistory, IInv, TypeOK
  <1>3. CASE TurnFails(e)
    <2>1. /\ Goto(e, "failed") /\ turn[e].at = "run" /\ FreeGate(e)
          /\ UNCHANGED <<storeVars, outboxVars, mode, fenced, pump, posted, history>>
      BY <1>3 DEF TurnFails, At
    <2>2. /\ turn' \in [Event -> Turns] /\ \A f \in Event : f # e => turn'[f] = turn[f]
          /\ turn'[e].at = "failed"
      BY <2>1, Parts, GotoIs DEF Places
    <2>3. Control(e)' /\ PlainMove(e)
      BY <2>1, <2>2, Parts
      DEF Control, Owning, PlainMove, Transaction, storeVars, history
    <2> QED
      BY <2>1, <2>2, <2>3, PlainStep
      DEF Claiming, outboxVars, history, sendHistory, IInv, TypeOK
  <1> QED BY <1>1, <1>2, <1>3

\* What the end of a handler leaves: no place, no keys, no claim on its row.
LEMMA Ended ==
    ASSUME IInv, NEW e \in Event, EndTurn(e), mode' = mode
    PROVE  /\ turn' \in [Event -> Turns] /\ \A f \in Event : f # e => turn'[f] = turn[f]
           /\ turn'[e].at = "none" /\ turn'[e].at \notin Claiming /\ Control(e)'
  <1>1. /\ turn' \in [Event -> Turns] /\ \A f \in Event : f # e => turn'[f] = turn[f]
        /\ turn'[e].at = "none" /\ ~turn'[e].fresh
        /\ turn'[e].accepted = 0 /\ turn'[e].recorded = 0
    BY Parts, EndIs
  <1> QED BY <1>1 DEF Control, Owning, Claiming

\* What a move to a place that only waits leaves.
LEMMA Moved ==
    ASSUME IInv, NEW e \in Event, NEW p \in {"unsent", "notice", "unwound", "reparked"}, Goto(e, p),
           mode' = mode, mode # "down", p # "notice" => mode = "up",
           p = "unsent" => status'[e] = "processing"
    PROVE  /\ turn' \in [Event -> Turns] /\ \A f \in Event : f # e => turn'[f] = turn[f]
           /\ turn'[e].at = p /\ turn'[e].at \notin Claiming /\ Control(e)'
  <1>1. p \in Places
    BY DEF Places
  <1>2. /\ turn' \in [Event -> Turns] /\ \A f \in Event : f # e => turn'[f] = turn[f]
        /\ turn'[e].at = p
    BY <1>1, Parts, GotoIs
  <1> QED BY <1>2 DEF Control, Owning, Claiming

\* The refusals of the handler, its recovery and its parks.
LEMMA SettleKeeps ==
    ASSUME IInv, NEW e \in Event,
           RefuseEvent(e) \/ Recover(e) \/ ParkUnsent(e) \/ PanicPark(e)
    PROVE  IInv'
  <1>1. /\ turn[e].at \in {"start", "failed", "unsent", "unwound"} /\ mode = "up"
        /\ turn[e].at # "unwound" => status[e] = "processing"
        /\ UNCHANGED <<outboxVars, mode, gate, fenced, pump, posted, grants, sendHistory, torn, unheard,
                       quiet>>
    <2>1. turn[e].at \in {"start", "failed", "unsent", "unwound"}
      BY DEF RefuseEvent, Recover, ParkUnsent, PanicPark, At
    <2>2. UNCHANGED <<outboxVars, mode, gate, fenced, pump, posted, grants, sendHistory, torn, unheard,
                       quiet>>
      BY DEF RefuseEvent, Recover, ParkUnsent, PanicPark
    <2> QED BY <2>1, <2>2, Parts DEF Control, Owning
  <1>u. /\ UNCHANGED <<rows, acked, mode, pump, everSent, sentNow>>
        /\ grants' \in [Event -> Nat] /\ lost' \in SUBSET (1..Len(rows))
        /\ posted' \in SUBSET (Event \X Nat) /\ unheard' \in SUBSET (Event \X Nat) /\ torn' \in SUBSET Event
        /\ quiet' = quiet /\ fenced' = fenced
        /\ gate' = gate /\ turn[e].at \notin {"run", "claimed", "composed", "send", "ack"}
    BY <1>1 DEF outboxVars, sendHistory, IInv, TypeOK
  <1>2. CASE /\ SkipEvent(e) \/ UNCHANGED storeVars
             /\ EndTurn(e) /\ faulty' \in BOOLEAN
    <2>1. PlainMove(e)
      BY <1>2, <1>u, Parts, StoreMoves DEF PlainMove, Transaction
    <2> QED BY <1>1, <1>u, <1>2, <2>1, Ended, PlainStep
  <1>3. CASE /\ DeadLetterEvent(e) \/ ParkEvent(e)
             /\ Goto(e, "notice") \/ Goto(e, "reparked")
             /\ faulty' = faulty
    <2>1. PlainMove(e)
      BY <1>3, <1>u, Parts, StoreMoves DEF PlainMove, Transaction
    <2>2. faulty' \in BOOLEAN
      BY <1>3 DEF IInv, TypeOK
    <2> QED BY <1>1, <1>u, <1>3, <2>1, <2>2, Moved, PlainStep
  <1>4. CASE RequeueEventForRetry(e) /\ EndTurn(e) /\ faulty' = faulty
    <2>1. PlainMove(e) /\ status'[e] = "received"
      BY <1>4, <1>u, Parts, StoreMoves DEF PlainMove, Transaction
    <2>2. faulty' \in BOOLEAN
      BY <1>4 DEF IInv, TypeOK
    <2> QED BY <1>1, <1>u, <1>4, <2>1, <2>2, Ended, PlainStep
  <1>5. CASE RefuseEvent(e)
    BY <1>2, <1>3, <1>5, Parts DEF RefuseEvent, GiveUp, TypeOK
  <1>6. CASE Recover(e)
    BY <1>2, <1>3, <1>4, <1>6, Parts DEF Recover, GiveUp, TypeOK
  <1>7. CASE ParkUnsent(e)
    BY <1>2, <1>3, <1>7, Parts DEF ParkUnsent, GiveUp, TypeOK
  <1>8. CASE PanicPark(e)
    BY <1>2, <1>3, <1>8, Parts DEF PanicPark, TypeOK
  <1> QED BY <1>5, <1>6, <1>7, <1>8

\* The exits of finishTurn that complete nothing with text, and the panic.
LEMMA LeaveKeeps ==
    ASSUME IInv, NEW e \in Event,
           \/ FinishEmpty(e) \/ ComposeFails(e) \/ CompleteFails(e) \/ Return(e) \/ Panic(e)
    PROVE  IInv'
  <1>1. /\ turn[e].at # "none" /\ mode' = mode /\ mode = "up" /\ FreeGate(e)
        /\ posted' \in SUBSET (Event \X Nat) /\ unheard' \in SUBSET (Event \X Nat) /\ torn' \in SUBSET Event
        /\ UNCHANGED <<rows, acked, mode, pump, everSent, sentNow, grants>>
        /\ fenced' \in {fenced, fenced \ Keys(e)}
        /\ faulty' \in BOOLEAN /\ grants' \in [Event -> Nat]
    <2>1. turn[e].at # "none" /\ mode = "up"
      BY Parts DEF FinishEmpty, ComposeFails, CompleteFails, Return, Panic, At, Control
    <2>2. /\ FreeGate(e) /\ UNCHANGED <<posted, unheard>> /\ torn' \in {torn, torn \cup {e}}
          /\ UNCHANGED <<rows, acked, mode, pump, everSent, sentNow, grants>>
          /\ fenced' \in {fenced, fenced \ Keys(e)}
      BY DEF FinishEmpty, ComposeFails, CompleteFails, Return, Panic, outboxVars, sendHistory, history
    <2>3. faulty' \in BOOLEAN
      BY DEF FinishEmpty, ComposeFails, CompleteFails, Return, Panic, history, IInv, TypeOK
    <2>4. posted \in SUBSET (Event \X Nat) /\ unheard \in SUBSET (Event \X Nat) /\ torn \in SUBSET Event
      BY Parts DEF TypeOK
    <2> QED BY <2>1, <2>2, <2>3, <2>4, Parts DEF TypeOK
  <1>3. lost' \in SUBSET (1..Len(rows))
    <2>1. lost \in SUBSET (1..Len(rows)) /\ ReplyRows(e) \subseteq 1..Len(rows)
      BY DEF IInv, TypeOK, ReplyRows, Ids
    <2>2. lost' = lost \/ \E S \in SUBSET ReplyRows(e) : lost' = lost \cup S
      BY DEF FinishEmpty, ComposeFails, CompleteFails, Return, Panic, history, sendHistory
    <2> QED BY <2>1, <2>2
  <1>4. CASE FinishEmpty(e)
    <2>1. PlainMove(e) /\ quiet' \in {quiet, quiet \cup {e}}
      BY <1>4, Parts, StoreMoves DEF FinishEmpty, PlainMove, Transaction
    <2>2. EndTurn(e)
      BY <1>4 DEF FinishEmpty
    <2> QED BY <1>1, <1>3, <2>1, <2>2, Ended, PlainStep
  <1>5. CASE CompleteFails(e) \/ Return(e)
    <2>1. UNCHANGED <<storeVars, quiet>> /\ EndTurn(e)
      BY <1>5 DEF CompleteFails, Return, history
    <2>2. PlainMove(e)
      BY <2>1, Parts, StoreMoves DEF PlainMove, Transaction
    <2> QED BY <1>1, <1>3, <2>1, <2>2, Ended, PlainStep
  <1>6. CASE ComposeFails(e) \/ Panic(e)
    <2>1. UNCHANGED <<storeVars, quiet>>
      BY <1>6 DEF ComposeFails, Panic
    <2>2. PlainMove(e) /\ status' = status
      BY <2>1, Parts, StoreMoves DEF PlainMove, Transaction
    <2>3. CASE ComposeFails(e)
      <3>1. Goto(e, "unsent") /\ status[e] = "processing"
        BY <2>3, Parts DEF ComposeFails, At, Control, Owning
      <3> QED BY <1>1, <1>3, <2>1, <2>2, <3>1, Moved, PlainStep
    <2>4. CASE Panic(e)
      <3>1. Goto(e, "unwound")
        BY <2>4 DEF Panic
      <3> QED BY <1>1, <1>3, <2>1, <2>2, <3>1, Moved, PlainStep
    <2> QED BY <1>6, <2>3, <2>4
  <1> QED BY <1>4, <1>5, <1>6

\* A batch that nobody touched is still one batch.
LEMMA BatchKept ==
    ASSUME IInv, NEW e \in Event, rows' = rows
    PROVE  ReplyRows(e)' = ReplyRows(e) /\ Batch(e)'
  <1>1. ReplyRows(e)' = ReplyRows(e)
    BY DEF ReplyRows, Ids
  <1> QED BY <1>1 DEF IInv, EventOK, Batch

\* The claim of the reply's keys.
LEMMA ClaimKeeps ==
    ASSUME IInv, NEW e \in Event, Claim(e) PROVE IInv'
  <1>1. PICK size \in 1..MaxChunks :
          /\ turn' = [turn EXCEPT ![e].at = "claimed", ![e].size = size]
          /\ fenced' = fenced \cup ({e} \X (0..size - 1))
    BY DEF Claim
  <1>2. /\ turn[e].at = "run"
        /\ UNCHANGED <<rows, acked, mode, pump, everSent, sentNow, grants, lost, faulty,
                       gate, torn, unheard, posted, quiet, status>>
        /\ UNCHANGED storeVars
    BY DEF Claim, At, outboxVars, history, sendHistory, storeVars
  <1>3. MaxChunks \in Nat /\ size \in Nat /\ size >= 1 /\ size <= MaxChunks
    BY OutboxAssumption
  <1>4. /\ turn' \in [Event -> Turns] /\ \A f \in Event : f # e => turn'[f] = turn[f]
        /\ turn'[e].at = "claimed" /\ turn'[e].size = size /\ turn'[e].fresh = turn[e].fresh
        /\ turn'[e].accepted = turn[e].accepted /\ turn'[e].recorded = turn[e].recorded
    <2>1. turn \in [Event -> Turns] /\ turn[e] \in Turns /\ size \in 0..MaxChunks
      BY <1>3 DEF IInv, TypeOK
    <2>2. turn' = [turn EXCEPT ![e] = [@ EXCEPT !.at = "claimed", !.size = size]]
      BY <1>1, <2>1
    <2>3. [turn[e] EXCEPT !.at = "claimed", !.size = size] \in Turns
      BY <2>1 DEF Turns, Places
    <2> QED BY <2>1, <2>2, <2>3 DEF Turns
  <1>5. fenced \in SUBSET (Event \X (0..MaxChunks - 1)) /\ fenced' \in SUBSET (Event \X (0..MaxChunks - 1))
    <2>1. 0..size - 1 \subseteq 0..MaxChunks - 1
      BY <1>3
    <2> QED BY <1>1, <2>1 DEF IInv, TypeOK
  <1>6. EventOK(e)'
    <2>1. Control(e)'
      BY <1>2, <1>4, Parts DEF Control, Owning
    <2>2. Fence(e)'
      <3>1. Keys(e)' \subseteq fenced'
        BY <1>1, <1>4 DEF Keys
      <3>2. ~turn'[e].fresh
        BY <1>2, <1>4, Parts DEF Control
      <3> QED BY <3>1, <3>2, <1>3, <1>4 DEF Fence
    <2>3. Owed(e)' /\ Sending(e)'
      BY <1>2, <1>4, BatchKept, Parts DEF EventOK, Owed, AllAcked, EventHasDeliveries, Sending
    <2> QED BY <1>2, <2>1, <2>2, <2>3, BatchKept DEF EventOK
  <1>7. StoreTypeOK' /\ \A f \in Event : f # e => status'[f] = status[f]
    BY <1>2, Parts, StoreStep DEF Transaction
  <1>8. /\ ~turn'[e].fresh /\ turn[e].at # "none"
        /\ \A f \in Event : \A i \in Nat : f # e /\ <<f, i>> \in fenced => <<f, i>> \in fenced'
        /\ grants' \in [Event -> Nat] /\ lost' \in SUBSET (1..Len(rows)) /\ faulty' \in BOOLEAN
        /\ gate' \in [Thread -> Event \cup {NoEvent}]
        /\ posted' \in SUBSET (Event \X Nat) /\ unheard' \in SUBSET (Event \X Nat)
        /\ torn' \in SUBSET Event /\ quiet' \in SUBSET Event
    BY <1>1, <1>2, <1>4, Parts DEF Control, TypeOK
  <1> QED BY <1>2, <1>4, <1>5, <1>6, <1>7, <1>8, LocalStep

\* The completion stamp after the compose, with a direct send or without.
LEMMA CompleteKeeps ==
    ASSUME IInv, NEW e \in Event, Complete(e) PROVE IInv'
  <1>1. /\ turn[e].at = "composed" /\ status[e] = "processing" /\ quiet' = quiet \ {e}
        /\ UNCHANGED <<rows, acked, mode, pump, everSent, sentNow, grants, lost, faulty,
                       torn, unheard, posted>>
    BY Parts DEF Complete, At, outboxVars, sendHistory, Control, Owning
  <1>2. /\ turn[e].fresh => MarkEventCompleted(e)
        /\ ~turn[e].fresh => MarkEventCompletedReconciled(e, AllAcked(e))
    BY DEF Complete
  <1>3. /\ StoreTypeOK' /\ \A f \in Event : f # e => status'[f] = status[f]
        /\ status'[e] \in {"completed", "replied"}
        /\ status'[e] = "replied" => AllAcked(e) /\ ~turn[e].fresh
        /\ status'[e] = "completed" /\ ~turn[e].fresh => ~AllAcked(e)
    <2>1. turn[e].fresh \in BOOLEAN /\ AllAcked(e) \in BOOLEAN
      BY DEF IInv, TypeOK, Turns, AllAcked
    <2>2. Transaction(e)
      BY <1>2, <2>1 DEF Transaction
    <2>3. CASE turn[e].fresh
      BY <1>2, <2>2, <2>3, Parts, StoreStep, StoreMoves
    <2>4. CASE ~turn[e].fresh
      BY <1>2, <2>1, <2>2, <2>4, Parts, StoreStep
      DEF MarkEventCompletedReconciled, Move, StoreTypeOK
    <2> QED BY <2>3, <2>4
  <1>4. turn[e].fresh => ReplyRows(e) # {} /\ ReplyRows(e) \cap acked = {}
    BY <1>1, Parts DEF EventOK, Fence, Owed, Claiming
  <1>5. /\ ReplyRows(e)' = ReplyRows(e) /\ Batch(e)'
        /\ AllAcked(e)' <=> ReplyRows(e) # {} /\ ReplyRows(e) \subseteq acked
        /\ AllAcked(e) <=> ReplyRows(e) # {} /\ ReplyRows(e) \subseteq acked
    BY <1>1, BatchKept DEF AllAcked, EventHasDeliveries
  <1>6. turn'[e].at # "composed" => Owed(e)'
    BY <1>1, <1>3, <1>4, <1>5 DEF Owed
  <1>7. /\ grants' \in [Event -> Nat] /\ lost' \in SUBSET (1..Len(rows)) /\ faulty' \in BOOLEAN
        /\ posted' \in SUBSET (Event \X Nat) /\ unheard' \in SUBSET (Event \X Nat)
        /\ torn' \in SUBSET Event /\ quiet' \in SUBSET Event
        /\ \A f \in Event : f # e => (f \in quiet' <=> f \in quiet)
        /\ turn[e].at # "none" /\ turn[e].at \in Claiming
    BY <1>1 DEF IInv, TypeOK, Claiming
  <1>8. CASE Direct(e) /\ Goto(e, "send") /\ UNCHANGED <<gate, fenced>>
    <2>1. /\ turn' \in [Event -> Turns] /\ \A f \in Event : f # e => turn'[f] = turn[f]
          /\ turn'[e].at = "send" /\ turn'[e].size = turn[e].size /\ turn'[e].fresh = turn[e].fresh
          /\ turn'[e].accepted = 0 /\ turn'[e].recorded = 0 /\ turn[e].fresh
          /\ turn[e].size \in Nat /\ turn[e].size >= 1
      BY <1>1, <1>8, Parts, GotoIs DEF Places, Control, Direct, EventOK, Fence, Claiming
    <2>2. Control(e)'
      BY <1>1, <1>3, <2>1, Parts DEF Control, Owning
    <2>3. Fence(e)'
      <3>1. Keys(e)' = Keys(e)
        BY <2>1 DEF Keys
      <3> QED BY <1>1, <1>5, <1>8, <2>1, <3>1, Parts DEF EventOK, Fence, Claiming
    <2>4. Sending(e)'
      <3>1. ASSUME NEW r \in ReplyRows(e), NEW q \in Ids, q < r, q \notin ReplyRows(e),
                   Target(q) = ThreadOf[e]
            PROVE  q \in everSent
        <4>1. /\ r \in Nat /\ rows[r].n \in Nat /\ rows[r].of \in Nat /\ rows[r].n < rows[r].of
              /\ q \in Nat /\ 0 \in 0..rows[r].of - 1
          BY <3>1, Parts, RowTypes DEF EventOK, Batch
        <4>2. RowOf(e, 0) = r - rows[r].n
          BY <4>1, RowOfIs, Parts DEF EventOK
        <4>3. q < RowOf(e, 0)
          <5> SUFFICES ASSUME ~(q < r - rows[r].n) PROVE FALSE
            BY <4>2
          <5> DEFINE i == q - (r - rows[r].n)
          <5>1. i \in 0..rows[r].of - 1 /\ r - rows[r].n + i = q
            BY <3>1, <4>1
          <5>2. r - rows[r].n + i \in ReplyRows(e)
            BY <5>1, Parts DEF EventOK, Batch
          <5> QED BY <3>1, <5>1, <5>2
        <4>4. q \in acked
          BY <1>8, <3>1, <4>3 DEF Direct, OwedDeliveriesBefore, ResendableDeliveries
        <4> QED BY <4>4 DEF IInv
      <3>2. \A r \in ReplyRows(e) : rows[r].n \in Nat
        BY Parts, RowTypes
      <3> QED BY <1>1, <1>5, <2>1, <3>1, <3>2 DEF Sending, Ids, Target
    <2>5. EventOK(e)'
      BY <1>5, <1>6, <2>1, <2>2, <2>3, <2>4 DEF EventOK
    <2>6. /\ gate' \in [Thread -> Event \cup {NoEvent}]
          /\ fenced' \in SUBSET (Event \X (0..MaxChunks - 1))
          /\ turn'[e].at \in Claiming
      BY <1>8, <2>1 DEF IInv, TypeOK, Claiming
    <2> QED BY <1>1, <1>3, <1>7, <1>8, <2>1, <2>5, <2>6, LocalStep
  <1>9. CASE EndTurn(e) /\ FreeGate(e) /\ fenced' = fenced \ Keys(e)
    <2>1. /\ turn' \in [Event -> Turns] /\ \A f \in Event : f # e => turn'[f] = turn[f]
          /\ turn'[e].at = "none" /\ turn'[e].at \notin Claiming /\ Control(e)'
      BY <1>1, <1>9, Ended
    <2>2. EventOK(e)'
      BY <1>5, <1>6, <2>1 DEF EventOK, Fence, Sending, Claiming
    <2>3. /\ fenced' \in SUBSET (Event \X (0..MaxChunks - 1))
          /\ \A f \in Event : \A i \in Nat : f # e /\ <<f, i>> \in fenced => <<f, i>> \in fenced'
      BY <1>9 DEF IInv, TypeOK, Keys
    <2>4. /\ gate' \in [Thread -> Event \cup {NoEvent}]
          /\ \A t \in Thread : gate'[t] = gate[t] \/ gate'[t] = NoEvent
          /\ gate'[ThreadOf[e]] # e
      BY <1>9, Parts, FreeIs
    <2> QED BY <1>1, <1>3, <1>7, <2>1, <2>2, <2>3, <2>4, LocalStep
  <1> QED BY <1>8, <1>9 DEF Complete

\* Receipt, the human's decisions and the boot's parks.
LEMMA OutsideKeeps ==
    ASSUME IInv, NEW e \in Event,
           Receive(e) \/ HumanRetry(e) \/ HumanDiscard(e) \/ BootPark(e)
    PROVE  IInv'
  <1>1. UNCHANGED <<rows, acked, mode, pump, everSent, sentNow, lost, faulty, quiet, gate, fenced>>
    BY DEF Receive, HumanRetry, HumanDiscard, BootPark, outboxVars, ramVars, history, sendHistory
  <1>2. grants' \in [Event -> Nat]
    BY DEF Receive, HumanRetry, HumanDiscard, BootPark, history, IInv, TypeOK
  <1>3. /\ lost' \in SUBSET (1..Len(rows)) /\ faulty' \in BOOLEAN
        /\ fenced' \in SUBSET (Event \X (0..MaxChunks - 1))
        /\ gate' \in [Thread -> Event \cup {NoEvent}]
        /\ posted' \in SUBSET (Event \X Nat) /\ unheard' \in SUBSET (Event \X Nat)
        /\ torn' \in SUBSET Event /\ quiet' \in SUBSET Event
        /\ turn \in [Event -> Turns]
    <2>1. posted' \subseteq posted /\ unheard' \subseteq unheard /\ torn' \subseteq torn
      BY DEF Receive, HumanRetry, HumanDiscard, BootPark, ramVars, history
    <2> QED BY <1>1, <2>1 DEF IInv, TypeOK
  <1>4. CASE Receive(e) \/ HumanRetry(e)
    <2>1. /\ InsertEvent(e) \/ RequeueInterruptedEvent(e) \/ ResolveDeadLetterRequeue(e)
          /\ turn' = turn /\ mode = "up"
      BY <1>4 DEF Receive, HumanRetry, ramVars
    <2>2. status[e] \notin {"processing", "completed", "replied", "received"} /\ status'[e] = "received"
      BY <2>1, Parts, StoreMoves
    <2>3. PlainMove(e)
      BY <2>1, <2>2 DEF PlainMove, Transaction
    <2>4. /\ turn[e].at \notin Owning /\ turn[e].at \notin {"send", "ack"}
          /\ turn[e].at \notin Claiming /\ turn[e].at \notin {"run", "claimed", "composed", "send", "ack"}
      BY <2>2, Parts DEF Control, Owning, Claiming
    <2>5. Control(e)'
      BY <1>1, <2>1, <2>2, <2>4, Parts DEF Control
    <2> QED BY <1>1, <1>2, <1>3, <2>1, <2>3, <2>4, <2>5, PlainStep
  <1>5. CASE HumanDiscard(e)
    <2>1. ResolveDeadLetterDiscard(e) /\ turn' = turn
      BY <1>5 DEF HumanDiscard, ramVars
    <2>2. StoreTypeOK' /\ status' = status
      BY <2>1, Parts, StoreStep, StoreMoves DEF Transaction
    <2>3. RowsGrow /\ ReplyRows(e)' = ReplyRows(e)
      BY <1>1, RowTypes DEF IInv, RowsGrow, ReplyRows, Ids
    <2>4. EventOK(e)'
      BY <1>1, <2>1, <2>2, <2>3, Parts, FrameEvent
    <2>5. gate[ThreadOf[e]] = e => turn[e].at \in {"run", "claimed", "composed", "send", "ack"}
      BY NoGate
    <2> QED BY <1>1, <1>2, <1>3, <2>1, <2>2, <2>4, <2>5, LocalStep
  <1>6. CASE BootPark(e)
    <2>1. mode = "boot" /\ status[e] = "processing" /\ ParkEvent(e) /\ Goto(e, "notice")
      BY <1>6 DEF BootPark
    <2>2. status'[e] = "interrupted" /\ turn[e].at \in {"none", "notice"}
      BY <2>1, Parts, StoreMoves DEF Control
    <2>3. PlainMove(e)
      BY <2>1, <2>2 DEF PlainMove, Transaction
    <2>4. /\ turn' \in [Event -> Turns] /\ \A f \in Event : f # e => turn'[f] = turn[f]
          /\ turn'[e].at = "notice" /\ turn'[e].at \notin Claiming /\ Control(e)'
      BY <1>1, <2>1, Moved
    <2> QED BY <1>1, <1>2, <1>3, <2>1, <2>2, <2>3, <2>4, PlainStep
  <1> QED BY <1>4, <1>5, <1>6


-----------------------------------------------------------------------------
(* Steps that append rows.                                                 *)

\* New rows are younger than all that was sent, scanned or acked: they
\* disturb only the gates' promise, and the events they belong to.
LEMMA GrowStep ==
    ASSUME IInv, RowsGrow, NEW S \in SUBSET Event, pump' = [pump EXCEPT !.sweep = S],
           UNCHANGED <<storeVars, acked, mode, gate, fenced, posted, history>>,
           turn' \in [Event -> Turns],
           \A f \in Event : EventOK(f)',
           SerialOK', GateOK',
           \A r \in Ids' \ Ids : \A f \in Event :
               gate[ThreadOf[f]] = f /\ Target(r)' = ThreadOf[f] => r \in ReplyRows(f)',
           \A f \in Event : \A r \in ReplyRows(f) :
               turn'[f].at \in Claiming /\ turn'[f].fresh => turn[f].at \in Claiming /\ turn[f].fresh
    PROVE  IInv'
  <1>1. /\ TypeOK /\ Len(rows) \in Nat /\ Len(rows') \in Nat /\ Ids \subseteq Ids'
        /\ \A r \in Ids : rows[r] \in Row /\ Target(r)' = Target(r) /\ Target(r) \in Thread
        /\ \A f \in Event : \A r \in Ids : r \in ReplyRows(f)' <=> r \in ReplyRows(f)
    BY GrowKeeps DEF IInv
  <1>2. /\ everSent \subseteq Ids /\ acked \subseteq Ids /\ pump.todo \subseteq Ids
        /\ pump \in [at : PumpPlaces, sweep : SUBSET Event, todo : SUBSET Ids, stopped : SUBSET Thread]
    BY <1>1 DEF TypeOK, Ids
  <1>3. /\ pump'.at = pump.at /\ pump'.todo = pump.todo /\ pump'.stopped = pump.stopped
        /\ pump' \in [at : PumpPlaces, sweep : SUBSET Event, todo : SUBSET Ids', stopped : SUBSET Thread]
        /\ Busy' = Busy /\ Current' = Current
    BY <1>1, <1>2 DEF Busy, Current
  <1>4. TypeOK'
    <2>1. StoreTypeOK'
      BY <1>1 DEF TypeOK, StoreTypeOK, storeVars
    <2>2. rows' \in Seq([kind : RowKinds, ev : Event, n : Nat, gen : Nat, of : Nat])
      BY DEF RowsGrow, Row
    <2>3. Ids' = 1..Len(rows') /\ Ids = 1..Len(rows)
      BY DEF Ids
    <2> QED BY <1>1, <1>2, <1>3, <2>1, <2>2, <2>3 DEF TypeOK, history, sendHistory
  <1>5. \A r \in Ids : \A q \in Ids' : q < r => q \in Ids
    BY <1>1 DEF Ids
  <1>6. Busy => Current \in Ids /\ Current \in pump.todo
    BY <1>1, CurrentIs DEF IInv, PumpOK
  <1>7. PumpOK'
    BY <1>1, <1>3, <1>6 DEF IInv, PumpOK, Busy, history, sendHistory
  <1>8. PassOrder'
    <2>1. everSent' = everSent
      BY DEF history, sendHistory
    <2> QED BY <1>1, <1>2, <1>3, <1>5, <2>1 DEF IInv, PassOrder
  <1>9. SentInOrder' /\ acked' \subseteq everSent'
    BY <1>1, <1>2, <1>5 DEF IInv, SentInOrder, history, sendHistory
  <1>10. Apart'
    BY <1>1, <1>3, <1>6 DEF IInv, Apart
  <1>11. RelayNeverJumps'
    <2> SUFFICES ASSUME NEW f \in Event, gate[ThreadOf[f]] = f, NEW r \in Ids', r \notin acked,
                        Target(r)' = ThreadOf[f]
                 PROVE  r \in ReplyRows(f)'
      BY DEF RelayNeverJumps, HasRelay, ResendableDeliveries
    <2>1. CASE r \in Ids
      BY <1>1, <2>1 DEF IInv, RelayNeverJumps, HasRelay, ResendableDeliveries
    <2> QED BY <2>1
  <1> QED BY <1>4, <1>7, <1>8, <1>9, <1>10, <1>11 DEF IInv

\* A notice is a row of its own, bound to no reply.
LEMMA NoticeIs ==
    ASSUME TypeOK, NEW e \in Event, NEW t \in Thread,
           \/ SurfaceInterrupted(e) /\ t = ThreadOf[e]
           \/ SurfaceDeadLetter(e) /\ t = OwnerTarget
           \/ UNCHANGED rows
    PROVE  /\ RowsGrow /\ \A f \in Event : ReplyRows(f)' = ReplyRows(f)
           /\ \A r \in Ids' \ Ids : Target(r)' = t
  <1>1. rows \in Seq(Row) /\ Len(rows) \in Nat
    BY RowTypes
  <1>2. CASE UNCHANGED rows
    BY <1>1, <1>2 DEF RowsGrow, ReplyRows, Ids
  <1>3. ASSUME NEW k \in {"park", "death"}, NEW m \in Nat,
               rows' = Append(rows, [kind |-> k, ev |-> e, n |-> m, gen |-> 0, of |-> 1]),
               t = IF k = "death" THEN OwnerTarget ELSE ThreadOf[e]
        PROVE  /\ RowsGrow /\ \A f \in Event : ReplyRows(f)' = ReplyRows(f)
               /\ \A r \in Ids' \ Ids : Target(r)' = t
    <2> DEFINE new == [kind |-> k, ev |-> e, n |-> m, gen |-> 0, of |-> 1]
    <2>1. new \in Row
      BY DEF Row, RowKinds
    <2>2. /\ rows' \in Seq(Row) /\ Len(rows') = Len(rows) + 1
          /\ \A r \in 1..Len(rows) : rows'[r] = rows[r]
          /\ rows'[Len(rows) + 1] = new
      BY <1>1, <1>3, <2>1
    <2>3. Ids' = Ids \cup {Len(rows) + 1}
      BY <1>1, <2>2 DEF Ids
    <2>4. RowsGrow
      BY <1>1, <2>2 DEF RowsGrow, Ids
    <2>5. rows'[Len(rows) + 1].kind = k /\ rows'[Len(rows) + 1].ev = e /\ k # "reply"
      BY <2>2
    <2>6. ASSUME NEW f \in Event PROVE ReplyRows(f)' = ReplyRows(f)
      BY <2>2, <2>3, <2>5 DEF ReplyRows, Ids
    <2>7. \A r \in Ids' \ Ids : Target(r)' = t
      BY <1>3, <2>3, <2>5 DEF Target
    <2> QED BY <2>4, <2>6, <2>7
  <1>4. parks[e] \in Nat /\ entries[e] \in Nat
    BY DEF TypeOK, StoreTypeOK
  <1>5. CASE SurfaceInterrupted(e) /\ t = ThreadOf[e]
    BY <1>2, <1>3, <1>4, <1>5 DEF SurfaceInterrupted, InsertNotice
  <1>6. CASE SurfaceDeadLetter(e) /\ t = OwnerTarget
    BY <1>2, <1>3, <1>4, <1>6 DEF SurfaceDeadLetter, InsertNotice
  <1> QED BY <1>2, <1>5, <1>6

\* A notice under the free gate of its target, of the handler or of the sweep.
LEMMA NoticeStep ==
    ASSUME IInv, NEW e \in Event, NEW t \in Thread, gate[t] = NoEvent,
           \/ SurfaceInterrupted(e) /\ t = ThreadOf[e]
           \/ SurfaceDeadLetter(e) /\ t = OwnerTarget
           \/ UNCHANGED rows,
           NEW S \in SUBSET Event, pump' = [pump EXCEPT !.sweep = S],
           UNCHANGED <<storeVars, acked, mode, gate, fenced, posted, history>>,
           \/ turn' = turn
           \/ EndTurn(e) /\ turn[e].at \in {"notice", "reparked"}
    PROVE  IInv'
  <1>1. /\ RowsGrow /\ \A f \in Event : ReplyRows(f)' = ReplyRows(f)
        /\ \A r \in Ids' \ Ids : Target(r)' = t
    BY NoticeIs DEF IInv
  <1>2. /\ turn' \in [Event -> Turns] /\ \A f \in Event : f # e => turn'[f] = turn[f]
        /\ turn'[e] = turn[e]
           \/ /\ turn'[e].at = "none" /\ turn'[e].at \notin Claiming /\ Control(e)'
              /\ turn[e].at \in {"notice", "reparked"}
    BY Ended DEF IInv, TypeOK
  <1>3. /\ UNCHANGED <<status, everSent, sentNow, torn, unheard, quiet, acked, posted, fenced, mode>>
    BY DEF storeVars, history, sendHistory
  <1>4. \A f \in Event : turn'[f] = turn[f] => EventOK(f)'
    BY <1>1, <1>3, FrameEvent DEF IInv
  <1>5. ASSUME turn'[e].at = "none", Control(e)' PROVE EventOK(e)'
    <2>2. Batch(e)'
      <3>1. \A r \in ReplyRows(e) : /\ rows'[r] = rows[r]
                                    /\ \A i \in 0..rows[r].of - 1 : r - rows[r].n + i \in Ids
        BY <1>1, Parts, RowTypes DEF RowsGrow, EventOK, Batch
      <3>2. \A r \in ReplyRows(e) : \A i \in 0..rows[r].of - 1 :
              rows'[r - rows[r].n + i] = rows[r - rows[r].n + i]
        BY <3>1, <1>1 DEF RowsGrow
      <3> QED BY <1>1, <3>1, <3>2, Parts DEF EventOK, Batch
    <2>3. Owed(e)'
      BY <1>1, <1>3, <1>5, Parts DEF EventOK, Owed, AllAcked, EventHasDeliveries
    <2> QED BY <1>5, <2>2, <2>3 DEF EventOK, Fence, Sending, Claiming
  <1>6. \A f \in Event : EventOK(f)'
    BY <1>2, <1>4, <1>5
  <1>7. SerialOK'
    BY <1>2, <1>3 DEF IInv, SerialOK
  <1>8. GateOK'
    <2>1. gate' = gate /\ gate \in [Thread -> Event \cup {NoEvent}]
      BY DEF IInv, TypeOK
    <2> QED BY <1>2, <2>1 DEF IInv, GateOK
  <1>9. \A r \in Ids' \ Ids : \A f \in Event :
          gate[ThreadOf[f]] = f /\ Target(r)' = ThreadOf[f] => r \in ReplyRows(f)'
    BY <1>1, OutboxAssumption
  <1>10. \A f \in Event : \A r \in ReplyRows(f) :
           turn'[f].at \in Claiming /\ turn'[f].fresh => turn[f].at \in Claiming /\ turn[f].fresh
    BY <1>2
  <1> QED BY <1>1, <1>2, <1>6, <1>7, <1>8, <1>9, <1>10, GrowStep

\* The notices.
LEMMA NotifyKeeps ==
    ASSUME IInv, NEW e \in Event, Notify(e) PROVE IInv'
  <1>1. /\ turn[e].at \in {"notice", "reparked"} /\ EndTurn(e) /\ pump' = pump
        /\ UNCHANGED <<storeVars, acked, mode, gate, fenced, posted, history>>
    BY DEF Notify
  <1>2. pump.sweep \in SUBSET Event /\ pump' = [pump EXCEPT !.sweep = pump.sweep]
    BY <1>1 DEF IInv, TypeOK
  <1>3. ThreadOf[e] \in Thread /\ OwnerTarget \in Thread
    BY OutboxAssumption
  <1>4. \/ GateFree(OwnerTarget) /\ (SurfaceDeadLetter(e) \/ UNCHANGED rows)
        \/ GateFree(ThreadOf[e]) /\ (SurfaceInterrupted(e) \/ UNCHANGED rows)
    BY DEF Notify
  <1> QED BY <1>1, <1>2, <1>3, <1>4, NoticeStep DEF GateFree

LEMMA SurfaceKeeps ==
    ASSUME IInv, PumpSurface PROVE IInv'
  <1>1. PICK e \in pump.sweep :
          /\ \/ GateFree(OwnerTarget) /\ (SurfaceDeadLetter(e) \/ UNCHANGED rows)
             \/ GateFree(ThreadOf[e]) /\ (SurfaceInterrupted(e) \/ UNCHANGED rows)
          /\ pump' = [pump EXCEPT !.sweep = @ \ {e}]
    BY DEF PumpSurface
  <1>2. turn' = turn /\ UNCHANGED <<storeVars, acked, mode, gate, fenced, posted, history>>
    BY DEF PumpSurface
  <1>3. /\ pump.sweep \ {e} \in SUBSET Event /\ pump' = [pump EXCEPT !.sweep = pump.sweep \ {e}]
        /\ e \in Event
    BY <1>1 DEF IInv, TypeOK
  <1>4. ThreadOf[e] \in Thread /\ OwnerTarget \in Thread
    BY <1>3, OutboxAssumption
  <1> QED BY <1>1, <1>2, <1>3, <1>4, NoticeStep DEF GateFree


\* The batch of a compose, in the rows after the last.
LEMMA BatchIs ==
    ASSUME TypeOK, NEW e \in Event, NEW size \in 1..MaxChunks, InsertDeliveries(e, size),
           ReplyRows(e) = {}
    PROVE  /\ RowsGrow
           /\ ReplyRows(e)' = Ids' \ Ids
           /\ ReplyRows(e)' = Len(rows) + 1 .. Len(rows) + size
           /\ \A r \in ReplyRows(e)' : /\ rows'[r].n = r - Len(rows) - 1 /\ rows'[r].of = size
                                       /\ rows'[r].gen = Generation(e) /\ Target(r)' = ThreadOf[e]
           /\ \A f \in Event : f # e => ReplyRows(f)' = ReplyRows(f)
  <1> DEFINE B == ReplyBatch(e, size)
             L == Len(rows)
             row(i) == [kind |-> "reply", ev |-> e, n |-> i - 1, gen |-> Generation(e), of |-> size]
  <1>1. rows \in Seq(Row) /\ L \in Nat /\ size \in Nat /\ size >= 1 /\ MaxChunks \in Nat
    BY RowTypes, OutboxAssumption
  <1>2. Generation(e) \in Nat
    BY DEF Generation, TypeOK, StoreTypeOK
  <1>3. \A i \in 1..size : row(i) \in Row /\ B[i] = row(i)
    BY <1>1, <1>2 DEF Row, RowKinds, ReplyBatch
  <1>4. B \in Seq(Row) /\ Len(B) = size
    BY <1>1, <1>3 DEF ReplyBatch
  <1>5. rows' = rows \o B
    BY DEF InsertDeliveries
  <1>6. /\ rows' \in Seq(Row) /\ Len(rows') = L + size
        /\ \A r \in 1..L : rows'[r] = rows[r]
        /\ \A r \in L + 1 .. L + size : rows'[r] = B[r - L]
    <2> HIDE DEF B
    <2>1. /\ rows \o B \in Seq(Row) /\ Len(rows \o B) = L + Len(B)
          /\ \A i \in 1..L + Len(B) : (rows \o B)[i] = IF i <= L THEN rows[i] ELSE B[i - L]
      BY <1>1, <1>4, ConcatProperties
    <2> QED BY <1>1, <1>4, <1>5, <2>1
  <1>7. ASSUME NEW r \in L + 1 .. L + size
        PROVE  /\ rows'[r].kind = "reply" /\ rows'[r].ev = e /\ rows'[r].n = r - L - 1
               /\ rows'[r].gen = Generation(e) /\ rows'[r].of = size
    <2>1. r - L \in 1..size /\ rows'[r] = B[r - L]
      BY <1>1, <1>6
    <2>2. rows'[r] = row(r - L)
      BY <1>3, <2>1
    <2> QED BY <2>2
  <1>8. Ids = 1..L /\ Ids' = 1..L + size /\ Ids' \ Ids = L + 1 .. L + size
    BY <1>1, <1>6 DEF Ids
  <1>9. RowsGrow
    BY <1>1, <1>6, <1>8 DEF RowsGrow
  <1>10. \A f \in Event : \A r \in Ids : r \in ReplyRows(f)' <=> r \in ReplyRows(f)
    BY <1>9, GrowKeeps
  <1>11. ReplyRows(e)' = L + 1 .. L + size
    <2>1. \A r \in ReplyRows(e)' : r \in Ids' /\ r \notin Ids
      BY <1>10 DEF ReplyRows
    <2>2. \A r \in Ids' : rows'[r].kind = "reply" /\ rows'[r].ev = e => r \in ReplyRows(e)'
      BY DEF ReplyRows
    <2>3. \A r \in ReplyRows(e)' : r \in L + 1 .. L + size
      BY <1>8, <2>1
    <2>4. \A r \in L + 1 .. L + size : r \in ReplyRows(e)'
      BY <1>7, <1>8, <2>2
    <2> QED BY <2>3, <2>4
  <1>12. ASSUME NEW f \in Event, f # e PROVE ReplyRows(f)' = ReplyRows(f)
    <2>1. \A r \in ReplyRows(f)' : r \in Ids' /\ rows'[r].ev = f
      BY DEF ReplyRows
    <2>2. \A r \in ReplyRows(f)' : r \in Ids
      BY <1>7, <1>8, <1>12, <2>1
    <2>3. \A r \in ReplyRows(f) : r \in Ids
      BY DEF ReplyRows
    <2> QED BY <1>10, <2>2, <2>3
  <1>13. \A r \in L + 1 .. L + size : Target(r)' = ThreadOf[e]
    BY <1>7 DEF Target
  <1> QED BY <1>7, <1>8, <1>9, <1>11, <1>12, <1>13

\* The compose: one batch, or the discovery that it is there already.
LEMMA ComposeKeeps ==
    ASSUME IInv, NEW e \in Event, Compose(e) PROVE IInv'
  <1>1. /\ turn[e].at = "claimed" /\ pump' = pump /\ status[e] = "processing" /\ mode = "up"
        /\ UNCHANGED <<storeVars, acked, mode, gate, fenced, posted, history>>
        /\ ~turn[e].fresh /\ turn[e].accepted = 0 /\ turn[e].recorded = 0
        /\ Keys(e) \subseteq fenced /\ turn[e].size \in 1..MaxChunks
    <2>1. turn[e].at = "claimed"
      BY DEF Compose, At
    <2>2. pump' = pump /\ UNCHANGED <<storeVars, acked, mode, gate, fenced, posted, history>>
      BY DEF Compose
    <2>3. /\ status[e] = "processing" /\ mode = "up"
          /\ ~turn[e].fresh /\ turn[e].accepted = 0 /\ turn[e].recorded = 0
      BY <2>1, Parts DEF Control, Owning
    <2>4. Keys(e) \subseteq fenced /\ turn[e].size >= 1
      BY <2>1, Parts DEF EventOK, Fence, Claiming
    <2>5. turn[e].size \in 1..MaxChunks
      BY <2>4, Parts, OutboxAssumption
    <2> QED BY <2>1, <2>2, <2>3, <2>4, <2>5
  <1>2. UNCHANGED <<status, everSent, sentNow, lost, faulty, grants, torn, unheard, quiet>>
    BY <1>1 DEF storeVars, history, sendHistory
  <1>3. CASE Duplicate(e, turn[e].size)
    <2>1. Goto(e, "composed") /\ rows' = rows
      BY <1>3 DEF Compose
    <2>2. /\ turn' \in [Event -> Turns] /\ \A f \in Event : f # e => turn'[f] = turn[f]
          /\ turn'[e].at = "composed" /\ turn'[e].size = turn[e].size /\ turn'[e].fresh = turn[e].fresh
          /\ turn'[e].accepted = turn[e].accepted /\ turn'[e].recorded = turn[e].recorded
      BY <2>1, Parts, GotoIs DEF Places
    <2>3. Control(e)'
      BY <1>1, <1>2, <2>2, Parts DEF Control, Owning
    <2>4. Fence(e)'
      <3>1. Keys(e)' = Keys(e)
        BY <2>2 DEF Keys
      <3> QED BY <1>1, <2>2, <3>1 DEF Fence
    <2>5. Owed(e)' /\ Sending(e)'
      BY <1>1, <1>2, <2>2 DEF Owed, Sending
    <2>6. EventOK(e)'
      BY <2>1, <2>3, <2>4, <2>5, BatchKept DEF EventOK
    <2>7. /\ StoreTypeOK' /\ grants' \in [Event -> Nat] /\ lost' \in SUBSET (1..Len(rows))
          /\ faulty' \in BOOLEAN /\ fenced' \in SUBSET (Event \X (0..MaxChunks - 1))
          /\ gate' \in [Thread -> Event \cup {NoEvent}]
          /\ posted' \in SUBSET (Event \X Nat) /\ unheard' \in SUBSET (Event \X Nat)
        /\ torn' \in SUBSET Event /\ quiet' \in SUBSET Event
      BY <1>1, <1>2 DEF IInv, TypeOK, StoreTypeOK, storeVars
    <2> QED BY <1>1, <1>2, <2>1, <2>2, <2>6, <2>7, LocalStep
  <1>4. CASE ~Duplicate(e, turn[e].size)
    <2> DEFINE size == turn[e].size
               L == Len(rows)
               R == L + 1 .. L + size
    <2>1. /\ turn' = [turn EXCEPT ![e].at = "composed", ![e].fresh = TRUE]
          /\ InsertDeliveries(e, size)
      BY <1>4 DEF Compose
    <2>2. ReplyRows(e) = {}
      <3> SUFFICES ASSUME NEW r \in ReplyRows(e) PROVE FALSE
        OBVIOUS
      <3>1. rows[r].of \in 1..MaxChunks /\ rows[r].of \in Nat
        BY Parts, RowTypes DEF EventOK, Batch
      <3>2. 0 \in 0..rows[r].of - 1
        BY <3>1
      <3>3. RowOf(e, 0) \in ReplyRows(e) /\ rows[RowOf(e, 0)].n = 0
        BY <3>2, RowOfIs, Parts DEF EventOK
      <3> QED BY <1>1, <1>4, <3>3 DEF Duplicate
    <2>3. /\ RowsGrow /\ ReplyRows(e)' = R /\ ReplyRows(e)' = Ids' \ Ids
          /\ \A r \in R : /\ rows'[r].n = r - L - 1 /\ rows'[r].of = size
                          /\ rows'[r].gen = Generation(e) /\ Target(r)' = ThreadOf[e]
          /\ \A f \in Event : f # e => ReplyRows(f)' = ReplyRows(f)
      BY <1>1, <2>1, <2>2, Parts, BatchIs, SMTT(30)
    <2>4. /\ turn' \in [Event -> Turns] /\ \A f \in Event : f # e => turn'[f] = turn[f]
          /\ turn'[e].at = "composed" /\ turn'[e].size = size /\ turn'[e].fresh
          /\ turn'[e].accepted = 0 /\ turn'[e].recorded = 0
      BY <1>1, <2>1, ZenonT(60) DEF IInv, TypeOK, Turns, Places
    <2>5. L \in Nat /\ size \in Nat /\ size >= 1 /\ size \in 1..MaxChunks
      BY <1>1, Parts, RowTypes
    <2>6. EventOK(e)'
      <3>1. Control(e)'
        BY <1>1, <1>2, <2>4 DEF Control, Owning
      <3>2. Batch(e)'
        <4>1. ASSUME NEW r \in R
              PROVE  /\ rows'[r].of \in 1..MaxChunks /\ rows'[r].n < rows'[r].of
                     /\ r - rows'[r].n = L + 1 /\ rows'[r].of = size
          BY <2>3, <2>5
        <4>2. ASSUME NEW i \in 0..size - 1
              PROVE  L + 1 + i \in R /\ rows'[L + 1 + i].n = i
          BY <2>3, <2>5
        <4> QED BY <2>3, <4>1, <4>2, SMTT(30) DEF Batch
      <3>3. Fence(e)'
        <4>1. Keys(e)' = Keys(e) /\ L + 1 \in R
          BY <2>4, <2>5 DEF Keys
        <4> QED BY <1>1, <2>3, <2>4, <2>5, <4>1 DEF Fence
      <3>4. Owed(e)'
        <4>1. acked \subseteq Ids
          BY DEF IInv, TypeOK, Ids
        <4> QED BY <1>1, <1>2, <2>3, <4>1 DEF Owed
      <3>5. Sending(e)'
        BY <2>4 DEF Sending
      <3> QED BY <3>1, <3>2, <3>3, <3>4, <3>5 DEF EventOK
    <2>7. \A f \in Event : f # e => EventOK(f)'
      BY <1>1, <1>2, <2>3, <2>4, FrameEvent DEF IInv
    <2>8. SerialOK'
      BY <1>1, <2>4 DEF IInv, SerialOK
    <2>9. GateOK'
      <3>1. gate' = gate /\ gate \in [Thread -> Event \cup {NoEvent}]
        BY <1>1 DEF IInv, TypeOK
      <3> QED BY <2>4, <3>1 DEF IInv, GateOK
    <2>10. ASSUME NEW r \in Ids' \ Ids, NEW f \in Event, gate[ThreadOf[f]] = f, Target(r)' = ThreadOf[f]
           PROVE  r \in ReplyRows(f)'
      <3>1. ThreadOf[f] = ThreadOf[e] /\ ThreadOf[f] \in Thread /\ f # NoEvent
        BY <2>3, <2>10, OutboxAssumption
      <3>2. turn[f].at # "none"
        BY <2>10, <3>1 DEF IInv, GateOK
      <3>3. f = e
        BY <1>1, <3>1, <3>2 DEF IInv, SerialOK
      <3> QED BY <2>3, <2>10, <3>3
    <2>11. ASSUME NEW f \in Event, NEW r \in ReplyRows(f), turn'[f].at \in Claiming, turn'[f].fresh
           PROVE  turn[f].at \in Claiming /\ turn[f].fresh
      BY <2>2, <2>4, <2>11
    <2>12. pump.sweep \in SUBSET Event /\ pump' = [pump EXCEPT !.sweep = pump.sweep]
      BY <1>1 DEF IInv, TypeOK
    <2> QED BY <1>1, <2>3, <2>4, <2>6, <2>7, <2>8, <2>9, <2>10, <2>11, <2>12, GrowStep
  <1> QED BY <1>3, <1>4


-----------------------------------------------------------------------------
(* Sends and acks.                                                         *)

PumpRecords ==
    [at : PumpPlaces, sweep : SUBSET Event, todo : SUBSET Ids, stopped : SUBSET Thread]

\* Sends, acks and moves of the pump leave the table and the gates alone.
LEMMA QuietStep ==
    ASSUME IInv, UNCHANGED <<rows, mode, gate, fenced, posted, grants, torn, unheard, quiet>>,
           StoreTypeOK', acked \subseteq acked', acked' \subseteq everSent', everSent' \subseteq Ids,
           sentNow' \subseteq everSent', lost' \subseteq Ids,
           SentInOrder', faulty' \in BOOLEAN, turn' \in [Event -> Turns],
           \A f \in Event : (turn'[f].at = "none") <=> (turn[f].at = "none"),
           \A f \in Event : turn[f].at \in {"run", "claimed", "composed", "send", "ack"}
             => turn'[f].at \in {"run", "claimed", "composed", "send", "ack"},
           \A f \in Event : EventOK(f)',
           pump' \in PumpRecords, PumpOK', PassOrder', Apart'
    PROVE  IInv'
  <1>1. /\ \A r : Target(r)' = Target(r) /\ \A f \in Event : ReplyRows(f)' = ReplyRows(f)
        /\ Ids' = Ids /\ Ids = 1..Len(rows)
    BY DEF Target, ReplyRows, Ids
  <1>2. TypeOK'
    BY <1>1 DEF IInv, TypeOK, PumpRecords
  <1>3. SerialOK'
    BY DEF IInv, SerialOK
  <1>4. GateOK'
    <2>1. gate \in [Thread -> Event \cup {NoEvent}]
      BY DEF IInv, TypeOK
    <2> QED BY <2>1 DEF IInv, GateOK
  <1>5. RelayNeverJumps'
    BY <1>1 DEF IInv, RelayNeverJumps, HasRelay, ResendableDeliveries
  <1> QED BY <1>2, <1>3, <1>4, <1>5 DEF IInv

\* What the platform took, when nothing older was owed to the row's target.
LEMMA SentIs ==
    ASSUME IInv, NEW r \in Ids, rows' = rows,
           \A q \in Ids : q < r /\ Target(q) = Target(r) => q \in everSent,
           UNCHANGED sendHistory \/ (Accept(r) /\ lost' \in {lost, lost \cup {r}})
    PROVE  /\ everSent \subseteq everSent' /\ everSent' \subseteq Ids /\ sentNow \subseteq sentNow'
           /\ sentNow' \subseteq everSent' /\ lost' \subseteq Ids
           /\ SentInOrder' /\ acked \subseteq everSent'
           /\ Accept(r) => r \in everSent' /\ r \in sentNow'
  <1>1. /\ everSent \subseteq Ids /\ sentNow \subseteq everSent
        /\ lost \subseteq Ids /\ acked \subseteq everSent
    BY DEF IInv, TypeOK, Ids
  <1>2. /\ everSent' \in {everSent, everSent \cup {r}} /\ everSent \subseteq everSent'
        /\ everSent' \subseteq Ids /\ sentNow \subseteq sentNow' /\ sentNow' \subseteq everSent'
        /\ lost' \subseteq Ids
        /\ Accept(r) => r \in everSent' /\ r \in sentNow'
    BY <1>1 DEF sendHistory, Accept
  <1>3. SentInOrder'
    <2>1. (\A q : Target(q)' = Target(q)) /\ Ids' = Ids
      BY DEF Target, Ids
    <2> QED BY <1>2, <2>1 DEF IInv, SentInOrder
  <1> QED BY <1>1, <1>2, <1>3

\* The row a direct send is at.
LEMMA ChunkIs ==
    ASSUME IInv, NEW e \in Event, turn[e].at \in {"send", "ack"},
           NEW i \in Nat, i < turn[e].size
    PROVE  /\ RowOf(e, i) \in ReplyRows(e) /\ RowOf(e, i) \in Ids /\ rows[RowOf(e, i)].n = i
           /\ \A q \in ReplyRows(e) : /\ rows[q].n = i => q = RowOf(e, i)
                                      /\ q < RowOf(e, i) => rows[q].n < i
  <1>1. turn[e].fresh /\ turn[e].size \in Nat
    BY Parts DEF Control
  <1>2. PICK r \in ReplyRows(e) : rows[r].of = turn[e].size
    BY <1>1, Parts DEF EventOK, Fence, Claiming
  <1>3. i \in 0..rows[r].of - 1
    BY <1>1, <1>2
  <1>4. /\ RowOf(e, i) = r - rows[r].n + i /\ RowOf(e, i) \in ReplyRows(e)
        /\ rows[RowOf(e, i)].n = i /\ RowOf(e, i) \in Ids
    BY <1>3, RowOfIs, Parts DEF EventOK
  <1>5. ASSUME NEW q \in ReplyRows(e)
        PROVE  q - rows[q].n = r - rows[r].n /\ q \in Nat /\ rows[q].n \in Nat
    BY Parts, RowTypes DEF EventOK, Batch
  <1> QED BY <1>4, <1>5

\* The relay's final send of the next chunk.
LEMMA SendChunkKeeps ==
    ASSUME IInv, NEW e \in Event, SendChunk(e) PROVE IInv'
  <1>1. /\ turn[e].at = "send"
        /\ UNCHANGED <<storeVars, rows, acked, mode, gate, fenced, pump, grants, faulty, posted, torn, unheard, quiet>>
    BY DEF SendChunk, At, outboxVars
  <1>2. PICK r : r = RowOf(e, turn[e].accepted)
    OBVIOUS
  <1>3. \/ /\ Deliver(r)
           /\ turn' = [turn EXCEPT ![e].accepted = @ + 1,
                         ![e].at = IF turn[e].accepted + 1 = turn[e].size THEN "ack" ELSE "send"]
        \/ Goto(e, "ack") /\ SendFails(r)
    BY <1>2 DEF SendChunk
  <1>4. /\ turn[e] \in Turns /\ turn \in [Event -> Turns]
        /\ turn[e].size \in Nat /\ turn[e].size <= MaxChunks /\ MaxChunks \in Nat
        /\ turn[e].accepted \in Nat /\ turn[e].recorded \in Nat
        /\ turn[e].recorded <= turn[e].accepted /\ turn[e].accepted < turn[e].size
    <2>1. turn[e] \in Turns /\ turn \in [Event -> Turns] /\ MaxChunks \in Nat
      BY OutboxAssumption DEF IInv, TypeOK
    <2>2. /\ turn[e].size \in 0..MaxChunks /\ turn[e].accepted \in 0..MaxChunks
          /\ turn[e].recorded \in 0..MaxChunks
      BY <2>1 DEF Turns
    <2> QED BY <1>1, <2>1, <2>2, Parts DEF EventOK, Sending
  <1>5. /\ r \in ReplyRows(e) /\ r \in Ids /\ rows[r].n = turn[e].accepted
        /\ \A q \in ReplyRows(e) : /\ rows[q].n = turn[e].accepted => q = r
                                   /\ q < r => rows[q].n < turn[e].accepted
    BY <1>1, <1>2, <1>4, ChunkIs
  <1>6. \A q \in ReplyRows(e) : rows[q].n \in Nat
    BY Parts, RowTypes
  <1>7. \A q \in Ids : q < r /\ Target(q) = Target(r) => q \in everSent
    <2>1. Target(r) = ThreadOf[e]
      BY <1>5, Parts, RowTypes
    <2> QED BY <1>1, <1>5, <2>1, Parts DEF EventOK, Sending
  <1>8. /\ everSent \subseteq everSent' /\ everSent' \subseteq Ids /\ sentNow \subseteq sentNow'
        /\ sentNow' \subseteq everSent' /\ lost' \subseteq Ids
        /\ SentInOrder' /\ acked \subseteq everSent'
        /\ Accept(r) => r \in everSent' /\ r \in sentNow'
    <2>1. UNCHANGED sendHistory \/ (Accept(r) /\ lost' \in {lost, lost \cup {r}})
      BY <1>3 DEF Deliver, SendFails
    <2> QED BY <1>1, <1>5, <1>7, <2>1, SentIs
  <1>9. /\ turn' \in [Event -> Turns] /\ \A f \in Event : f # e => turn'[f] = turn[f]
        /\ turn'[e].at \in {"send", "ack"} /\ turn'[e].size = turn[e].size
        /\ turn'[e].fresh = turn[e].fresh /\ turn'[e].recorded = turn[e].recorded
        /\ \/ turn'[e].accepted = turn[e].accepted /\ turn'[e].at = "ack"
           \/ /\ turn'[e].accepted = turn[e].accepted + 1 /\ Accept(r)
              /\ turn'[e].at = "send" => turn[e].accepted + 1 # turn[e].size
    <2>1. CASE Goto(e, "ack")
      BY <1>1, <2>1, Parts, GotoIs DEF Places
    <2>2. CASE /\ Deliver(r)
               /\ turn' = [turn EXCEPT ![e].accepted = @ + 1,
                             ![e].at = IF turn[e].accepted + 1 = turn[e].size THEN "ack" ELSE "send"]
      <3>1. PICK p, a : /\ p = IF turn[e].accepted + 1 = turn[e].size THEN "ack" ELSE "send"
                        /\ a = turn[e].accepted + 1
        OBVIOUS
      <3>2. p \in {"send", "ack"} /\ a \in 0..MaxChunks
        BY <1>4, <3>1
      <3>3. turn' = [turn EXCEPT ![e] = [@ EXCEPT !.accepted = a, !.at = p]]
        BY <1>4, <2>2, <3>1
      <3>4. [turn[e] EXCEPT !.accepted = a, !.at = p] \in Turns
        BY <1>4, <3>2 DEF Turns, Places
      <3>5. /\ turn' \in [Event -> Turns] /\ \A f \in Event : f # e => turn'[f] = turn[f]
            /\ turn'[e].at = p /\ turn'[e].size = turn[e].size
            /\ turn'[e].fresh = turn[e].fresh /\ turn'[e].recorded = turn[e].recorded
            /\ turn'[e].accepted = a
        BY <1>4, <3>3, <3>4 DEF Turns
      <3> QED BY <2>2, <3>1, <3>2, <3>5 DEF Deliver
    <2> QED BY <1>3, <2>1, <2>2
  <1>10. EventOK(e)'
    <2>1. ReplyRows(e)' = ReplyRows(e) /\ Batch(e)' /\ Ids' = Ids /\ \A q : Target(q)' = Target(q)
      BY <1>1, BatchKept DEF Ids, Target
    <2>2. status' = status
      BY <1>1 DEF storeVars
    <2>3. Control(e)'
      BY <1>1, <1>9, <2>2, Parts DEF Control, Owning
    <2>4. Fence(e)'
      <3>1. Keys(e)' = Keys(e)
        BY <1>9 DEF Keys
      <3> QED BY <1>1, <1>9, <2>1, <3>1, Parts DEF EventOK, Fence, Claiming
    <2>5. Owed(e)'
      BY <1>1, <1>9, <2>1, <2>2, Parts DEF EventOK, Owed, AllAcked, EventHasDeliveries
    <2>6. Sending(e)'
      <3>1. /\ turn'[e].recorded <= turn'[e].accepted /\ turn'[e].accepted <= turn'[e].size
            /\ turn'[e].at = "send" => turn'[e].accepted < turn'[e].size
        BY <1>4, <1>9
      <3>2. ASSUME NEW q \in ReplyRows(e), rows[q].n < turn'[e].accepted PROVE q \in everSent'
        <4>1. rows[q].n < turn[e].accepted \/ (rows[q].n = turn[e].accepted /\ Accept(r))
          BY <1>4, <1>6, <1>9, <3>2
        <4> QED BY <1>1, <1>5, <1>8, <4>1, Parts DEF EventOK, Sending
      <3>3. \A q \in ReplyRows(e) : \A p \in Ids :
              p < q /\ p \notin ReplyRows(e) /\ Target(p) = ThreadOf[e] => p \in everSent'
        BY <1>1, <1>8, Parts DEF EventOK, Sending
      <3> QED BY <1>1, <2>1, <3>1, <3>2, <3>3 DEF Sending
    <2> QED BY <2>1, <2>3, <2>4, <2>5, <2>6 DEF EventOK
  <1>11. \A f \in Event : EventOK(f)'
    <2>1. RowsGrow /\ \A f \in Event : ReplyRows(f)' = ReplyRows(f)
      BY <1>1, RowTypes DEF IInv, RowsGrow, ReplyRows, Ids
    <2>2. status' = status
      BY <1>1 DEF storeVars
    <2>3. \A f \in Event : f # e => EventOK(f)'
      BY <1>1, <1>8, <1>9, <2>1, <2>2, FrameEvent DEF IInv
    <2> QED BY <1>10, <2>3
  <1>12. pump' \in PumpRecords /\ PumpOK' /\ PassOrder'
    <2>1. pump \in PumpRecords
      BY DEF IInv, TypeOK, PumpRecords, Ids
    <2>2. /\ Busy' = Busy /\ Current' = Current /\ Ids' = Ids
          /\ \A q : Target(q)' = Target(q)
      BY <1>1 DEF Busy, Current, Ids, Target
    <2> QED BY <1>1, <1>8, <2>1, <2>2 DEF IInv, PumpOK, PassOrder
  <1>13. Apart'
    <2>1. Busy' = Busy /\ Current' = Current /\ \A f \in Event : ReplyRows(f)' = ReplyRows(f)
      BY <1>1 DEF Busy, Current, ReplyRows, Ids
    <2>2. turn[e].at \in Claiming
      BY <1>1 DEF Claiming
    <2> QED BY <1>9, <2>1, <2>2 DEF IInv, Apart
  <1>14. StoreTypeOK' /\ faulty' \in BOOLEAN
    BY <1>1 DEF IInv, TypeOK, StoreTypeOK, storeVars
  <1> QED BY <1>1, <1>8, <1>9, <1>11, <1>12, <1>13, <1>14, QuietStep


\* An ack seals the event whose last row it is, and moves no other.
LEMMA AckIs ==
    ASSUME IInv, NEW r \in Ids, AckDelivery(r)
    PROVE  /\ rows' = rows /\ acked' = acked \cup {r} /\ StoreTypeOK'
           /\ \A f \in Event : r \notin ReplyRows(f) => status'[f] = status[f]
           /\ \A f \in Event : r \in ReplyRows(f) =>
                /\ \/ status'[f] = status[f]
                   \/ status[f] = "completed" /\ status'[f] = "replied" /\ ReplyRows(f) \subseteq acked'
                /\ status'[f] = "completed" /\ ReplyRows(f) \subseteq acked' => r \in acked
  <1>1. rows' = rows /\ acked' = acked \cup {r}
    BY DEF AckDelivery
  <1>2. rows[r].ev \in Event /\ StoreTypeOK /\ TypeOK
    BY RowTypes DEF IInv, TypeOK
  <1>3. CASE UNCHANGED storeVars
    <2>1. status' = status /\ StoreTypeOK'
      BY <1>2, <1>3 DEF storeVars, StoreTypeOK
    <2>2. ASSUME NEW f \in Event, r \in ReplyRows(f), status'[f] = "completed", ReplyRows(f) \subseteq acked'
          PROVE  r \in acked
      <3>1. rows[r].ev = f /\ rows[r].kind = "reply"
        BY <2>2 DEF ReplyRows
      <3>2. SUFFICES ASSUME r \notin acked PROVE FALSE
        OBVIOUS
      <3>3. AdvanceToReplied(f)
        BY <1>1, <2>1, <2>2, <3>1, <3>2 DEF AckDelivery
      <3>4. status'[f] = "replied"
        BY <1>2, <3>3 DEF AdvanceToReplied, Move, StoreTypeOK
      <3> QED BY <2>2, <3>4
    <2> QED BY <1>1, <2>1, <2>2
  <1>4. CASE ~UNCHANGED storeVars
    <2>1. PICK e : e = rows[r].ev
      OBVIOUS
    <2>2. /\ rows[r].kind = "reply" /\ status[e] = "completed" /\ ReplyRows(e) \subseteq acked \cup {r}
          /\ AdvanceToReplied(e)
      BY <1>4, <2>1 DEF AckDelivery
    <2>3. e \in Event /\ Transaction(e)
      BY <1>2, <2>1, <2>2 DEF Transaction
    <2>4. StoreTypeOK' /\ \A f \in Event : f # e => status'[f] = status[f]
      BY <1>2, <2>3, StoreStep
    <2>5. status'[e] = "replied"
      BY <1>2, <2>2, <2>3 DEF AdvanceToReplied, Move, StoreTypeOK
    <2>6. \A f \in Event : r \in ReplyRows(f) <=> f = e
      BY <2>1, <2>2 DEF ReplyRows
    <2> QED BY <1>1, <2>2, <2>3, <2>4, <2>5, <2>6
  <1> QED BY <1>3, <1>4

\* An ack leaves every event in order: only its own row can be sealed by it.
LEMMA AckEvents ==
    ASSUME IInv, NEW r \in Ids, AckDelivery(r), UNCHANGED <<mode, fenced, posted, torn, unheard, quiet, everSent>>,
           \A f \in Event : r \in ReplyRows(f) => ~(turn[f].at = "composed" /\ turn[f].fresh),
           NEW f \in Event,
           \/ turn'[f] = turn[f]
           \/ /\ turn[f].at = "ack" /\ turn'[f].at = "ack" /\ turn'[f].size = turn[f].size
              /\ turn'[f].fresh = turn[f].fresh /\ turn'[f].accepted = turn[f].accepted
              /\ turn'[f].recorded <= turn'[f].accepted
    PROVE  EventOK(f)'
  <1>1. /\ rows' = rows /\ acked' = acked \cup {r} /\ StoreTypeOK'
        /\ r \notin ReplyRows(f) => status'[f] = status[f]
        /\ r \in ReplyRows(f) =>
             /\ \/ status'[f] = status[f]
                \/ status[f] = "completed" /\ status'[f] = "replied" /\ ReplyRows(f) \subseteq acked'
             /\ status'[f] = "completed" /\ ReplyRows(f) \subseteq acked' => r \in acked
    BY AckIs
  <1>2. ReplyRows(f)' = ReplyRows(f) /\ Batch(f)' /\ Ids' = Ids /\ \A q : Target(q)' = Target(q)
    BY <1>1, BatchKept DEF Ids, Target
  <1>3. Control(f)'
    BY <1>1, Parts DEF Control, Owning
  <1>4. Fence(f)'
    <2>1. Keys(f)' = Keys(f)
      BY DEF Keys
    <2> QED BY <1>1, <1>2, <2>1, Parts DEF EventOK, Fence
  <1>5. Owed(f)'
    BY <1>1, <1>2, Parts DEF EventOK, Owed, AllAcked, EventHasDeliveries
  <1>6. Sending(f)'
    BY <1>1, <1>2, Parts DEF EventOK, Sending
  <1> QED BY <1>2, <1>3, <1>4, <1>5, <1>6 DEF EventOK

\* The handler's acks of what it sent.
LEMMA AckChunkKeeps ==
    ASSUME IInv, NEW e \in Event, AckChunk(e) PROVE IInv'
  <1>1. /\ turn[e].at = "ack" /\ turn[e].recorded < turn[e].accepted
        /\ turn' = [turn EXCEPT ![e].recorded = @ + 1]
        /\ UNCHANGED <<mode, gate, fenced, pump, grants, everSent, sentNow, posted, torn, unheard, quiet>>
    BY DEF AckChunk, At
  <1>2. PICK r : r = RowOf(e, turn[e].recorded)
    OBVIOUS
  <1>3. \/ AckDelivery(r) /\ UNCHANGED <<lost, faulty>>
        \/ lost' = lost \cup {r} /\ faulty' = TRUE /\ UNCHANGED <<storeVars, outboxVars>>
    BY <1>2 DEF AckChunk
  <1>4. /\ turn \in [Event -> Turns] /\ turn[e] \in Turns /\ turn[e].size \in Nat
        /\ turn[e].size <= MaxChunks /\ MaxChunks \in Nat /\ turn[e].fresh
        /\ turn[e].accepted \in Nat /\ turn[e].recorded \in Nat /\ turn[e].accepted <= turn[e].size
    <2>1. turn[e] \in Turns /\ turn \in [Event -> Turns] /\ MaxChunks \in Nat
      BY OutboxAssumption DEF IInv, TypeOK
    <2>2. /\ turn[e].size \in 0..MaxChunks /\ turn[e].accepted \in 0..MaxChunks
          /\ turn[e].recorded \in 0..MaxChunks
      BY <2>1 DEF Turns
    <2> QED BY <1>1, <2>1, <2>2, Parts DEF EventOK, Sending, Control
  <1>5. r \in ReplyRows(e) /\ r \in Ids /\ rows[r].n = turn[e].recorded
    BY <1>1, <1>2, <1>4, ChunkIs
  <1>6. r \in everSent
    BY <1>1, <1>5, Parts DEF EventOK, Sending
  <1>7. /\ turn' \in [Event -> Turns] /\ \A f \in Event : f # e => turn'[f] = turn[f]
        /\ turn'[e].at = "ack" /\ turn'[e].size = turn[e].size /\ turn'[e].fresh = turn[e].fresh
        /\ turn'[e].accepted = turn[e].accepted /\ turn'[e].recorded = turn[e].recorded + 1
        /\ turn'[e].recorded <= turn'[e].accepted
    <2>1. turn[e].recorded + 1 \in 0..MaxChunks /\ turn[e].recorded + 1 <= turn[e].accepted
      BY <1>1, <1>4
    <2> QED BY <1>1, <1>4, <2>1 DEF Turns
  <1>8. \A f \in Event : r \in ReplyRows(f) => f = e
    BY <1>5 DEF ReplyRows
  <1>9. /\ rows' = rows /\ acked' \in {acked, acked \cup {r}} /\ StoreTypeOK'
        /\ faulty' \in BOOLEAN /\ lost' \subseteq Ids
        /\ \A f \in Event : EventOK(f)'
    <2>0. lost \subseteq Ids /\ faulty \in BOOLEAN /\ StoreTypeOK
      BY DEF IInv, TypeOK, Ids
    <2>1. CASE AckDelivery(r) /\ UNCHANGED <<lost, faulty>>
      <3>1. rows' = rows /\ acked' = acked \cup {r} /\ StoreTypeOK'
        BY <1>5, <2>1, AckIs
      <3>2. \A f \in Event : EventOK(f)'
        BY <1>1, <1>5, <1>7, <1>8, <2>1, AckEvents
      <3> QED BY <2>0, <2>1, <3>1, <3>2
    <2>2. CASE lost' = lost \cup {r} /\ faulty' = TRUE /\ UNCHANGED <<storeVars, outboxVars>>
      <3>1. /\ rows' = rows /\ acked' = acked /\ status' = status /\ StoreTypeOK'
        BY <2>0, <2>2 DEF outboxVars, storeVars, StoreTypeOK
      <3>2. RowsGrow /\ \A f \in Event : ReplyRows(f)' = ReplyRows(f)
        BY <3>1, RowTypes DEF IInv, RowsGrow, ReplyRows, Ids
      <3>3. \A f \in Event : f # e => EventOK(f)'
        BY <1>1, <1>7, <3>1, <3>2, FrameEvent DEF IInv
      <3>4. EventOK(e)'
        <4>1. ReplyRows(e)' = ReplyRows(e) /\ Batch(e)' /\ Ids' = Ids /\ \A q : Target(q)' = Target(q)
          BY <3>1, BatchKept DEF Ids, Target
        <4>2. Control(e)'
          BY <1>1, <1>7, <3>1, Parts DEF Control, Owning
        <4>3. Fence(e)'
          <5>1. Keys(e)' = Keys(e)
            BY <1>7 DEF Keys
          <5> QED BY <1>1, <1>7, <3>1, <4>1, <5>1, Parts DEF EventOK, Fence
        <4>4. Owed(e)'
          BY <1>1, <1>7, <3>1, <4>1, Parts DEF EventOK, Owed, AllAcked, EventHasDeliveries
        <4>5. Sending(e)'
          BY <1>1, <1>7, <3>1, <4>1, Parts DEF EventOK, Sending
        <4> QED BY <4>1, <4>2, <4>3, <4>4, <4>5 DEF EventOK
      <3> QED BY <1>5, <2>0, <2>2, <3>1, <3>3, <3>4
    <2> QED BY <1>3, <2>1, <2>2
  <1>10. /\ Busy' = Busy /\ Current' = Current /\ Ids' = Ids
         /\ \A q : Target(q)' = Target(q) /\ \A f \in Event : ReplyRows(f)' = ReplyRows(f)
    BY <1>1, <1>9 DEF Busy, Current, Ids, Target, ReplyRows
  <1>11. Apart' /\ (Busy => Current # r)
    <2>1. turn[e].at \in Claiming
      BY <1>1 DEF Claiming
    <2> QED BY <1>4, <1>5, <1>7, <1>10, <2>1 DEF IInv, Apart
  <1>12. pump' \in PumpRecords /\ PumpOK' /\ PassOrder'
    <2>1. pump \in PumpRecords
      BY DEF IInv, TypeOK, PumpRecords, Ids
    <2>2. pump.at = "send" => Busy
      BY DEF Busy
    <2> QED BY <1>1, <1>9, <1>10, <1>11, <2>1, <2>2 DEF IInv, PumpOK, PassOrder
  <1>13. /\ acked \subseteq acked' /\ acked' \subseteq everSent' /\ everSent' \subseteq Ids
         /\ sentNow' \subseteq everSent'
    BY <1>1, <1>6, <1>9 DEF IInv, TypeOK, Ids
  <1>14. SentInOrder'
    BY <1>1, <1>10 DEF IInv, SentInOrder
  <1> QED BY <1>1, <1>7, <1>9, <1>11, <1>12, <1>13, <1>14, QuietStep

-----------------------------------------------------------------------------
(* The pump.                                                               *)

\* The head of the pass is left behind: it is sent, or its target is stopped.
LEMMA PassOn ==
    ASSUME IInv, rows' = rows, mode' = mode, everSent \subseteq everSent', NEW c \in pump.todo,
           pump.at \in {"resend", "stamp", "send", "ack"}, NEW S \in SUBSET Thread,
           pump.stopped \subseteq S,
           pump' = [pump EXCEPT !.at = "resend", !.todo = @ \ {c}, !.stopped = S],
           c \in everSent' \/ Target(c) \in S
    PROVE  pump' \in PumpRecords /\ PumpOK' /\ PassOrder' /\ Apart'
  <1>1. pump \in PumpRecords
    BY DEF IInv, TypeOK, PumpRecords, Ids
  <1>2. /\ pump' \in PumpRecords /\ pump'.at = "resend" /\ pump'.todo = pump.todo \ {c}
        /\ pump'.stopped = S
    BY <1>1 DEF PumpRecords, PumpPlaces
  <1>3. ~Busy'
    BY <1>2 DEF Busy
  <1>4. Apart'
    BY <1>3 DEF Apart
  <1>5. PumpOK'
    BY <1>2, <1>3 DEF IInv, PumpOK
  <1>6. PassOrder'
    <2>1. (\A q : Target(q)' = Target(q)) /\ Ids' = Ids
      BY DEF Target, Ids
    <2> SUFFICES ASSUME NEW r \in pump.todo \ {c}, NEW q \in Ids, q < r, Target(q) = Target(r),
                        q \notin pump.todo \ {c}, Target(r) \notin S
                 PROVE  q \in everSent'
      BY <1>2, <2>1 DEF PassOrder
    <2>2. CASE q = c
      BY <2>2
    <2>3. CASE q # c
      BY <2>3 DEF IInv, PassOrder
    <2> QED BY <2>2, <2>3
  <1> QED BY <1>2, <1>4, <1>5, <1>6

\* A step that only moves the pump, and may note a fault.
LEMMA PumpStep ==
    ASSUME IInv, UNCHANGED <<storeVars, outboxVars, mode, turn, gate, fenced, posted, grants,
                             sendHistory, torn, unheard, quiet>>,
           faulty' \in BOOLEAN, pump' \in PumpRecords, PumpOK', PassOrder', Apart'
    PROVE  IInv'
  <1>1. /\ UNCHANGED <<rows, acked, everSent, sentNow, lost, status>>
        /\ StoreTypeOK'
    BY DEF outboxVars, sendHistory, storeVars, StoreTypeOK, IInv, TypeOK
  <1>2. RowsGrow /\ (\A f \in Event : ReplyRows(f)' = ReplyRows(f)) /\ Ids' = Ids
        /\ \A q : Target(q)' = Target(q)
    BY <1>1, RowTypes DEF IInv, RowsGrow, ReplyRows, Ids, Target
  <1>3. \A f \in Event : EventOK(f)'
    BY <1>1, <1>2, FrameEvent DEF IInv
  <1>4. SentInOrder'
    BY <1>1, <1>2 DEF IInv, SentInOrder
  <1>5. /\ acked' \subseteq everSent' /\ everSent' \subseteq Ids /\ sentNow' \subseteq everSent'
        /\ lost' \subseteq Ids /\ turn' \in [Event -> Turns]
    BY <1>1 DEF IInv, TypeOK, Ids
  <1> QED BY <1>1, <1>3, <1>4, <1>5, QuietStep

\* Where a scan leaves the pump: it holds no row.
LEMMA ScanIs ==
    ASSUME IInv, PumpStart \/ PumpScan \/ PumpEnd
    PROVE  /\ pump' \in PumpRecords /\ pump'.at \in {"idle", "parks", "deaths", "resend"}
           /\ pump'.at # "idle" => mode = "up"
           /\ pump'.at = "resend" => pump'.todo = ResendableDeliveries
  <1>0. pump \in PumpRecords /\ (pump.at # "idle" => mode = "up")
    BY DEF IInv, TypeOK, PumpRecords, PumpOK, Ids
  <1>1. UnsurfacedInterruptedEvents \subseteq Event /\ UnsurfacedDeadLetters \subseteq Event
    BY DEF UnsurfacedInterruptedEvents, UnsurfacedDeadLetters
  <1>2. ResendableDeliveries \subseteq Ids /\ Rest \in PumpRecords
    BY DEF ResendableDeliveries, Rest, PumpRecords, PumpPlaces
  <1>3. CASE PumpStart
    BY <1>0, <1>1, <1>3 DEF PumpStart, PumpRecords, PumpPlaces
  <1>4. CASE PumpScan
    <2>1. CASE \E found \in {UnsurfacedDeadLetters, {}} :
                 pump' = [pump EXCEPT !.at = "deaths", !.sweep = found]
      <3>1. PICK found \in SUBSET Event : pump' = [pump EXCEPT !.at = "deaths", !.sweep = found]
        BY <1>1, <2>1
      <3> QED BY <1>0, <1>4, <3>1 DEF PumpScan, PumpRecords, PumpPlaces
    <2>2. CASE pump' = [pump EXCEPT !.at = "resend", !.todo = ResendableDeliveries]
      BY <1>0, <1>2, <1>4, <2>2 DEF PumpScan, PumpRecords, PumpPlaces
    <2>3. CASE pump' = Rest
      BY <1>2, <2>3 DEF Rest
    <2> QED BY <1>4, <2>1, <2>2, <2>3 DEF PumpScan
  <1>5. CASE PumpEnd
    BY <1>2, <1>5 DEF PumpEnd, Rest
  <1> QED BY <1>3, <1>4, <1>5

\* The scans, and the end of a pass.
LEMMA ScanKeeps ==
    ASSUME IInv, PumpStart \/ PumpScan \/ PumpEnd PROVE IInv'
  <1>1. /\ UNCHANGED <<storeVars, outboxVars, mode, turn, gate, fenced, posted, grants, sendHistory, torn, unheard, quiet>>
        /\ faulty' = faulty
    BY DEF PumpStart, PumpScan, PumpEnd, history
  <1>2. pump \in PumpRecords /\ faulty' \in BOOLEAN /\ (pump.at # "idle" => mode = "up")
    BY <1>1 DEF IInv, TypeOK, PumpRecords, PumpOK, Ids
  <1>3. /\ pump' \in PumpRecords /\ pump'.at \in {"idle", "parks", "deaths", "resend"}
        /\ pump'.at # "idle" => mode = "up"
        /\ pump'.at = "resend" => pump'.todo = ResendableDeliveries
    BY ScanIs
  <1>4. ~Busy'
    BY <1>3 DEF Busy
  <1>5. PumpOK' /\ Apart'
    BY <1>1, <1>3, <1>4 DEF PumpOK, Apart
  <1>6. PassOrder'
    <2>1. Ids' = Ids /\ everSent' = everSent /\ acked \subseteq everSent
      BY <1>1 DEF Ids, outboxVars, sendHistory, IInv
    <2> QED BY <1>3, <2>1 DEF PassOrder, ResendableDeliveries
  <1> QED BY <1>1, <1>2, <1>3, <1>5, <1>6, PumpStep


\* The head of the pass, as a constant of the step.
LEMMA HeadIs ==
    ASSUME IInv, pump.todo # {}
    PROVE  \E c \in pump.todo : c = Current /\ c \in Ids /\ Target(c) \in Thread
                                /\ pump.stopped \subseteq Thread
                                /\ pump.stopped \cup {Target(c)} \in SUBSET Thread
  <1>1. Current \in Ids /\ Current \in pump.todo /\ Target(Current) \in Thread
    BY CurrentIs, RowTypes DEF IInv
  <1>2. pump.stopped \subseteq Thread
    BY DEF IInv, TypeOK
  <1> QED BY <1>1, <1>2

\* A step that moves the pump to the next stage of the row in its hand.
LEMMA StageOn ==
    ASSUME IInv, NEW p \in {"stamp", "send", "ack"}, pump' = [pump EXCEPT !.at = p],
           pump.at \in {"resend", "stamp", "send"}, pump.todo # {},
           UNCHANGED <<rows, acked, mode, turn>>, everSent \subseteq everSent',
           NEW c, c = Current, Target(c) \notin pump.stopped,
           p = "send" => c \notin acked, p = "ack" => c \in sentNow',
           \A e \in Event : turn[e].at \in Claiming /\ turn[e].fresh => c \notin ReplyRows(e)
    PROVE  pump' \in PumpRecords /\ PumpOK' /\ PassOrder' /\ Apart'
  <1>1. pump \in PumpRecords
    BY DEF IInv, TypeOK, PumpRecords, Ids
  <1>2. /\ pump' \in PumpRecords /\ pump'.at = p /\ pump'.todo = pump.todo
        /\ pump'.stopped = pump.stopped
    BY <1>1 DEF PumpRecords, PumpPlaces
  <1>3. Current' = c
    BY <1>2 DEF Current
  <1>4. /\ \A q : Target(q)' = Target(q) /\ Ids' = Ids
        /\ \A f \in Event : ReplyRows(f)' = ReplyRows(f)
    BY DEF Target, Ids, ReplyRows
  <1>5. PumpOK'
    BY <1>2, <1>3, <1>4 DEF IInv, PumpOK
  <1>6. PassOrder'
    BY <1>2, <1>4 DEF IInv, PassOrder
  <1>7. Apart'
    BY <1>3, <1>4 DEF Apart
  <1> QED BY <1>2, <1>5, <1>6, <1>7

\* The head of the pass is skipped, held back or taken.
LEMMA PickKeeps ==
    ASSUME IInv, PumpPick PROVE IInv'
  <1>1. /\ UNCHANGED <<storeVars, outboxVars, mode, turn, gate, fenced, posted, grants, sendHistory, torn, unheard, quiet>>
        /\ faulty' = faulty /\ pump.at = "resend" /\ pump.todo # {}
    BY DEF PumpPick, history
  <1>2. PICK c \in pump.todo : c = Current /\ c \in Ids /\ Target(c) \in Thread
                               /\ pump.stopped \subseteq Thread
                               /\ pump.stopped \cup {Target(c)} \in SUBSET Thread
    BY <1>1, HeadIs
  <1>3. \/ /\ Target(c) \in pump.stopped
           /\ pump' = [pump EXCEPT !.at = "resend", !.todo = @ \ {c}]
        \/ pump' = [pump EXCEPT !.at = "resend", !.todo = @ \ {c}, !.stopped = @ \cup {Target(c)}]
        \/ /\ Target(c) \notin pump.stopped /\ ~Held(c)
           /\ pump' = [pump EXCEPT !.at = "stamp"]
    BY <1>2 DEF PumpPick, Skip, StopTarget
  <1>4. /\ rows' = rows /\ acked' = acked /\ everSent' = everSent /\ faulty' \in BOOLEAN
        /\ pump \in PumpRecords
    BY <1>1 DEF outboxVars, sendHistory, IInv, TypeOK, PumpRecords, Ids
  <1>5. CASE Target(c) \in pump.stopped /\ pump' = [pump EXCEPT !.at = "resend", !.todo = @ \ {c}]
    <2>1. pump' = [pump EXCEPT !.at = "resend", !.todo = @ \ {c}, !.stopped = pump.stopped]
      BY <1>4, <1>5 DEF PumpRecords
    <2>2. pump' \in PumpRecords /\ PumpOK' /\ PassOrder' /\ Apart'
      BY <1>1, <1>2, <1>4, <1>5, <2>1, PassOn
    <2> QED BY <1>1, <1>4, <2>2, PumpStep
  <1>6. CASE pump' = [pump EXCEPT !.at = "resend", !.todo = @ \ {c}, !.stopped = @ \cup {Target(c)}]
    <2>1. pump' \in PumpRecords /\ PumpOK' /\ PassOrder' /\ Apart'
      BY <1>1, <1>2, <1>4, <1>6, PassOn
    <2> QED BY <1>1, <1>4, <2>1, PumpStep
  <1>7. CASE Target(c) \notin pump.stopped /\ ~Held(c) /\ pump' = [pump EXCEPT !.at = "stamp"]
    <2>1. ASSUME NEW e \in Event, turn[e].at \in Claiming, turn[e].fresh, c \in ReplyRows(e)
          PROVE  FALSE
      <3>1. /\ Keys(e) \subseteq fenced /\ rows[c].of = turn[e].size /\ rows[c].n < rows[c].of
            /\ rows[c].n \in Nat /\ rows[c].of \in Nat /\ rows[c].ev = e /\ rows[c].kind = "reply"
        BY <2>1, Parts, RowTypes DEF EventOK, Fence, Batch
      <3>2. <<e, rows[c].n>> \in Keys(e)
        BY <3>1 DEF Keys
      <3> QED BY <1>7, <3>1, <3>2 DEF Held
    <2>2. pump' \in PumpRecords /\ PumpOK' /\ PassOrder' /\ Apart'
      BY <1>1, <1>2, <1>4, <1>7, <2>1, StageOn
    <2> QED BY <1>1, <1>4, <2>2, PumpStep
  <1> QED BY <1>3, <1>5, <1>6, <1>7

\* The attempt stamp.
LEMMA StampKeeps ==
    ASSUME IInv, PumpStamp PROVE IInv'
  <1>1. /\ UNCHANGED <<storeVars, outboxVars, mode, turn, gate, fenced, posted, grants, sendHistory, torn, unheard, quiet>>
        /\ faulty' \in {faulty, TRUE} /\ pump.at = "stamp"
    BY DEF PumpStamp
  <1>2. Busy /\ pump.todo # {} /\ Target(Current) \notin pump.stopped
    BY <1>1 DEF IInv, PumpOK, Busy
  <1>3. PICK c \in pump.todo : c = Current /\ c \in Ids /\ Target(c) \in Thread
                               /\ pump.stopped \subseteq Thread
                               /\ pump.stopped \cup {Target(c)} \in SUBSET Thread
    BY <1>2, HeadIs
  <1>4. \/ c \notin acked /\ pump' = [pump EXCEPT !.at = "send"]
        \/ pump' = [pump EXCEPT !.at = "resend", !.todo = @ \ {c}, !.stopped = @ \cup {Target(c)}]
    BY <1>3 DEF PumpStamp, StopTarget, ResendableDeliveries
  <1>5. rows' = rows /\ acked' = acked /\ everSent' = everSent /\ faulty' \in BOOLEAN
    BY <1>1 DEF outboxVars, sendHistory, IInv, TypeOK
  <1>6. pump' \in PumpRecords /\ PumpOK' /\ PassOrder' /\ Apart'
    <2>1. CASE c \notin acked /\ pump' = [pump EXCEPT !.at = "send"]
      <3>1. \A e \in Event : turn[e].at \in Claiming /\ turn[e].fresh => c \notin ReplyRows(e)
        BY <1>2, <1>3 DEF IInv, Apart
      <3> QED BY <1>1, <1>2, <1>3, <1>5, <2>1, <3>1, StageOn
    <2>2. CASE pump' = [pump EXCEPT !.at = "resend", !.todo = @ \ {c}, !.stopped = @ \cup {Target(c)}]
      BY <1>1, <1>3, <1>5, <2>2, PassOn
    <2> QED BY <1>4, <2>1, <2>2
  <1> QED BY <1>1, <1>5, <1>6, PumpStep

\* The resend: what the pass left behind on this target has been sent, so the
\* row does not overtake anything.
LEMMA PumpSendKeeps ==
    ASSUME IInv, PumpSend PROVE IInv'
  <1>1. /\ UNCHANGED <<storeVars, rows, acked, mode, turn, gate, fenced, posted, grants, faulty, torn, unheard, quiet>>
        /\ pump.at = "send"
    BY DEF PumpSend, outboxVars
  <1>2. Busy /\ pump.todo # {} /\ Target(Current) \notin pump.stopped
    BY <1>1 DEF IInv, PumpOK, Busy
  <1>3. PICK c \in pump.todo : c = Current /\ c \in Ids /\ Target(c) \in Thread
                               /\ pump.stopped \subseteq Thread
                               /\ pump.stopped \cup {Target(c)} \in SUBSET Thread
    BY <1>2, HeadIs
  <1>4. \/ Deliver(c) /\ pump' = [pump EXCEPT !.at = "ack"]
        \/ /\ SendFails(c)
           /\ pump' = [pump EXCEPT !.at = "resend", !.todo = @ \ {c}, !.stopped = @ \cup {Target(c)}]
    BY <1>3 DEF PumpSend, StopTarget
  <1>5. \A q \in Ids : q < c /\ Target(q) = Target(c) => q \in everSent
    <2>1. \A r \in pump.todo : c <= r
      BY <1>2, <1>3, CurrentIs DEF IInv
    <2>2. ASSUME NEW q \in Ids, q < c PROVE q \notin pump.todo
      <3>1. q \in Nat /\ c \in Nat
        BY <1>3, RowTypes DEF IInv
      <3> QED BY <2>1, <2>2, <3>1
    <2> QED BY <1>1, <1>2, <1>3, <2>2 DEF IInv, PassOrder
  <1>6. /\ everSent \subseteq everSent' /\ everSent' \subseteq Ids /\ sentNow \subseteq sentNow'
        /\ sentNow' \subseteq everSent' /\ lost' \subseteq Ids
        /\ SentInOrder' /\ acked \subseteq everSent'
        /\ Accept(c) => c \in everSent' /\ c \in sentNow'
    <2>1. UNCHANGED sendHistory \/ (Accept(c) /\ lost' \in {lost, lost \cup {c}})
      BY <1>4 DEF Deliver, SendFails
    <2> QED BY <1>1, <1>3, <1>5, <2>1, SentIs
  <1>7. pump' \in PumpRecords /\ PumpOK' /\ PassOrder' /\ Apart'
    <2>1. CASE Deliver(c) /\ pump' = [pump EXCEPT !.at = "ack"]
      <3>1. \A e \in Event : turn[e].at \in Claiming /\ turn[e].fresh => c \notin ReplyRows(e)
        BY <1>2, <1>3 DEF IInv, Apart
      <3>2. c \in sentNow'
        BY <1>6, <2>1 DEF Deliver
      <3> QED BY <1>1, <1>2, <1>3, <1>6, <2>1, <3>1, <3>2, StageOn
    <2>2. CASE pump' = [pump EXCEPT !.at = "resend", !.todo = @ \ {c}, !.stopped = @ \cup {Target(c)}]
      BY <1>1, <1>3, <1>6, <2>2, PassOn
    <2> QED BY <1>4, <2>1, <2>2
  <1>8. /\ RowsGrow /\ \A f \in Event : ReplyRows(f)' = ReplyRows(f)
        /\ status' = status
    BY <1>1, RowTypes DEF IInv, RowsGrow, ReplyRows, Ids, storeVars
  <1>9. \A f \in Event : EventOK(f)'
    BY <1>1, <1>6, <1>8, FrameEvent DEF IInv
  <1>10. StoreTypeOK' /\ faulty' \in BOOLEAN /\ turn' \in [Event -> Turns]
    BY <1>1 DEF IInv, TypeOK, StoreTypeOK, storeVars
  <1> QED BY <1>1, <1>6, <1>7, <1>9, <1>10, QuietStep

\* The ack of what the pump sent.
LEMMA PumpAckKeeps ==
    ASSUME IInv, PumpAck PROVE IInv'
  <1>1. /\ UNCHANGED <<mode, turn, gate, fenced, grants, everSent, sentNow, posted, torn, unheard, quiet>>
        /\ pump.at = "ack"
    BY DEF PumpAck
  <1>2. Busy /\ pump.todo # {} /\ Target(Current) \notin pump.stopped /\ Current \in sentNow
    BY <1>1 DEF IInv, PumpOK, Busy
  <1>3. PICK c \in pump.todo : c = Current /\ c \in Ids /\ Target(c) \in Thread
                               /\ pump.stopped \subseteq Thread
                               /\ pump.stopped \cup {Target(c)} \in SUBSET Thread
    BY <1>2, HeadIs
  <1>4. /\ c \in everSent /\ pump \in PumpRecords
        /\ \A e \in Event : turn[e].at \in Claiming /\ turn[e].fresh => c \notin ReplyRows(e)
    BY <1>2, <1>3 DEF IInv, TypeOK, Apart, PumpRecords, Ids
  <1>5. CASE AckDelivery(c) /\ UNCHANGED <<lost, faulty>> /\ pump' = [pump EXCEPT !.at = "resend", !.todo = @ \ {c}]
    <2>1. rows' = rows /\ acked' = acked \cup {c} /\ StoreTypeOK'
      BY <1>3, <1>5, AckIs
    <2>2. \A f \in Event : EventOK(f)'
      <3>1. \A f \in Event : c \in ReplyRows(f) => ~(turn[f].at = "composed" /\ turn[f].fresh)
        BY <1>4 DEF Claiming
      <3> QED BY <1>1, <1>3, <1>5, <3>1, AckEvents
    <2>3. pump' = [pump EXCEPT !.at = "resend", !.todo = @ \ {c}, !.stopped = pump.stopped]
      BY <1>4, <1>5 DEF PumpRecords
    <2>4. pump' \in PumpRecords /\ PumpOK' /\ PassOrder' /\ Apart'
      BY <1>1, <1>3, <1>4, <2>1, <2>3, PassOn
    <2>5. /\ acked \subseteq acked' /\ acked' \subseteq everSent' /\ everSent' \subseteq Ids
          /\ sentNow' \subseteq everSent' /\ lost' \subseteq Ids
          /\ faulty' \in BOOLEAN /\ turn' \in [Event -> Turns]
      BY <1>1, <1>4, <1>5, <2>1 DEF IInv, TypeOK, Ids
    <2>6. SentInOrder'
      BY <1>1, <2>1 DEF IInv, SentInOrder, Ids, Target
    <2> QED BY <1>1, <2>1, <2>2, <2>4, <2>5, <2>6, QuietStep
  <1>6. CASE /\ UNCHANGED <<storeVars, outboxVars>> /\ lost' \in {lost, lost \cup {c}}
             /\ faulty' \in {faulty, TRUE}
             /\ pump' = [pump EXCEPT !.at = "resend", !.todo = @ \ {c}, !.stopped = @ \cup {Target(c)}]
    <2>1. /\ rows' = rows /\ acked' = acked /\ status' = status /\ StoreTypeOK'
      BY <1>6 DEF outboxVars, storeVars, IInv, TypeOK, StoreTypeOK
    <2>2. RowsGrow /\ \A f \in Event : ReplyRows(f)' = ReplyRows(f)
      BY <2>1, RowTypes DEF IInv, RowsGrow, ReplyRows, Ids
    <2>3. \A f \in Event : EventOK(f)'
      BY <1>1, <2>1, <2>2, FrameEvent DEF IInv
    <2>4. pump' \in PumpRecords /\ PumpOK' /\ PassOrder' /\ Apart'
      BY <1>1, <1>3, <1>4, <1>6, <2>1, PassOn
    <2>5. /\ acked' \subseteq everSent' /\ everSent' \subseteq Ids
          /\ sentNow' \subseteq everSent' /\ lost' \subseteq Ids
          /\ faulty' \in BOOLEAN /\ turn' \in [Event -> Turns]
      BY <1>1, <1>3, <1>6, <2>1 DEF IInv, TypeOK, Ids
    <2>6. SentInOrder'
      BY <1>1, <2>1 DEF IInv, SentInOrder, Ids, Target
    <2> QED BY <1>1, <2>1, <2>3, <2>4, <2>5, <2>6, QuietStep
  <1> QED BY <1>3, <1>5, <1>6 DEF PumpAck, Skip, StopTarget


-----------------------------------------------------------------------------
(* The daemon's life, and the invariant.                                   *)

\* A step of the daemon leaves the tables alone.
LEMMA LifeKeeps ==
    ASSUME IInv, Crash \/ Boot \/ GoLive PROVE IInv'
  <1>1. /\ UNCHANGED <<rows, acked, status, unheard, posted, quiet, everSent, grants>>
        /\ UNCHANGED storeVars /\ torn' \in {torn, {}}
    BY DEF Crash, Boot, GoLive, outboxVars, storeVars, history, sendHistory
  <1>2. StoreTypeOK' /\ Ids' = Ids /\ \A q : Target(q)' = Target(q)
    BY <1>1 DEF IInv, TypeOK, StoreTypeOK, storeVars, Ids, Target
  <1>3. SentInOrder' /\ acked' \subseteq everSent'
    BY <1>1, <1>2 DEF IInv, SentInOrder
  <1>4. CASE Crash
    <2>1. /\ mode' = "down" /\ turn' = [f \in Event |-> Blank] /\ gate' = [t \in Thread |-> NoEvent]
          /\ fenced' = {} /\ pump' = Rest /\ sentNow' = {} /\ lost' = {} /\ faulty' = FALSE
      BY <1>4 DEF Crash
    <2>2. Blank \in Turns /\ turn' \in [Event -> Turns]
      BY <2>1, OutboxAssumption DEF Blank, Turns, Places
    <2>3. TypeOK'
      BY <1>1, <1>2, <2>1, <2>2 DEF IInv, TypeOK, Rest, PumpPlaces
    <2>4. ASSUME NEW f \in Event PROVE EventOK(f)'
      <3>1. /\ turn'[f].at = "none" /\ ~turn'[f].fresh /\ turn'[f].accepted = 0 /\ turn'[f].recorded = 0
        BY <2>1 DEF Blank
      <3>2. ReplyRows(f)' = ReplyRows(f) /\ Batch(f)'
        BY <1>1, BatchKept
      <3>3. Control(f)' /\ Fence(f)' /\ Sending(f)'
        BY <1>1, <3>1, Parts DEF Control, Fence, Sending, Owning, Claiming
      <3>4. Owed(f)'
        BY <1>1, <3>1, <3>2, Parts DEF EventOK, Owed, AllAcked, EventHasDeliveries
      <3> QED BY <3>2, <3>3, <3>4 DEF EventOK
    <2>5. SerialOK' /\ GateOK'
      BY <2>1 DEF SerialOK, GateOK
    <2>6. PumpOK' /\ PassOrder' /\ Apart'
      BY <2>1 DEF PumpOK, PassOrder, Apart, Busy, Rest
    <2>7. RelayNeverJumps'
      BY <2>1, OutboxAssumption DEF RelayNeverJumps, HasRelay
    <2> QED BY <1>3, <2>3, <2>4, <2>5, <2>6, <2>7 DEF IInv
  <1>5. CASE Boot \/ GoLive
    <2>1. /\ UNCHANGED <<turn, gate, fenced, pump, sentNow, lost, faulty>>
          /\ mode' \in {"boot", "up"} /\ mode \in {"down", "boot"}
      BY <1>5 DEF Boot, GoLive, history, sendHistory
    <2>2. \A f \in Event : turn[f].at = "none" \/ (mode' = "boot" /\ mode = "down")
      BY <1>5 DEF Boot, GoLive, At
    <2>3. \A f \in Event : turn[f].at = "none"
      BY <2>2, Parts DEF Control
    <2>4. TypeOK'
      BY <1>1, <1>2, <2>1 DEF IInv, TypeOK
    <2>5. ASSUME NEW f \in Event PROVE EventOK(f)'
      <3>1. ReplyRows(f)' = ReplyRows(f) /\ Batch(f)'
        BY <1>1, BatchKept
      <3>2. Control(f)' /\ Fence(f)' /\ Sending(f)'
        BY <1>1, <2>1, <2>3, Parts DEF Control, Fence, Sending, Owning, Claiming
      <3>3. Owed(f)'
        BY <1>1, <2>1, <3>1, Parts DEF EventOK, Owed, AllAcked, EventHasDeliveries
      <3> QED BY <3>1, <3>2, <3>3 DEF EventOK
    <2>6. SerialOK' /\ GateOK'
      BY <2>1, <2>3 DEF SerialOK, IInv, GateOK
    <2>7. pump.at = "idle"
      BY <2>1 DEF IInv, PumpOK
    <2>8. PumpOK' /\ PassOrder' /\ Apart'
      BY <2>1, <2>7 DEF PumpOK, PassOrder, Apart, Busy
    <2>9. RelayNeverJumps'
      <3>1. ResendableDeliveries' = ResendableDeliveries /\ \A f \in Event : ReplyRows(f)' = ReplyRows(f)
        BY <1>1, <1>2 DEF ResendableDeliveries, ReplyRows
      <3> QED BY <1>2, <2>1, <3>1 DEF IInv, RelayNeverJumps, HasRelay
    <2> QED BY <1>3, <2>4, <2>5, <2>6, <2>8, <2>9 DEF IInv
  <1> QED BY <1>4, <1>5

LEMMA InitIInv == Init => IInv
  <1> SUFFICES ASSUME Init PROVE IInv
    OBVIOUS
  <1>1. Blank \in Turns /\ turn = [f \in Event |-> Blank]
    BY OutboxAssumption DEF Init, Blank, Turns, Places
  <1>2. /\ rows = <<>> /\ Len(rows) = 0 /\ Ids = {} /\ \A f \in Event : ReplyRows(f) = {}
    BY DEF Init, Ids, ReplyRows
  <1>3. rows \in Seq([kind : RowKinds, ev : Event, n : Nat, gen : Nat, of : Nat])
    BY <1>2
  <1>4. StoreTypeOK /\ status = [f \in Event |-> "absent"]
    BY DEF Init, StoreInit, StoreTypeOK, Statuses, Resolutions, AttemptKinds
  <1>5. TypeOK
    BY <1>1, <1>3, <1>4 DEF Init, TypeOK, Rest, PumpPlaces
  <1>6. \A f \in Event : EventOK(f)
    BY <1>1, <1>2, <1>4
    DEF Init, EventOK, Control, Batch, Fence, Owed, Sending, Blank, Owning, Claiming
  <1>7. SerialOK /\ GateOK /\ PumpOK /\ PassOrder /\ Apart
    BY DEF Init, SerialOK, GateOK, PumpOK, PassOrder, Apart, Busy, Rest
  <1>8. acked \subseteq everSent /\ SentInOrder
    BY DEF Init, SentInOrder
  <1>9. RelayNeverJumps
    BY <1>2 DEF RelayNeverJumps, ResendableDeliveries
  <1> QED BY <1>5, <1>6, <1>7, <1>8, <1>9 DEF IInv

\* Nothing moves in a stuttering step.
LEMMA StutterKeeps ==
    ASSUME IInv, UNCHANGED vars PROVE IInv'
  <1>1. /\ UNCHANGED <<storeVars, outboxVars, mode, turn, gate, fenced, posted, grants, sendHistory, torn, unheard, quiet>>
        /\ pump' = pump /\ faulty' = faulty /\ rows' = rows /\ acked' = acked /\ everSent' = everSent
        /\ sentNow' = sentNow
    BY DEF vars, ramVars, history, outboxVars, sendHistory
  <1>2. pump' \in PumpRecords /\ faulty' \in BOOLEAN
    BY <1>1 DEF IInv, TypeOK, PumpRecords, Ids
  <1>3. /\ Busy' = Busy /\ Current' = Current /\ Ids' = Ids /\ \A q : Target(q)' = Target(q)
        /\ \A f \in Event : ReplyRows(f)' = ReplyRows(f)
    BY <1>1 DEF Busy, Current, Ids, Target, ReplyRows
  <1>4. PumpOK' /\ PassOrder' /\ Apart'
    BY <1>1, <1>3 DEF IInv, PumpOK, PassOrder, Apart
  <1> QED BY <1>1, <1>2, <1>4, PumpStep

\* Every step keeps the invariant.
LEMMA NextIInv ==
    ASSUME IInv, [Next]_vars PROVE IInv'
  <1>1. ASSUME NEW e \in Event, Handler(e) PROVE IInv'
    BY <1>1, SettleKeeps, RunKeeps, NotifyKeeps, LeaveKeeps, ClaimKeeps, ComposeKeeps,
       CompleteKeeps, SendChunkKeeps, AckChunkKeeps DEF Handler
  <1>2. ASSUME Pump PROVE IInv'
    BY <1>2, ScanKeeps, SurfaceKeeps, PickKeeps, StampKeeps, PumpSendKeeps, PumpAckKeeps DEF Pump
  <1>3. ASSUME NEW e \in Event,
               \/ Receive(e) \/ Start(e) \/ Panic(e) \/ HumanRetry(e) \/ HumanDiscard(e) \/ BootPark(e)
        PROVE  IInv'
    BY <1>3, OutsideKeeps, StartKeeps, LeaveKeeps
  <1> QED BY <1>1, <1>2, <1>3, LifeKeeps, StutterKeeps DEF Next

\* The inductive invariant of the outbox holds in every reachable state of
\* every instance.
THEOREM Invariance == Spec => []IInv
  <1>1. IInv /\ [Next]_vars => IInv'
    BY NextIInv
  <1> QED BY InitIInv, <1>1, PTL DEF Spec

-----------------------------------------------------------------------------
(* What it says of the replies.                                            *)

\* The tables and the registers of productionTurn and of the pump keep their
\* types.
THEOREM TypeCorrect == Spec => []TypeOK
  <1>1. IInv => TypeOK
    BY DEF IInv
  <1> QED BY <1>1, Invariance, PTL

\* A batch of consecutive rows is a whole reply.
LEMMA BatchIsWhole ==
    ASSUME IInv, NEW e \in Event, ReplyRows(e) # {}
    PROVE  /\ \A q, r \in ReplyRows(e) : rows[q].gen = rows[r].gen
           /\ {rows[r].n : r \in ReplyRows(e)} = 0..Cardinality(ReplyRows(e)) - 1
           /\ \A r \in ReplyRows(e) : rows[r].of = Cardinality(ReplyRows(e))
  <1>1. Batch(e) /\ TypeOK
    BY Parts DEF EventOK
  <1>2. PICK r \in ReplyRows(e) : TRUE
    OBVIOUS
  <1>3. PICK k, s : k = rows[r].of /\ s = r - rows[r].n
    OBVIOUS
  <1>4. k \in Nat /\ k >= 1 /\ s \in Int /\ MaxChunks \in Nat
    BY <1>1, <1>2, <1>3, RowTypes, OutboxAssumption DEF Batch
  <1>5. \A q \in ReplyRows(e) : /\ rows[q].of = k /\ rows[q].gen = rows[r].gen /\ q - rows[q].n = s
                                /\ rows[q].n \in Nat /\ q \in Nat /\ rows[q].n < k
    BY <1>1, <1>2, <1>3, RowTypes DEF Batch
  <1>6. \A i \in 0..k - 1 : s + i \in ReplyRows(e) /\ rows[s + i].n = i
    BY <1>1, <1>2, <1>3 DEF Batch
  <1>7. ReplyRows(e) = s..s + k - 1
    <2>1. ASSUME NEW q \in ReplyRows(e) PROVE q \in s..s + k - 1
      BY <1>4, <1>5
    <2>2. ASSUME NEW q \in s..s + k - 1 PROVE q \in ReplyRows(e)
      <3>1. q - s \in 0..k - 1 /\ s + (q - s) = q
        BY <1>4
      <3> QED BY <1>6, <3>1
    <2> QED BY <2>1, <2>2
  <1>8. Cardinality(ReplyRows(e)) = k
    <2>1. Cardinality(s..s + k - 1) = k
      BY <1>4, FS_Interval
    <2> QED BY <1>7, <2>1
  <1>9. {rows[q].n : q \in ReplyRows(e)} = 0..k - 1
    <2>1. ASSUME NEW q \in ReplyRows(e) PROVE rows[q].n \in 0..k - 1
      BY <1>4, <1>5
    <2>2. ASSUME NEW i \in 0..k - 1 PROVE i \in {rows[q].n : q \in ReplyRows(e)}
      BY <1>6
    <2> QED BY <2>1, <2>2
  <1> QED BY <1>5, <1>8, <1>9

\* A reply is never called delivered before every chunk of it was accepted and
\* acked, and the rows of an event are the whole reply of one run: finishTurn,
\* InsertDeliveries and AckDelivery together, across crashes and reruns.
THEOREM WholeReplies == Spec => []DeliveredWhole
  <1>1. ASSUME IInv PROVE DeliveredWhole
    <2>1. RepliedIsDelivered
      <3> SUFFICES ASSUME NEW e \in Event, status[e] = "replied"
                   PROVE  ReplyRows(e) # {} /\ ReplyRows(e) \subseteq acked \cap everSent
        BY DEF RepliedIsDelivered
      <3>1. ReplyRows(e) # {} /\ ReplyRows(e) \subseteq acked
        BY <1>1, Parts DEF EventOK, Owed
      <3> QED BY <1>1, <3>1 DEF IInv
    <2>2. WholeReply
      BY <1>1, BatchIsWhole DEF WholeReply
    <2> QED BY <2>1, <2>2 DEF DeliveredWhole
  <1> QED BY <1>1, Invariance, PTL

\* No event rests at 'completed' with all its acks recorded, but for a rerun
\* without text: an ack that came before the stamp is reconciled by it.
THEOREM CompletedIsOwed == Spec => []CompletedIsOwedUnlessQuiet
  <1>1. ASSUME IInv PROVE CompletedIsOwedUnlessQuiet
    BY <1>1, Parts DEF CompletedIsOwedUnlessQuiet, EventOK, Owed
  <1> QED BY <1>1, Invariance, PTL

\* Pump, relay and notices together keep the order of every target: a row is
\* sent only after all that was composed before it for the same target.
THEOREM TargetsInOrder == Spec => []SentInOrder
  <1>1. IInv => SentInOrder
    BY DEF IInv
  <1> QED BY <1>1, Invariance, PTL

\* While a turn holds its gate nothing but its own reply is owed to its
\* thread, so what it streams is the newest message there.
THEOREM PartialsNeverJump == Spec => []RelayNeverJumps
  <1>1. IInv => RelayNeverJumps
    BY DEF IInv
  <1> QED BY <1>1, Invariance, PTL


-----------------------------------------------------------------------------
(* Until a human has it run again, an event shows text of one run.         *)

\* A partial that its relay knows of is the last run's, as is any reply
\* composed since; and a turn that may stream has no reply yet.
Seen(e) ==
    /\ \A g \in Nat : <<e, g>> \in posted =>
         g = Generation(e) /\ \A r \in ReplyRows(e) : rows[r].gen = g
    /\ turn[e].at = "run" /\ gate[ThreadOf[e]] = e => ReplyRows(e) = {}

\* A step that leaves the runs of an event alone, and adds no reply to it.
LEMMA SeenFrame ==
    ASSUME IInv, RowsGrow, NEW e \in Event, Seen(e), ReplyRows(e)' = ReplyRows(e),
           \A g \in Nat : <<e, g>> \in posted' => <<e, g>> \in posted /\ Generation(e)' = Generation(e),
           turn'[e].at = "run" /\ gate'[ThreadOf[e]] = e =>
               ReplyRows(e) = {} \/ (turn[e].at = "run" /\ gate[ThreadOf[e]] = e)
    PROVE  Seen(e)'
  <1>1. \A r \in ReplyRows(e) : rows'[r] = rows[r]
    BY RowTypes DEF IInv, RowsGrow
  <1> QED BY <1>1 DEF Seen

\* No turn comes to run under its gate in a step that starts none.
RunsKept ==
    \A f \in Event : turn'[f].at = "run" /\ gate'[ThreadOf[f]] = f
                     => turn[f].at = "run" /\ gate[ThreadOf[f]] = f

\* Such a step, when it also leaves the runs of all events alone.
LEMMA SeenKept ==
    ASSUME IInv, \A f \in Event : Seen(f), RowsGrow, \A f \in Event : ReplyRows(f)' = ReplyRows(f),
           UNCHANGED <<posted, attempts, grants>>, RunsKept
    PROVE  \A f \in Event : Seen(f)'
  <1> SUFFICES ASSUME NEW f \in Event PROVE Seen(f)'
    OBVIOUS
  <1>1. Generation(f)' = Generation(f)
    BY DEF Generation
  <1> QED BY <1>1, SeenFrame DEF RunsKept

\* Where a handler goes when it does not go to run.
LEMMA RunsLeft ==
    ASSUME IInv, NEW e \in Event, gate' = gate \/ FreeGate(e),
           turn' = turn \/ EndTurn(e) \/ \E p \in Places \ {"run"} : Goto(e, p)
    PROVE  RunsKept
  <1> SUFFICES ASSUME NEW f \in Event, turn'[f].at = "run", gate'[ThreadOf[f]] = f
               PROVE  turn[f].at = "run" /\ gate[ThreadOf[f]] = f
    BY DEF RunsKept
  <1>1. turn[f].at = "run"
    <2>1. CASE turn' = turn
      BY <2>1
    <2>2. CASE EndTurn(e)
      BY <2>2, Parts, EndIs
    <2>3. CASE \E p \in Places \ {"run"} : Goto(e, p)
      BY <2>3, Parts, GotoIs
    <2> QED BY <2>1, <2>2, <2>3
  <1>2. gate[ThreadOf[f]] = f
    <2>1. f # NoEvent /\ ThreadOf[f] \in Thread
      BY OutboxAssumption
    <2> QED BY <2>1, Parts, FreeIs
  <1> QED BY <1>1, <1>2

\* The retry budget is spent by the automatic requeue alone.
LEMMA AttemptsKept ==
    ASSUME NEW e \in Event,
           \/ InsertEvent(e) \/ MarkEventProcessing(e) \/ MarkEventCompleted(e)
           \/ (\E b \in BOOLEAN : MarkEventCompletedReconciled(e, b))
           \/ AdvanceToReplied(e) \/ SkipEvent(e) \/ ParkEvent(e) \/ RequeueInterruptedEvent(e)
           \/ DeadLetterEvent(e) \/ ResolveDeadLetterRequeue(e)
           \/ ResolveDeadLetterDiscard(e) \/ UNCHANGED storeVars
    PROVE  attempts' = attempts
  BY DEF InsertEvent, MarkEventProcessing, MarkEventCompleted, MarkEventCompletedReconciled,
         AdvanceToReplied, SkipEvent, ParkEvent, RequeueInterruptedEvent, DeadLetterEvent,
         ResolveDeadLetterRequeue, ResolveDeadLetterDiscard, Move, storeVars

\* The steps of a handler, and of the world outside, that leave rows, partials
\* and budget alone.
LEMMA SeenStill ==
    ASSUME IInv, \A f \in Event : Seen(f), NEW e \in Event,
           \/ Receive(e) \/ Start(e) \/ TurnFails(e) \/ RefuseEvent(e) \/ ParkUnsent(e)
           \/ FinishEmpty(e) \/ Claim(e) \/ ComposeFails(e) \/ Complete(e) \/ CompleteFails(e)
           \/ SendChunk(e) \/ AckChunk(e) \/ Return(e) \/ Panic(e) \/ PanicPark(e)
           \/ HumanDiscard(e) \/ BootPark(e)
           \/ (Recover(e) /\ ~RequeueEventForRetry(e))
    PROVE  \A f \in Event : Seen(f)'
  <1>1. rows' = rows /\ posted' = posted /\ grants' = grants
    BY DEF Receive, Start, TurnFails, RefuseEvent, ParkUnsent, FinishEmpty, Claim, ComposeFails,
           Complete, CompleteFails, SendChunk, AckChunk, Return, Panic, PanicPark, HumanDiscard,
           BootPark, Recover, AckDelivery, outboxVars, ramVars, history
  <1>2. RowsGrow /\ \A f \in Event : ReplyRows(f)' = ReplyRows(f)
    BY <1>1, RowTypes DEF IInv, RowsGrow, ReplyRows, Ids
  <1>3. attempts' = attempts
    <2>1. CASE Complete(e)
      <3>1. AllAcked(e) \in BOOLEAN
        BY DEF AllAcked
      <3> QED BY <2>1, <3>1, AttemptsKept DEF Complete
    <2>2. CASE AckChunk(e)
      <3>1. PICK r : AckDelivery(r) \/ UNCHANGED storeVars
        BY <2>2 DEF AckChunk
      <3> QED BY <3>1 DEF AckDelivery, AdvanceToReplied, Move, storeVars
    <2>3. CASE Receive(e) \/ Start(e) \/ RefuseEvent(e) \/ ParkUnsent(e) \/ FinishEmpty(e)
               \/ PanicPark(e) \/ HumanDiscard(e) \/ BootPark(e) \/ (Recover(e) /\ ~RequeueEventForRetry(e))
      BY <2>3, AttemptsKept
      DEF Receive, Start, RefuseEvent, ParkUnsent, FinishEmpty, PanicPark, HumanDiscard, BootPark,
          Recover, GiveUp
    <2>4. CASE TurnFails(e) \/ Claim(e) \/ ComposeFails(e) \/ CompleteFails(e) \/ SendChunk(e)
               \/ Return(e) \/ Panic(e)
      BY <2>4 DEF TurnFails, Claim, ComposeFails, CompleteFails, SendChunk, Return, Panic, storeVars
    <2> QED BY <2>1, <2>2, <2>3, <2>4
  <1>4. RunsKept
    <2>1. CASE Claim(e) \/ SendChunk(e) \/ AckChunk(e)
      <3>1. gate' = gate /\ \A f \in Event : turn'[f].at = "run" => turn[f].at = "run"
        <4>1. turn \in [Event -> Turns] /\ turn[e] \in Turns
          BY DEF IInv, TypeOK
        <4>2. CASE Claim(e)
          BY <4>1, <4>2 DEF Claim, Turns
        <4>3. CASE AckChunk(e)
          BY <4>1, <4>3 DEF AckChunk, Turns
        <4>4. CASE SendChunk(e)
          <5>1. CASE Goto(e, "ack")
            BY <4>4, <5>1, Parts, GotoIs DEF SendChunk, Places
          <5>2. CASE turn' = [turn EXCEPT ![e].accepted = @ + 1,
                        ![e].at = IF turn[e].accepted + 1 = turn[e].size THEN "ack" ELSE "send"]
            <6>1. PICK p, a : /\ p = IF turn[e].accepted + 1 = turn[e].size THEN "ack" ELSE "send"
                              /\ a = turn[e].accepted + 1
              OBVIOUS
            <6>2. turn' = [turn EXCEPT ![e] = [@ EXCEPT !.accepted = a, !.at = p]]
              BY <4>1, <5>2, <6>1
            <6>3. turn'[e].at = p /\ \A f \in Event : f # e => turn'[f] = turn[f]
              BY <4>1, <6>2 DEF Turns
            <6> QED BY <4>4, <6>1, <6>3 DEF SendChunk
          <5> QED BY <4>4, <5>1, <5>2 DEF SendChunk
        <4> QED BY <2>1, <4>2, <4>3, <4>4
      <3> QED BY <3>1 DEF RunsKept
    <2>2. CASE ~(Claim(e) \/ SendChunk(e) \/ AckChunk(e))
      <3>1. gate' = gate \/ FreeGate(e)
        BY <2>2
        DEF Receive, Start, TurnFails, RefuseEvent, ParkUnsent, FinishEmpty, ComposeFails, Complete,
            CompleteFails, Return, Panic, PanicPark, HumanDiscard, BootPark, Recover, ramVars
      <3>2. \/ turn' = turn \/ EndTurn(e) \/ Goto(e, "start") \/ Goto(e, "failed") \/ Goto(e, "notice")
            \/ Goto(e, "unsent") \/ Goto(e, "send") \/ Goto(e, "unwound") \/ Goto(e, "reparked")
        BY <2>2
        DEF Receive, Start, TurnFails, RefuseEvent, ParkUnsent, FinishEmpty, ComposeFails, Complete,
            CompleteFails, Return, Panic, PanicPark, HumanDiscard, BootPark, Recover, GiveUp, ramVars
      <3>3. turn' = turn \/ EndTurn(e) \/ \E p \in Places \ {"run"} : Goto(e, p)
        BY <3>2 DEF Places
      <3> QED BY <3>1, <3>3, RunsLeft
    <2> QED BY <2>1, <2>2
  <1> QED BY <1>1, <1>2, <1>3, <1>4, SeenKept

\* The notices, the pump and the daemon.
LEMMA SeenElsewhere ==
    ASSUME IInv, \A f \in Event : Seen(f),
           \/ \E e \in Event : Notify(e)
           \/ Pump \/ Crash \/ Boot \/ GoLive \/ UNCHANGED vars
    PROVE  \A f \in Event : Seen(f)'
  <1>1. ASSUME NEW e \in Event, Notify(e) PROVE \A f \in Event : Seen(f)'
    <2>1. /\ EndTurn(e) /\ UNCHANGED <<posted, grants, attempts, gate>>
          /\ SurfaceDeadLetter(e) \/ SurfaceInterrupted(e) \/ UNCHANGED rows
      BY <1>1 DEF Notify, storeVars, history
    <2>2. RowsGrow /\ \A f \in Event : ReplyRows(f)' = ReplyRows(f)
      BY <2>1, NoticeIs, OutboxAssumption DEF IInv
    <2>3. RunsKept
      BY <2>1, RunsLeft
    <2> QED BY <2>1, <2>2, <2>3, SeenKept
  <1>2. CASE PumpSurface
    <2>1. PICK e \in pump.sweep : SurfaceDeadLetter(e) \/ SurfaceInterrupted(e) \/ UNCHANGED rows
      BY <1>2 DEF PumpSurface
    <2>2. UNCHANGED <<posted, grants, attempts, gate, turn>>
      BY <1>2 DEF PumpSurface, storeVars, history
    <2>3. e \in Event
      BY <2>1 DEF IInv, TypeOK
    <2>4. RowsGrow /\ \A f \in Event : ReplyRows(f)' = ReplyRows(f)
      BY <2>1, <2>3, NoticeIs, OutboxAssumption DEF IInv
    <2>5. RunsKept
      BY <2>2 DEF RunsKept
    <2> QED BY <2>2, <2>4, <2>5, SeenKept
  <1>3. CASE PumpStart \/ PumpScan \/ PumpPick \/ PumpStamp \/ PumpSend \/ PumpAck \/ PumpEnd
             \/ Crash \/ Boot \/ GoLive \/ UNCHANGED vars
    <2>1. UNCHANGED <<rows, posted, grants>>
      BY <1>3 DEF PumpStart, PumpScan, PumpPick, PumpStamp, PumpSend, PumpAck, PumpEnd, Crash, Boot,
                  GoLive, AckDelivery, outboxVars, ramVars, history, vars
    <2>2. attempts' = attempts
      <3>1. CASE PumpAck
        BY <3>1 DEF PumpAck, AckDelivery, AdvanceToReplied, Move, storeVars
      <3>2. CASE ~PumpAck
        BY <1>3, <3>2 DEF PumpStart, PumpScan, PumpPick, PumpStamp, PumpSend, PumpEnd, Crash, Boot,
                          GoLive, storeVars, vars
      <3> QED BY <3>1, <3>2
    <2>3. RunsKept
      <3>1. CASE Crash
        BY <3>1 DEF Crash, Blank, RunsKept
      <3>2. CASE ~Crash
        BY <1>3, <3>2 DEF PumpStart, PumpScan, PumpPick, PumpStamp, PumpSend, PumpAck, PumpEnd, Boot,
                          GoLive, ramVars, vars, RunsKept
      <3> QED BY <3>1, <3>2
    <2>4. RowsGrow /\ \A f \in Event : ReplyRows(f)' = ReplyRows(f)
      BY <2>1, RowTypes DEF IInv, RowsGrow, ReplyRows, Ids
    <2> QED BY <2>1, <2>2, <2>3, <2>4, SeenKept
  <1> QED BY <1>1, <1>2, <1>3 DEF Pump

\* The gate, the partials, the automatic retry and the human's.
LEMMA SeenRun ==
    ASSUME IInv, \A f \in Event : Seen(f), NEW e \in Event,
           \/ AcquireTarget(e) \/ Push(e) \/ HumanRetry(e) \/ (Recover(e) /\ RequeueEventForRetry(e))
    PROVE  \A f \in Event : Seen(f)'
  <1> SUFFICES ASSUME NEW f \in Event PROVE Seen(f)'
    OBVIOUS
  <1>1. rows' = rows
    BY DEF AcquireTarget, Push, HumanRetry, Recover, outboxVars
  <1>2. RowsGrow /\ ReplyRows(f)' = ReplyRows(f)
    BY <1>1, RowTypes DEF IInv, RowsGrow, ReplyRows, Ids
  <1>3. Seen(f) /\ Seen(e) /\ Generation(e) \in Nat
    BY DEF IInv, TypeOK, StoreTypeOK, Generation
  <1>4. CASE AcquireTarget(e)
    <2>1. Generation(f)' = Generation(f) /\ posted' = posted
      BY <1>4 DEF AcquireTarget, Generation, storeVars, history
    <2>2. turn'[e].at = "run" /\ \A g \in Event : g # e => turn'[g] = turn[g]
      BY <1>4, Parts, GotoIs DEF AcquireTarget, Places
    <2>3. gate'[ThreadOf[f]] = f => gate[ThreadOf[f]] = f \/ (f = e /\ ReplyRows(e) = {})
      BY <1>4, OutboxAssumption DEF AcquireTarget, EventHasDeliveries, IInv, TypeOK
    <2>4. gate[ThreadOf[e]] # e
      BY <1>4, OutboxAssumption DEF AcquireTarget, GateFree
    <2> QED BY <1>2, <1>3, <2>1, <2>2, <2>3, <2>4, SeenFrame
  <1>5. CASE Push(e)
    <2>1. /\ Generation(f)' = Generation(f) /\ Generation(e)' = Generation(e) /\ turn' = turn /\ gate' = gate
          /\ posted' \in {posted, posted \cup {<<e, Generation(e)>>}}
      BY <1>5 DEF Push, Generation, storeVars
    <2>2. ReplyRows(e) = {}
      BY <1>3, <1>5 DEF Push, At, HasRelay, Seen
    <2>3. CASE f = e
      BY <1>2, <1>3, <2>1, <2>2, <2>3 DEF Seen
    <2>4. CASE f # e
      BY <1>2, <1>3, <2>1, <2>4, SeenFrame
    <2> QED BY <2>3, <2>4
  <1>6. CASE HumanRetry(e)
    <2>1. turn' = turn /\ gate' = gate /\ posted' = {run \in posted : run[1] # e}
      BY <1>6 DEF HumanRetry
    <2>2. f # e => Generation(f)' = Generation(f)
      <3>1. grants \in [Event -> Nat] /\ grants' = [grants EXCEPT ![e] = @ + 1] /\ attempts' = attempts
        BY <1>6, AttemptsKept DEF HumanRetry, IInv, TypeOK
      <3> QED BY <3>1 DEF Generation
    <2> QED BY <1>2, <1>3, <2>1, <2>2, SeenFrame
  <1>7. CASE Recover(e) /\ RequeueEventForRetry(e)
    <2>1. /\ gate' = gate /\ posted' = posted /\ grants' = grants
          /\ EndTurn(e) \/ Goto(e, "notice")
          /\ attempts' = [attempts EXCEPT ![e] = @ + 1] /\ attempts \in [Event -> Nat]
      BY <1>7, Parts DEF Recover, RequeueEventForRetry, GiveUp, StoreTypeOK
    <2>2. <<e, Generation(e)>> \notin posted
      <3>1. status[e] = "processing" /\ status'[e] = "received"
        BY <1>7, Parts, StoreMoves
      <3>2. ~ParkEvent(e) /\ ~DeadLetterEvent(e) /\ ~UNCHANGED storeVars
        BY <3>1, Parts, StoreMoves
      <3> QED BY <1>7, <3>2 DEF Recover, GiveUp
    <2>3. RunsKept
      <3>1. EndTurn(e) \/ \E p \in Places \ {"run"} : Goto(e, p)
        BY <2>1 DEF Places
      <3> QED BY <2>1, <3>1, RunsLeft
    <2>4. f # e => Generation(f)' = Generation(f)
      BY <2>1 DEF Generation
    <2>5. \A g \in Nat : <<e, g>> \notin posted
      BY <1>3, <2>2 DEF Seen
    <2> QED BY <1>2, <1>3, <2>1, <2>3, <2>4, <2>5, SeenFrame DEF RunsKept
  <1> QED BY <1>4, <1>5, <1>6, <1>7

\* The compose: a fresh batch is the run's that may have posted.
LEMMA SeenComposed ==
    ASSUME IInv, \A f \in Event : Seen(f), NEW e \in Event, Compose(e)
    PROVE  \A f \in Event : Seen(f)'
  <1>1. /\ turn[e].at = "claimed" /\ gate' = gate /\ UNCHANGED <<posted, grants, attempts>>
    BY DEF Compose, At, storeVars, history
  <1>2. /\ turn \in [Event -> Turns] /\ turn[e] \in Turns /\ turn[e].size \in 1..MaxChunks
    <2>1. turn[e].size >= 1
      BY <1>1, Parts DEF EventOK, Fence, Claiming
    <2> QED BY <2>1, Parts, OutboxAssumption DEF TypeOK
  <1>3. turn'[e].at = "composed" /\ \A f \in Event : f # e => turn'[f] = turn[f]
    BY <1>2, Parts, GotoIs DEF Compose, Places, Turns
  <1>4. RunsKept
    BY <1>1, <1>3 DEF RunsKept
  <1>5. CASE Duplicate(e, turn[e].size)
    <2>1. rows' = rows
      BY <1>5 DEF Compose
    <2>2. RowsGrow /\ \A f \in Event : ReplyRows(f)' = ReplyRows(f)
      BY <2>1, RowTypes DEF IInv, RowsGrow, ReplyRows, Ids
    <2> QED BY <1>1, <1>4, <2>2, SeenKept
  <1>6. CASE ~Duplicate(e, turn[e].size)
    <2>1. ReplyRows(e) = {}
      <3> SUFFICES ASSUME NEW r \in ReplyRows(e) PROVE FALSE
        OBVIOUS
      <3>1. rows[r].of \in 1..MaxChunks /\ rows[r].of \in Nat
        BY Parts, RowTypes DEF EventOK, Batch
      <3>2. RowOf(e, 0) \in ReplyRows(e) /\ rows[RowOf(e, 0)].n = 0
        BY <3>1, RowOfIs, Parts DEF EventOK
      <3> QED BY <1>2, <1>6, <3>2 DEF Duplicate
    <2>2. /\ RowsGrow /\ (\A r \in ReplyRows(e)' : rows'[r].gen = Generation(e))
          /\ \A f \in Event : f # e => ReplyRows(f)' = ReplyRows(f)
      BY <1>2, <1>6, <2>1, Parts, BatchIs DEF Compose
    <2>3. \A f \in Event : Generation(f)' = Generation(f)
      BY <1>1 DEF Generation
    <2>4. Seen(e)'
      BY <1>1, <1>3, <2>2, <2>3 DEF Seen
    <2>5. ASSUME NEW f \in Event, f # e PROVE Seen(f)'
      BY <1>1, <1>3, <2>2, <2>3, <2>5, SeenFrame
    <2> QED BY <2>4, <2>5
  <1> QED BY <1>5, <1>6

\* The text of all runs but the unheard is of one run.
LEMMA AnswersCounted ==
    ASSUME IInv, NEW e \in Event, Seen(e)
    PROVE  Cardinality(Answers(e)) <= 1 + Cardinality(Unheard(e))
  <1> DEFINE U == Unheard(e)
             H == {g \in 0..Generation(e) : <<e, g>> \in posted}
                    \cup {rows[r].gen : r \in ReplyRows(e) \cap everSent}
  <1>1. Answers(e) = H \cup U
    BY DEF Answers
  <1>2. Generation(e) \in Nat /\ U \subseteq 0..Generation(e)
    BY DEF IInv, TypeOK, StoreTypeOK, Generation, Unheard
  <1>3. IsFiniteSet(U) /\ Cardinality(U) \in Nat
    <2>1. IsFiniteSet(0..Generation(e))
      BY <1>2, FS_Interval
    <2>2. IsFiniteSet(U)
      BY <1>2, <2>1, FS_Subset
    <2> QED BY <2>2, FS_CardinalityType
  <1>4. \A g, h \in H : g = h
    BY <1>2, Parts DEF Seen, EventOK, Batch
  <1>5. CASE H = {}
    <2>1. Answers(e) = U
      BY <1>1, <1>5
    <2> QED BY <1>3, <2>1
  <1>6. CASE H # {}
    <2>1. PICK h : h \in H
      BY <1>6
    <2>2. Answers(e) = U \cup {h}
      BY <1>1, <1>4, <2>1
    <2>3. Cardinality(U \cup {h}) = IF h \in U THEN Cardinality(U) ELSE Cardinality(U) + 1
      BY <1>3, FS_AddElement
    <2> QED BY <1>3, <2>2, <2>3
  <1> QED BY <1>5, <1>6

\* Until a human has it run again, an event shows text of one run: a run whose
\* partial its relay knows of is neither requeued automatically nor followed
\* by another run's reply.  A run that showed text unheard adds one of its own.
THEOREM NoSecondAnswers == Spec => []AnswersAreLicensed
  <1> DEFINE AllSeen == \A f \in Event : Seen(f)
  <1>1. Init => AllSeen
    <2>1. ASSUME Init, NEW f \in Event PROVE Seen(f)
      <3>1. turn[f].at = "none" /\ posted = {}
        BY <2>1 DEF Init, Blank
      <3> QED BY <3>1 DEF Seen
    <2> QED BY <2>1
  <1>2. IInv /\ AllSeen /\ [Next]_vars => AllSeen'
    <2> SUFFICES ASSUME IInv, \A f \in Event : Seen(f), [Next]_vars
                 PROVE  \A f \in Event : Seen(f)'
      OBVIOUS
    <2>1. ASSUME NEW e \in Event, Handler(e) PROVE \A f \in Event : Seen(f)'
      BY <2>1, SeenStill, SeenElsewhere, SeenRun, SeenComposed DEF Handler
    <2>2. ASSUME NEW e \in Event,
                 \/ Receive(e) \/ Start(e) \/ Panic(e) \/ HumanRetry(e) \/ HumanDiscard(e) \/ BootPark(e)
          PROVE  \A f \in Event : Seen(f)'
      BY <2>2, SeenStill, SeenRun
    <2> QED BY <2>1, <2>2, SeenElsewhere DEF Next
  <1>3. IInv /\ AllSeen => AnswersAreLicensed
    BY AnswersCounted DEF AnswersAreLicensed
  <1>4. IInv /\ [Next]_vars => IInv'
    BY NextIInv
  <1> QED BY InitIInv, <1>1, <1>2, <1>3, <1>4, PTL DEF Spec

-----------------------------------------------------------------------------
(* One life sends a row once.                                              *)

\* Without a human's retry an event with a reply is not run again; unless a
\* panic freed them, its rows are fenced until the completion stamp, so the
\* pump never holds one of them whose ack would be refused.
Rerun(e) ==
    ReplyRows(e) # {} /\ grants[e] = 0 =>
        /\ status[e] \notin {"absent", "received"}
        /\ turn[e].at \notin {"start", "run", "claimed", "failed", "unsent"}
        /\ turn[e].at = "composed" => turn[e].fresh
        /\ turn[e].at \in {"notice", "reparked"} => status[e] # "processing"
        /\ e \notin torn /\ mode = "up" /\ status[e] = "processing" =>
             \A r \in ReplyRows(e) : <<e, rows[r].n>> \in fenced
        /\ e \notin torn /\ Busy /\ Current \in ReplyRows(e) => status[e] # "processing"

\* What a fresh batch has not sent yet, nobody has.
Unsent(e) ==
    \A r \in ReplyRows(e) :
        /\ turn[e].at = "composed" /\ turn[e].fresh => r \notin sentNow
        /\ turn[e].at = "send" /\ rows[r].n >= turn[e].accepted => r \notin sentNow

\* The live handler of e took row r and has still to record it.
Window(e, r) ==
    /\ turn[e].at \in {"send", "ack"}
    /\ turn[e].recorded <= rows[r].n /\ rows[r].n < turn[e].accepted

\* The code's two ways to a second send: a human had the event run again, or
\* its handler panicked between its compose and its completion stamp.
Excused(e) == grants[e] > 0 \/ e \in torn

\* A row sent in this life is acked, lost, about to be acked, or excused.
Settled(r) ==
    \/ r \in lost \cup acked
    \/ pump.at = "ack" /\ r = Current
    \/ \E e \in Event : r \in ReplyRows(e) /\ (Excused(e) \/ Window(e, r))

Once ==
    /\ \A e \in Event : Rerun(e) /\ Unsent(e)
    /\ \A r \in sentNow : Settled(r)

\* A step of one event's handler, or of the human on one event, that neither
\* sends nor composes.
LEMMA OwnStep ==
    ASSUME IInv, Once, IInv', NEW e \in Event,
           UNCHANGED <<rows, sentNow, pump, mode>>, acked \subseteq acked', lost \subseteq lost',
           \A f \in Event : grants'[f] >= grants[f],
           \A f \in Event : f \in torn => f \in torn' \/ grants'[f] > 0,
           \A f \in Event : f # e => turn'[f] = turn[f] /\ status'[f] = status[f],
           \A f \in Event : \A i \in Nat : f # e /\ <<f, i>> \in fenced => <<f, i>> \in fenced',
           Rerun(e)', Unsent(e)',
           \A r \in ReplyRows(e) : Window(e, r) => r \in lost' \cup acked' \/ Window(e, r)'
    PROVE  Once'
  <1>1. /\ RowsGrow /\ (\A f \in Event : ReplyRows(f)' = ReplyRows(f))
        /\ Busy' = Busy /\ Current' = Current
    BY RowTypes DEF IInv, RowsGrow, ReplyRows, Ids, Busy, Current
  <1>2. grants \in [Event -> Nat] /\ grants' \in [Event -> Nat]
    BY DEF IInv, TypeOK
  <1>3. \A f \in Event : \A r \in ReplyRows(f) : rows[r].n \in Nat
    BY RowTypes DEF IInv
  <1>4. ASSUME NEW f \in Event, f # e PROVE Rerun(f)'
    <2>1. grants'[f] = 0 => grants[f] = 0 /\ (f \in torn => f \in torn')
      BY <1>2
    <2> QED BY <1>1, <1>3, <1>4, <2>1 DEF Once, Rerun
  <1>5. ASSUME NEW f \in Event, f # e PROVE Unsent(f)'
    BY <1>1, <1>5 DEF Once, Unsent
  <1>6. ASSUME NEW r \in sentNow PROVE Settled(r)'
    <2>1. CASE r \in lost \cup acked \/ (pump.at = "ack" /\ r = Current)
      BY <1>1, <2>1 DEF Settled
    <2>2. CASE \E f \in Event : r \in ReplyRows(f) /\ (Excused(f) \/ Window(f, r))
      <3>1. PICK f \in Event : r \in ReplyRows(f) /\ (Excused(f) \/ Window(f, r))
        BY <2>2
      <3>2. CASE Excused(f)
        <4>1. Excused(f)'
          BY <1>2, <3>2 DEF Excused
        <4> QED BY <1>1, <3>1, <4>1 DEF Settled
      <3>3. CASE Window(f, r) /\ f = e
        BY <1>1, <3>1, <3>3 DEF Settled
      <3>4. CASE Window(f, r) /\ f # e
        <4>1. Window(f, r)'
          BY <3>4 DEF Window
        <4> QED BY <1>1, <3>1, <4>1 DEF Settled
      <3> QED BY <3>1, <3>2, <3>3, <3>4
    <2> QED BY <2>1, <2>2 DEF Once, Settled
  <1> QED BY <1>4, <1>5, <1>6 DEF Once

\* Such a step of an event that has no reply, or that a human had run again.
LEMMA RunningStep ==
    ASSUME IInv, Once, IInv', NEW e \in Event,
           \/ turn[e].at \in {"start", "run", "claimed", "failed", "unsent"}
           \/ status[e] \in {"absent", "received"}
           \/ grants'[e] > 0,
           UNCHANGED <<rows, acked, sentNow, pump, mode>>, lost \subseteq lost',
           \A f \in Event : grants'[f] >= grants[f],
           \A f \in Event : f \in torn => f \in torn' \/ grants'[f] > 0,
           \A f \in Event : f # e => turn'[f] = turn[f], Transaction(e),
           \A f \in Event : \A i \in Nat : f # e /\ <<f, i>> \in fenced => <<f, i>> \in fenced',
           turn[e].at \notin {"send", "ack"}, turn'[e].at # "send",
           turn'[e].at = "composed" => ~turn'[e].fresh
    PROVE  Once'
  <1>1. ReplyRows(e)' = ReplyRows(e)
    BY DEF ReplyRows, Ids
  <1>2. grants \in [Event -> Nat] /\ grants' \in [Event -> Nat] /\ grants'[e] >= grants[e]
    BY DEF IInv, TypeOK
  <1>3. Rerun(e)'
    <2>1. ReplyRows(e) = {} \/ grants'[e] > 0
      BY <1>2 DEF Once, Rerun
    <2> QED BY <1>1, <1>2, <2>1 DEF Rerun
  <1>4. Unsent(e)'
    BY DEF Unsent
  <1>5. \A f \in Event : f # e => status'[f] = status[f]
    BY StoreStep, Parts
  <1>6. \A r \in ReplyRows(e) : ~Window(e, r)
    BY DEF Window
  <1> QED BY <1>3, <1>4, <1>5, <1>6, OwnStep

\* The keys of one event are not another's.
LEMMA KeysApart ==
    ASSUME NEW e \in Event, (fenced' \in {fenced, fenced \ Keys(e)} \/ fenced \subseteq fenced')
    PROVE  \A f \in Event : \A i \in Nat : f # e /\ <<f, i>> \in fenced => <<f, i>> \in fenced'
  BY DEF Keys

\* The handler up to its compose, receipt and the human's retry.
LEMMA RunningOnce ==
    ASSUME IInv, Once, IInv', NEW e \in Event,
           \/ Receive(e) \/ HumanRetry(e) \/ Start(e) \/ RefuseEvent(e) \/ AcquireTarget(e)
           \/ Push(e) \/ TurnFails(e) \/ Recover(e) \/ ParkUnsent(e) \/ FinishEmpty(e)
           \/ Claim(e) \/ ComposeFails(e)
    PROVE  Once'
  <1>1. /\ \A f \in Event : f # e => turn'[f] = turn[f]
        /\ turn'[e].at \notin {"send", "composed"}
        /\ UNCHANGED <<rows, acked, sentNow, pump, mode, lost>>
        /\ Transaction(e)
        /\ (fenced' \in {fenced, fenced \ Keys(e)} \/ fenced \subseteq fenced')
        /\ \A f \in Event : grants'[f] >= grants[f]
        /\ \A f \in Event : f \in torn => f \in torn' \/ grants'[f] > 0
        /\ \/ turn[e].at \in {"start", "run", "claimed", "failed", "unsent"}
           \/ turn[e].at \notin {"send", "ack"} /\ (status[e] \in {"absent", "received"} \/ grants'[e] > 0)
    <2>0. /\ grants \in [Event -> Nat] /\ \A f \in Event : grants[f] >= grants[f]
          /\ turn \in [Event -> Turns] /\ turn[e] \in Turns
      BY DEF IInv, TypeOK
    <2>1. CASE Receive(e) \/ HumanRetry(e)
      <3>1. /\ UNCHANGED <<rows, acked, sentNow, pump, mode, lost, turn, fenced>>
            /\ InsertEvent(e) \/ RequeueInterruptedEvent(e) \/ ResolveDeadLetterRequeue(e)
        BY <2>1 DEF Receive, HumanRetry, outboxVars, ramVars, history, sendHistory
      <3>2. Transaction(e)
        BY <3>1 DEF Transaction
      <3>3. status[e] \notin {"processing", "completed", "replied", "received"}
        BY <3>1, Parts, StoreMoves
      <3>4. turn[e].at \notin {"send", "ack", "composed"}
        BY <3>3, Parts DEF Control, Owning
      <3>5. /\ \A f \in Event : grants'[f] >= grants[f]
            /\ \A f \in Event : f \in torn => f \in torn' \/ grants'[f] > 0
            /\ status[e] \in {"absent", "received"} \/ grants'[e] > 0
        BY <2>0, <2>1 DEF Receive, HumanRetry, InsertEvent, history
      <3> QED BY <3>1, <3>2, <3>4, <3>5
    <2>2. CASE Start(e)
      <3>1. /\ UNCHANGED <<rows, acked, sentNow, pump, mode, lost, fenced, grants, torn>>
            /\ MarkEventProcessing(e) /\ Goto(e, "start")
        BY <2>2 DEF Start, outboxVars, history, sendHistory
      <3>2. turn'[e].at = "start" /\ \A f \in Event : f # e => turn'[f] = turn[f]
        BY <3>1, Parts, GotoIs DEF Places
      <3>3. status[e] = "received" /\ Transaction(e)
        BY <3>1, Parts, StoreMoves DEF Transaction
      <3>4. turn[e].at \notin {"send", "ack"}
        BY <3>3, Parts DEF Control
      <3> QED BY <2>0, <3>1, <3>2, <3>3, <3>4
    <2>3. CASE RefuseEvent(e) \/ Recover(e) \/ ParkUnsent(e)
      <3>1. /\ UNCHANGED <<rows, acked, sentNow, pump, mode, lost, fenced, grants, torn>>
            /\ turn[e].at \in {"start", "failed", "unsent"}
        BY <2>3 DEF RefuseEvent, Recover, ParkUnsent, At, outboxVars, sendHistory
      <3>2. EndTurn(e) \/ Goto(e, "notice")
        BY <2>3 DEF RefuseEvent, Recover, ParkUnsent, GiveUp
      <3>3. Transaction(e)
        BY <2>3 DEF RefuseEvent, Recover, ParkUnsent, GiveUp, Transaction
      <3>4. turn'[e].at \in {"none", "notice"} /\ \A f \in Event : f # e => turn'[f] = turn[f]
        BY <3>2, Parts, GotoIs, EndIs DEF Places
      <3> QED BY <2>0, <3>1, <3>3, <3>4
    <2>4. CASE AcquireTarget(e) \/ Push(e) \/ TurnFails(e) \/ FinishEmpty(e)
      <3>1. /\ UNCHANGED <<rows, acked, sentNow, pump, mode, lost, fenced, grants, torn>>
            /\ turn[e].at \in {"start", "run"}
        BY <2>4 DEF AcquireTarget, Push, TurnFails, FinishEmpty, At, outboxVars, history, sendHistory
      <3>2. EndTurn(e) \/ Goto(e, "run") \/ Goto(e, "failed") \/ turn' = turn
        BY <2>4 DEF AcquireTarget, Push, TurnFails, FinishEmpty
      <3>3. Transaction(e)
        BY <2>4 DEF AcquireTarget, Push, TurnFails, FinishEmpty, Transaction
      <3>4. /\ turn'[e].at \in {"none", "run", "failed", "start"}
            /\ \A f \in Event : f # e => turn'[f] = turn[f]
        BY <3>1, <3>2, Parts, GotoIs, EndIs DEF Places
      <3> QED BY <2>0, <3>1, <3>3, <3>4
    <2>5. CASE Claim(e)
      <3>1. /\ UNCHANGED <<rows, acked, sentNow, pump, mode, lost, grants, torn>>
            /\ UNCHANGED storeVars /\ turn[e].at = "run" /\ fenced \subseteq fenced'
        BY <2>5 DEF Claim, At, outboxVars, history, sendHistory
      <3>2. turn'[e].at = "claimed" /\ \A f \in Event : f # e => turn'[f] = turn[f]
        BY <2>0, <2>5 DEF Claim, Turns
      <3> QED BY <2>0, <3>1, <3>2 DEF Transaction
    <2>6. CASE ComposeFails(e)
      <3>1. /\ UNCHANGED <<rows, acked, sentNow, pump, mode, lost, grants, torn>>
            /\ UNCHANGED storeVars /\ turn[e].at = "claimed" /\ fenced' = fenced \ Keys(e)
            /\ Goto(e, "unsent")
        BY <2>6 DEF ComposeFails, At, outboxVars, sendHistory
      <3>2. turn'[e].at = "unsent" /\ \A f \in Event : f # e => turn'[f] = turn[f]
        BY <3>1, Parts, GotoIs DEF Places
      <3> QED BY <2>0, <3>1, <3>2 DEF Transaction
    <2> QED BY <2>1, <2>2, <2>3, <2>4, <2>5, <2>6
  <1>2. \A f \in Event : \A i \in Nat : f # e /\ <<f, i>> \in fenced => <<f, i>> \in fenced'
    BY <1>1, KeysApart
  <1> QED BY <1>1, <1>2, RunningStep


\* The handler after its compose, the panic, the boot's park and the human's
\* discard.
LEMMA LeavingOnce ==
    ASSUME IInv, Once, IInv', NEW e \in Event,
           \/ Complete(e) \/ CompleteFails(e) \/ Return(e) \/ Panic(e) \/ PanicPark(e)
           \/ HumanDiscard(e) \/ BootPark(e)
    PROVE  Once'
  <1>1. /\ UNCHANGED <<rows, acked, sentNow, pump, mode, grants>>
        /\ lost \subseteq lost' /\ torn \subseteq torn'
        /\ fenced' \in {fenced, fenced \ Keys(e)}
    BY DEF Complete, CompleteFails, Return, Panic, PanicPark, HumanDiscard, BootPark,
           outboxVars, ramVars, history, sendHistory
  <1>2. \A f \in Event : \A i \in Nat : f # e /\ <<f, i>> \in fenced => <<f, i>> \in fenced'
    BY <1>1, KeysApart
  <1>3. /\ ReplyRows(e)' = ReplyRows(e) /\ Busy' = Busy /\ Current' = Current
        /\ \A r \in ReplyRows(e) : rows[r].n \in Nat
    BY <1>1, RowTypes DEF ReplyRows, Ids, Busy, Current, IInv
  <1>4. /\ \A f \in Event : grants'[f] >= grants[f]
        /\ grants[e] \in Nat /\ turn \in [Event -> Turns]
    BY <1>1 DEF IInv, TypeOK
  <1>5. CASE Complete(e)
    <2>1. turn[e].at = "composed" /\ lost' = lost
      BY <1>5 DEF Complete, At, sendHistory
    <2>2. /\ (Direct(e) /\ Goto(e, "send")) \/ EndTurn(e)
      BY <1>5 DEF Complete
    <2>3. /\ \A f \in Event : f # e => turn'[f] = turn[f]
          /\ \/ turn'[e].at = "none"
             \/ /\ turn'[e].at = "send" /\ turn[e].fresh
                /\ turn'[e].accepted = 0
      BY <2>1, <2>2, Parts, GotoIs, EndIs DEF Places, Direct, Control
    <2>4. /\ \A f \in Event : f # e => status'[f] = status[f]
          /\ status'[e] \in {"completed", "replied"}
      <3>1. MarkEventCompleted(e) \/ MarkEventCompletedReconciled(e, AllAcked(e))
        BY <1>5 DEF Complete
      <3>2. AllAcked(e) \in BOOLEAN
        BY DEF AllAcked
      <3>3. Transaction(e)
        BY <3>1, <3>2 DEF Transaction
      <3>4. status'[e] \in {"completed", "replied"}
        BY <3>1, Parts DEF MarkEventCompleted, MarkEventCompletedReconciled, Move, StoreTypeOK
      <3> QED BY <3>3, <3>4, StoreStep, Parts
    <2>5. Rerun(e)'
      BY <1>1, <1>3, <2>3, <2>4 DEF Rerun
    <2>6. Unsent(e)'
      BY <1>1, <1>3, <2>1, <2>3 DEF Once, Unsent
    <2>7. \A r \in ReplyRows(e) : ~Window(e, r)
      BY <2>1 DEF Window
    <2> QED BY <1>1, <1>2, <1>4, <2>3, <2>4, <2>5, <2>6, <2>7, OwnStep
  <1>6. CASE CompleteFails(e)
    <2>1. /\ turn[e].at = "composed" /\ lost' = lost /\ fenced' = fenced /\ EndTurn(e)
          /\ UNCHANGED status
      BY <1>6 DEF CompleteFails, At, sendHistory, storeVars
    <2>2. turn'[e].at = "none" /\ \A f \in Event : f # e => turn'[f] = turn[f]
      BY <2>1, Parts, EndIs
    <2>3. Rerun(e)' /\ Unsent(e)'
      BY <1>1, <1>3, <2>1, <2>2 DEF Once, Rerun, Unsent
    <2>4. \A r \in ReplyRows(e) : ~Window(e, r)
      BY <2>1 DEF Window
    <2> QED BY <1>1, <1>2, <1>4, <2>1, <2>2, <2>3, <2>4, OwnStep
  <1>7. CASE Return(e)
    <2>1. /\ turn[e].at = "ack" /\ turn[e].recorded = turn[e].accepted /\ lost' = lost /\ EndTurn(e)
          /\ UNCHANGED status
      BY <1>7 DEF Return, At, history, sendHistory, storeVars
    <2>2. turn'[e].at = "none" /\ \A f \in Event : f # e => turn'[f] = turn[f]
      BY <2>1, Parts, EndIs
    <2>3. status[e] \in {"completed", "replied"}
      BY <2>1, Parts DEF Control
    <2>4. Rerun(e)' /\ Unsent(e)'
      BY <1>1, <1>3, <2>1, <2>2, <2>3 DEF Once, Rerun, Unsent
    <2>5. \A r \in ReplyRows(e) : ~Window(e, r)
      <3>1. turn[e].accepted \in Nat
        <4>1. turn[e] \in Turns /\ MaxChunks \in Nat
          BY <1>4, OutboxAssumption
        <4> QED BY <4>1 DEF Turns
      <3> QED BY <1>3, <2>1, <3>1 DEF Window
    <2> QED BY <1>1, <1>2, <1>4, <2>1, <2>2, <2>4, <2>5, OwnStep
  <1>8. CASE Panic(e)
    <2>1. /\ Goto(e, "unwound") /\ UNCHANGED status
          /\ turn[e].at = "composed" => e \in torn'
          /\ \A r \in ReplyRows(e) : Window(e, r) => r \in lost'
      BY <1>8 DEF Panic, At, storeVars, Window
    <2>2. turn'[e].at = "unwound" /\ \A f \in Event : f # e => turn'[f] = turn[f]
      BY <2>1, Parts, GotoIs DEF Places
    <2>3. Rerun(e)' /\ Unsent(e)'
      <3>1. ReplyRows(e) # {} /\ grants[e] = 0 =>
              /\ status[e] \notin {"absent", "received"}
              /\ e \in torn' \/ status[e] # "processing"
        <4>1. turn[e].at \in Places \ {"none", "unwound"}
          BY <1>8, Parts DEF Panic
        <4>2. turn[e].at \in {"send", "ack"} => status[e] # "processing"
          BY Parts DEF Control
        <4> QED BY <2>1, <4>1, <4>2 DEF Once, Rerun, Places
      <3> QED BY <1>1, <1>3, <2>1, <2>2, <3>1 DEF Rerun, Unsent
    <2> QED BY <1>1, <1>2, <1>4, <2>1, <2>2, <2>3, OwnStep
  <1>9. CASE PanicPark(e) \/ BootPark(e)
    <2>1. /\ lost' = lost /\ fenced' = fenced
          /\ ParkEvent(e) \/ UNCHANGED storeVars
          /\ Goto(e, "reparked") \/ Goto(e, "notice") \/ EndTurn(e)
      BY <1>9 DEF PanicPark, BootPark, history, sendHistory
    <2>2. /\ turn'[e].at \in {"none", "reparked", "notice"}
          /\ \A f \in Event : f # e => turn'[f] = turn[f]
      BY <2>1, Parts, GotoIs, EndIs DEF Places
    <2>3. /\ \A f \in Event : f # e => status'[f] = status[f]
          /\ status'[e] \in {status[e], "interrupted"}
          /\ turn'[e].at # "none" => status'[e] # "processing"
      <3>1. Transaction(e)
        BY <2>1 DEF Transaction
      <3>2. status'[e] \in {status[e], "interrupted"}
        BY <2>1, Parts, StoreMoves
      <3>3. ParkEvent(e) => status'[e] # "processing"
        BY <3>1, Parts DEF ParkEvent, Move, StoreTypeOK, storeVars
      <3>4. EndTurn(e) => turn'[e].at = "none"
        BY Parts, EndIs
      <3>5. ParkEvent(e) \/ EndTurn(e)
        BY <1>9 DEF PanicPark, BootPark
      <3> QED BY <3>3, <3>4, <3>5, <3>1, <3>2, StoreStep, Parts
    <2>4. turn[e].at \in {"unwound", "none", "notice"}
      BY <1>9, Parts DEF PanicPark, BootPark, At, Control
    <2>5. Rerun(e)' /\ Unsent(e)'
      BY <1>1, <1>3, <2>1, <2>2, <2>3 DEF Once, Rerun, Unsent
    <2>6. \A r \in ReplyRows(e) : ~Window(e, r)
      BY <2>4 DEF Window
    <2> QED BY <1>1, <1>2, <1>4, <2>1, <2>2, <2>3, <2>5, <2>6, OwnStep
  <1>10. CASE HumanDiscard(e)
    <2>1. lost' = lost /\ fenced' = fenced /\ turn' = turn /\ ResolveDeadLetterDiscard(e)
      BY <1>10 DEF HumanDiscard, ramVars, history, sendHistory
    <2>2. status' = status
      BY <2>1, Parts, StoreMoves
    <2>3. Rerun(e)' /\ Unsent(e)'
      BY <1>1, <1>3, <2>1, <2>2 DEF Once, Rerun, Unsent
    <2>4. \A r \in ReplyRows(e) : Window(e, r) => Window(e, r)'
      BY <1>1, <2>1 DEF Window
    <2> QED BY <1>1, <1>2, <1>4, <2>1, <2>2, <2>3, <2>4, OwnStep
  <1> QED BY <1>5, <1>6, <1>7, <1>8, <1>9, <1>10

\* The handler's ack: the row leaves the window into the acks or the losses.
LEMMA AckChunkOnce ==
    ASSUME IInv, Once, IInv', NEW e \in Event, AckChunk(e) PROVE Once'
  <1>1. /\ turn[e].at = "ack" /\ turn[e].recorded < turn[e].accepted
        /\ turn' = [turn EXCEPT ![e].recorded = @ + 1]
        /\ UNCHANGED <<mode, fenced, pump, grants, sentNow, torn>>
    BY DEF AckChunk, At
  <1>2. PICK r : r = RowOf(e, turn[e].recorded)
    OBVIOUS
  <1>3. \/ AckDelivery(r) /\ lost' = lost
        \/ lost' = lost \cup {r} /\ UNCHANGED <<status, rows, acked>>
    BY <1>2 DEF AckChunk, storeVars, outboxVars
  <1>4. /\ turn \in [Event -> Turns] /\ turn[e] \in Turns /\ turn[e].size \in Nat /\ turn[e].fresh
        /\ turn[e].accepted \in Nat /\ turn[e].recorded \in Nat /\ turn[e].accepted <= turn[e].size
        /\ status[e] \in {"completed", "replied"} /\ grants \in [Event -> Nat]
    <2>1. turn[e] \in Turns /\ turn \in [Event -> Turns] /\ MaxChunks \in Nat /\ grants \in [Event -> Nat]
      BY OutboxAssumption DEF IInv, TypeOK
    <2>2. turn[e].size \in Nat /\ turn[e].accepted \in Nat /\ turn[e].recorded \in Nat
      BY <2>1 DEF Turns
    <2> QED BY <1>1, <2>1, <2>2, Parts DEF EventOK, Sending, Control
  <1>5. /\ r \in ReplyRows(e) /\ r \in Ids
        /\ \A q \in ReplyRows(e) : rows[q].n = turn[e].recorded => q = r
    BY <1>1, <1>2, <1>4, ChunkIs
  <1>6. /\ turn'[e].at = "ack" /\ turn'[e].accepted = turn[e].accepted
        /\ turn'[e].recorded = turn[e].recorded + 1
        /\ \A f \in Event : f # e => turn'[f] = turn[f]
    BY <1>1, <1>4 DEF Turns
  <1>7. /\ rows' = rows /\ acked \subseteq acked' /\ lost \subseteq lost' /\ r \in lost' \cup acked'
        /\ \A f \in Event : f # e => status'[f] = status[f]
        /\ status'[e] \in {"completed", "replied"}
    <2>1. CASE AckDelivery(r) /\ lost' = lost
      <3>1. /\ rows' = rows /\ acked' = acked \cup {r}
            /\ \A f \in Event : r \notin ReplyRows(f) => status'[f] = status[f]
            /\ \A f \in Event : r \in ReplyRows(f) => status'[f] = status[f] \/ status'[f] = "replied"
        BY <1>5, <2>1, AckIs
      <3>2. \A f \in Event : r \in ReplyRows(f) => f = e
        BY <1>5 DEF ReplyRows
      <3> QED BY <1>4, <2>1, <3>1, <3>2
    <2>2. CASE lost' = lost \cup {r} /\ UNCHANGED <<status, rows, acked>>
      BY <1>4, <2>2
    <2> QED BY <1>3, <2>1, <2>2
  <1>8. ReplyRows(e)' = ReplyRows(e) /\ \A q \in ReplyRows(e) : rows[q].n \in Nat
    BY <1>7, RowTypes DEF ReplyRows, Ids, IInv
  <1>9. Rerun(e)' /\ Unsent(e)'
    BY <1>6, <1>7, <1>8 DEF Rerun, Unsent
  <1>10. \A q \in ReplyRows(e) : Window(e, q) => q \in lost' \cup acked' \/ Window(e, q)'
    <2> SUFFICES ASSUME NEW q \in ReplyRows(e), Window(e, q), q # r PROVE Window(e, q)'
      BY <1>7
    <2>1. rows[q].n # turn[e].recorded
      BY <1>5
    <2>2. turn[e].recorded + 1 <= rows[q].n
      BY <1>4, <1>8, <2>1 DEF Window
    <2> QED BY <1>6, <1>7, <2>2 DEF Window
  <1>11. \A f \in Event : grants'[f] >= grants[f]
    BY <1>1, <1>4
  <1> QED BY <1>1, <1>6, <1>7, <1>9, <1>10, <1>11, OwnStep

\* The handler's send: nobody has sent the next chunk of a fresh batch.
LEMMA SendChunkOnce ==
    ASSUME IInv, Once, IInv', NEW e \in Event, SendChunk(e) PROVE Once'
  <1>1. /\ turn[e].at = "send"
        /\ UNCHANGED <<status, rows, acked, mode, fenced, pump, grants, torn>>
    BY DEF SendChunk, At, outboxVars, storeVars
  <1>2. PICK r : r = RowOf(e, turn[e].accepted)
    OBVIOUS
  <1>3. \/ /\ Deliver(r)
           /\ turn' = [turn EXCEPT ![e].accepted = @ + 1,
                         ![e].at = IF turn[e].accepted + 1 = turn[e].size THEN "ack" ELSE "send"]
        \/ Goto(e, "ack") /\ SendFails(r)
    BY <1>2 DEF SendChunk
  <1>4. /\ turn \in [Event -> Turns] /\ turn[e] \in Turns /\ turn[e].size \in Nat
        /\ turn[e].accepted \in Nat /\ turn[e].recorded \in Nat /\ turn[e].accepted < turn[e].size
        /\ turn[e].recorded <= turn[e].accepted
        /\ status[e] \in {"completed", "replied"} /\ grants \in [Event -> Nat]
    <2>1. turn[e] \in Turns /\ turn \in [Event -> Turns] /\ MaxChunks \in Nat /\ grants \in [Event -> Nat]
      BY OutboxAssumption DEF IInv, TypeOK
    <2>2. turn[e].size \in Nat /\ turn[e].accepted \in Nat /\ turn[e].recorded \in Nat
      BY <2>1 DEF Turns
    <2> QED BY <1>1, <2>1, <2>2, Parts DEF EventOK, Sending, Control
  <1>5. /\ r \in ReplyRows(e) /\ rows[r].n = turn[e].accepted
        /\ \A q \in ReplyRows(e) : rows[q].n = turn[e].accepted => q = r
    BY <1>1, <1>2, <1>4, ChunkIs
  <1>6. r \notin sentNow
    BY <1>1, <1>4, <1>5 DEF Once, Unsent
  <1>7. /\ \A f \in Event : f # e => turn'[f] = turn[f]
        /\ turn'[e].at \in {"send", "ack"} /\ turn'[e].recorded = turn[e].recorded
        /\ \/ turn'[e].accepted = turn[e].accepted /\ turn'[e].at = "ack"
           \/ turn'[e].accepted = turn[e].accepted + 1
        /\ sentNow' \in {sentNow, sentNow \cup {r}} /\ lost \subseteq lost'
        /\ r \in sentNow' => r \in lost' \/ turn'[e].accepted = turn[e].accepted + 1
    <2>1. CASE Goto(e, "ack") /\ SendFails(r)
      <3>1. /\ turn'[e].at = "ack" /\ turn'[e].accepted = turn[e].accepted
            /\ turn'[e].recorded = turn[e].recorded /\ \A f \in Event : f # e => turn'[f] = turn[f]
        BY <2>1, Parts, GotoIs DEF Places
      <3>2. /\ sentNow' \in {sentNow, sentNow \cup {r}} /\ lost \subseteq lost'
            /\ r \in sentNow' => r \in lost'
        BY <1>6, <2>1 DEF SendFails, Accept, sendHistory
      <3> QED BY <3>1, <3>2
    <2>2. CASE /\ Deliver(r)
               /\ turn' = [turn EXCEPT ![e].accepted = @ + 1,
                             ![e].at = IF turn[e].accepted + 1 = turn[e].size THEN "ack" ELSE "send"]
      <3>1. PICK p, a : /\ p = IF turn[e].accepted + 1 = turn[e].size THEN "ack" ELSE "send"
                        /\ a = turn[e].accepted + 1
        OBVIOUS
      <3>2. p \in {"send", "ack"}
        BY <3>1
      <3>3. turn' = [turn EXCEPT ![e] = [@ EXCEPT !.accepted = a, !.at = p]]
        BY <1>4, <2>2, <3>1
      <3>4. /\ \A f \in Event : f # e => turn'[f] = turn[f]
            /\ turn'[e].at = p /\ turn'[e].recorded = turn[e].recorded /\ turn'[e].accepted = a
        BY <1>4, <3>3 DEF Turns
      <3>5. sentNow' = sentNow \cup {r} /\ lost' = lost
        BY <1>6, <2>2 DEF Deliver, Accept
      <3> QED BY <3>1, <3>2, <3>4, <3>5
    <2> QED BY <1>3, <2>1, <2>2
  <1>8. /\ RowsGrow /\ (\A f \in Event : ReplyRows(f)' = ReplyRows(f))
        /\ Busy' = Busy /\ Current' = Current
        /\ \A f \in Event : \A q \in ReplyRows(f) : rows[q].n \in Nat /\ rows[q].ev = f
    BY <1>1, RowTypes DEF IInv, RowsGrow, ReplyRows, Ids, Busy, Current
  <1>9. ASSUME NEW f \in Event PROVE Rerun(f)' /\ Unsent(f)'
    <2>1. CASE f = e
      <3>1. Rerun(f)'
        BY <1>1, <1>4, <1>7, <1>8, <2>1 DEF Rerun
      <3>2. ASSUME NEW q \in ReplyRows(e), turn'[e].at = "send", rows[q].n >= turn'[e].accepted
            PROVE  q \notin sentNow'
        <4>1. rows[q].n >= turn[e].accepted /\ rows[q].n # turn[e].accepted
          BY <1>4, <1>7, <1>8, <3>2
        <4> QED BY <1>1, <1>5, <1>7, <4>1 DEF Once, Unsent
      <3> QED BY <1>1, <1>7, <1>8, <2>1, <3>1, <3>2 DEF Unsent
    <2>2. CASE f # e
      <3>1. r \notin ReplyRows(f)
        BY <1>5, <1>8, <2>2
      <3> QED BY <1>1, <1>7, <1>8, <2>2, <3>1 DEF Once, Rerun, Unsent
    <2> QED BY <2>1, <2>2
  <1>10. ASSUME NEW q \in sentNow' PROVE Settled(q)'
    <2>1. CASE q = r
      <3>1. r \in lost' \/ Window(e, r)'
        BY <1>1, <1>4, <1>5, <1>7, <1>10, <2>1 DEF Window
      <3> QED BY <1>5, <1>8, <2>1, <3>1 DEF Settled
    <2>2. CASE q # r
      <3>1. Settled(q)
        BY <1>7, <1>10, <2>2 DEF Once
      <3>2. \A f \in Event : q \in ReplyRows(f) /\ Window(f, q) => Window(f, q)'
        <4>1. ASSUME q \in ReplyRows(e), Window(e, q) PROVE Window(e, q)'
          BY <1>1, <1>4, <1>7, <1>8, <4>1 DEF Window
        <4>2. \A f \in Event : f # e /\ Window(f, q) => Window(f, q)'
          BY <1>1, <1>7 DEF Window
        <4> QED BY <4>1, <4>2
      <3> QED BY <1>1, <1>7, <1>8, <3>1, <3>2 DEF Settled, Excused
    <2> QED BY <2>1, <2>2
  <1> QED BY <1>9, <1>10 DEF Once


\* New rows are sent by nobody yet.
LEMMA GrowOnce ==
    ASSUME IInv, Once, IInv', RowsGrow,
           UNCHANGED <<status, acked, mode, fenced, grants, sentNow, lost, torn>>,
           pump'.at = pump.at, pump'.todo = pump.todo,
           \A f \in Event :
               \/ turn'[f] = turn[f] /\ ReplyRows(f)' = ReplyRows(f)
               \/ Rerun(f)' /\ Unsent(f)' /\ turn[f].at \notin {"send", "ack"}
    PROVE  Once'
  <1>1. /\ Busy' = Busy /\ Current' = Current /\ sentNow \subseteq Ids
        /\ \A f \in Event : ReplyRows(f) \subseteq ReplyRows(f)'
        /\ \A f \in Event : \A r \in ReplyRows(f) : rows'[r] = rows[r] /\ rows[r].n \in Nat
    <2>1. sentNow \subseteq Ids
      BY DEF IInv, TypeOK, Ids
    <2>2. \A f \in Event : \A r \in ReplyRows(f) : rows'[r] = rows[r] /\ rows[r].n \in Nat
      BY RowTypes DEF IInv, RowsGrow
    <2> QED BY <2>1, <2>2, GrowKeeps DEF IInv, Busy, Current
  <1>2. ASSUME NEW f \in Event PROVE Rerun(f)' /\ Unsent(f)'
    <2>1. CASE turn'[f] = turn[f] /\ ReplyRows(f)' = ReplyRows(f)
      BY <1>1, <2>1 DEF Once, Rerun, Unsent
    <2> QED BY <2>1
  <1>3. ASSUME NEW r \in sentNow PROVE Settled(r)'
    <2>1. \A f \in Event : r \in ReplyRows(f) /\ Window(f, r) => Window(f, r)'
      BY <1>1 DEF Window
    <2> QED BY <1>1, <2>1 DEF Once, Settled, Excused
  <1> QED BY <1>2, <1>3 DEF Once

\* The notices and the compose.
LEMMA ComposingOnce ==
    ASSUME IInv, Once, IInv', (\E e \in Event : Notify(e) \/ Compose(e)) \/ PumpSurface
    PROVE  Once'
  <1>1. CASE PumpSurface
    <2>1. PICK e \in pump.sweep :
            /\ \/ SurfaceDeadLetter(e) \/ SurfaceInterrupted(e) \/ UNCHANGED rows
            /\ pump' = [pump EXCEPT !.sweep = @ \ {e}]
      BY <1>1 DEF PumpSurface
    <2>2. turn' = turn /\ UNCHANGED <<status, acked, mode, fenced, grants, sentNow, lost, torn>>
      BY <1>1 DEF PumpSurface, storeVars, history, sendHistory
    <2>3. e \in Event /\ pump'.at = pump.at /\ pump'.todo = pump.todo
      BY <2>1 DEF IInv, TypeOK
    <2>4. RowsGrow /\ \A f \in Event : ReplyRows(f)' = ReplyRows(f)
      BY <2>1, <2>3, NoticeIs, OutboxAssumption DEF IInv
    <2> QED BY <2>2, <2>3, <2>4, GrowOnce
  <1>2. ASSUME NEW e \in Event, Notify(e) PROVE Once'
    <2>1. /\ turn[e].at \in {"notice", "reparked"} /\ EndTurn(e) /\ pump' = pump
          /\ UNCHANGED <<status, acked, mode, fenced, grants, sentNow, lost, torn>>
          /\ SurfaceDeadLetter(e) \/ SurfaceInterrupted(e) \/ UNCHANGED rows
      BY <1>2 DEF Notify, storeVars, history, sendHistory
    <2>2. RowsGrow /\ \A f \in Event : ReplyRows(f)' = ReplyRows(f)
      BY <2>1, NoticeIs, OutboxAssumption DEF IInv
    <2>3. turn'[e].at = "none" /\ \A f \in Event : f # e => turn'[f] = turn[f]
      BY <2>1, Parts, EndIs
    <2>4. /\ Busy' = Busy /\ Current' = Current
          /\ \A r \in ReplyRows(e) : rows'[r] = rows[r]
      BY <2>1, <2>2, RowTypes DEF Busy, Current, RowsGrow, IInv
    <2>5. Rerun(e)' /\ Unsent(e)'
      BY <2>1, <2>2, <2>3, <2>4 DEF Once, Rerun, Unsent
    <2> QED BY <2>1, <2>2, <2>3, <2>5, GrowOnce
  <1>3. ASSUME NEW e \in Event, Compose(e) PROVE Once'
    <2>1. /\ turn[e].at = "claimed" /\ pump' = pump /\ UNCHANGED storeVars
          /\ UNCHANGED <<status, acked, mode, fenced, grants, sentNow, lost, torn>>
      BY <1>3 DEF Compose, At, storeVars, history, sendHistory
    <2>2. /\ ~turn[e].fresh /\ status[e] = "processing" /\ turn[e].size \in 1..MaxChunks
          /\ Keys(e) \subseteq fenced /\ turn[e].size \in Nat
          /\ turn \in [Event -> Turns] /\ turn[e] \in Turns
      <3>1. turn[e].size >= 1 /\ Keys(e) \subseteq fenced
        BY <2>1, Parts DEF EventOK, Fence, Claiming
      <3>2. turn \in [Event -> Turns] /\ turn[e] \in Turns
        BY DEF IInv, TypeOK
      <3> QED BY <2>1, <3>1, <3>2, Parts, OutboxAssumption DEF Control, Owning
    <2>3. CASE Duplicate(e, turn[e].size)
      <3>1. Goto(e, "composed") /\ rows' = rows
        BY <1>3, <2>3 DEF Compose
      <3>2. /\ turn'[e].at = "composed" /\ ~turn'[e].fresh
            /\ \A f \in Event : f # e => turn'[f] = turn[f]
        BY <2>2, <3>1, Parts, GotoIs DEF Places
      <3>3. \A f \in Event : grants'[f] >= grants[f]
        BY <2>1 DEF IInv, TypeOK
      <3>4. Transaction(e)
        BY <2>1 DEF Transaction
      <3> QED BY <2>1, <3>1, <3>2, <3>3, <3>4, RunningStep
    <2>4. CASE ~Duplicate(e, turn[e].size)
      <3>1. /\ turn' = [turn EXCEPT ![e].at = "composed", ![e].fresh = TRUE]
            /\ InsertDeliveries(e, turn[e].size)
        BY <1>3, <2>4 DEF Compose
      <3>2. /\ turn'[e].at = "composed" /\ turn'[e].fresh
            /\ \A f \in Event : f # e => turn'[f] = turn[f]
        BY <2>2, <3>1 DEF Turns
      <3>3. ReplyRows(e) = {}
        <4> SUFFICES ASSUME NEW r \in ReplyRows(e) PROVE FALSE
          OBVIOUS
        <4>1. rows[r].of \in 1..MaxChunks /\ rows[r].of \in Nat
          BY Parts, RowTypes DEF EventOK, Batch
        <4>2. 0 \in 0..rows[r].of - 1
          BY <4>1
        <4>3. RowOf(e, 0) \in ReplyRows(e) /\ rows[RowOf(e, 0)].n = 0
          BY <4>2, RowOfIs, Parts DEF EventOK
        <4> QED BY <2>2, <2>4, <4>3 DEF Duplicate
      <3>4. /\ RowsGrow /\ ReplyRows(e)' = Ids' \ Ids
            /\ ReplyRows(e)' = Len(rows) + 1 .. Len(rows) + turn[e].size
            /\ \A r \in ReplyRows(e)' : rows'[r].n = r - Len(rows) - 1
            /\ \A f \in Event : f # e => ReplyRows(f)' = ReplyRows(f)
        BY <2>2, <3>1, <3>3, Parts, BatchIs
      <3>5. \A r \in ReplyRows(e)' : <<e, rows'[r].n>> \in fenced'
        <4>1. Len(rows) \in Nat
          BY Parts, RowTypes
        <4>2. ASSUME NEW r \in ReplyRows(e)' PROVE rows'[r].n \in 0..turn[e].size - 1
          BY <2>2, <3>4, <4>1
        <4> QED BY <2>1, <2>2, <4>2 DEF Keys
      <3>6. Busy' => Current' \notin ReplyRows(e)'
        <4>1. Busy => Current \in Ids
          BY CurrentIs DEF IInv, PumpOK
        <4> QED BY <2>1, <3>4, <4>1 DEF Busy, Current
      <3>7. Rerun(e)'
        BY <2>1, <2>2, <3>2, <3>5, <3>6 DEF Rerun
      <3>8. Unsent(e)'
        <4>1. sentNow \subseteq Ids
          BY DEF IInv, TypeOK, Ids
        <4> QED BY <2>1, <3>2, <3>4, <4>1 DEF Unsent
      <3> QED BY <2>1, <3>2, <3>4, <3>7, <3>8, GrowOnce
    <2> QED BY <2>3, <2>4
  <1> QED BY <1>1, <1>2, <1>3

\* A step of the pump, with the row it leaves or takes.
LEMMA PumpingOnce ==
    ASSUME IInv, Once, IInv', UNCHANGED <<rows, turn, mode, fenced, grants, torn>>,
           acked \subseteq acked', lost \subseteq lost',
           \A f \in Event : status'[f] = status[f] \/ (status[f] = "completed" /\ status'[f] = "replied"),
           \A f \in Event : Busy' /\ Current' \in ReplyRows(f) /\ grants[f] = 0 /\ f \notin torn
             => status[f] # "processing",
           \A r \in sentNow' : r \in sentNow \/ r \in lost' \/ (pump'.at = "ack" /\ r = Current'),
           \A r \in sentNow' : r \notin sentNow =>
             \A f \in Event : turn[f].at \in Claiming /\ turn[f].fresh => r \notin ReplyRows(f),
           pump.at = "ack" =>
             \/ Current \in lost' \cup acked' \/ (pump'.at = "ack" /\ Current' = Current)
             \/ \E f \in Event : Current \in ReplyRows(f) /\ Excused(f)
    PROVE  Once'
  <1>1. RowsGrow /\ (\A f \in Event : ReplyRows(f)' = ReplyRows(f))
    BY RowTypes DEF IInv, RowsGrow, ReplyRows, Ids
  <1>2. ASSUME NEW f \in Event PROVE Rerun(f)'
    <2> SUFFICES ASSUME ReplyRows(f) # {}, grants[f] = 0
                 PROVE  Rerun(f)'
      BY <1>1 DEF Rerun
    <2>1. /\ status'[f] \notin {"absent", "received"}
          /\ turn'[f].at \notin {"start", "run", "claimed", "failed", "unsent"}
          /\ turn'[f].at = "composed" => turn'[f].fresh
          /\ turn'[f].at \in {"notice", "reparked"} => status'[f] # "processing"
      BY DEF Once, Rerun
    <2>2. f \notin torn' /\ mode' = "up" /\ status'[f] = "processing" =>
            \A r \in ReplyRows(f)' : <<f, rows'[r].n>> \in fenced'
      BY <1>1 DEF Once, Rerun
    <2>3. f \notin torn' /\ Busy' /\ Current' \in ReplyRows(f)' => status'[f] # "processing"
      BY <1>1
    <2> QED BY <2>1, <2>2, <2>3 DEF Rerun
  <1>3. ASSUME NEW f \in Event PROVE Unsent(f)'
    <2>1. turn[f].at = "send" => turn[f].fresh
      BY Parts DEF Control
    <2> QED BY <1>1, <2>1 DEF Once, Unsent, Claiming
  <1>4. ASSUME NEW r \in sentNow' PROVE Settled(r)'
    <2>1. CASE r \in lost' \/ (pump'.at = "ack" /\ r = Current')
      BY <2>1 DEF Settled
    <2>2. CASE r \in sentNow
      <3>1. Settled(r)
        BY <2>2 DEF Once
      <3>2. \A f \in Event : Window(f, r) => Window(f, r)'
        BY DEF Window
      <3> QED BY <1>1, <3>1, <3>2 DEF Settled, Excused
    <2> QED BY <1>4, <2>1, <2>2
  <1> QED BY <1>2, <1>3, <1>4 DEF Once

\* The scans and the stages of a row in the pump's hand.
LEMMA PumpOnce ==
    ASSUME IInv, Once, IInv',
           PumpStart \/ PumpScan \/ PumpEnd \/ PumpPick \/ PumpStamp \/ PumpSend \/ PumpAck
    PROVE  Once'
  <1>1. UNCHANGED <<rows, turn, mode, fenced, grants, torn>>
    BY DEF PumpStart, PumpScan, PumpEnd, PumpPick, PumpStamp, PumpSend, PumpAck, outboxVars,
           history, AckDelivery
  <1>2. pump \in PumpRecords
    BY DEF IInv, TypeOK, PumpRecords, Ids
  <1>3. CASE PumpStart \/ PumpScan \/ PumpEnd
    <2>1. /\ UNCHANGED <<acked, lost, status, sentNow>>
          /\ pump.at # "ack"
      BY <1>3 DEF PumpStart, PumpScan, PumpEnd, outboxVars, history, sendHistory, storeVars
    <2>3. ~Busy'
      BY <1>3, ScanIs DEF Busy
    <2> QED BY <1>1, <2>1, <2>3, PumpingOnce
  <1>4. CASE PumpPick
    <2>1. /\ UNCHANGED <<acked, lost, status, sentNow>>
          /\ pump.at = "resend" /\ pump.todo # {} /\ mode = "up"
      BY <1>4 DEF PumpPick, outboxVars, history, sendHistory, storeVars, IInv, PumpOK
    <2>2. PICK c \in pump.todo : c = Current /\ c \in Ids
      BY <2>1, HeadIs
    <2>3. ~Busy' \/ (~Held(c) /\ Current' = c)
      <3>1. CASE pump' = [pump EXCEPT !.at = "stamp"] /\ ~Held(Current)
        BY <1>2, <2>2, <3>1 DEF PumpRecords, Current
      <3>2. CASE pump'.at = "resend"
        BY <3>2 DEF Busy
      <3> QED BY <1>2, <1>4, <3>1, <3>2 DEF PumpPick, Skip, StopTarget, PumpRecords
    <2>4. ASSUME NEW f \in Event, Busy', c \in ReplyRows(f), grants[f] = 0, f \notin torn, ~Held(c)
          PROVE  status[f] # "processing"
      <3>1. rows[c].kind = "reply" /\ rows[c].ev = f
        BY <2>4 DEF ReplyRows
      <3>2. <<f, rows[c].n>> \notin fenced
        BY <2>4, <3>1 DEF Held
      <3> QED BY <2>1, <2>4, <3>2 DEF Once, Rerun
    <2> QED BY <1>1, <2>1, <2>3, <2>4, PumpingOnce
  <1>5. CASE PumpStamp \/ PumpSend \/ PumpAck
    <2>1. Busy /\ pump.todo # {}
      BY <1>5 DEF PumpStamp, PumpSend, PumpAck, Busy, IInv, PumpOK
    <2>2. PICK c \in pump.todo : c = Current /\ c \in Ids
      BY <2>1, HeadIs
    <2>3. \A f \in Event : c \in ReplyRows(f) /\ grants[f] = 0 /\ f \notin torn => status[f] # "processing"
      BY <2>1, <2>2 DEF Once, Rerun
    <2>4. CASE PumpStamp
      <3>1. UNCHANGED <<acked, lost, status, sentNow>> /\ pump.at = "stamp"
        BY <2>4 DEF PumpStamp, outboxVars, sendHistory, storeVars
      <3>2. ~Busy' \/ Current' = c
        <4>1. CASE pump' = [pump EXCEPT !.at = "send"]
          BY <1>2, <2>2, <4>1 DEF PumpRecords, Current
        <4>2. CASE pump'.at = "resend"
          BY <4>2 DEF Busy
        <4> QED BY <1>2, <2>4, <4>1, <4>2 DEF PumpStamp, StopTarget, PumpRecords
      <3> QED BY <1>1, <2>3, <3>1, <3>2, PumpingOnce
    <2>5. CASE PumpSend
      <3>1. UNCHANGED <<acked, status>> /\ pump.at = "send" /\ c \notin acked
        BY <2>2, <2>5 DEF PumpSend, outboxVars, storeVars, IInv, PumpOK
      <3>2. \A f \in Event : turn[f].at \in Claiming /\ turn[f].fresh => c \notin ReplyRows(f)
        BY <2>1, <2>2 DEF IInv, Apart
      <3>3. \/ /\ UNCHANGED sendHistory /\ pump'.at = "resend"
            \/ /\ Accept(c) /\ lost' = lost \cup {c} /\ pump'.at = "resend"
            \/ /\ Accept(c) /\ lost' = lost /\ pump'.at = "ack" /\ Current' = c
        BY <1>2, <2>2, <2>5 DEF PumpSend, SendFails, Deliver, StopTarget, PumpRecords, Current
      <3>4. /\ lost \subseteq lost' /\ sentNow' \in {sentNow, sentNow \cup {c}}
            /\ c \in sentNow' => c \in sentNow \/ c \in lost' \/ (pump'.at = "ack" /\ c = Current')
        BY <3>3 DEF Accept, sendHistory
      <3>5. ~Busy' \/ Current' = c
        BY <3>3 DEF Busy
      <3> QED BY <1>1, <2>3, <3>1, <3>2, <3>4, <3>5, PumpingOnce
    <2>6. CASE PumpAck
      <3>1. UNCHANGED <<sentNow>> /\ pump.at = "ack"
        BY <2>6 DEF PumpAck
      <3>2. pump'.at = "resend" /\ ~Busy'
        BY <1>2, <2>6 DEF PumpAck, Skip, StopTarget, PumpRecords, Busy
      <3>3. CASE AckDelivery(c) /\ lost' = lost
        <4>1. /\ acked' = acked \cup {c}
              /\ \A f \in Event : status'[f] = status[f] \/ (status[f] = "completed" /\ status'[f] = "replied")
          BY <2>2, <3>3, AckIs
        <4> QED BY <1>1, <2>2, <3>1, <3>2, <3>3, <4>1, PumpingOnce
      <3>4. CASE AckRefused(c) /\ UNCHANGED <<acked, status, lost>>
        <4>1. PICK f : f = rows[c].ev
          OBVIOUS
        <4>2. f \in Event /\ c \in ReplyRows(f) /\ status[f] \in {"received", "processing"}
          BY <2>2, <3>4, <4>1, RowTypes DEF AckRefused, ReplyRows, IInv
        <4>3. grants[f] \in Nat
          BY <4>2 DEF IInv, TypeOK
        <4>4. Excused(f)
          BY <2>3, <4>2, <4>3 DEF Once, Rerun, Excused
        <4> QED BY <1>1, <2>2, <3>1, <3>2, <3>4, <4>2, <4>4, PumpingOnce
      <3>5. CASE lost' = lost \cup {c} /\ UNCHANGED <<acked, status>>
        BY <1>1, <2>2, <3>1, <3>2, <3>5, PumpingOnce
      <3> QED BY <2>2, <2>6, <3>3, <3>4, <3>5 DEF PumpAck, outboxVars, storeVars
    <2> QED BY <1>5, <2>4, <2>5, <2>6
  <1> QED BY <1>3, <1>4, <1>5

\* The daemon's life: a crash ends the life the repeats are counted in.
LEMMA LifeOnce ==
    ASSUME IInv, Once, IInv', Crash \/ Boot \/ GoLive \/ UNCHANGED vars PROVE Once'
  <1>1. UNCHANGED <<rows, acked, status, grants>>
    BY DEF Crash, Boot, GoLive, outboxVars, storeVars, history, sendHistory, vars
  <1>2. /\ RowsGrow /\ \A f \in Event : ReplyRows(f)' = ReplyRows(f)
        /\ \A f \in Event : grants'[f] >= grants[f]
    <2>1. RowsGrow /\ \A f \in Event : ReplyRows(f)' = ReplyRows(f)
      BY <1>1, RowTypes DEF IInv, RowsGrow, ReplyRows, Ids
    <2>2. \A f \in Event : grants'[f] >= grants[f]
      BY <1>1 DEF IInv, TypeOK
    <2> QED BY <2>1, <2>2
  <1>4. CASE Crash
    <2>1. mode' = "down" /\ turn' = [f \in Event |-> Blank] /\ pump' = Rest /\ sentNow' = {}
      BY <1>4 DEF Crash
    <2>2. ~Busy' /\ \A f \in Event : turn'[f].at = "none"
      BY <2>1 DEF Busy, Rest, Blank
    <2>3. \A f \in Event : Rerun(f)' /\ Unsent(f)'
      BY <1>1, <1>2, <2>1, <2>2 DEF Once, Rerun, Unsent
    <2> QED BY <2>1, <2>3 DEF Once
  <1>5. CASE Boot \/ GoLive
    <2>1. /\ UNCHANGED <<turn, pump, sentNow, lost, fenced, torn>> /\ mode # "up"
          /\ mode' = "up" => \A f \in Event : status[f] # "processing"
      BY <1>5 DEF Boot, GoLive, history, sendHistory
    <2>2. ~Busy' /\ pump.at # "ack"
      BY <2>1 DEF IInv, PumpOK, Busy
    <2>3. \A f \in Event : Rerun(f)' /\ Unsent(f)'
      BY <1>1, <1>2, <2>1, <2>2 DEF Once, Rerun, Unsent
    <2>4. ASSUME NEW r \in sentNow PROVE Settled(r)'
      <3>1. \A f \in Event : Window(f, r) => Window(f, r)'
        BY <1>1, <2>1 DEF Window
      <3> QED BY <1>1, <1>2, <2>1, <2>2, <3>1 DEF Once, Settled, Excused
    <2> QED BY <2>1, <2>3, <2>4 DEF Once
  <1>6. CASE UNCHANGED vars
    <2>1. UNCHANGED <<turn, pump, sentNow, lost, fenced, mode, torn>>
      BY <1>6 DEF vars, ramVars, history, sendHistory
    <2>2. Busy' = Busy /\ Current' = Current
      BY <2>1 DEF Busy, Current
    <2>3. \A f \in Event : Rerun(f)' /\ Unsent(f)'
      BY <1>1, <1>2, <2>1, <2>2 DEF Once, Rerun, Unsent
    <2>4. ASSUME NEW r \in sentNow PROVE Settled(r)'
      <3>1. \A f \in Event : Window(f, r) => Window(f, r)'
        BY <1>1, <2>1 DEF Window
      <3> QED BY <1>1, <1>2, <2>1, <2>2, <3>1 DEF Once, Settled, Excused
    <2> QED BY <2>1, <2>3, <2>4 DEF Once
  <1> QED BY <1>4, <1>5, <1>6

\* Every step keeps the second half of the invariant.
LEMMA NextOnce ==
    ASSUME IInv, Once, IInv', [Next]_vars PROVE Once'
  <1>1. ASSUME NEW e \in Event, Handler(e) PROVE Once'
    BY <1>1, RunningOnce, LeavingOnce, AckChunkOnce, SendChunkOnce, ComposingOnce DEF Handler
  <1>2. ASSUME Pump PROVE Once'
    BY <1>2, PumpOnce, ComposingOnce DEF Pump
  <1>3. ASSUME NEW e \in Event,
               \/ Receive(e) \/ Start(e) \/ Panic(e) \/ HumanRetry(e) \/ HumanDiscard(e) \/ BootPark(e)
        PROVE  Once'
    BY <1>3, RunningOnce, LeavingOnce
  <1> QED BY <1>1, <1>2, <1>3, LifeOnce DEF Next

\* What is in a sender's hands again after this life has sent it is excused:
\* the next chunk of a live turn is in nobody else's hands, and the pump's row
\* is neither acked nor in a handler's window.
LEMMA RepeatsAreExcused ==
    ASSUME IInv, Once PROVE RepeatsHaveCause
  <1> SUFFICES ASSUME NEW r \in Repeats
               PROVE  rows[r].kind = "reply" /\ (grants[rows[r].ev] > 0 \/ rows[r].ev \in torn)
    BY DEF RepeatsHaveCause
  <1>1. r \in InHand /\ r \in sentNow /\ r \notin lost
    BY DEF Repeats
  <1>2. ASSUME NEW e \in Event, turn[e].at = "send" PROVE RowOf(e, turn[e].accepted) \notin sentNow
    <2>1. turn[e] \in Turns /\ MaxChunks \in Nat
      BY OutboxAssumption DEF IInv, TypeOK
    <2>2. turn[e].accepted \in Nat /\ turn[e].accepted < turn[e].size
      BY <1>2, <2>1, Parts DEF EventOK, Sending, Turns
    <2>3. /\ RowOf(e, turn[e].accepted) \in ReplyRows(e)
          /\ rows[RowOf(e, turn[e].accepted)].n = turn[e].accepted
      BY <1>2, <2>2, ChunkIs
    <2> QED BY <1>2, <2>2, <2>3 DEF Once, Unsent
  <1>3. pump.at = "send" /\ r = Current
    BY <1>1, <1>2 DEF InHand, At
  <1>4. r \notin acked
    BY <1>3 DEF IInv, PumpOK
  <1>5. PICK f \in Event : r \in ReplyRows(f) /\ (Excused(f) \/ Window(f, r))
    BY <1>1, <1>3, <1>4 DEF Once, Settled
  <1>6. ~Window(f, r)
    <2>1. turn[f].at \in {"send", "ack"} => turn[f].fresh
      BY Parts DEF Control
    <2> QED BY <1>3, <1>5, <2>1 DEF Window, Claiming, Busy, IInv, Apart
  <1> QED BY <1>5, <1>6 DEF ReplyRows, Excused

\* Pump and relay together hand a row to the platform once in a life of the
\* daemon, unless its ack was lost on the way, a human had its event run again,
\* or its handler panicked before the completion stamp: otherwise the claim
\* table and the stamp keep the two senders apart.
THEOREM NoRepeats == Spec => []RepeatsHaveCause
  <1>1. Init => Once
    <2> SUFFICES ASSUME Init PROVE Once
      OBVIOUS
    <2>1. \A f \in Event : ReplyRows(f) = {}
      BY DEF Init, ReplyRows, Ids
    <2> QED BY <2>1 DEF Init, Once, Rerun, Unsent
  <1>2. IInv /\ Once /\ [Next]_vars => IInv' /\ Once'
    BY NextIInv, NextOnce
  <1>3. IInv /\ Once => RepeatsHaveCause
    BY RepeatsAreExcused
  <1> QED BY InitIInv, <1>1, <1>2, <1>3, PTL DEF Spec

=============================================================================
