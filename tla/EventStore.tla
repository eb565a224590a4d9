----------------------------- MODULE EventStore -----------------------------
(***************************************************************************)
(* The durable side of the daemon: the rows of the SQLite tables `events`, *)
(* `dead_letters` and `tool_attempts`, and every transaction of            *)
(* internal/store that moves an event through its lifecycle.               *)
(*                                                                         *)
(* An event is identified by its dedup_key.  Each operator below is ONE    *)
(* SQL transaction: its guard is the WHERE clause, and a caller that finds *)
(* the guard false gets an error and no write.  The modules that EXTEND    *)
(* this one (Router, Recovery, Outbox) compose these transactions with the *)
(* in-memory state of the code that calls them.  Timestamps are left out:  *)
(* no guard reads one.                                                     *)
(***************************************************************************)
EXTENDS Naturals, FiniteSets

CONSTANTS Event,            \* dedup keys
          MaxEventRetries   \* the auto-retry budget (2 in the code)

ASSUME RetriesAssumption == MaxEventRetries \in Nat

VARIABLES status,       \* events.status; "absent" before the row exists
          rowid,        \* events.id, receipt order; 0 before the row exists
          lastId,       \* the highest id SQLite has handed out
          attempts,     \* events.attempts: auto retries spent
          parks,        \* events.parks: park episodes
          journal,      \* kinds of tool_attempts rows bound to the event
          deadLetter,   \* dead_letters.resolution; "none" without a row
          entries       \* dead_letters.entries: deaths recorded

storeVars == <<status, rowid, lastId, attempts, parks, journal,
               deadLetter, entries>>

Statuses == {"absent", "received", "processing", "completed", "replied",
             "skipped", "interrupted", "dead"}

\* "keyed": the attempt carries an idempotency key; "unkeyed": it does not.
AttemptKinds == {"keyed", "unkeyed"}

\* "open" is a row whose resolution is NULL: a death no human has decided.
Resolutions == {"none", "open", "requeued", "discarded"}

StoreTypeOK ==
    /\ status \in [Event -> Statuses]
    /\ rowid \in [Event -> Nat]
    /\ lastId \in Nat
    /\ attempts \in [Event -> Nat]
    /\ parks \in [Event -> Nat]
    /\ journal \in [Event -> SUBSET AttemptKinds]
    /\ deadLetter \in [Event -> Resolutions]
    /\ entries \in [Event -> Nat]

StoreInit ==
    /\ status = [e \in Event |-> "absent"]
    /\ rowid = [e \in Event |-> 0]
    /\ lastId = 0
    /\ attempts = [e \in Event |-> 0]
    /\ parks = [e \in Event |-> 0]
    /\ journal = [e \in Event |-> {}]
    /\ deadLetter = [e \in Event |-> "none"]
    /\ entries = [e \in Event |-> 0]

-----------------------------------------------------------------------------
(* Status moves that touch no other column.                                *)

Move(e, from, to) ==
    /\ status[e] \in from
    /\ status' = [status EXCEPT ![e] = to]
    /\ UNCHANGED <<rowid, lastId, attempts, journal, deadLetter, entries>>

\* Write on receipt.  A duplicate dedup_key is a no-op: see Router!Persist.
InsertEvent(e) ==
    /\ status[e] = "absent"
    /\ status' = [status EXCEPT ![e] = "received"]
    /\ lastId' = lastId + 1
    /\ rowid' = [rowid EXCEPT ![e] = lastId + 1]
    /\ UNCHANGED <<attempts, parks, journal, deadLetter, entries>>

MarkEventProcessing(e) == Move(e, {"received"}, "processing") /\ UNCHANGED parks

MarkEventCompleted(e) == Move(e, {"processing"}, "completed") /\ UNCHANGED parks

\* Seeded fault: the acks recorded while the event was parked are not read.
MarkEventCompletedReconciled_Plain(e, allAcked) ==
    Move(e, {"processing"}, "completed") /\ UNCHANGED parks

\* The duplicate-compose completion: straight to 'replied' when the caller's
\* delivery rows are all acked (allAcked is the SQL's CASE condition).
MarkEventCompletedReconciled(e, allAcked) ==
    /\ Move(e, {"processing"}, IF allAcked THEN "replied" ELSE "completed")
    /\ UNCHANGED parks

\* The event half of AckDelivery: the last ack advances a completed event.
AdvanceToReplied(e) == Move(e, {"completed"}, "replied") /\ UNCHANGED parks

SkipEvent(e) == Move(e, {"processing"}, "skipped") /\ UNCHANGED parks

\* Seeded fault: a repeated park does not open a new generation.
ParkEvent_Uncounted(e) ==
    IF status[e] \in {"received", "processing"}
    THEN /\ Move(e, {"received", "processing"}, "interrupted")
         /\ parks' = [parks EXCEPT ![e] = 1]
    ELSE UNCHANGED storeVars

\* Zero rows matched is not an error for a park: the row was already moved.
ParkEvent(e) ==
    IF status[e] \in {"received", "processing"}
    THEN /\ Move(e, {"received", "processing"}, "interrupted")
         /\ parks' = [parks EXCEPT ![e] = @ + 1]
    ELSE UNCHANGED storeVars

\* The human retry of a parked event; attempts is deliberately not charged.
RequeueInterruptedEvent(e) ==
    Move(e, {"interrupted"}, "received") /\ UNCHANGED parks

\* The rows a restart still owes something.
UnprocessedEvents == {e \in Event : status[e] \in {"received", "processing"}}

-----------------------------------------------------------------------------
(* The auto retry: the budget and the journal are re-checked by the same   *)
(* statement that grants it.  The verdict orders the refusals as the code's *)
(* read-back does.                                                         *)

Unkeyed(e) == "unkeyed" \in journal[e]

\* Seeded fault: the requeue trusts the caller's reading of the journal.
RequeueVerdict_NoJournal(e) ==
    CASE status[e] # "processing"        -> "wrong-state"
      [] attempts[e] >= MaxEventRetries  -> "exhausted"
      [] OTHER                           -> "granted"

RequeueVerdict(e) ==
    CASE status[e] # "processing"        -> "wrong-state"
      [] attempts[e] >= MaxEventRetries  -> "exhausted"
      [] Unkeyed(e)                      -> "side-effect"
      [] OTHER                           -> "granted"

RequeueEventForRetry(e) ==
    /\ RequeueVerdict(e) = "granted"
    /\ status' = [status EXCEPT ![e] = "received"]
    /\ attempts' = [attempts EXCEPT ![e] = @ + 1]
    /\ UNCHANGED <<rowid, lastId, parks, journal, deadLetter, entries>>

-----------------------------------------------------------------------------
(* tool_attempts: PreToolUse journals a call only while its turn is live.  *)

InsertToolAttempt(e, kind) ==
    /\ status[e] = "processing"
    /\ journal' = [journal EXCEPT ![e] = @ \cup {kind}]
    /\ UNCHANGED <<status, rowid, lastId, attempts, parks, deadLetter, entries>>

-----------------------------------------------------------------------------
(* dead_letters: the event row and its death record move in one            *)
(* transaction.                                                            *)

DeadLetterEvent(e) ==
    /\ status[e] \in {"processing", "interrupted"}
    /\ status' = [status EXCEPT ![e] = "dead"]
    /\ deadLetter' = [deadLetter EXCEPT ![e] = "open"]
    /\ entries' = [entries EXCEPT ![e] = @ + 1]
    /\ UNCHANGED <<rowid, lastId, attempts, parks, journal>>

ResolveDeadLetterRequeue(e) ==
    /\ deadLetter[e] = "open"
    /\ status[e] = "dead"
    /\ status' = [status EXCEPT ![e] = "received"]
    /\ deadLetter' = [deadLetter EXCEPT ![e] = "requeued"]
    /\ UNCHANGED <<rowid, lastId, attempts, parks, journal, entries>>

ResolveDeadLetterDiscard(e) ==
    /\ deadLetter[e] = "open"
    /\ deadLetter' = [deadLetter EXCEPT ![e] = "discarded"]
    /\ UNCHANGED <<status, rowid, lastId, attempts, parks, journal, entries>>

=============================================================================
