------------------------------ MODULE Recovery ------------------------------
(***************************************************************************)
(* What happens to an event whose turn fails: internal/recovery, the error *)
(* leg of cli/turn.go, the park and death notices of internal/delivery,    *)
(* and the pump's sweep that repairs a notice that was lost.               *)
(*                                                                         *)
(* The judgment of a failed turn and the write that acts on it are         *)
(* separate steps, so a straggling tool hook, a refused write, a panic, a  *)
(* human command or a crash can fall between any two of them.  At most one *)
(* handler runs per event (Router proves it); which goroutine it is does   *)
(* not matter here.  A graceful shutdown cancels the handler's context:    *)
(* every later write of its error leg then fails, and the daemon exits,    *)
(* which is a failed write followed by Crash.                              *)
(***************************************************************************)
EXTENDS EventStore

CONSTANT MaxGrants     \* bound: human retries per event

ASSUME GrantsAssumption == MaxGrants \in Nat

VARIABLES
    mode,          \* the daemon: down, boot (Rebuild's parks), up
    at,            \* where each event's handler is
    owner,         \* is a Discord owner enrolled in `identities`?
    notices,       \* delivery keys of the notices in the outbox
    sweep,         \* what the pump's running sweep has still to surface
    \* history variables, that no guard reads (but for the bound MaxGrants)
    licence,       \* what put the event into 'received' last
    grants,        \* human retries per event
    stranded,      \* events left 'processing' by a write that failed
    unheard        \* park and death episodes nobody has been told of

ramVars == <<mode, at, owner, sweep>>
history == <<licence, grants, stranded, unheard>>
vars == <<storeVars, ramVars, notices, history>>

Modes == {"down", "boot", "up"}

\* turn: the engine runs; clean: the journal was read and allows a retry;
\* exhausted: the retry was refused for its budget; ambiguous: about to
\* park; parked, died: the row has moved, the notice is still to write;
\* unwound: the same, in the router's recover() after a panic.
Places == {"none", "turn", "clean", "exhausted", "ambiguous", "parked", "died",
           "unwound"}

Kinds == {"park", "death"}

TypeOK ==
    /\ StoreTypeOK
    /\ mode \in Modes
    /\ at \in [Event -> Places]
    /\ owner \in BOOLEAN
    /\ notices \in SUBSET (Kinds \X Event \X Nat)
    /\ sweep \in SUBSET (Kinds \X Event)
    /\ licence \in [Event -> {"none", "receipt", "auto", "human"}]
    /\ grants \in [Event -> Nat]
    /\ stranded \in SUBSET Event
    /\ unheard \in SUBSET (Kinds \X Event)

Init ==
    /\ StoreInit
    /\ mode = "down"
    /\ at = [e \in Event |-> "none"]
    /\ owner \in BOOLEAN
    /\ notices = {}
    /\ sweep = {}
    /\ licence = [e \in Event |-> "none"]
    /\ grants = [e \in Event |-> 0]
    /\ stranded = {}
    /\ unheard = {}

Goto(e, place) == at' = [at EXCEPT ![e] = place]

\* A write failed and the handler gives up: the row stays 'processing'.
Strand(e) ==
    /\ Goto(e, "none")
    /\ stranded' = stranded \cup {e}
    /\ UNCHANGED <<storeVars, unheard>>

-----------------------------------------------------------------------------
(* Notices.                                                                *)

\* The generation in a notice's key comes from the row the INSERT reads.
ParkKey(e) == <<"park", e, parks[e]>>
DeathKey(e) == <<"death", e, entries[e]>>

Compose(kind, e, key) ==
    /\ notices' = notices \cup {key}
    /\ unheard' = IF key \in notices THEN unheard ELSE unheard \ {<<kind, e>>}

\* SurfaceInterruptedCoordinated, when the store takes the insert.
SurfaceInterrupted(e) ==
    IF status[e] = "interrupted" THEN Compose("park", e, ParkKey(e))
    ELSE UNCHANGED <<notices, unheard>>

\* SurfaceDeadLetterCoordinated: without an owner there is nowhere to send.
SurfaceDeadLetter(e) ==
    /\ owner
    /\ IF deadLetter[e] = "open" THEN Compose("death", e, DeathKey(e))
       ELSE UNCHANGED <<notices, unheard>>

Surface(kind, e) ==
    \/ kind = "park" /\ SurfaceInterrupted(e)
    \/ kind = "death" /\ SurfaceDeadLetter(e)

UnsurfacedInterruptedEvents ==
    {e \in Event : status[e] = "interrupted" /\ ParkKey(e) \notin notices}

UnsurfacedDeadLetters ==
    {e \in Event : deadLetter[e] = "open" /\ DeathKey(e) \notin notices}

-----------------------------------------------------------------------------
(* The turn, as far as its end.                                            *)

Receive(e) ==
    /\ mode = "up"
    /\ InsertEvent(e)
    /\ licence' = [licence EXCEPT ![e] = "receipt"]
    /\ UNCHANGED <<ramVars, notices, grants, stranded, unheard>>

Start(e) ==
    /\ mode = "up"
    /\ at[e] = "none"
    /\ MarkEventProcessing(e)
    /\ Goto(e, "turn")
    /\ UNCHANGED <<mode, owner, sweep, notices, history>>

\* The success leg, and the refusal of an event that is not the owner's.
Finish(e) ==
    /\ at[e] = "turn"
    /\ \/ (MarkEventCompleted(e) \/ SkipEvent(e)) /\ Goto(e, "none")
          /\ UNCHANGED <<stranded, unheard>>
       \/ Strand(e)
    /\ UNCHANGED <<mode, owner, sweep, notices, licence, grants>>

\* A PreToolUse hook journals a call.  The hook may straggle: nothing ties
\* it to the place its turn's handler has reached.
ToolAttempt(e) ==
    /\ mode = "up"
    /\ \E kind \in AttemptKinds : InsertToolAttempt(e, kind)
    /\ UNCHANGED <<ramVars, notices, history>>

-----------------------------------------------------------------------------
(* The error leg.                                                          *)

\* HandleEngineFailure reads the journal; a partial reply already posted,
\* or a reply that could not be composed, parks on the caller's evidence.
Judge(e) ==
    /\ at[e] = "turn"
    /\ \/ /\ Goto(e, IF Unkeyed(e) THEN "ambiguous" ELSE "clean")
          /\ UNCHANGED <<storeVars, stranded, unheard>>
       \/ /\ Goto(e, "ambiguous")
          /\ UNCHANGED <<storeVars, stranded, unheard>>
       \/ Strand(e)                                \* journal unreadable
    /\ UNCHANGED <<mode, owner, sweep, notices, licence, grants>>

\* The guarded requeue and what each of its refusals leads to.
Requeue(e) ==
    /\ at[e] = "clean"
    /\ \/ /\ RequeueEventForRetry(e)
          /\ Goto(e, "none")
          /\ licence' = [licence EXCEPT ![e] = "auto"]
          /\ UNCHANGED <<stranded, unheard>>
       \/ /\ RequeueVerdict(e) \in {"exhausted", "side-effect"}
          /\ Goto(e, IF RequeueVerdict(e) = "exhausted" THEN "exhausted" ELSE "ambiguous")
          /\ UNCHANGED <<storeVars, licence, stranded, unheard>>
       \/ Strand(e) /\ UNCHANGED licence
    /\ UNCHANGED <<mode, owner, sweep, notices, grants>>

\* A malformed payload, or an exhausted budget.
Die(e) ==
    /\ DeadLetterEvent(e)
    /\ Goto(e, "died")
    /\ unheard' = unheard \cup {<<"death", e>>}
    /\ UNCHANGED stranded

DeadLetterMalformed(e) ==
    /\ at[e] = "turn"
    /\ Die(e) \/ Strand(e)
    /\ UNCHANGED <<mode, owner, sweep, notices, licence, grants>>

\* Seeded fault: a death that cannot be written has no fallback.
DeadLetterExhausted_NoFallback(e) ==
    /\ at[e] = "exhausted"
    /\ \/ Die(e)
       \/ Goto(e, "none") /\ UNCHANGED <<storeVars, stranded, unheard>>
    /\ UNCHANGED <<mode, owner, sweep, notices, licence, grants>>

\* A death that cannot be written falls back to a park.
DeadLetterExhausted(e) ==
    /\ at[e] = "exhausted"
    /\ \/ Die(e)
       \/ Goto(e, "ambiguous") /\ UNCHANGED <<storeVars, stranded, unheard>>
    /\ UNCHANGED <<mode, owner, sweep, notices, licence, grants>>

\* Every park opens an episode that somebody must hear of.
ParkOpens(e) ==
    /\ ParkEvent(e)
    /\ unheard' = IF status[e] \in {"received", "processing"}
                  THEN unheard \cup {<<"park", e>>} ELSE unheard

Park(e) ==
    /\ at[e] = "ambiguous"
    /\ \/ ParkOpens(e) /\ Goto(e, "parked") /\ UNCHANGED stranded
       \/ Strand(e)
    /\ UNCHANGED <<mode, owner, sweep, notices, licence, grants>>

\* The handler's last act: the notice, or a log line when it is refused.
Notify(e) ==
    /\ at[e] \in {"parked", "died", "unwound"}
    /\ \/ Surface(IF at[e] = "died" THEN "death" ELSE "park", e)
       \/ UNCHANGED <<notices, unheard>>
    /\ Goto(e, "none")
    /\ UNCHANGED <<storeVars, mode, owner, sweep, licence, grants, stranded>>

\* The router's recover() parks a panicking turn and announces the park.
Panic(e) ==
    /\ mode = "up"
    /\ at[e] \notin {"none", "unwound"}
    /\ \/ ParkOpens(e) /\ Goto(e, "unwound") /\ UNCHANGED stranded
       \/ Strand(e)
    /\ UNCHANGED <<mode, owner, sweep, notices, licence, grants>>

-----------------------------------------------------------------------------
(* The pump's sweep: a scan (parks, then deaths; a scan may fail), then    *)
(* one insert per event it found.  The list may be stale by then; the      *)
(* insert reads the row again.                                             *)

Unsurfaced(kind) ==
    IF kind = "park" THEN UnsurfacedInterruptedEvents ELSE UnsurfacedDeadLetters

SweepScan(kind) ==
    /\ mode = "up"
    /\ sweep = {}
    /\ sweep' = {kind} \X Unsurfaced(kind)
    /\ UNCHANGED <<storeVars, mode, at, owner, notices, history>>

SweepSurface(kind, e) ==
    /\ <<kind, e>> \in sweep
    /\ Surface(kind, e)
    /\ sweep' = sweep \ {<<kind, e>>}
    /\ UNCHANGED <<storeVars, mode, at, owner, licence, grants, stranded>>

SweepFails(kind, e) ==
    /\ <<kind, e>> \in sweep
    /\ sweep' = sweep \ {<<kind, e>>}
    /\ UNCHANGED <<storeVars, mode, at, owner, notices, history>>

-----------------------------------------------------------------------------
(* The human, the crash, the boot.                                         *)

HumanRetry(e) ==
    /\ mode = "up"
    /\ grants[e] < MaxGrants
    /\ RequeueInterruptedEvent(e) \/ ResolveDeadLetterRequeue(e)
    /\ licence' = [licence EXCEPT ![e] = "human"]
    /\ grants' = [grants EXCEPT ![e] = @ + 1]
    /\ UNCHANGED <<ramVars, notices, stranded, unheard>>

HumanDiscard(e) ==
    /\ mode = "up"
    /\ ResolveDeadLetterDiscard(e)
    /\ UNCHANGED <<ramVars, notices, history>>

Crash ==
    /\ mode # "down"
    /\ mode' = "down"
    /\ at' = [e \in Event |-> "none"]
    /\ sweep' = {}
    /\ UNCHANGED <<storeVars, owner, notices, history>>

\* SeedIdentities replaces the table from the configuration at every boot.
Boot ==
    /\ mode = "down"
    /\ mode' = "boot"
    /\ owner' \in BOOLEAN
    /\ UNCHANGED <<storeVars, at, sweep, notices, history>>

\* Rebuild parks a row it found mid-turn (a park it cannot write refuses the
\* boot, which is Crash) ...
BootPark(e) ==
    /\ mode = "boot"
    /\ status[e] = "processing"
    /\ ParkOpens(e)
    /\ Goto(e, "parked")
    /\ stranded' = stranded \ {e}
    /\ UNCHANGED <<mode, owner, sweep, notices, licence, grants>>

\* ... and each notice is tried (Notify) before the daemon goes on.
GoLive ==
    /\ mode = "boot"
    /\ \A e \in Event : status[e] # "processing" /\ at[e] = "none"
    /\ mode' = "up"
    /\ UNCHANGED <<storeVars, at, owner, sweep, notices, history>>

-----------------------------------------------------------------------------
Next ==
    \/ Boot \/ GoLive \/ Crash
    \/ \E kind \in Kinds : SweepScan(kind)
    \/ \E e \in Event :
        \/ Receive(e) \/ Start(e) \/ Finish(e) \/ ToolAttempt(e)
        \/ Judge(e) \/ Requeue(e) \/ DeadLetterMalformed(e)
        \/ DeadLetterExhausted(e) \/ Park(e) \/ Notify(e) \/ Panic(e)
        \/ HumanRetry(e) \/ HumanDiscard(e) \/ BootPark(e)
        \/ \E kind \in Kinds : SweepSurface(kind, e) \/ SweepFails(kind, e)

Spec == Init /\ [][Next]_vars

\* The pump's ticker repeats both scans for the daemon's whole life, and a
\* store that is asked again and again does not refuse for ever.
Fairness ==
    /\ \A kind \in Kinds : SF_vars(SweepScan(kind))
    /\ \A e \in Event, kind \in Kinds :
         /\ SF_vars(SweepSurface(kind, e))
         /\ WF_vars(SweepSurface(kind, e) \/ SweepFails(kind, e))

FairSpec == Spec /\ Fairness

-----------------------------------------------------------------------------
(* Properties.                                                             *)

\* A turn whose journal holds a side effect without an idempotency key is
\* never queued again by the machine, even when the attempt is journalled
\* between the judgment and the requeue: only a human puts it back.
NoBlindRerun ==
    \A e \in Event : status[e] = "received" /\ Unkeyed(e) => licence[e] = "human"

\* Every exit of a handler is a durable state a human can see: a row is
\* 'processing' without a handler only where a write failed, and an
\* exhausted budget is not such a place (it has a fallback).
OnlyFailureStrands ==
    mode = "up" => \A e \in Event :
        status[e] = "processing" => at[e] # "none" \/ e \in stranded

\* The two tables agree on who is dead: never a dead event without an
\* undecided or discarded record, nor such a record for a live event.
DeathOnRecord ==
    \A e \in Event : status[e] = "dead" <=> deadLetter[e] \in {"open", "discarded"}

\* A park that is still open is announced while the daemon stays up, be it
\* the event's first park or a later one, and whoever lost the notice.
ParkIsHeard ==
    \A e \in Event :
        mode = "up" /\ status[e] = "interrupted" /\ <<"park", e>> \in unheard
            ~> <<"park", e>> \notin unheard \/ status[e] # "interrupted" \/ mode # "up"

\* A death still undecided is announced to the owner, if one is enrolled.
DeathIsHeard ==
    \A e \in Event :
        mode = "up" /\ owner /\ deadLetter[e] = "open" /\ <<"death", e>> \in unheard
            ~> <<"death", e>> \notin unheard \/ deadLetter[e] # "open" \/ mode # "up"

\* Whatever ends in front of a human is heard of: both scans of the pump's
\* sweep find what a crash, a refused insert or a second park left unsaid.
FailureIsHeard == ParkIsHeard /\ DeathIsHeard

=============================================================================
