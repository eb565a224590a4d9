------------------------------ MODULE Sessions ------------------------------
(***************************************************************************)
(* The life of a thread's sessions: internal/session (Manager.Turn and the *)
(* steps it is made of, RotateNow) over the `sessions` table               *)
(* (internal/store: sessions.go, session_lifecycle.go, rotation.go).       *)
(*                                                                         *)
(* Calls for one thread are serialised by its queue (Router); a call is    *)
(* cut into the steps between which the clock moves, a directory vanishes, *)
(* the engine works, a write is refused, or the daemon dies.  Time is kept *)
(* as the two verdicts the code reads from it, `late` (a creating row past *)
(* its activation deadline) and `idle` (an active row past its idle TTL);  *)
(* SessionClock has the arithmetic behind them.                            *)
(***************************************************************************)
EXTENDS Naturals, FiniteSets

LOCAL INSTANCE FiniteSetsExt

CONSTANTS
    Thread,
    Session,     \* the UUIDs newSessionID can mint; bound: mints per behaviour
    Dir,         \* canonical directories
    TurnCap,     \* completed turns after which a session rotates
    MaxLost,     \* bound: bookkeeping writes and activations lost
    NoSession, NoThread, NoDir

ASSUME SessionsAssumption ==
    /\ TurnCap \in Nat \ {0}
    /\ MaxLost \in Nat
    /\ NoSession \notin Session
    /\ NoThread \notin Thread
    /\ NoDir \notin Dir

VARIABLES
    \* the sessions table
    status, threadOf, cwd, rotatedTo, turns, late, idle,
    \* the world
    dirs,        \* the directories that exist
    home,        \* the directory a Turn request names
    asked,       \* an event of the thread waits for its turn to succeed
    \* each thread's Turn call
    at, id, note,
    \* history variables, that no guard reads (but for the bound MaxLost)
    ran,         \* turns the engine answered on the session's transcript
    lost,        \* those whose bookkeeping the table was never told of
    orphaned,    \* first turns that were answered but never activated
    said         \* did the last opening turn carry the transparency note?

rowVars == <<status, threadOf, cwd, rotatedTo, turns, late, idle>>
world == <<dirs, home, asked>>
callVars == <<at, id, note>>
history == <<ran, lost, orphaned, said>>
vars == <<rowVars, world, callVars, history>>

Statuses == {"unminted", "creating", "active", "rotated", "resume_failed", "failed"}
Live == {"creating", "active"}

\* none: no call; cut: none either, since a failure of the store or of the
\* engine or the daemon's death cut it; ensured: Ensure returned; first:
\* startNew is called; starting, resuming: the engine runs; ran: Engine.Start
\* returned nil; touch: the turn is answered, its bookkeeping is still to
\* write; resume: resume is called; degrade: the transcript is known to be
\* gone.
Places == {"none", "cut", "ensured", "first", "starting", "ran", "resume", "resuming",
           "touch", "degrade"}
NoCall == {"none", "cut"}

TypeOK ==
    /\ status \in [Session -> Statuses]
    /\ threadOf \in [Session -> Thread \cup {NoThread}]
    /\ cwd \in [Session -> Dir \cup {NoDir}]
    /\ rotatedTo \in [Session -> Session \cup {NoSession}]
    /\ turns \in [Session -> Nat]
    /\ late \in [Session -> BOOLEAN]
    /\ idle \in [Session -> BOOLEAN]
    /\ dirs \in SUBSET Dir
    /\ home \in Dir
    /\ asked \in [Thread -> BOOLEAN]
    /\ at \in [Thread -> Places]
    /\ id \in [Thread -> Session \cup {NoSession}]
    /\ note \in [Thread -> BOOLEAN]
    /\ ran \in [Session -> Nat]
    /\ lost \in [Session -> Nat]
    /\ orphaned \in [Session -> Nat]
    /\ said \in [Thread -> BOOLEAN]

Init ==
    /\ status = [s \in Session |-> "unminted"]
    /\ threadOf = [s \in Session |-> NoThread]
    /\ cwd = [s \in Session |-> NoDir]
    /\ rotatedTo = [s \in Session |-> NoSession]
    /\ turns = [s \in Session |-> 0]
    /\ late = [s \in Session |-> FALSE]
    /\ idle = [s \in Session |-> FALSE]
    /\ dirs = Dir
    /\ home \in Dir
    /\ asked = [t \in Thread |-> FALSE]
    /\ at = [t \in Thread |-> "none"]
    /\ id = [t \in Thread |-> NoSession]
    /\ note = [t \in Thread |-> FALSE]
    /\ ran = [s \in Session |-> 0]
    /\ lost = [s \in Session |-> 0]
    /\ orphaned = [s \in Session |-> 0]
    /\ said = [t \in Thread |-> FALSE]

-----------------------------------------------------------------------------
(* The table's reads and transactions *)

\* The thread's live session, as a set: ResolveLiveSession.
ResolveLiveSession(t) == {s \in Session : threadOf[s] = t /\ status[s] \in Live}

\* A v4 UUID nobody has used: which one does not matter.
NewSessionID ==
    LET unused == {s \in Session : status[s] = "unminted"} IN
    {f \in unused : f = CHOOSE s \in unused : TRUE}

\* InsertSession: a row born creating.  canonicalCwd refuses a directory
\* that does not exist; one_live_session refuses a second live row.
InsertSession(f, t, d) ==
    /\ status[f] = "unminted"
    /\ d \in dirs
    /\ ResolveLiveSession(t) = {}
    /\ status' = [status EXCEPT ![f] = "creating"]
    /\ threadOf' = [threadOf EXCEPT ![f] = t]
    /\ cwd' = [cwd EXCEPT ![f] = d]
    /\ UNCHANGED <<rotatedTo, turns, late, idle>>

\* Seeded fault: the successor is inserted but never linked.
RetireSession_Fault(s, from, to, f, t, d) ==
    /\ status[s] = from /\ threadOf[s] = t
    /\ status[f] = "unminted"
    /\ d \in dirs
    /\ ResolveLiveSession(t) = {s}
    /\ status' = [status EXCEPT ![s] = to, ![f] = "creating"]
    /\ threadOf' = [threadOf EXCEPT ![f] = t]
    /\ cwd' = [cwd EXCEPT ![f] = d]
    /\ UNCHANGED <<rotatedTo, turns, late, idle>>

\* retireSession: demote s, insert its successor f, link them; one
\* transaction, so a refusal of any of the three undoes the others.  (The
\* clock's verdicts are about live rows only.)
RetireSession(s, from, to, f, t, d) ==
    /\ status[s] = from /\ threadOf[s] = t
    /\ status[f] = "unminted"
    /\ d \in dirs
    /\ ResolveLiveSession(t) = {s}
    /\ status' = [status EXCEPT ![s] = to, ![f] = "creating"]
    /\ threadOf' = [threadOf EXCEPT ![f] = t]
    /\ cwd' = [cwd EXCEPT ![f] = d]
    /\ rotatedTo' = [rotatedTo EXCEPT ![s] = f]
    /\ late' = [late EXCEPT ![s] = FALSE] /\ idle' = [idle EXCEPT ![s] = FALSE]
    /\ UNCHANGED turns

RotateSession(s, f, t, d) == RetireSession(s, "active", "rotated", f, t, d)

ResumeFailSession(s, f, t, d) == RetireSession(s, "active", "resume_failed", f, t, d)

ExpireSession(s, f, t, d) == RetireSession(s, "creating", "failed", f, t, d)

Preds(s) == {p \in Session : rotatedTo[p] = s}

\* The recursive query of SessionDegraded: its chain is the smallest set
\* that holds s's predecessors and the predecessors of its failed members.
Chain(s) ==
    {p \in Session :
        \A S \in SUBSET Session :
            /\ Preds(s) \subseteq S
            /\ \A c \in S : status[c] = "failed" => Preds(c) \subseteq S
            => p \in S}

\* Seeded fault: the walk stops at the direct predecessor.
SessionDegraded_Fault(s) == \E p \in Preds(s) : status[p] = "resume_failed"

SessionDegraded(s) == \E p \in Chain(s) : status[p] = "resume_failed"

\* rotationCause: the session's caps.
RotationDue(s) == turns[s] >= TurnCap \/ idle[s]

-----------------------------------------------------------------------------
(* One Turn call *)

Goto(t, place, s, n) ==
    /\ at' = [at EXCEPT ![t] = place]
    /\ id' = [id EXCEPT ![t] = s]
    /\ note' = [note EXCEPT ![t] = n]

Leave(t) == Goto(t, "none", NoSession, FALSE)
Cut(t) == Goto(t, "cut", NoSession, FALSE)

MayLose == MapThenSumSet(LAMBDA s : lost[s] + orphaned[s], Session) < MaxLost

\* Ensure finds a live session it may use.
EnsureLive(t) ==
    /\ at[t] \in NoCall /\ asked[t]
    /\ \E s \in ResolveLiveSession(t) :
        /\ status[s] = "active" \/ ~late[s]
        /\ Goto(t, "ensured", s, FALSE)
    /\ UNCHANGED <<rowVars, world, history>>

\* Ensure finds a creating session past its deadline: failed, replaced.
EnsureExpired(t) ==
    /\ at[t] \in NoCall /\ asked[t]
    /\ \E s \in ResolveLiveSession(t), f \in NewSessionID :
        /\ status[s] # "active" /\ late[s]
        /\ ExpireSession(s, f, t, home)
        /\ Goto(t, "ensured", f, FALSE)
    /\ UNCHANGED <<world, history>>

\* Ensure finds nothing live: pin.
EnsurePin(t) ==
    /\ at[t] \in NoCall /\ asked[t]
    /\ ResolveLiveSession(t) = {}
    /\ \E f \in NewSessionID :
        /\ InsertSession(f, t, home)
        /\ Goto(t, "ensured", f, FALSE)
    /\ UNCHANGED <<world, history>>

\* Caps are checked before the turn: the event lands on the successor.
RotateDue(t) ==
    /\ at[t] = "ensured" /\ status[id[t]] = "active" /\ RotationDue(id[t])
    /\ cwd[id[t]] \in dirs
    /\ \E f \in NewSessionID :
        /\ RotateSession(id[t], f, t, cwd[id[t]])
        /\ Goto(t, "ensured", f, FALSE)
    /\ UNCHANGED <<world, history>>

\* Seeded fault: the rotation is tried in place and its refusal returned.
RotateDueCwdGone_Fault(t) ==
    /\ at[t] = "ensured" /\ status[id[t]] = "active" /\ RotationDue(id[t])
    /\ cwd[id[t]] \notin dirs
    /\ Leave(t)
    /\ UNCHANGED <<rowVars, world, history>>

\* A rotation due in a directory that is gone cannot happen in place.
RotateDueCwdGone(t) ==
    /\ at[t] = "ensured" /\ status[id[t]] = "active" /\ RotationDue(id[t])
    /\ cwd[id[t]] \notin dirs
    /\ Goto(t, "degrade", id[t], FALSE)
    /\ UNCHANGED <<rowVars, world, history>>

\* A creating session owes its first turn; the note comes from the links.
OweFirstTurn(t) ==
    /\ at[t] = "ensured" /\ status[id[t]] = "creating"
    /\ Goto(t, "first", id[t], SessionDegraded(id[t]))
    /\ UNCHANGED <<rowVars, world, history>>

OweResume(t) ==
    /\ at[t] = "ensured" /\ status[id[t]] = "active" /\ ~RotationDue(id[t])
    /\ Goto(t, "resume", id[t], FALSE)
    /\ UNCHANGED <<rowVars, world, history>>

\* degradeResumeFailed, then the event runs as the successor's first turn.
DegradeResumeFailed(t) ==
    /\ at[t] = "degrade"
    /\ \E f \in NewSessionID :
        /\ ResumeFailSession(id[t], f, t, home)
        /\ Goto(t, "first", f, TRUE)
    /\ UNCHANGED <<world, history>>

\* Seeded fault: the row is activated when the engine is spawned.
StartNew_Fault(t) ==
    /\ at[t] = "first"
    /\ id[t] \in ResolveLiveSession(t) /\ status[id[t]] = "creating"
    /\ ~late[id[t]] /\ cwd[id[t]] \in dirs
    /\ status' = [status EXCEPT ![id[t]] = "active"]
    /\ Goto(t, "starting", id[t], note[t])
    /\ UNCHANGED <<threadOf, cwd, rotatedTo, turns, late, idle, world, history>>

\* startNew up to the spawn: the row is read again, a passed deadline
\* refuses, and a child cannot be spawned where there is no directory.
StartNew(t) ==
    /\ at[t] = "first"
    /\ \/ /\ id[t] \in ResolveLiveSession(t) /\ status[id[t]] = "creating"
          /\ ~late[id[t]] /\ cwd[id[t]] \in dirs
          /\ Goto(t, "starting", id[t], note[t])
       \/ /\ \/ id[t] \notin ResolveLiveSession(t) \/ status[id[t]] # "creating"
             \/ late[id[t]] \/ cwd[id[t]] \notin dirs
          /\ Leave(t)
    /\ UNCHANGED <<rowVars, world, history>>

\* Engine.Start returned nil: the transcript is written, its row does not
\* say so yet.
EngineStarted(t) ==
    /\ at[t] = "starting"
    /\ ran' = [ran EXCEPT ![id[t]] = @ + 1]
    /\ Goto(t, "ran", id[t], note[t])
    /\ UNCHANGED <<rowVars, world, lost, orphaned, said>>

\* The tail of startNew: a turn that came in after the deadline must not
\* activate a row Ensure is entitled to fail.
ActivateSession(t) ==
    /\ at[t] = "ran" /\ ~late[id[t]]
    /\ status[id[t]] = "creating"
    /\ status' = [status EXCEPT ![id[t]] = "active"]
    /\ said' = [said EXCEPT ![t] = note[t]]
    /\ Goto(t, "touch", id[t], FALSE)
    /\ UNCHANGED <<threadOf, cwd, rotatedTo, turns, late, idle, world, ran, lost, orphaned>>

LateFirstTurn(t) ==
    /\ at[t] = "ran" /\ late[id[t]]
    /\ orphaned' = [orphaned EXCEPT ![id[t]] = @ + 1]
    /\ Leave(t)
    /\ UNCHANGED <<rowVars, world, ran, lost, said>>

\* The activation write fails: the row stays creating, and the next turn
\* starts the same session id over the transcript that is there.
ActivationFails(t) ==
    /\ at[t] = "ran" /\ MayLose
    /\ orphaned' = [orphaned EXCEPT ![id[t]] = @ + 1]
    /\ Cut(t)
    /\ UNCHANGED <<rowVars, world, ran, lost, said>>

\* resume up to the spawn.
Resume(t) ==
    /\ at[t] = "resume"
    /\ \/ /\ id[t] \in ResolveLiveSession(t) /\ status[id[t]] = "active"
          /\ IF cwd[id[t]] \in dirs
             THEN Goto(t, "resuming", id[t], FALSE)
             ELSE Goto(t, "degrade", id[t], FALSE)
       \/ /\ id[t] \notin ResolveLiveSession(t) \/ status[id[t]] # "active"
          /\ Leave(t)
    /\ UNCHANGED <<rowVars, world, history>>

\* Engine.Resume returned nil.
EngineResumed(t) ==
    /\ at[t] = "resuming"
    /\ ran' = [ran EXCEPT ![id[t]] = @ + 1]
    /\ Goto(t, "touch", id[t], FALSE)
    /\ UNCHANGED <<rowVars, world, lost, orphaned, said>>

\* The engine's verdict that the transcript can never be resumed.
EngineResumeFailed(t) ==
    /\ at[t] = "resuming"
    /\ Goto(t, "degrade", id[t], FALSE)
    /\ UNCHANGED <<rowVars, world, history>>

\* Any other engine error leaves the session as it is.
EngineFails(t) ==
    /\ at[t] \in {"starting", "resuming"}
    /\ Cut(t)
    /\ UNCHANGED <<rowVars, world, history>>

\* TouchSession succeeds and the turn has: the event is answered.
Touch(t) ==
    /\ at[t] = "touch"
    /\ turns' = [turns EXCEPT ![id[t]] = @ + 1]
    /\ idle' = [idle EXCEPT ![id[t]] = FALSE]
    /\ asked' = [asked EXCEPT ![t] = FALSE]
    /\ Leave(t)
    /\ UNCHANGED <<status, threadOf, cwd, rotatedTo, late, dirs, home, history>>

\* A lost touch is only logged.
TouchFails(t) ==
    /\ at[t] = "touch" /\ MayLose
    /\ lost' = [lost EXCEPT ![id[t]] = @ + 1]
    /\ asked' = [asked EXCEPT ![t] = FALSE]
    /\ Leave(t)
    /\ UNCHANGED <<rowVars, dirs, home, ran, orphaned, said>>

\* A store call fails (refused, or its context is cancelled): Turn returns
\* an error with whatever was committed before it.
StoreFails(t) ==
    /\ at[t] \in {"ensured", "first", "resume", "degrade"}
    /\ Cut(t)
    /\ UNCHANGED <<rowVars, world, history>>

\* Seeded fault: /new is served beside the thread's queue.
RotateNow_Fault(t) ==
    /\ \E s \in ResolveLiveSession(t), f \in NewSessionID :
        /\ status[s] = "active" /\ cwd[s] \in dirs
        /\ RotateSession(s, f, t, cwd[s])
    /\ UNCHANGED <<world, callVars, history>>

\* /new: retire the active session, its successor waits for the next event.
RotateNow(t) ==
    /\ at[t] \in NoCall
    /\ \E s \in ResolveLiveSession(t), f \in NewSessionID :
        /\ status[s] = "active" /\ cwd[s] \in dirs
        /\ RotateSession(s, f, t, cwd[s])
    /\ UNCHANGED <<world, callVars, history>>

-----------------------------------------------------------------------------
(* The world *)

\* An event of the thread is dispatched; one whose turn failed is tried
\* again, until it is parked or dead (Recovery).
Dispatch(t) ==
    /\ at[t] \in NoCall /\ ~asked[t]
    /\ asked' = [asked EXCEPT ![t] = TRUE]
    /\ UNCHANGED <<rowVars, dirs, home, callVars, history>>

GiveUp(t) ==
    /\ at[t] \in NoCall /\ asked[t]
    /\ asked' = [asked EXCEPT ![t] = FALSE]
    /\ UNCHANGED <<rowVars, dirs, home, callVars, history>>

\* The activation deadline of a creating session passes.
DeadlinePasses(s) ==
    /\ status[s] = "creating" /\ ~late[s]
    /\ late' = [late EXCEPT ![s] = TRUE]
    /\ UNCHANGED <<status, threadOf, cwd, rotatedTo, turns, idle, world, callVars, history>>

\* A live session has not been used for the idle TTL.
IdlePasses(s) ==
    /\ status[s] \in Live /\ ~idle[s]
    /\ idle' = [idle EXCEPT ![s] = TRUE]
    /\ UNCHANGED <<status, threadOf, cwd, rotatedTo, turns, late, world, callVars, history>>

\* A directory is moved away or comes back.
DirMoves(d) ==
    /\ dirs' = (dirs \ {d}) \cup ({d} \ dirs)
    /\ UNCHANGED <<rowVars, home, asked, callVars, history>>

\* The daemon dies and is started again, perhaps from another directory.
\* Calls are forgotten and their events parked; an activation or bookkeeping
\* not yet written is lost.
Crash ==
    /\ \A t \in Thread : at[t] \in {"ran", "touch"} => MayLose
    /\ lost' = [s \in Session |->
                  IF \E t \in Thread : at[t] = "touch" /\ id[t] = s
                  THEN lost[s] + 1 ELSE lost[s]]
    /\ orphaned' = [s \in Session |->
                  IF \E t \in Thread : at[t] = "ran" /\ id[t] = s
                  THEN orphaned[s] + 1 ELSE orphaned[s]]
    /\ at' = [t \in Thread |-> IF at[t] \in NoCall THEN at[t] ELSE "cut"]
    /\ id' = [t \in Thread |-> NoSession]
    /\ note' = [t \in Thread |-> FALSE]
    /\ asked' = [t \in Thread |-> asked[t] /\ at[t] \in NoCall]
    /\ home' \in Dir
    /\ UNCHANGED <<rowVars, dirs, ran, said>>

Turn(t) ==
    \/ EnsureLive(t) \/ EnsureExpired(t) \/ EnsurePin(t)
    \/ RotateDue(t) \/ RotateDueCwdGone(t) \/ OweFirstTurn(t) \/ OweResume(t)
    \/ DegradeResumeFailed(t)
    \/ StartNew(t) \/ EngineStarted(t) \/ ActivateSession(t) \/ LateFirstTurn(t)
    \/ Resume(t) \/ EngineResumed(t) \/ EngineResumeFailed(t) \/ EngineFails(t)
    \/ Touch(t) \/ TouchFails(t) \/ ActivationFails(t) \/ StoreFails(t)

Next ==
    \/ \E t \in Thread : Turn(t) \/ RotateNow(t) \/ Dispatch(t) \/ GiveUp(t)
    \/ \E s \in Session : DeadlinePasses(s) \/ IdlePasses(s)
    \/ \E d \in Dir : DirMoves(d)
    \/ Crash

Spec == Init /\ [][Next]_vars

\* A call goes on, whatever it runs into, and deadlines pass.
Advance(t) ==
    \/ EnsureLive(t) \/ EnsureExpired(t) \/ EnsurePin(t)
    \/ RotateDue(t) \/ RotateDueCwdGone(t) \/ OweFirstTurn(t) \/ OweResume(t)
    \/ DegradeResumeFailed(t)
    \/ StartNew(t) \/ EngineStarted(t) \/ ActivateSession(t) \/ LateFirstTurn(t)
    \/ Resume(t) \/ EngineResumed(t) \/ EngineResumeFailed(t) \/ Touch(t)

FairSpec ==
    /\ Spec
    /\ \A s \in Session : WF_vars(DeadlinePasses(s))
    /\ \A t \in Thread : WF_vars(Advance(t))

-----------------------------------------------------------------------------
(* Properties *)

Ancestry(s) ==
    {p \in Session :
        \A S \in SUBSET Session :
            s \in S /\ (\A c \in S : Preds(c) \subseteq S) => p \in S}

\* Every row a thread ever had leads, link by link, to its one live row:
\* no rotation, expiry or degradation, cut short anywhere, leaves a row
\* that the walk from the live session cannot reach (retireSession's
\* transaction, rotated_to written in it).
OneLineage ==
    \A t \in Thread :
        LET mine == {s \in Session : threadOf[s] = t} IN
        mine # {} => \E s \in ResolveLiveSession(t) : Ancestry(s) = mine

\* A session answers at most TurnCap turns, and one more for each bookkeeping
\* write that was lost (touch: "strictly worse than a session outliving its
\* caps by one turn") and each activation, across failed turns and restarts.
CapOutlivedOnlyByLostTouches ==
    \A s \in Session : ran[s] <= TurnCap + lost[s] + orphaned[s]

\* The engine is told --session-id only for a transcript on which every
\* answered turn was a first turn whose activation was lost (the write
\* refused, the daemon dead, the deadline past), and --resume only for one on
\* which some answered turn was not: the row's status decides, it was read
\* some steps earlier, and the engine has run in between.
StartThenResume ==
    \A t \in Thread :
        /\ at[t] = "starting" => ran[id[t]] = orphaned[id[t]]
        /\ at[t] = "resuming" => ran[id[t]] > orphaned[id[t]]

\* A retired row is kept for forensics: no turn that was under way, no
\* late bookkeeping (TouchSession has no status guard) changes it again.
RetiredIsHistory ==
    [][\A s \in Session : status[s] \notin Live \cup {"unminted"} =>
        /\ status'[s] = status[s] /\ rotatedTo'[s] = rotatedTo[s]
        /\ turns'[s] = turns[s] /\ cwd'[s] = cwd[s]]_vars

\* The conversation the rows stand for.
Conv(t) ==
    LET live == ResolveLiveSession(t) IN
    IF \E s \in live : live = {s} /\ status[s] = "creating" THEN "fresh"
    ELSE IF \E s \in live : live = {s} /\ status[s] = "active" THEN "open"
    ELSE IF live = {} /\ \A s \in Session : threadOf[s] # t THEN "none"
    ELSE "torn"

Owed(t) ==
    \E s \in ResolveLiveSession(t) : status[s] = "creating" /\ SessionDegraded(s)

Promise == INSTANCE SessionPromise WITH
    conv <- [t \in Thread |-> Conv(t)],
    owed <- [t \in Thread |-> Owed(t)]

\* The rows and their links keep the promise: a thread that lost its
\* history is told so by the first turn answered afterwards, however many
\* failures, expiries and restarts lie between, and is not told so
\* otherwise; and it is never left with no session or with two
\* (SessionDegraded's walk, retireSession).
PromiseKept == Promise!Spec

Exhausted == \A s \in Session : status[s] # "unminted"

\* No thread is wedged: once the engine and the store stop failing and the
\* directory requests name is there, an event that is tried again and
\* again is answered (or the model has no session id left), whatever has
\* become of the recorded directory, the transcript or the first spawn
\* (Turn's degradations, Ensure's expiry).
TurnGetsThrough ==
    \A t \in Thread :
        <>[](home \in dirs /\ at[t] # "cut") => (asked[t] ~> (~asked[t] \/ Exhausted))

=============================================================================
