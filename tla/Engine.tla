------------------------------- MODULE Engine -------------------------------
(***************************************************************************)
(* One engine turn as a child process: internal/engine/engine.go, run and  *)
(* record, with the parts of os/exec they rely on.                         *)
(*                                                                         *)
(* The child leads a process group; a helper it forks inherits its output  *)
(* pipes and may outlive it.  The turn's context ends by its wall clock,   *)
(* by the session's activation window or by a shutdown, at ANY instant,    *)
(* also while run is already past the child.  exec's watcher then TERMs    *)
(* the group, and WaitDelay later kills the leader and closes the pipes.   *)
(***************************************************************************)
EXTENDS Naturals

CONSTANT Stubborn    \* the processes that ignore SIGTERM

ASSUME EngineAssumption == Stubborn \subseteq {"leader", "helper"}

VARIABLES
    pc,        \* where run is
    ctx,       \* live, or why it ended: deadline, shutdown
    leader, helper,    \* the two processes
    termed,    \* SIGTERM was sent to the group
    exit,      \* how the leader ended; gone: "no conversation found"
    score,     \* the stream's result event: unseen, ok, bad
    watch,     \* exec's watcher: on, or off
    watchErr,  \* its verdict: nil, ctx
    timer,     \* WaitDelay: off, running, fired
    copier,    \* the stdout goroutine: reading, busy (in Spec.Output), done (it
               \* read the end of the output), cut (exec closed its pipe)
    err,       \* cmd.Run's error: nil, spawn, exit, ctx, delay
    outcome,   \* the C11 row, once recorded
    result     \* what run returned

procVars == <<leader, helper, termed, exit, score>>
execVars == <<watch, watchErr, timer, copier>>
runVars == <<err, outcome, result>>
vars == <<pc, ctx, procVars, execVars, runVars>>

TypeOK ==
    /\ pc \in {"idle", "waiting", "reaped", "joining", "ran", "swept", "recorded", "returned"}
    /\ ctx \in {"live", "deadline", "shutdown"}
    /\ leader \in {"unborn", "alive", "zombie", "reaped"}
    /\ helper \in {"unborn", "alive", "dead"}
    /\ termed \in BOOLEAN
    /\ exit \in {"none", "ok", "failed", "gone"}
    /\ score \in {"unseen", "ok", "bad"}
    /\ watch \in {"on", "off"}
    /\ watchErr \in {"nil", "ctx"}
    /\ timer \in {"off", "running", "fired"}
    /\ copier \in {"reading", "busy", "done", "cut"}
    /\ err \in {"nil", "spawn", "exit", "ctx", "delay"}
    /\ outcome \in {"none", "ok", "error", "timeout"}
    /\ result \in {"none", "nil", "killed", "resume_failed", "error"}

Init ==
    /\ pc = "idle" /\ ctx = "live"
    /\ leader = "unborn" /\ helper = "unborn" /\ termed = FALSE
    /\ exit = "none" /\ score = "unseen"
    /\ watch = "off" /\ watchErr = "nil" /\ timer = "off" /\ copier = "done"
    /\ err = "nil" /\ outcome = "none" /\ result = "none"

-----------------------------------------------------------------------------
(* The world: the context and the processes *)

\* The wall clock, the activation window, or a shutdown.
ContextEnds(why) ==
    /\ pc # "idle" /\ pc # "returned"
    /\ ctx = "live"
    /\ ctx' = why
    /\ UNCHANGED <<pc, procVars, execVars, runVars>>

Fork ==
    /\ leader = "alive" /\ helper = "unborn"
    /\ helper' = "alive"
    /\ UNCHANGED <<pc, ctx, leader, termed, exit, score, execVars, runVars>>

\* The leader ends, of itself or because it heeds the TERM.
LeaderExits(how, s) ==
    /\ leader = "alive"
    /\ leader' = "zombie"
    /\ exit' = how /\ score' = s
    /\ UNCHANGED <<pc, ctx, helper, termed, execVars, runVars>>

HelperExits ==
    /\ helper = "alive"
    /\ helper' = "dead"
    /\ UNCHANGED <<pc, ctx, leader, termed, exit, score, execVars, runVars>>

\* turnStats.Write passes assistant text to Spec.Output, and returns.
Output ==
    /\ copier = "reading" /\ (leader = "alive" \/ helper = "alive")
    /\ copier' = "busy"
    /\ UNCHANGED <<pc, ctx, procVars, watch, watchErr, timer, runVars>>

\* ... to find the pipe closed on our side, or to read on.
OutputReturns ==
    /\ copier = "busy"
    /\ copier' = IF timer = "fired" THEN "cut" ELSE "reading"
    /\ UNCHANGED <<pc, ctx, procVars, watch, watchErr, timer, runVars>>

EndOfOutput ==
    /\ copier = "reading" /\ leader # "alive" /\ helper # "alive"
    /\ copier' = "done"
    /\ UNCHANGED <<pc, ctx, procVars, watch, watchErr, timer, runVars>>

-----------------------------------------------------------------------------
(* os/exec: Start, the watcher, Wait *)

CmdStart ==
    /\ pc = "idle"
    /\ pc' = "waiting"
    /\ leader' = "alive"
    /\ watch' = "on" /\ copier' = "reading"
    /\ UNCHANGED <<ctx, helper, termed, exit, score, watchErr, timer, runVars>>

CmdStartFails ==
    /\ pc = "idle"
    /\ pc' = "ran"
    /\ err' = "spawn"
    /\ UNCHANGED <<ctx, procVars, execVars, outcome, result>>

\* termGroup: TERM reaches whatever is left of the group, a leader nobody
\* has waited for included; ESRCH reads as os.ErrProcessDone.
TermGroup ==
    \/ /\ leader \in {"alive", "zombie"} \/ helper = "alive"
       /\ termed' = TRUE /\ watchErr' = "ctx"
    \/ /\ leader \notin {"alive", "zombie"} /\ helper # "alive"
       /\ UNCHANGED <<termed, watchErr>>

\* Seeded fault: cmd.WaitDelay is not set.
Watch_Fault ==
    /\ watch = "on" /\ ctx # "live"
    /\ TermGroup
    /\ watch' = "off"
    /\ UNCHANGED <<pc, ctx, leader, helper, exit, score, timer, copier, runVars>>

\* The watcher sees the context end: cmd.Cancel, then WaitDelay starts.
Watch ==
    /\ watch = "on" /\ ctx # "live"
    /\ TermGroup
    /\ watch' = "off" /\ timer' = "running"
    /\ UNCHANGED <<pc, ctx, leader, helper, exit, score, copier, runVars>>

\* WaitDelay is over: a leader still alive is killed, the pipes are closed.
WaitDelayOver ==
    /\ timer = "running"
    /\ timer' = "fired"
    /\ leader' = IF leader = "alive" THEN "zombie" ELSE leader
    /\ exit' = IF leader = "alive" THEN "failed" ELSE exit
    /\ copier' = IF copier = "reading" THEN "cut" ELSE copier
    /\ UNCHANGED <<pc, ctx, helper, termed, score, watch, watchErr, runVars>>

\* Wait reaps the leader, and has its exit status for a first verdict.
WaitReaps ==
    /\ pc = "waiting" /\ leader = "zombie"
    /\ pc' = "reaped"
    /\ leader' = "reaped"
    /\ err' = IF exit # "ok" THEN "exit" ELSE "nil"
    /\ UNCHANGED <<ctx, helper, termed, exit, score, execVars, outcome, result>>

\* Wait stops the watcher, or hears its verdict (until then a cancel can still
\* find what is left of the group); the pipes have WaitDelay from here, unless
\* it is already running.
WaitStopsWatch ==
    /\ pc = "reaped"
    /\ pc' = "joining"
    /\ watch' = "off"
    /\ timer' = IF timer = "off" THEN "running" ELSE timer
    /\ err' = IF err = "nil" THEN watchErr ELSE err
    /\ UNCHANGED <<ctx, procVars, watchErr, copier, outcome, result>>

\* Seeded fault: closing a pipe that somebody still holds is no error.
WaitJoins_Fault ==
    /\ pc = "joining"
    /\ copier = "done" \/ timer = "fired"
    /\ pc' = "ran"
    /\ timer' = "fired"
    /\ UNCHANGED <<ctx, procVars, watch, watchErr, copier, runVars>>

\* Run returns once the copier has read the end of the output; or, when the
\* time is up and the pipes are closed, with ErrWaitDelay for an exit that was
\* otherwise clean.  (Both may be ready at once.  Whether exec then waits for a
\* copier inside Spec.Output is left open.)
WaitJoins ==
    /\ pc = "joining"
    /\ \/ copier = "done" /\ UNCHANGED err
       \/ timer = "fired" /\ err' = (IF err = "nil" THEN "delay" ELSE err)
    /\ pc' = "ran"
    /\ timer' = "fired"
    /\ UNCHANGED <<ctx, procVars, watch, watchErr, copier, outcome, result>>

-----------------------------------------------------------------------------
(* run, after cmd.Run *)

\* Seeded fault: no sweep.
Sweep_Fault ==
    /\ pc = "ran"
    /\ pc' = "swept"
    /\ UNCHANGED <<ctx, procVars, execVars, runVars>>

\* The straggler sweep.
Sweep ==
    /\ pc = "ran"
    /\ pc' = "swept"
    /\ helper' = IF leader # "unborn" /\ ctx # "live" /\ helper = "alive"
                 THEN "dead" ELSE helper
    /\ UNCHANGED <<ctx, leader, termed, exit, score, execVars, runVars>>

\* Seeded fault: an outcome outside the closed enum.
OutcomeOf_Fault(runErr, ctxErr) ==
    CASE ctxErr = "deadline" -> "timeout"
      [] ctxErr = "shutdown" -> "interrupted"
      [] ctxErr = "live" /\ (runErr # "nil" \/ score = "bad") -> "error"
      [] OTHER -> "ok"

\* record: one row on every exit path.
OutcomeOf(runErr, ctxErr) ==
    CASE ctxErr = "deadline" -> "timeout"
      [] ctxErr = "shutdown" -> "error"
      [] ctxErr = "live" /\ (runErr # "nil" \/ score = "bad") -> "error"
      [] OTHER -> "ok"

Record ==
    /\ pc = "swept"
    /\ pc' = "recorded"
    /\ outcome' = OutcomeOf(err, ctx)
    /\ UNCHANGED <<ctx, procVars, execVars, err, result>>

\* Seeded fault: stderr is asked before the context.
Verdict_Fault ==
    CASE err = "nil" -> "nil"
      [] err # "nil" /\ exit = "gone" -> "resume_failed"
      [] err # "nil" /\ exit # "gone" /\ ctx # "live" -> "killed"
      [] OTHER -> "error"

\* The verdict, in the order run asks: success, killed, transcript gone.
Verdict ==
    CASE err = "nil" -> "nil"
      [] err # "nil" /\ ctx # "live" -> "killed"
      [] err # "nil" /\ ctx = "live" /\ exit = "gone" -> "resume_failed"
      [] OTHER -> "error"

Return ==
    /\ pc = "recorded"
    /\ pc' = "returned"
    /\ result' = Verdict
    /\ UNCHANGED <<ctx, procVars, execVars, err, outcome>>

Done == pc = "returned" /\ UNCHANGED vars

Exits == \E how \in {"ok", "failed", "gone"}, s \in {"unseen", "ok", "bad"} : LeaderExits(how, s)

Run ==
    \/ CmdStart \/ CmdStartFails \/ WaitReaps \/ WaitStopsWatch \/ WaitJoins
    \/ Sweep \/ Record \/ Return

Next ==
    \/ Run
    \/ \E why \in {"deadline", "shutdown"} : ContextEnds(why)
    \/ Fork \/ Exits \/ HelperExits
    \/ Output \/ OutputReturns \/ EndOfOutput
    \/ Watch \/ WaitDelayOver
    \/ Done

Spec == Init /\ [][Next]_vars

\* The daemon's goroutines are scheduled, timers fire, and the wall clock
\* runs out; a process heeds a TERM unless it is stubborn, and owes nothing
\* else.  The sink returns promptly (Spec.Output's contract).
FairSpec ==
    /\ Spec
    /\ WF_vars(Run) /\ WF_vars(Watch) /\ WF_vars(WaitDelayOver)
    /\ WF_vars(EndOfOutput) /\ WF_vars(OutputReturns)
    /\ WF_vars(ContextEnds("deadline"))
    /\ "leader" \notin Stubborn => WF_vars(termed /\ Exits)
    /\ "helper" \notin Stubborn => WF_vars(termed /\ HelperExits)

-----------------------------------------------------------------------------
(* Properties *)

\* A turn whose group was TERMed leaves nothing behind, whichever of its
\* processes ignored the TERM and however the exit raced it (run's sweep).
NoStragglers == pc = "returned" /\ termed => leader # "alive" /\ helper # "alive"

\* A turn that returns nil has the whole reply: the goroutine that feeds
\* Spec.Output read its pipe to the end, so nothing was cut off by a close
\* and the handler's builder is no longer written (cli/turn.go reads it after
\* Turn returns).
ReplyIsWhole == result = "nil" => copier = "done"

\* A killed turn is not transcript loss: when the group was TERMed, run
\* never answers with the error that burns the session, whatever the dying
\* child wrote to stderr.
KilledIsNotLoss == termed => result # "resume_failed"

\* Success is never claimed for a turn that was cut: a nil result means
\* the child ended well of itself, and a row that says ok means the same.
OkMeansDone ==
    result = "nil" \/ outcome = "ok" => exit = "ok" /\ ~termed

\* run's verdict is true of the child, however the clock raced its end.
VerdictIsTrue == KilledIsNotLoss /\ OkMeansDone

\* Whatever the child and its helpers ignore, run returns: the thread's
\* queue is never held past the timeout (cmd.Cancel, WaitDelay).
RunReturns == pc = "waiting" ~> pc = "returned"

=============================================================================
