# A TLA+ model of the approach daemon

`approach` is a daemon that receives chat messages, runs one engine turn per
message, and sends the reply back. Its promises are about what happens when
things go wrong: no message is lost, no turn with side effects is run twice
behind the owner's back, no reply is eaten, reordered or stitched together
from two runs, no thread is wedged or told less than the truth about its
history, no two daemons share a state directory. This project models the code
that makes those promises, checks them with TLC on small instances and proves
every safety property the runs check with TLAPS, for instances of any size.
Paths below are relative to `src/internal/`.

## The system

| Part | State it keeps | Operations | Talks to |
|---|---|---|---|
| store (`store/`) | SQLite tables `events`, `dead_letters`, `tool_attempts`, `deliveries`, `identities`, `sessions`, `turns` | one guarded transaction per function | everyone |
| router (`router/router.go`) | per-thread FIFO, claims, ingest shard locks, drain goroutines | Persist, Enqueue, Readmit, drain, dispatch, Rebuild, Wait | store, turn handler |
| turn handler (`cli/turn.go`) | the stack of one turn | productionTurn, finishTurn | session manager, relay, outbox, recovery |
| recovery (`recovery/recovery.go`) | backoff timers | HandleEngineFailure, ParkAmbiguous, deadLetter, park | store, notices, router (Readmit) |
| notices (`delivery/surface.go`) | none | SurfaceInterrupted, SurfaceDeadLetter | outbox rows, target gates |
| in-flight table (`delivery/inflight.go`) | claimed delivery keys, one gate per target | AcquireTarget, Claim, Release, Held | handler, notices, pump |
| pump (`delivery/resend.go`) | one pass's stopped targets | sweepUnsurfacedParks, ResendUnacked | store, platform |
| relay (`adapter/discord/relay.go`) | partial message, buffer | Push, FinishJournaled, Posted, Retract | platform |
| sessions (`session/`, `store/`) | `sessions` rows, their links and deadlines | Turn: Ensure, rotate, degrade, startNew, resume, touch | engine, store |
| engine (`engine/`) | a child's process group, its output buffers | run, record, the stream parser | session manager |
| gateway (`adapter/discord/discord.go`) | connection, wakeup channel, draining flag, handlers | Run, openCancellable, onMessageCreate | ingest |
| admin (`admin/`, `cli/daemon.go`) | socket file, lock file, accept loop | New, claim, Serve, handle; retry, dead requeue, dead discard, drain | store, router |
| migration (`store/migrate.go`) | `user_version`, one batch transaction | migrate, applyPending, rollback | SQLite |
| trust, config, policy, normalisation, command line | none | pure functions | |

What is hard about it:

* **Concurrency.** Adapter callbacks, backoff timers, admin commands and the
  boot scan all feed the same queues; handlers and the pump both send to the
  same targets.
* **Failure.** Any store write may fail, any handler may panic, the process may
  die between any two steps, and a platform call may succeed while its answer
  is lost.
* **Ordering.** Receipt order must be dispatch order, composed order must be
  visible order.
* **Staleness.** The journal is read before the requeue, the backlog before the
  engine runs, the pump's list before each send, a Disconnect is heard long
  after the connection it was about.
* **Time.** Deadlines are stored in whole seconds and enforced at full precision;
  a turn's clock may run out at any instant of its life, also after its end.

`PROJECT.json` lists each such hazard at its line with the properties that
would catch it.

## Modules

| Module | What it models |
|---|---|
| `EventStore` | The tables `events`, `dead_letters`, `tool_attempts`: one operator per transaction, its guard the WHERE clause |
| `TurnContract` | The abstract promise: turns of a thread are serial, and each start spends a licence issued by receipt, a bounded clean retry or a human |
| `Router` | The router over `EventStore`; shown to implement `TurnContract` |
| `Recovery` | What becomes of a failed turn, and who hears of it |
| `Outbox` | How replies and notices reach the platform: handler, gates, claims, pump |
| `SessionPromise` | The abstract promise of a conversation: one at a time, and a lost history is admitted once |
| `Sessions` | Manager.Turn and RotateNow over the `sessions` table; shown to implement `SessionPromise` |
| `SessionClock` | The arithmetic behind the two verdicts `Sessions` reads from the clock |
| `Engine` | One engine run: child, process group, os/exec's goroutines, verdict |
| `TurnStream` | The line splitter on stdout and the bounded buffer on stderr |
| `Gateway` | The Discord connection loop, its shutdown and its message boundary |
| `Instance` | Lock, socket and admin server of several daemons over one directory |
| `Migration` | The migration runner, with racing callers and hostile migration files |
| `*Proofs` | Theorems about the module they are named after; `EngineProofs` is about `TurnStream` too, `SessionsProofs` about `SessionClock` too |
| `MC*` | Instances for TLC |

`Router`, `Recovery` and `Outbox` each EXTEND `EventStore` and compose its
transactions with the RAM of the code that calls them. They divide the turn
between them. `Router` sees a turn as the one transaction it ends in and keeps
every goroutine; `Recovery` opens the error leg and keeps the notices as keys;
`Outbox` opens the success leg, the gates and the sends. `Recovery` and
`Outbox` take from `Router` what it establishes, that turns of a thread do not
overlap, and have no goroutine identities.

### EventStore

A row is a function value per event. `Move(e, from, to)` is the guarded UPDATE
most functions of `store/queue.go` consist of. A caller whose guard is false
gets an error in the code; callers in the other modules decide what that does.
`RequeueVerdict` orders the refusals as the read-back of
`RequeueEventForRetry` does. Seeded faults (`X_Fault`, or `X_` and a word, before
`X`) are the mutants of `PROJECT.json`; no specification uses them.

### Router

`pending`, `claimed`, `pc`, `on`, `ev` are `Queues.pending`, `Queues.claimed`
and the goroutines; `ingesting` is the set of Persist calls between insert and
enqueue, which is also who holds an ingest lock; `readmits` counts Readmit calls
still to come. A critical section of `q.mu` is one step; Persist is two, since
the insert and the enqueue are separated by a database call and fenced only by
the shard lock. `dispatch` is StartTurn, RefuseTurn or StampFails; the turn ends
in SettleTurn or RetryTurn, and Return or Panic leaves the handler. Rebuild is
Boot, RebuildPark per row, RebuildParked, RebuildEnqueue per row. `dropped`
remembers events whose stamp failed in this life, which the code leaves to the
next restart.

The refinement maps `received` to *licensed*, `processing` to *running*,
`interrupted` and an undecided death to *parked*, everything else to *closed*.

### Recovery

`at[e]` is the place the handler of `e` has reached, so that a straggling tool
hook, a refused write, a panic, a human command or a crash can fall between the
journal read (Judge), the guarded requeue (Requeue), the death or park and the
notice (Notify). Notices are keys with a generation (`events.parks`,
`dead_letters.entries`). The sweep is a scan and one insert per event found. The
owner may be enrolled or dropped at each boot, since SeedIdentities replaces the
table. The tool hook is outside the repository; it is modelled by the guard of
InsertToolAttempt and may run at any time.

### Outbox

`rows` is the table `deliveries` in id order; a row knows which run composed it
(`gen`) and how many chunks that reply had (`of`). `gate` holds the live turn
that keeps a target's gate; notices take and release it in one step, since they
hold it only for their insert. `fenced` is the claim table, `pump` the one pump
goroutine with its sweep, its todo list and its stopped targets. A platform call
succeeds, is refused, or succeeds with its answer lost. The claims of a turn
whose completion stamp failed stay for the rest of the life, as the code
intends. Abstractions: every target is routable; the final edit of the partial
and its fallback to a fresh send are one send; typing, throttling and retraction
of partials are left out; an owner is enrolled (Recovery has the other case); a
graceful shutdown is failed calls followed by Crash.

`posted` is `relay.posted` of each run, the code's own evidence that text is
visible. The platform may take a partial while the call fails
(`adapter/discord/relay.go:108`): text is then visible, `posted` stays false, and
the run is in `unheard`, which no guard reads. `lost` has the rows whose ack this
life cannot record: the platform's answer, the ack write, or the handler about to
write it was lost. A panic releases claims and gate in one step (`Panic`) and is
parked in another (`PanicPark`, which may fail), with the pump free to send in
between; `torn` remembers an event whose handler panicked between its compose and
its completion stamp.

No caller exists in this commit for MarkDeliveryFailed, AckDeadLetter and
CompleteToolAttempt; they are not modelled.

### Sessions, SessionPromise and SessionClock

The table's columns are functions of the session id, the partial index
`one_live_session` is the guard of InsertSession, and `retireSession` is one
operator with the status it demotes from and to as parameters, as in the code.
A thread's Turn call is at one place (`at`) between two of its store or engine
calls; `late` and `idle` are the verdicts of the clock, which may turn true
between any two steps, `dirs` the directories that exist, `home` the one a
request names. SessionDegraded walks the links backwards through failed rows, as
the recursive query does; `Chain` is its least fixed point. A refused write, an
engine failure, a vanished directory and a crash can fall between any two steps.
`ran`, `lost`, `orphaned` and `said` are history: a turn is counted in `ran` when the
engine returns (EngineStarted, EngineResumed), before any write; it is `orphaned`
when it was a first turn and its activation was refused, came too late or died
with the daemon (ActivationFails, LateFirstTurn, Crash), and `lost` when only its
touch was.

`SessionPromise` has three variables per thread: whether it has a conversation,
whether it is owed the line that says its history was lost, and whether the last
opening turn said so. The refinement maps a live `creating` row to *fresh*, a
live `active` row to *open*, and the owed line to SessionDegraded.

`SessionClock` counts in ticks, `Second` to a second, so that flooring to the
columns' whole seconds loses something; it has the mint, the first turn with its
limit, later turns with their touch, expiry and rotation.

### Engine and TurnStream

`Engine` is one call of run: the child and one helper it may fork into its group,
each of which may ignore TERM (`Stubborn`); exec's watcher with `cmd.Cancel`, the
WaitDelay timer and the goroutine that copies stdout into `Spec.Output`; the final
sweep of the group; record; and the order of tests that turns all this into a
verdict. The context may end at any step. os/exec is external and modelled from
what run relies on. Its Wait is three steps, since a cancel can fall between
them: WaitReaps collects the leader, WaitStopsWatch ends the watcher and starts
WaitDelay unless a cancel has, WaitJoins returns when the copier has read the end
of its pipe (`done`) or when the time is up. In the latter case exec closes the
pipes (`cut`) and answers ErrWaitDelay for an exit that was clean, which run
returns as an error: a helper that still holds stdout turns a clean exit into
a failed turn.

`TurnStream` feeds every input over {newline, two other bytes}, cut into chunks
in every way, to `turnStats.Write` and `boundedBuffer.Write`. A step is one turn
of Write's loop over what is left of the chunk (`p`); the mutex keeps the next
Write out until `p` is empty. The reference sees the input whole: which newlines
end a line that fits, which of the parsed lines each one is (`Rank`), and where
the line under way begins. The two writers share no state, so one input drives
both. What a line's JSON means is data. Its definitions, and those of
`SessionClock`, carry the module's name where another module of the package has
the same (`StreamSpec`, `ClockSpec`), so that one proof module can extend both.

### Gateway

`pc` is the place of Adapter.Run, `call` the Open goroutine and its answer,
`abandoned` the reaper that openCancellable leaves behind. discordgo is external:
a drop tears the socket down and announces Disconnect once or twice, at any
later time; Close announces one as well; Open on a live socket answers
ErrWSAlreadyOpen; a resume may be refused. `wakeup` is the channel of one. A
listener goroutine decodes a message and runs onMessageCreate, which the
`draining` flag under its lock admits or turns away. Delay lengths are not
measured: `hot` remembers whether the next dial would come without a backoff or
a connection that had come of age.

### Instance

One `pc` per daemon process follows runDaemon from New (lock) through the store,
claim and Listen to the deferred closes; Serve's watcher, its accept loop and its
handlers are separate. `flock` dies with the process, the socket file does not,
and closing a listener unlinks its path by name whoever is bound there. A file
that is no socket may lie at the path.

### Migration

A run is one caller of Migrate: the process-wide gate, the observer and batch
connections from its pool, BEGIN IMMEDIATE, the version read under the lock, one
step per migration, the check after it, the stamp, COMMIT or ROLLBACK. What each
file does to the transaction it runs in (nothing, fail, commit, roll back, or
either and begin another) is chosen by the initial state. SQLite is external: one
write transaction, its own view of the database, undone by a crash.

## What the runs check

| Run | Instance | Shows |
|---|---|---|
| `MCRouter` | 2 events, 1 thread, 2 goroutines, 1 auto retry, 1 human retry each | refinement of `TurnContract` (serial turns, every run licensed), first turns in receipt order, no forgotten event, owed turns are served |
| `MCRecovery` | 1 event, budget 2, 2 human retries | no blind rerun, no silent exit, open parks and undecided deaths are announced |
| `MCOutbox` | 1 event, 2 chunks, 1 auto and 1 human rerun | `replied` means one run's whole reply was delivered, one answer but for a human's retry and for unheard partials, no repeat but by a human's retry or a panic, completed events owe something, turns and backlog settle |
| `MCOutboxApart` | 2 events, 2 threads, one of them the owner's DM | composed order is visible order, between a relay and another thread's death notice too |
| `MCSessions` | 1 thread, 3 session ids, 2 directories, cap 2, 1 lost write | one lineage, start before resume, retired rows are history, refinement of `SessionPromise`, a turn tried again gets through |
| `MCSessionClock` | 3 ticks a second, window and TTL of 5 ticks, 27 instants | a deadline is one instant for every reader and never cut short; idle rotation is never early |
| `MCEngine` | leader and helper, both deaf to TERM when they choose | no straggler, no reply read while written, no wrong verdict, run returns |
| `MCTurnStream` | 7 bytes, chunks of up to 3, lines of 2 | chunking does not matter, memory is bounded, truncation is admitted |
| `MCGateway` | 2 listeners, 2 drops, 2 failed handshakes | nothing outlives Run, a healthy connection is kept, a drain returns, a lost connection comes back |
| `MCInstance` | 3 daemons, 2 kills, 1 accept error | one owner, hooks have a store, a ready daemon is reachable, no crash wedges the next start |
| `MCMigration` | 3 callers, 2 processes of 2 versions, 1 crash, every mix of files | the schema is a prefix, success is true, every run ends |
| `MCOutboxRepeat` | 1 event, 1 human retry, no panics (`CalmSpec`) | violated: see findings |

### Bounds

`MaxEventRetries` is 2 in the code; the guards compare it with a counter, so 1
(or 2 in MCRecovery) reaches both sides of the limit. `MaxGrants` bounds what a
human does; one grant gives a rerun after a park, two give a second park or
death after a rerun, which the generations are about. Two events of one thread
are the least that can be reordered; two chunks the least of which one can be
missing. `MCRouter` has two goroutines for one thread so that a second drain can
exist. Crashes, panics and failed writes of `Router`, `Recovery`, `Outbox` and
`Sessions` are not bounded: the state they lead to is finite.

Three session ids (`Session`) give a lost session, a successor that expires and
its successor, the shortest chain in which a note can be forgotten; `MaxLost`
bounds the touches and activations that are lost, taken together over all
sessions, and is read by nothing else. `Horizon`
is the last instant, past two windows and two TTLs from any mint that matters;
three ticks a second and a window that is no whole number of seconds leave room
for every rounding. `MaxInput` is more than two lines of `LineCap`, so that a
line can be too long and the next one must be found again. Two drops whose
announcements can be doubled (`MaxDrops`) are the least that can coalesce or be
stale; `MaxFails` is enough for a refused resume after a failed dial. `MaxConns`,
`MaxCrashes` and `MaxAcceptErrors` bound `Instance`: three daemons are an owner, one
that is leaving and one that is coming. In `MCMigration` process `a` has two
callers on a pool of two, the least on which they could wait for each other's
connection, and `b` is older by one version and unlimited.

`MCOutboxApart` uses `VIEW NoHistory`: the variables it hides (`sentNow`,
`lost`, `torn`, `faulty`, `unheard`, `quiet`) are read neither by a guard nor by
the two invariants of that run. The largest runs are `MCOutbox` with 762,198
distinct states and `MCSessions` with 603,024. No run uses symmetry. `MCTurnStream` turns
deadlock checking off, since a stream ends.

### Fairness

* *Goroutines run on* (weak fairness of Drain, Handler, PersistEnqueue,
  RebuildEnqueue, GoLive, Exit): the engine child is killed at its turn timeout
  (`engine/engine.go`), and platform calls have deadlines.
* *Readmit* has strong fairness: it waits for an ingest lock that Persist calls
  keep taking, and Go's mutex hands itself to a waiter that starves.
* *The pump's ticker* repeats its scans for ever; a store and a platform asked
  again and again do not refuse for ever (strong fairness of the sweep's scans
  and inserts, of the resend scan and of an accepted send).
* *A turn call goes on, and a deadline passes* (`Sessions`): the engine's clock ends
  every run, and time passes. That the engine and the store stop failing and the
  directory a request names is there are premises of TurnGetsThrough.
* *The context's deadline comes* (`Engine`), a process that heeds TERM exits, exec's
  own goroutines and timers run, and a call of Spec.Output returns. A process that
  does not heed TERM need never exit by itself.
* *Run, the reaper and the listeners go on* (`Gateway`), and an announced Disconnect
  arrives. A handshake may hang for ever; only Reconnects assumes that it ends, and
  says so in its formula.
* *A started daemon goes on, its handlers meet their deadline, and a stopped one is
  started again* (`Instance`); neither the store refuses every start (strong
  fairness of a successful OpenStore) nor the operator leaves a foreign file in
  the way for ever.
* *A migration run goes on* (`Migration`): SQLite's busy timeout and the context end
  every wait.
* Nothing forces a message, a human, a panic, a crash, a shutdown, or the success
  of a handler's own write. Where a failed write stops progress for the rest of
  a life, the property says so (`dropped`, `faulty`).

### Findings

1. `MCOutboxRepeat`. A crash or a panic between compose and completion parks an
   event whose reply rows are owed. If a human retries it, the pump sends those
   rows while the event is `received` or `processing`, AckDelivery
   (`store/deliveries.go:406`) rolls the ack back, and each further pass sends
   them again. `delivery/inflight.go` says one living daemon must not
   manufacture duplicates, and `cli/turn.go:388` fences the same rows when the
   completion stamp fails. A panic does it without a human: the deferred release
   (`cli/turn.go:312-318`) frees the claims before the router's recover parks the
   event (`router/router.go:288-307`), a pass in between sends a row, its ack is
   refused because the event is still `processing`, and the row goes out again
   after the park, or on every pass of this life if the park fails. The run has no
   panics, so that its trace is the human's retry; `RepeatsHaveCause` checks, with
   panics, that these are the only two ways.

Five more places where the code does less than a comment beside it suggests are
written into the properties as exceptions, and are worth knowing:

* The empty-text leg of finishTurn uses MarkEventCompleted (`cli/turn.go:284`). An
  event whose earlier reply was acked while it was parked, and whose retried turn
  is silent, rests at `completed` for ever, which the reconciling completion of
  the other leg exists to prevent. `CompletedIsOwedUnlessQuiet` checks that this
  is the only way.
* After an accept error Serve returns with its listener open and runDaemon cancels
  at once; a watcher that has not run yet finds both of its channels ready and may
  close the listener late, unlinking by name what the next daemon has bound
  (`admin/admin.go:142`). `Reachable` holds until such an error.
* A turn that completed just before its deadline, and that run reports as
  completed, is recorded as a `timeout` when the deadline passes before
  `engine/engine.go:170` reads the context. No decision reads that row;
  `VerdictIsTrue` is about what run returns.
* "A turn that showed one must never silently auto-retry", says Relay.Posted
  (`adapter/discord/relay.go:265-271`), but `posted` is set only by an answer with a
  message id. When the platform took the first partial and its answer was lost,
  the guard at `cli/turn.go:231` lets the failed turn be retried, and the thread
  sees the beginning of two answers. `AnswersAreLicensed` counts one more answer for
  each such run and none for anything else but a human's retry.
* Turn says of a `creating` row that "no transcript exists to resume"
  (`session/resume.go:101-103`). When Engine.Start has returned and the activation is
  refused, too late or lost with the daemon (`session/manager.go:359-369`), one
  exists, and the next turn is told to start the same session id over it (and, after
  a loss, carries the transparency note again). `StartThenResume` says that the engine
  is told to start only where every answered turn was of that kind; what the engine
  then does with an id it knows is outside the repository.

## What is proved

The theorems hold for every value of the constants that satisfies the named
assumptions (`RetriesAssumption`, `RouterAssumption`, `GrantsAssumption`,
`OutboxAssumption`, `SessionsAssumption`, `ClockAssumption`, `StreamAssumption`,
`GatewayAssumption`, `InstanceAssumption`, `MigrationAssumption`): bounds are numbers, ownership is a
function, the null values are not members, and `SessionClock` has the clamps of
NewManager. No invariant is inductive alone; each proof module states its
strengthening (`IInv`, `ClockInv`, `StreamInv`, `RunInv`).

**Router**: TypeOK, SerialDispatch, NoLostWakeup, TurnOwnsRow, NoForgottenEvent,
FirstTurnsInReceiptOrder and the refinement of `TurnContract`. SerialDispatch
needs that a claimed thread and a busy goroutine come together (`ClaimsOK`,
`OneDrain`), because Enqueue decides by the claim alone. NoLostWakeup needs that a
non-empty queue's thread is claimed (`QueuesOK`). TurnOwnsRow needs that
goroutines hold an event exactly where their place says (`WorkersOK`), and that
no goroutine runs while Rebuild parks (`QuietBoot`). NoForgottenEvent needs that
the boot scan is complete (`ScanComplete`): while the daemon parks, every received
row is in `rescan`.

Receipt order is carried from the table to the dispatch by `OInv`: ids are handed
out in receipt order and whatever RAM refers to has a row (`RowsOK`); two callbacks
between insert and enqueue hold different ingest locks, and the boot scan is over
before the first of them (`IngestOK`); everything older of its thread that is owed its
first turn is in the queue before a queued event, popped, or refused a stamp
(`QueueOrder`), and nothing older waits behind a popped one (`PopOrder`). `HistoryOK`
says who is still owed a first turn: the turns of an event follow its licences. A
retried event may stand anywhere in the queue; only first turns are ordered.

The refinement maps a row to licensed, running, parked or closed, and the set of
live turns to the goroutines in a handler. A start needs TurnOwnsRow and
SerialDispatch (no other turn of the thread is live), an end or a retry needs that
the row is still the turn's, a crash that every running row is parked before
anything starts again (`QuietBoot`). Every run is licensed and the turns of a thread
are serial are invariants of the contract, proved of it and so of the router.

**Recovery**: TypeOK, NoBlindRerun, OnlyFailureStrands and DeathOnRecord. The
strengthening adds that an absent row has no journal (`JournalOK`), so that a
receipt cannot bring a side effect with it, and that a handler in its last act
has moved its row (`HandlersOK`), so that its return strands nothing.
NoBlindRerun then rests on the requeue's re-reading of the journal and on
InsertToolAttempt's refusal once a row has left `processing`.

**Outbox**: TypeOK, DeliveredWhole, AnswersAreLicensed, CompletedIsOwedUnlessQuiet,
SentInOrder, RelayNeverJumps and RepeatsHaveCause. The invariant has a part
per event (`EventOK`), which a step of another event's handler leaves alone: what
the place of the handler says about the row and its registers (`Control`); the reply
rows of an event are one batch of consecutive rows of one run (`Batch`); a turn past
its claim holds its keys and, once composed, has the batch it counts (`Fence`); a
batch is not acked before the completion stamp and is owed after it, unless the
event is sealed or was silent (`Owed`); a sending turn has its accepted and recorded
chunks behind it and the rest before it (`Sending`).

DeliveredWhole follows from `Batch` and `Owed`: composing replaces all rows of an
earlier run or none, so an acked batch cannot be a mixture. The other parts are about
the daemon as a whole: one turn of a thread at a time once it is up (`SerialOK`); a
held gate is held by a turn of its target that may still relay (`GateOK`); the row in
the pump's hand is the head of its pass and its target is not stopped (`PumpOK`); what
the pass left behind on an unstopped target was sent (`PassOrder`); and the pump does
not hold a row of a batch that a live turn composed (`Apart`). SentInOrder and
RelayNeverJumps are kept with them: a direct send goes ahead only with everything older
on its target sent (`Sending`), the pump by `PassOrder`.

AnswersAreLicensed has an invariant of its own on top (`Seen`): a run whose relay has
posted is the event's last, any reply rows are of that run, and a turn that may
stream has no reply rows yet. What an event shows is then at most one run's text
besides the runs in `unheard`.

RepeatsHaveCause has another (`Once`): a row sent in this life is acked, lost (its
answer or its ack), about to be acked by the pump or by the handler that sent it
(`Window`), or excused by a human's retry or a panic before the completion stamp
(`Settled`, `Excused`). Without a human's retry an event with a reply is not run again,
and without a panic its rows are fenced until the completion stamp, so that no ack
is refused (`Rerun`); a fresh batch's unsent rows were sent by nobody (`Unsent`).
That is why the two ways of the finding are the only repetitions.

**Sessions**: TypeOK with the turn cap, StartThenResume, RetiredIsHistory, OneLineage and the
refinement of `SessionPromise`. `IInv` says that a thread has one live row
(`OneLive`), that links go from retired rows to rows that exist (`RowsOk`), that a
call holds the live row in the status its place needs (`CallOk`), and that every
answered turn is in the table, lost, never activated, or about to be written, the
last at the places between the engine's return and the touch (`CountOk`). An active
row has an answered turn that was activated; one still `creating` has none, which
is what StartThenResume needs.
The walks along the links are least fixed points; the lemmas about `Reach` say
what one new link does to them. OneLineage follows since retireSession links the
only live row to the only new one. The refinement also needs that the note a call
carries is the one that is owed at every moment of it (`NoteOk`).

**SessionClock**: DeadlineIsExact and IdleIsWhole. `ClockInv` ties the columns to the
true instants within a second (`Columns`) and the running turn's limit to the
deadline (`Limits`); the rest is arithmetic of `\div`, in lemmas of its own.

**TurnStream**: StreamTypeOK, ChunksDoNotMatter and StderrIsHonest, for every cap and
input. ChunksDoNotMatter speaks of every turn of the loop, which makes it
inductive together with two facts: what is left of the chunk is the end of the
input (`Rest`), and the bounded buffer is full once it has dropped something
(`Headed`). A turn without a newline adds no line (`NoNewLine`); a newline adds its
own line, with the highest rank, if it fits (`LineEnds`). No induction over the
input is needed: the steps of the loop are the induction.

**Engine**: TypeOK, NoStragglers, ReplyIsWhole and VerdictIsTrue. `RunInv` says that
the watcher stops with the wait and that a TERM is its verdict (`WatchOK`), so the
sweep, which comes later, meets whatever the TERM left; that an error-free wait
means a clean exit, no verdict of the watcher and a copier that read its pipe to
the end (`JudgedOK`); and where the leader is at each
place of run (`PlacesOK`, `UnbornOK`). The safety part of the module does not depend
on `Stubborn` and has finitely many states, so TLC's run is complete as well.

**Gateway**: CleanExit, BoundaryHeld, NoChurn and PacedDials. A handshake belongs to
Run or to the reaper (`CallOk`), nothing is up after a failed handshake nor once
Run has left (`DownOk`), the gate shuts before the join (`GateOk`), a dial comes
with its backoff slept (`PaceOk`), and what was decoded came from inside the
boundary (`MessagesOk`).

**Instance**: OneOwner and Reachable. Whoever is between New and its last deferred
close holds the lock (`HolderOk`), the store is open exactly in between (`StoreOk`),
hooks run only while it is (`HooksOk`). Reachable adds what the watcher knows
(`WatcherOk`).

**Migration**: SchemaIsPrefix, OkMeansMigrated, NoLockLeft and OpenedAtOwnVersion.
`IInv` says what the committed database is when some migration escapes (`DbOk`:
the sentinel version marks it for ever, and up to the escape it is still a
prefix), and what each place of a batch knows of its transaction (`ReadOk`,
`ApplyOk`, `VerifyOk`, `CommitOk`). The sentinel is what makes an escape visible
to the check after it; without it VerifyOk fails for a migration that commits and
begins again.

Only model-checked: the liveness properties (ReceivedIsServed, FailureIsHeard,
WorkSettles, TurnGetsThrough, RunReturns, DrainReturns, Reconnects, NeverWedged,
EveryRunEnds), since fairness and ENABLED are outside the prover's reach. Every
invariant and every action property of a passing run is stated by a theorem.
SerialDispatch, NoLostWakeup, TurnOwnsRow, DeathOnRecord, the turn cap,
BoundaryHeld, PacedDials, NoLockLeft, OpenedAtOwnVersion and the two invariants of
the contract are proved and have no run of their own.

## Not modelled

* `policy/pathdeny.go`, `config/config.go`, `event/event.go`, `cli/cli.go`: pure
  string analysis, parsing and printing, without state.
* `store/turns.go`: append-only accounting that no decision reads, but for the
  outcome, which is `Engine`'s.
* `trust/trust.go` and the columns `origin` and `trust_floor`: values that are
  copied and clamped, and that no modelled decision reads.
* FailSession and the tainted columns of `sessions`: nothing in this commit calls or
  reads them. (RotateNow has no caller either, but is a public operation that
  retires a live row, and is modelled.)
* Lengths of delays, texts, token counts, message splitting, typing indicators,
  throttling and retraction of partials.
* Errors that end an operation with nothing changed, and are like one that is
  modelled: of Lstat, Remove and Chmod in `admin/admin.go` (a refused start), of
  taking a pooled connection under an ended context in `store/migrate.go` (a refused
  run); and the filter of the bot's own messages before discordgo has told the
  adapter who it is.

## Plan

1. Trust stamping, floor and clamp as operators, checked over all grades.
2. A second conversation in `MCSessions` and a second event in `MCOutbox`, which are
   now at the edge of what TLC finishes in minutes; the theorems already cover them
   for safety.
3. Theorems that link the modules: the assumption `Recovery` and `Outbox` take from
   `Router`, that turns of a thread do not overlap, as a refinement.
