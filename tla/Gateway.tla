------------------------------ MODULE Gateway ------------------------------
(***************************************************************************)
(* The Discord adapter's connection loop: Adapter.Run, openCancellable,    *)
(* onMessageCreate and resetSession of internal/adapter/discord/discord.go *)
(* over discordgo's Session, which is modelled from how the adapter uses   *)
(* it: Open refuses when a socket is up; a drop tears the socket down and  *)
(* announces Disconnect once or twice, each arbitrarily late; Close        *)
(* announces one too, whether a socket was up or not.                      *)
(*                                                                         *)
(* Backoff delays and the minute of healthyReset are not measured: a sleep *)
(* ends at some time, and a connection comes of age at some time.          *)
(***************************************************************************)
EXTENDS Naturals, FiniteSets

CONSTANTS
    Listener,   \* listener goroutines, one per socket; an old one may linger
    NoMessage,  \* a listener that is not dispatching
    MaxDrops,   \* bound: drops of the connection
    MaxFails    \* bound: failed handshakes

ASSUME GatewayAssumption ==
    /\ MaxDrops \in Nat /\ MaxFails \in Nat
    /\ NoMessage \notin [type : {"thread", "guild", "dm", "group"}, own : BOOLEAN]

VARIABLES
    pc,         \* where Run is
    call,       \* the Open goroutine: running, or its answer in the done channel
    abandoned,  \* openCancellable's reaper is waiting for that answer
    aged,       \* healthyReset has passed since connectedAt
    cancelled,  \* ctx is done
    live,       \* discordgo: the socket is up
    resume,     \* discordgo: the session's resume state
    emits,      \* discordgo: Disconnect announcements under way
    wakeup,     \* a.disconnected, a channel of one
    draining,   \* a.draining
    dispatch,   \* the message each listener has decoded, NoMessage for none
    counted,    \* the listeners in a.handlers
    drops, fails,  \* faults so far
    hot         \* history: why the next dial would come too soon, "no" if it would not

runVars == <<pc, call, abandoned, aged>>
libVars == <<live, resume, emits, drops, fails>>
msgVars == <<draining, dispatch, counted>>
vars == <<pc, call, abandoned, aged, cancelled, live, resume, emits, wakeup,
          draining, dispatch, counted, drops, fails, hot>>

\* A message, by what its channel really is.
Message == [type : {"thread", "guild", "dm", "group"}, own : BOOLEAN]

Answers == {"ok", "already", "stale", "terminal", "transient"}

FlagsOK ==
    /\ abandoned \in BOOLEAN /\ aged \in BOOLEAN /\ cancelled \in BOOLEAN
    /\ live \in BOOLEAN /\ wakeup \in BOOLEAN /\ draining \in BOOLEAN

TypeOK ==
    /\ pc \in {"top", "opening", "retry", "watch", "cooling", "defer", "join", "returned"}
    /\ call \in {"none", "running"} \cup Answers
    /\ FlagsOK
    /\ resume \in {"none", "good", "poisoned"}
    /\ emits \in Nat
    /\ dispatch \in [Listener -> Message \cup {NoMessage}]
    /\ counted \subseteq {l \in Listener : dispatch[l] # NoMessage}
    /\ drops \in 0..MaxDrops /\ fails \in 0..MaxFails
    /\ hot \in {"no", "failed", "young"}

Init ==
    /\ pc = "top" /\ call = "none" /\ abandoned = FALSE
    /\ aged = TRUE                      \* connectedAt is the zero time
    /\ cancelled = FALSE
    /\ live = FALSE /\ resume = "none" /\ emits = 0 /\ drops = 0 /\ fails = 0
    /\ wakeup = FALSE
    /\ draining = FALSE
    /\ dispatch = [l \in Listener |-> NoMessage] /\ counted = {}
    /\ hot = "no"

-----------------------------------------------------------------------------
(* discordgo *)

\* Session.Close: down, and announced, up or not.
Close == live' = FALSE /\ emits' = emits + 1

Dial == call = "running" /\ ~live

\* Session.Open answers; it holds the session's lock from the check on.
OpenAnswers ==
    /\ \/ /\ call = "running" /\ live
          /\ call' = "already"
          /\ UNCHANGED <<live, resume, fails, hot>>
       \/ /\ Dial /\ resume # "poisoned"
          /\ call' = "ok" /\ live' = TRUE /\ resume' = "good"
          /\ hot' = "young"
          /\ UNCHANGED fails
       \/ /\ Dial /\ resume = "poisoned"
          /\ call' = "stale" /\ hot' = "failed"
          /\ UNCHANGED <<live, resume, fails>>
       \/ /\ Dial /\ fails < MaxFails
          /\ fails' = fails + 1
          /\ call' \in {"terminal", "transient"} /\ hot' = "failed"
          /\ UNCHANGED <<live, resume>>
    /\ UNCHANGED <<pc, abandoned, aged, cancelled, emits, wakeup, drops, msgVars>>

\* The connection is lost: listen() and heartbeat() may both announce it,
\* and the gateway may have forgotten the session by then.
Drop ==
    /\ live /\ drops < MaxDrops
    /\ live' = FALSE /\ drops' = drops + 1
    /\ emits' \in {emits + 1, emits + 2}
    /\ resume' \in {"good", "poisoned"}
    /\ UNCHANGED <<runVars, cancelled, wakeup, msgVars, fails, hot>>

\* adopt's Disconnect handler: a pending wakeup absorbs the next.
Disconnected ==
    /\ emits > 0
    /\ emits' = emits - 1
    /\ wakeup' = TRUE
    /\ UNCHANGED <<runVars, cancelled, live, resume, msgVars, drops, fails, hot>>

Age ==
    /\ ~aged
    /\ aged' = TRUE
    /\ hot' = IF hot = "young" /\ call = "none" THEN "no" ELSE hot
    /\ UNCHANGED <<pc, call, abandoned, cancelled, libVars, wakeup, msgVars>>

Cancel ==
    /\ ~cancelled
    /\ cancelled' = TRUE
    /\ UNCHANGED <<runVars, libVars, wakeup, msgVars, hot>>

-----------------------------------------------------------------------------
(* Run *)

Top ==
    /\ pc = "top"
    /\ IF cancelled
       THEN pc' = "defer" /\ Close /\ UNCHANGED call
       ELSE pc' = "opening" /\ call' = "running" /\ UNCHANGED <<live, emits>>
    /\ UNCHANGED <<abandoned, aged, cancelled, resume, drops, fails, wakeup, msgVars, hot>>

Opened ==
    /\ pc = "opening" /\ call = "ok"
    /\ pc' = "watch" /\ call' = "none" /\ aged' = FALSE
    /\ UNCHANGED <<abandoned, cancelled, libVars, wakeup, msgVars, hot>>

\* Seeded fault: a connection that is already open is taken for a broken one
\* and closed before the next attempt.
AlreadyOpen_Fault ==
    /\ pc = "opening" /\ call = "already"
    /\ pc' = "top" /\ call' = "none"
    /\ Close
    /\ UNCHANGED <<abandoned, aged, cancelled, resume, drops, fails, wakeup, msgVars, hot>>

\* ErrWSAlreadyOpen: a stale Disconnect was chased; watch what is up.
AlreadyOpen ==
    /\ pc = "opening" /\ call = "already"
    /\ pc' = "watch" /\ call' = "none"
    /\ UNCHANGED <<abandoned, aged, cancelled, libVars, wakeup, msgVars, hot>>

\* terminal: 4004, 4012, 4013, 4014, 401.
Refused ==
    /\ pc = "opening" /\ call = "terminal"
    /\ pc' = "defer" /\ call' = "none"
    /\ UNCHANGED <<abandoned, aged, cancelled, libVars, wakeup, msgVars, hot>>

\* Seeded fault: the refused session is retried as it is.
ResumeRefused_Fault ==
    /\ pc = "opening" /\ call = "stale"
    /\ call' = "none" /\ pc' = "retry"
    /\ UNCHANGED <<abandoned, aged, cancelled, libVars, wakeup, msgVars, hot>>

\* staleSession: resetSession replaces the session (or fails, which is fatal).
ResumeRefused ==
    /\ pc = "opening" /\ call = "stale"
    /\ call' = "none"
    /\ \/ pc' = "retry" /\ resume' = "none"
       \/ pc' = "defer" /\ UNCHANGED resume
    /\ UNCHANGED <<abandoned, aged, cancelled, live, emits, drops, fails, wakeup, msgVars, hot>>

OpenFailed ==
    /\ pc = "opening" /\ call = "transient"
    /\ pc' = "retry" /\ call' = "none"
    /\ UNCHANGED <<abandoned, aged, cancelled, libVars, wakeup, msgVars, hot>>

\* Seeded fault: a drain waits the handshake out.
Abandon_Fault ==
    /\ pc = "opening" /\ cancelled /\ call \in Answers \ {"ok", "already"}
    /\ pc' = "defer" /\ call' = "none"
    /\ UNCHANGED <<abandoned, aged, cancelled, libVars, wakeup, msgVars, hot>>

\* openCancellable on cancel: the call is left to a reaper.
Abandon ==
    /\ pc = "opening" /\ cancelled
    /\ pc' = "defer" /\ abandoned' = TRUE
    /\ UNCHANGED <<call, aged, cancelled, libVars, wakeup, msgVars, hot>>

\* Seeded fault: only a fresh connection is reaped.
Reap_Fault ==
    /\ abandoned /\ call \in Answers
    /\ abandoned' = FALSE /\ call' = "none"
    /\ IF call = "ok" THEN Close ELSE UNCHANGED <<live, emits>>
    /\ UNCHANGED <<pc, aged, cancelled, resume, drops, fails, wakeup, msgVars, hot>>

Reap ==
    /\ abandoned /\ call \in Answers
    /\ abandoned' = FALSE /\ call' = "none"
    /\ IF call \in {"ok", "already"} THEN Close ELSE UNCHANGED <<live, emits>>
    /\ UNCHANGED <<pc, aged, cancelled, resume, drops, fails, wakeup, msgVars, hot>>

\* The backoff after a failed Open.
Retry ==
    /\ pc = "retry"
    /\ \/ pc' = "top" /\ hot' = "no"
       \/ cancelled /\ pc' = "defer" /\ UNCHANGED hot
    /\ UNCHANGED <<call, abandoned, aged, cancelled, libVars, wakeup, msgVars>>

WatchCancelled ==
    /\ pc = "watch" /\ cancelled
    /\ pc' = "defer" /\ Close
    /\ UNCHANGED <<call, abandoned, aged, cancelled, resume, drops, fails, wakeup, msgVars, hot>>

\* The wakeup is taken at its word until Open says otherwise; nothing is
\* closed here.
Woken ==
    /\ pc = "watch" /\ wakeup
    /\ wakeup' = FALSE
    /\ pc' = IF aged THEN "top" ELSE "cooling"
    /\ UNCHANGED <<call, abandoned, aged, cancelled, libVars, msgVars, hot>>

\* The backoff after a connection that died young.
Cool ==
    /\ pc = "cooling"
    /\ \/ pc' = "top" /\ hot' = "no" /\ UNCHANGED <<live, emits>>
       \/ cancelled /\ pc' = "defer" /\ Close /\ UNCHANGED hot
    /\ UNCHANGED <<call, abandoned, aged, cancelled, resume, drops, fails, wakeup, msgVars>>

\* Run's deferred join.
Drain ==
    /\ pc = "defer"
    /\ pc' = "join" /\ draining' = TRUE
    /\ UNCHANGED <<call, abandoned, aged, cancelled, libVars, wakeup, dispatch, counted, hot>>

Join ==
    /\ pc = "join" /\ counted = {}
    /\ pc' = "returned"
    /\ UNCHANGED <<call, abandoned, aged, cancelled, libVars, wakeup, msgVars, hot>>

-----------------------------------------------------------------------------
(* onMessageCreate *)

\* isThread: what the state cache cannot say is not a thread.
IsThread(m, cached) == cached /\ m.type = "thread"

\* isDirectMessage: a cache miss may be fetched, once.
IsDirectMessage(m, cached, fetched) == (cached \/ fetched) /\ m.type = "dm"

Inside(m, cached, fetched) ==
    /\ ~m.own
    /\ IF m.type \in {"thread", "guild"}
       THEN IsThread(m, cached)
       ELSE IsDirectMessage(m, cached, fetched)

\* A message decoded before a close is still dispatched after it.
OnMessageCreate(l, m, cached, fetched) ==
    /\ live /\ dispatch[l] = NoMessage
    /\ Inside(m, cached, fetched)
    /\ dispatch' = [dispatch EXCEPT ![l] = m]
    /\ UNCHANGED <<runVars, cancelled, libVars, wakeup, draining, counted, hot>>

\* Under handlerGate: counted, or dropped once Run is draining.
Gate(l) ==
    /\ dispatch[l] # NoMessage /\ l \notin counted
    /\ IF draining
       THEN dispatch' = [dispatch EXCEPT ![l] = NoMessage] /\ UNCHANGED counted
       ELSE counted' = counted \cup {l} /\ UNCHANGED dispatch
    /\ UNCHANGED <<runVars, cancelled, libVars, wakeup, draining, hot>>

\* a.handle returns and handlers.Done runs.
Handled(l) ==
    /\ l \in counted
    /\ counted' = counted \ {l}
    /\ dispatch' = [dispatch EXCEPT ![l] = NoMessage]
    /\ UNCHANGED <<runVars, cancelled, libVars, wakeup, draining, hot>>

-----------------------------------------------------------------------------
Run ==
    \/ Top \/ Opened \/ AlreadyOpen \/ Refused \/ ResumeRefused \/ OpenFailed
    \/ Abandon \/ Retry \/ WatchCancelled \/ Woken \/ Cool \/ Drain \/ Join

\* The daemon has moved on and every goroutine is done.
Ended ==
    /\ pc = "returned" /\ ~abandoned /\ ~live /\ emits = 0
    /\ \A l \in Listener : dispatch[l] = NoMessage
    /\ UNCHANGED vars

Next ==
    \/ Run \/ Reap \/ OpenAnswers
    \/ Drop \/ Disconnected \/ Age \/ Cancel
    \/ \E l \in Listener :
        \/ \E m \in Message, cached, fetched \in BOOLEAN :
               OnMessageCreate(l, m, cached, fetched)
        \/ Gate(l) \/ Handled(l)
    \/ Ended

Spec == Init /\ [][Next]_vars

\* Go schedules every runnable goroutine, and a handler returns.
FairSpec ==
    /\ Spec
    /\ WF_vars(Run) /\ WF_vars(Reap) /\ WF_vars(Disconnected)
    /\ \A l \in Listener : WF_vars(Gate(l)) /\ WF_vars(Handled(l))

-----------------------------------------------------------------------------
(* Properties *)

\* Once Run is on its way out, and any abandoned handshake has been reaped,
\* no connection is left up: not one a stale Disconnect had made Run doubt,
\* and not one whose handshake outlived the drain.
NoConnectionLeft ==
    pc \in {"defer", "join", "returned"} /\ ~abandoned => ~live

\* No handler is in the store's path once Run has returned: the daemon
\* closes the store next.
NoHandlerOutlivesRun == pc = "returned" => counted = {}

\* Run leaves nothing of itself behind: runDaemon tears down what both use.
CleanExit == NoConnectionLeft /\ NoHandlerOutlivesRun

\* A healthy connection is only ever ended by the network or by the drain,
\* never by the adapter chasing a stale or duplicate Disconnect.
NoChurn == [][live /\ ~live' => cancelled \/ drops' > drops]_vars

\* Two handshakes never follow each other at once: a backoff has been slept
\* since the last, or the connection it made has lived out healthyReset
\* (Discord limits IDENTIFY), whatever order the announcements come in.
PacedDials == [][Dial /\ call' # call => hot = "no"]_vars

\* What reaches the handler is a thread's or a one-to-one channel's message,
\* and not the bot's own, whatever the cache and the fetch answered.
BoundaryHeld ==
    \A l \in counted : dispatch[l].type \in {"thread", "dm"} /\ ~dispatch[l].own

\* A drain ends Run even while a handshake hangs.
DrainReturns == cancelled ~> pc = "returned"

\* A lost connection comes back, and is being watched, unless Run returns:
\* no announcement is missed, and a session the gateway has forgotten is
\* not presented for ever.  Handshakes must end for it (the library's dialer
\* has a timeout); DrainReturns does without.
Reconnects ==
    WF_vars(OpenAnswers) => (~live ~> (live /\ pc = "watch") \/ pc = "returned")

=============================================================================
