------------------------------ MODULE Instance ------------------------------
(***************************************************************************)
(* Who owns the state directory: the lock, the socket file and the admin   *)
(* server of internal/admin/admin.go, as runDaemon of internal/cli/        *)
(* daemon.go brings them up and takes them down, for several daemon        *)
(* processes started over one directory and killed at any point.           *)
(*                                                                         *)
(* flock and Unix sockets are external: a lock dies with its holder, a     *)
(* socket file does not; bind fails where a file exists; closing a Go      *)
(* listener unlinks its path, by name, before it closes the socket.        *)
(***************************************************************************)
EXTENDS Integers

CONSTANTS
    Daemon,           \* daemon processes
    NoDaemon, Stale,  \* a free lock; a socket file nobody listens on
    Absent, Foreign,  \* no file; a file that is not a socket
    MaxConns,         \* bound: requests in flight at a daemon
    MaxCrashes,       \* bound: daemons killed
    MaxAcceptErrors   \* bound: Accept failing on a healthy listener

ASSUME InstanceAssumption ==
    /\ {MaxConns, MaxCrashes, MaxAcceptErrors} \subseteq Nat
    /\ {NoDaemon, Stale, Absent, Foreign} \cap Daemon = {}

VARIABLES
    lock,        \* holder of the flock
    file,        \* what is at the socket path: Absent, Stale, Foreign, or the
                 \* daemon whose listener it leads to
    pc,          \* where runDaemon is
    store,       \* daemons with the store open
    watcher,     \* Serve's watcher goroutine
    stopped,     \* daemons whose ctx or drain channel is closed
    conns,       \* admin handlers running
    crashes, acceptErrors

vars == <<lock, file, pc, store, watcher, stopped, conns, crashes, acceptErrors>>
faults == <<crashes, acceptErrors>>

TypeOK ==
    /\ lock \in Daemon \cup {NoDaemon}
    /\ file \in Daemon \cup {Absent, Stale, Foreign}
    /\ pc \in [Daemon -> {"off", "locked", "opened", "claiming", "claimed", "serving",
                          "draining", "returned", "closed"}]
    /\ store \subseteq Daemon
    /\ watcher \in [Daemon -> {"none", "waiting", "released", "unlinked"}]
    /\ stopped \subseteq Daemon
    /\ conns \in [Daemon -> 0..MaxConns]
    /\ crashes \in 0..MaxCrashes /\ acceptErrors \in 0..MaxAcceptErrors

Init ==
    /\ lock = NoDaemon
    /\ file \in {Absent, Stale, Foreign}
    /\ pc = [d \in Daemon |-> "off"]
    /\ store = {} /\ stopped = {}
    /\ watcher = [d \in Daemon |-> "none"]
    /\ conns = [d \in Daemon |-> 0]
    /\ crashes = 0 /\ acceptErrors = 0

Goto(d, place) == pc' = [pc EXCEPT ![d] = place]

-----------------------------------------------------------------------------
(* Bringing a daemon up *)

\* admin.New: the lock first; a daemon that does not get it exits at once,
\* having touched nothing.
New(d) ==
    /\ pc[d] = "off" /\ lock = NoDaemon
    /\ lock' = d
    /\ Goto(d, "locked")
    /\ UNCHANGED <<file, store, watcher, stopped, conns, faults>>

\* store.Open migrates; a refusal before or in it ends runDaemon.
OpenStore(d) ==
    /\ pc[d] = "locked"
    /\ \/ Goto(d, "opened") /\ store' = store \cup {d}
       \/ Goto(d, "returned") /\ UNCHANGED store
    /\ UNCHANGED <<lock, file, watcher, stopped, conns, faults>>

\* claim's Lstat.
Claim(d) ==
    /\ pc[d] = "opened"
    /\ Goto(d, CASE file = Absent -> "claimed"
                 [] file = Foreign -> "returned"
                 [] OTHER -> "claiming")
    /\ UNCHANGED <<lock, file, store, watcher, stopped, conns, faults>>

\* Seeded fault: a stale socket is left where it is.
RemoveStale_Fault(d) ==
    /\ pc[d] = "claiming"
    /\ Goto(d, "claimed")
    /\ UNCHANGED <<lock, file, store, watcher, stopped, conns, faults>>

\* claim's Remove: a socket file under our lock is stale.
RemoveStale(d) ==
    /\ pc[d] = "claiming"
    /\ file' = Absent
    /\ Goto(d, "claimed")
    /\ UNCHANGED <<lock, store, watcher, stopped, conns, faults>>

\* net.Listen, Chmod, and the watcher.
Listen(d) ==
    /\ pc[d] = "claimed"
    /\ IF file = Absent
       THEN /\ file' = d /\ watcher' = [watcher EXCEPT ![d] = "waiting"]
            /\ Goto(d, "serving")
       ELSE Goto(d, "returned") /\ UNCHANGED <<file, watcher>>
    /\ UNCHANGED <<lock, store, stopped, conns, faults>>

-----------------------------------------------------------------------------
(* Serving *)

\* A signal, or the adapter giving up, cancels ctx.
Cancel(d) ==
    /\ pc[d] = "serving" /\ d \notin stopped
    /\ stopped' = stopped \cup {d}
    /\ UNCHANGED <<lock, file, pc, store, watcher, conns, faults>>

\* A client reaches whatever listens at the path.
Accept(d) ==
    /\ file = d /\ pc[d] = "serving" /\ watcher[d] = "waiting" /\ conns[d] < MaxConns
    /\ conns' = [conns EXCEPT ![d] = @ + 1]
    /\ UNCHANGED <<lock, file, pc, store, watcher, stopped, faults>>

\* handle: hooks, reply, close; the drain verb replies and then stops Serve.
Handle(d) ==
    /\ conns[d] > 0
    /\ conns' = [conns EXCEPT ![d] = @ - 1]
    /\ stopped' \in {stopped, stopped \cup {d}}
    /\ UNCHANGED <<lock, file, pc, store, watcher, faults>>

\* The watcher's listener.Close: the path is unlinked, whatever is there.
WatcherCloses(d) ==
    /\ watcher[d] = "waiting" /\ d \in stopped
    /\ file' = Absent
    /\ watcher' = [watcher EXCEPT ![d] = "unlinked"]
    /\ UNCHANGED <<lock, pc, store, stopped, conns, faults>>

\* Accept fails because the watcher closed the listener.
AcceptStops(d) ==
    /\ pc[d] = "serving" /\ watcher[d] = "unlinked"
    /\ Goto(d, "draining")
    /\ UNCHANGED <<lock, file, store, watcher, stopped, conns, faults>>

\* Accept fails by itself; the listener is not closed.
AcceptFails(d) ==
    /\ pc[d] = "serving" /\ acceptErrors < MaxAcceptErrors
    /\ acceptErrors' = acceptErrors + 1
    /\ Goto(d, "draining")
    /\ UNCHANGED <<lock, file, store, watcher, stopped, conns, crashes>>

\* handlers.Wait, close(exit), and runDaemon's cancel(); the adapter, the
\* pump and the router are joined before the deferred closes.
ServeReturns(d) ==
    /\ pc[d] = "draining" /\ conns[d] = 0
    /\ Goto(d, "returned")
    /\ stopped' = stopped \cup {d}
    /\ UNCHANGED <<lock, file, store, watcher, conns, faults>>

\* The watcher sees exit closed.
WatcherReleased(d) ==
    /\ watcher[d] = "waiting" /\ pc[d] \in {"returned", "closed"}
    /\ watcher' = [watcher EXCEPT ![d] = "released"]
    /\ UNCHANGED <<lock, file, pc, store, stopped, conns, faults>>

-----------------------------------------------------------------------------
(* Taking it down *)

\* Seeded fault: the lock is given up before the store is closed.
CloseStore_Fault(d) ==
    /\ pc[d] = "returned"
    /\ lock' = IF lock = d THEN NoDaemon ELSE lock
    /\ Goto(d, "closed")
    /\ UNCHANGED <<file, store, watcher, stopped, conns, faults>>

\* The deferred closes run in reverse: db.Close ...
CloseStore(d) ==
    /\ pc[d] = "returned"
    /\ store' = store \ {d}
    /\ Goto(d, "closed")
    /\ UNCHANGED <<lock, file, watcher, stopped, conns, faults>>

\* ... then srv.Close releases the lock ...
Close(d) ==
    /\ pc[d] = "closed" /\ lock = d
    /\ lock' = NoDaemon
    /\ UNCHANGED <<file, pc, store, watcher, stopped, conns, faults>>

Gone(d) ==
    /\ Goto(d, "off")
    /\ file' = IF file = d THEN Stale ELSE file
    /\ store' = store \ {d}
    /\ watcher' = [watcher EXCEPT ![d] = "none"]
    /\ stopped' = stopped \ {d}
    /\ conns' = [conns EXCEPT ![d] = 0]
    /\ lock' = IF lock = d THEN NoDaemon ELSE lock

\* Seeded fault: the exiting process tidies the socket path once more.
Exit_Fault(d) ==
    /\ pc[d] = "closed" /\ lock # d
    /\ Goto(d, "off")
    /\ file' = Absent
    /\ watcher' = [watcher EXCEPT ![d] = "none"]
    /\ stopped' = stopped \ {d}
    /\ UNCHANGED <<lock, store, conns, faults>>

\* ... and the process exits.
Exit(d) ==
    /\ pc[d] = "closed" /\ lock # d
    /\ Gone(d)
    /\ UNCHANGED faults

Crash(d) ==
    /\ pc[d] # "off" /\ crashes < MaxCrashes
    /\ crashes' = crashes + 1
    /\ Gone(d)
    /\ UNCHANGED acceptErrors

\* The operator moves a foreign file out of the way.
Tidy ==
    /\ file = Foreign
    /\ file' = Absent
    /\ UNCHANGED <<lock, pc, store, watcher, stopped, conns, faults>>

-----------------------------------------------------------------------------
Up(d) == New(d) \/ OpenStore(d) \/ Claim(d) \/ RemoveStale(d) \/ Listen(d)
Down(d) == AcceptStops(d) \/ ServeReturns(d) \/ CloseStore(d) \/ Close(d) \/ Exit(d)

Next ==
    \/ \E d \in Daemon :
        \/ Up(d) \/ Down(d)
        \/ Cancel(d) \/ Accept(d) \/ Handle(d) \/ AcceptFails(d)
        \/ WatcherCloses(d) \/ WatcherReleased(d)
        \/ Crash(d)
    \/ Tidy

Spec == Init /\ [][Next]_vars

\* Goroutines are scheduled, a handler meets its deadline, systemd starts a
\* daemon again, and neither the configuration nor the store refuses every
\* start, nor the operator leaves a foreign file in place.
FairSpec ==
    /\ Spec
    /\ WF_vars(Tidy)
    /\ \A d \in Daemon :
        /\ WF_vars(New(d) \/ Claim(d) \/ RemoveStale(d) \/ Listen(d))
        /\ SF_vars(OpenStore(d) /\ pc'[d] = "opened")
        /\ WF_vars(OpenStore(d))
        /\ WF_vars(Down(d)) /\ WF_vars(Handle(d)) /\ WF_vars(WatcherCloses(d))

-----------------------------------------------------------------------------
(* Properties *)

\* One daemon at most has the store open, and it is the one that holds the
\* lock: a second, possibly newer, binary never migrates the schema under a
\* running daemon.
OneStore == \A d \in store : lock = d

\* An admin hook never runs against a closed store.
HooksHaveStore == \A d \in Daemon : conns[d] > 0 => d \in store

\* The state directory has one owner, and nothing of it outlives its store:
\* the order of runDaemon's deferred closes.
OneOwner == OneStore /\ HooksHaveStore

\* A daemon that says it is ready can be reached: from Listen until its own
\* shutdown the path leads to it, and nobody else's start or stop unlinks it.
\* The exception is an accept error somewhere: the watcher of the daemon it
\* stopped may take the cancellation that follows for its cue, and unlink
\* by name what its successor has bound.
Reachable ==
    acceptErrors = 0 =>
        \A d \in Daemon : pc[d] = "serving" /\ watcher[d] = "waiting" => file = d

\* No crash, and no file it leaves behind, wedges the next start.
NeverWedged == (\A d \in Daemon : pc[d] = "off") ~> (\E d \in Daemon : pc[d] = "serving")

=============================================================================
