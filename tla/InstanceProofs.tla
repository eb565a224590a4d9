--------------------------- MODULE InstanceProofs ---------------------------
(***************************************************************************)
(* Instance for any number of daemons, crashes and requests: one owner of  *)
(* the state directory, and, until an accept error, a ready daemon stays   *)
(* reachable.                                                              *)
(***************************************************************************)
EXTENDS Instance, TLAPS

\* From the lock to the deferred closes.
Holding == {"locked", "opened", "claiming", "claimed", "serving", "draining", "returned"}

\* The daemon that is up holds the lock, and one that is off does not.
HolderOk ==
    \A d \in Daemon :
        /\ pc[d] \in Holding => lock = d
        /\ pc[d] = "off" => lock # d

\* The store is open only from OpenStore to CloseStore, and all the while
\* hooks can run.
StoreOk ==
    \A d \in Daemon :
        /\ d \in store => pc[d] \in Holding \ {"locked"}
        /\ pc[d] \in {"opened", "claiming", "claimed", "serving", "draining"} => d \in store

HooksOk == \A d \in Daemon : conns[d] > 0 => pc[d] \in {"serving", "draining"}

IInv == TypeOK /\ HolderOk /\ StoreOk /\ HooksOk

\* Nobody owns an untouched directory.
LEMMA InitIInv == Init => IInv
  BY InstanceAssumption
     DEF Init, IInv, TypeOK, HolderOk, StoreOk, HooksOk, Holding

\* A process that is gone keeps nothing.
LEMMA GoneIInv ==
    ASSUME IInv, NEW d \in Daemon, Gone(d),
           crashes' \in 0..MaxCrashes, acceptErrors' \in 0..MaxAcceptErrors
    PROVE  IInv'
  <1>1. TypeOK'
    BY InstanceAssumption DEF IInv, TypeOK, Gone, Goto
  <1>2. HolderOk'
    BY InstanceAssumption DEF IInv, TypeOK, HolderOk, Gone, Goto, Holding
  <1>3. StoreOk'
    BY DEF IInv, TypeOK, StoreOk, Gone, Goto, Holding
  <1>4. HooksOk'
    BY DEF IInv, TypeOK, HooksOk, Gone, Goto
  <1> QED BY <1>1, <1>2, <1>3, <1>4 DEF IInv

\* Every step keeps the inductive invariant.
LEMMA NextIInv == IInv /\ [Next]_vars => IInv'
  <1> SUFFICES ASSUME IInv, [Next]_vars PROVE IInv'
    OBVIOUS
  <1> USE InstanceAssumption DEF IInv, TypeOK, HolderOk, StoreOk, HooksOk, Holding, faults
  <1>1. ASSUME NEW d \in Daemon, Up(d) PROVE IInv'
    <2>1. CASE New(d)
      BY <2>1 DEF New, Goto
    <2>2. CASE OpenStore(d)
      BY <2>2 DEF OpenStore, Goto
    <2>3. CASE Claim(d)
      BY <2>3 DEF Claim, Goto
    <2>4. CASE RemoveStale(d)
      BY <2>4 DEF RemoveStale, Goto
    <2>5. CASE Listen(d)
      BY <2>5 DEF Listen, Goto
    <2> QED BY <1>1, <2>1, <2>2, <2>3, <2>4, <2>5 DEF Up
  <1>2. ASSUME NEW d \in Daemon, Down(d) PROVE IInv'
    <2>1. CASE AcceptStops(d)
      BY <2>1 DEF AcceptStops, Goto
    <2>2. CASE ServeReturns(d)
      BY <2>2 DEF ServeReturns, Goto
    <2>3. CASE CloseStore(d)
      BY <2>3 DEF CloseStore, Goto
    <2>4. CASE Close(d)
      BY <2>4 DEF Close
    <2>5. CASE Exit(d)
      BY <2>5, GoneIInv DEF Exit
    <2> QED BY <1>2, <2>1, <2>2, <2>3, <2>4, <2>5 DEF Down
  <1>3. ASSUME NEW d \in Daemon, Cancel(d) \/ WatcherCloses(d) \/ WatcherReleased(d) PROVE IInv'
    BY <1>3 DEF Cancel, WatcherCloses, WatcherReleased
  <1>4. ASSUME NEW d \in Daemon, Accept(d) \/ Handle(d) PROVE IInv'
    BY <1>4 DEF Accept, Handle
  <1>5. ASSUME NEW d \in Daemon, AcceptFails(d) PROVE IInv'
    BY <1>5 DEF AcceptFails, Goto
  <1>6. ASSUME NEW d \in Daemon, Crash(d) PROVE IInv'
    BY <1>6, GoneIInv DEF Crash
  <1>7. CASE Tidy
    BY <1>7 DEF Tidy
  <1>8. CASE UNCHANGED vars
    BY <1>8 DEF vars
  <1> QED BY <1>1, <1>2, <1>3, <1>4, <1>5, <1>6, <1>7, <1>8 DEF Next

-----------------------------------------------------------------------------
LEMMA AlwaysIInv == Spec => []IInv
  BY InitIInv, NextIInv, PTL DEF Spec

\* However many daemons are started over one state directory, and whenever
\* they are killed, only the holder of the lock has the store open, and no
\* admin hook runs against a closed store: the lock is taken first and
\* released last, and Serve waits for its handlers.
THEOREM DirectoryHasOneOwner == Spec => [](TypeOK /\ OneOwner)
  <1>1. IInv => TypeOK /\ OneOwner
    BY DEF IInv, TypeOK, HolderOk, StoreOk, HooksOk, OneOwner, OneStore, HooksHaveStore, Holding
  <1> QED BY <1>1, AlwaysIInv, PTL

-----------------------------------------------------------------------------
\* While Accept does not fail by itself, a watcher that has yet to choose
\* belongs to a daemon that serves.
WatcherOk ==
    acceptErrors = 0 => \A d \in Daemon : watcher[d] = "waiting" => pc[d] = "serving"

RInv == IInv /\ WatcherOk /\ Reachable

\* Every step keeps a ready daemon reachable: whoever unlinks the path holds
\* the lock, so it is its own.
LEMMA NextRInv == RInv /\ [Next]_vars => RInv'
  <1> SUFFICES ASSUME RInv, [Next]_vars PROVE RInv'
    OBVIOUS
  <1>0. IInv'
    BY NextIInv DEF RInv
  <1> USE InstanceAssumption DEF RInv, IInv, TypeOK, HolderOk, WatcherOk, Reachable, Holding, faults
  <1> SUFFICES WatcherOk' /\ Reachable'
    BY <1>0
  <1>1. ASSUME NEW d \in Daemon, Up(d) PROVE WatcherOk' /\ Reachable'
    <2>1. CASE New(d) \/ OpenStore(d) \/ Claim(d)
      BY <2>1 DEF New, OpenStore, Claim, Goto
    <2>2. CASE RemoveStale(d)
      BY <2>2 DEF RemoveStale, Goto
    <2>3. CASE Listen(d)
      BY <2>3 DEF Listen, Goto
    <2> QED BY <1>1, <2>1, <2>2, <2>3 DEF Up
  <1>2. ASSUME NEW d \in Daemon, Down(d) \/ Crash(d) PROVE WatcherOk' /\ Reachable'
    <2>1. CASE AcceptStops(d) \/ ServeReturns(d) \/ CloseStore(d)
      BY <2>1 DEF AcceptStops, ServeReturns, CloseStore, Goto
    <2>2. CASE Close(d)
      BY <2>2 DEF Close
    <2>3. CASE Exit(d) \/ Crash(d)
      BY <2>3 DEF Exit, Crash, Gone, Goto
    <2> QED BY <1>2, <2>1, <2>2, <2>3 DEF Down
  <1>3. ASSUME NEW d \in Daemon, WatcherCloses(d) PROVE WatcherOk' /\ Reachable'
    BY <1>3 DEF WatcherCloses
  <1>4. ASSUME NEW d \in Daemon, Cancel(d) \/ Accept(d) \/ Handle(d) \/ WatcherReleased(d)
        PROVE WatcherOk' /\ Reachable'
    BY <1>4 DEF Cancel, Accept, Handle, WatcherReleased
  <1>5. ASSUME NEW d \in Daemon, AcceptFails(d) PROVE WatcherOk' /\ Reachable'
    BY <1>5 DEF AcceptFails
  <1>6. CASE Tidy
    BY <1>6 DEF Tidy
  <1>7. CASE UNCHANGED vars
    BY <1>7 DEF vars
  <1> QED BY <1>1, <1>2, <1>3, <1>4, <1>5, <1>6, <1>7 DEF Next

\* Until an accept error, a daemon that says it is ready can be reached until
\* its own shutdown, whoever else starts, stops or is killed beside it.
THEOREM ReadyIsReachable == Spec => []Reachable
  <1>1. Init => RInv
    BY InitIInv DEF Init, RInv, WatcherOk, Reachable
  <1>2. RInv => Reachable
    BY DEF RInv
  <1> QED BY <1>1, <1>2, NextRInv, PTL DEF Spec

=============================================================================
