----------------------------- MODULE Migration -----------------------------
(***************************************************************************)
(* Schema migration: migrate, applyPending, requireBatchTransaction and    *)
(* rollback of internal/store/migrate.go, run by several callers in        *)
(* several processes over one SQLite database, with crashes.               *)
(*                                                                         *)
(* The database is the committed user_version and how often each           *)
(* migration's statements took effect; one transaction at a time holds     *)
(* the write lock with its own copy of both (SQLite, external).  What a    *)
(* migration file does to the transaction it runs in is a parameter the    *)
(* initial state chooses: the runner does not parse SQL.                   *)
(***************************************************************************)
EXTENDS Integers, FiniteSets

CONSTANTS
    Run, Process,
    Proc,         \* the process of each run
    Newest,       \* the newest migration each process's binary embeds
    Pool,         \* connections each process's handle may open, 0: no limit
    NoRun,
    MaxCrashes    \* bound: crashes

Migration == 1..(CHOOSE n \in {Newest[p] : p \in Process} : \A p \in Process : Newest[p] <= n)

ASSUME MigrationAssumption ==
    /\ Proc \in [Run -> Process]
    /\ Newest \in [Process -> Nat \ {0}]
    /\ \E p \in Process : \A q \in Process : Newest[q] <= Newest[p]
    /\ Pool \in [Process -> Nat]
    /\ NoRun \notin Run
    /\ MaxCrashes \in Nat

VARIABLES
    kind,        \* what each migration file does; constant
    committed,   \* the database as other connections see it
    txOwner, tx, \* the run whose transaction is open, and its view
    gate,        \* migrateGate of each process
    held,        \* connections each run has taken from its pool
    pc, next, result,
    crashes

vars == <<kind, committed, txOwner, tx, gate, held, pc, next, result, crashes>>

Escapes == {"commits", "commitsBegins", "rollsBack", "rollsBackBegins"}
Kind == {"plain", "fails"} \cup Escapes

Sentinel == -1

Database == [version : {Sentinel, 0} \cup Migration, applied : [Migration -> Nat]]

InBatch == {"read", "apply", "verify", "commit", "rollback"}

TypeOK ==
    /\ kind \in [Migration -> Kind]
    /\ committed \in Database /\ tx \in Database
    /\ txOwner \in Run \cup {NoRun}
    /\ gate \in [Process -> Run \cup {NoRun}]
    /\ held \in [Run -> 0..2]
    /\ pc \in [Run -> {"start", "observer", "conn", "begin", "release", "done"} \cup InBatch]
    /\ next \in [Run -> Nat]
    /\ \A r \in Run : pc[r] \in {"apply", "verify"} => next[r] \in Migration
    /\ result \in [Run -> {"none", "ok", "error"}]
    /\ crashes \in 0..MaxCrashes

Fresh == [version |-> 0, applied |-> [m \in Migration |-> 0]]

Init ==
    /\ kind \in [Migration -> Kind]
    /\ committed = Fresh /\ tx = Fresh
    /\ txOwner = NoRun
    /\ gate = [p \in Process |-> NoRun]
    /\ held = [r \in Run |-> 0]
    /\ pc = [r \in Run |-> "start"]
    /\ next = [r \in Run |-> 0]
    /\ result = [r \in Run |-> "none"]
    /\ crashes = 0

Goto(r, place) == pc' = [pc EXCEPT ![r] = place]

\* An early return: what was opened is unwound on the way out.
Fail(r, place) ==
    /\ Goto(r, place)
    /\ result' = [result EXCEPT ![r] = "error"]

Apply(db, m) == [db EXCEPT !.applied[m] = @ + 1]

\* What conn itself reads: its transaction if one is open on it.
OwnView(r) == IF txOwner = r THEN tx ELSE committed

-----------------------------------------------------------------------------
\* Seeded fault: no process-wide gate.
Gate_Fault(r) ==
    /\ pc[r] = "start"
    /\ IF Pool[Proc[r]] = 1 THEN Fail(r, "release") ELSE Goto(r, "observer") /\ UNCHANGED result
    /\ UNCHANGED <<kind, committed, txOwner, tx, gate, held, next, crashes>>

\* migrateGate, then the refusal of a pool of one.
Gate(r) ==
    /\ pc[r] = "start" /\ gate[Proc[r]] = NoRun
    /\ gate' = [gate EXCEPT ![Proc[r]] = r]
    /\ IF Pool[Proc[r]] = 1 THEN Fail(r, "release") ELSE Goto(r, "observer") /\ UNCHANGED result
    /\ UNCHANGED <<kind, committed, txOwner, tx, held, next, crashes>>

\* The caller's context ends while it waits for the gate.
GateAbandoned(r) ==
    /\ pc[r] = "start" /\ gate[Proc[r]] # NoRun
    /\ Fail(r, "done")
    /\ UNCHANGED <<kind, committed, txOwner, tx, gate, held, next, crashes>>

InUse(p) == Cardinality({r \in Run : Proc[r] = p /\ held[r] >= 1})
          + Cardinality({r \in Run : Proc[r] = p /\ held[r] = 2})

\* db.Conn, for the observer and for the batch; it waits for the pool.
TakeConn(r) ==
    /\ pc[r] \in {"observer", "conn"}
    /\ Pool[Proc[r]] = 0 \/ InUse(Proc[r]) < Pool[Proc[r]]
    /\ held' = [held EXCEPT ![r] = @ + 1]
    /\ Goto(r, IF pc[r] = "observer" THEN "conn" ELSE "begin")
    /\ UNCHANGED <<kind, committed, txOwner, tx, gate, next, result, crashes>>

\* BEGIN IMMEDIATE takes the write lock.
Begin(r) ==
    /\ pc[r] = "begin" /\ txOwner = NoRun
    /\ txOwner' = r /\ tx' = committed
    /\ Goto(r, "read")
    /\ UNCHANGED <<kind, committed, gate, held, next, result, crashes>>

\* Its busy_timeout runs out behind another writer.
Busy(r) ==
    /\ pc[r] = "begin" /\ txOwner # NoRun
    /\ Fail(r, "release")
    /\ UNCHANGED <<kind, committed, txOwner, tx, gate, held, next, crashes>>

\* applyPending reads the version inside the lock and marks the batch.
ReadVersion(r) ==
    LET version == OwnView(r).version
        newest == Newest[Proc[r]] IN
    /\ pc[r] = "read"
    /\ \/ version > newest                       \* ErrSchemaTooNew
          /\ Fail(r, "rollback") /\ UNCHANGED <<tx, next>>
       \/ version = newest                       \* nothing pending
          /\ Goto(r, "commit") /\ UNCHANGED <<tx, next, result>>
       \/ /\ version < newest
          /\ tx' = [tx EXCEPT !.version = Sentinel]
          /\ next' = [next EXCEPT ![r] = IF version < 0 THEN 1 ELSE version + 1]
          /\ Goto(r, "apply")
          /\ UNCHANGED result
    /\ UNCHANGED <<kind, committed, txOwner, gate, held, crashes>>

\* Seeded fault: with no BEGIN a migration's statements commit as they run.
ApplyOne_Fault(r) ==
    /\ pc[r] = "apply"
    /\ tx' = Apply(tx, next[r]) /\ committed' = Apply(committed, next[r])
    /\ Goto(r, "verify")
    /\ UNCHANGED <<kind, txOwner, gate, held, next, result, crashes>>

\* One migration's file runs on conn.
ApplyOne(r) ==
    LET m == next[r]
        done == Apply(tx, m) IN
    /\ pc[r] = "apply"
    /\ \/ /\ kind[m] = "plain"
          /\ tx' = done /\ Goto(r, "verify")
          /\ UNCHANGED <<committed, txOwner, result>>
       \/ /\ kind[m] = "fails"
          /\ Fail(r, "rollback")
          /\ UNCHANGED <<committed, txOwner, tx>>
       \/ /\ kind[m] = "commits"                 \* COMMIT
          /\ committed' = done /\ txOwner' = NoRun /\ Goto(r, "verify")
          /\ UNCHANGED <<tx, result>>
       \/ /\ kind[m] = "commitsBegins"           \* COMMIT; BEGIN
          /\ committed' = done /\ tx' = done /\ Goto(r, "verify")
          /\ UNCHANGED <<txOwner, result>>
       \/ /\ kind[m] = "rollsBack"               \* ROLLBACK, the rest autocommits
          /\ committed' \in {committed, Apply(committed, m)}
          /\ txOwner' = NoRun /\ Goto(r, "verify")
          /\ UNCHANGED <<tx, result>>
       \/ /\ kind[m] = "rollsBackBegins"         \* ROLLBACK; BEGIN
          /\ tx' \in {committed, Apply(committed, m)} /\ Goto(r, "verify")
          /\ UNCHANGED <<committed, txOwner, result>>
    /\ UNCHANGED <<kind, gate, held, next, crashes>>

\* Seeded fault: only the batch connection is asked.
Intact_Fault(r) == OwnView(r).version = Sentinel

\* requireBatchTransaction: the batch still sees the sentinel, and the
\* observer does not.
Intact(r) == OwnView(r).version = Sentinel /\ committed.version # Sentinel

\* After the last one the version bump rides the same transaction, which an
\* intact batch still holds.
Verify(r) ==
    /\ pc[r] = "verify"
    /\ \/ /\ ~Intact(r)
          /\ Fail(r, "rollback") /\ UNCHANGED <<tx, next>>
       \/ /\ Intact(r) /\ next[r] < Newest[Proc[r]]
          /\ next' = [next EXCEPT ![r] = @ + 1] /\ Goto(r, "apply")
          /\ UNCHANGED <<tx, result>>
       \/ /\ Intact(r) /\ next[r] = Newest[Proc[r]]
          /\ tx' = [tx EXCEPT !.version = next[r]] /\ Goto(r, "commit")
          /\ UNCHANGED <<next, result>>
    /\ UNCHANGED <<kind, committed, txOwner, gate, held, crashes>>

Commit(r) ==
    /\ pc[r] = "commit" /\ txOwner = r
    /\ committed' = tx /\ txOwner' = NoRun
    /\ Goto(r, "release") /\ result' = [result EXCEPT ![r] = "ok"]
    /\ UNCHANGED <<kind, tx, gate, held, next, crashes>>

\* A statement of the batch fails, or the caller's context ends.
StatementFails(r) ==
    /\ pc[r] \in {"read", "apply", "verify", "commit"}
    /\ Fail(r, "rollback")
    /\ UNCHANGED <<kind, committed, txOwner, tx, gate, held, next, crashes>>

\* ROLLBACK on a fresh context; if even that fails the connection is
\* poisoned, and closing it rolls back.
Rollback(r) ==
    /\ pc[r] = "rollback"
    /\ txOwner' = IF txOwner = r THEN NoRun ELSE txOwner
    /\ Goto(r, "release")
    /\ UNCHANGED <<kind, committed, tx, gate, held, next, result, crashes>>

\* The deferred closes, in one step: both connections and the gate.
Release(r) ==
    /\ pc[r] = "release"
    /\ held' = [held EXCEPT ![r] = 0]
    /\ gate' = [p \in Process |-> IF gate[p] = r THEN NoRun ELSE gate[p]]
    /\ Goto(r, "done")
    /\ UNCHANGED <<kind, committed, txOwner, tx, next, result, crashes>>

\* A process dies and starts over; SQLite rolls its transaction back.
Crash(p) ==
    /\ crashes < MaxCrashes
    /\ crashes' = crashes + 1
    /\ LET mine == {r \in Run : Proc[r] = p} IN
       /\ txOwner' = IF txOwner \in mine THEN NoRun ELSE txOwner
       /\ gate' = [gate EXCEPT ![p] = NoRun]
       /\ held' = [r \in Run |-> IF r \in mine THEN 0 ELSE held[r]]
       /\ pc' = [r \in Run |-> IF r \in mine THEN "start" ELSE pc[r]]
       /\ result' = [r \in Run |-> IF r \in mine THEN "none" ELSE result[r]]
    /\ UNCHANGED <<kind, committed, tx, next>>

AllDone == (\A r \in Run : pc[r] = "done") /\ UNCHANGED vars

Step(r) ==
    \/ Gate(r) \/ TakeConn(r) \/ Begin(r) \/ ReadVersion(r) \/ ApplyOne(r)
    \/ Verify(r) \/ Commit(r) \/ Rollback(r) \/ Release(r)

Next ==
    \/ \E r \in Run : Step(r) \/ GateAbandoned(r) \/ Busy(r) \/ StatementFails(r)
    \/ \E p \in Process : Crash(p)
    \/ AllDone

Spec == Init /\ [][Next]_vars

\* A run that can go on does.
FairSpec == Spec /\ \A r \in Run : WF_vars(Step(r))

-----------------------------------------------------------------------------
(* Properties *)

\* With migrations that leave the transaction alone, the database always
\* holds exactly the migrations its version names, each applied once:
\* whatever crashed, failed, raced or was of another version.
SchemaIsPrefix ==
    (\A m \in Migration : kind[m] \notin Escapes) =>
        /\ committed.version # Sentinel
        /\ \A m \in Migration :
               committed.applied[m] = IF m <= committed.version THEN 1 ELSE 0

\* A run that succeeded left every migration its binary embeds applied
\* exactly once, even when some migration tries to end the batch: no
\* escape goes unnoticed.
OkMeansMigrated ==
    \A r \in Run : result[r] = "ok" =>
        \A m \in 1..Newest[Proc[r]] : kind[m] = "plain" /\ committed.applied[m] = 1

\* A binary never opens a schema other than its own: not an older one, and
\* not a newer one (ErrSchemaTooNew).
OpenedAtOwnVersion ==
    [][\A r \in Run : result'[r] = "ok" /\ result[r] # "ok" =>
           committed'.version = Newest[Proc[r]]]_vars

\* No run keeps the write lock past its batch: a failed one, a cancelled
\* one and an escaped one all give it back before their connection returns
\* to the pool.
NoLockLeft == \A r \in Run : txOwner = r => pc[r] \in InBatch

\* Every run ends: the gate keeps two runs on one bounded pool from each
\* holding the connection the other needs.
EveryRunEnds == \A r \in Run : []<>(pc[r] = "done")

=============================================================================
