-------------------------- MODULE MigrationProofs --------------------------
(***************************************************************************)
(* Migration for any number of runs, processes, versions and crashes, and  *)
(* whatever the migration files do.                                        *)
(***************************************************************************)
EXTENDS Migration, TLAPS

\* The migrations run from 1 to the newest binary's newest.
LEMMA Embedded ==
    \E n \in Nat : Migration = 1..n /\ \A p \in Process : Newest[p] \in 1..n
  <1>1. PICK p \in Process : \A q \in Process : Newest[q] <= Newest[p]
    BY MigrationAssumption
  <1> DEFINE S == {Newest[q] : q \in Process}
             n == CHOOSE n \in S : \A q \in Process : Newest[q] <= n
  <1>2. n \in S /\ \A q \in Process : Newest[q] <= n
    <2>1. Newest[p] \in S
      OBVIOUS
    <2> QED BY <1>1, <2>1
  <1>3. n \in Nat
    BY <1>2, MigrationAssumption
  <1>4. Migration = 1..n
    BY DEF Migration
  <1> HIDE DEF n
  <1> QED BY <1>2, <1>3, <1>4, MigrationAssumption

LEMMA OwnMigrations ==
    ASSUME NEW r \in Run
    PROVE  Newest[Proc[r]] \in Nat /\ \A m \in 1..Newest[Proc[r]] : m \in Migration
  BY Embedded, MigrationAssumption

\* A migration's statements count once more, and nothing else changes.
LEMMA Applied ==
    ASSUME NEW db \in Database, NEW m \in Migration
    PROVE  /\ Apply(db, m) \in Database
           /\ Apply(db, m).version = db.version
           /\ Apply(db, m).applied[m] = db.applied[m] + 1
           /\ \A k \in Migration \ {m} : Apply(db, m).applied[k] = db.applied[k]
  BY DEF Apply, Database

\* A new version stamp changes no migration.
LEMMA Stamped ==
    ASSUME NEW db \in Database, NEW v \in {Sentinel, 0} \cup Migration
    PROVE  /\ [db EXCEPT !.version = v] \in Database
           /\ [db EXCEPT !.version = v].version = v
           /\ [db EXCEPT !.version = v].applied = db.applied
  BY DEF Database

-----------------------------------------------------------------------------
(* The inductive invariant *)

\* No migration up to n touches the transaction; all of them are plain.
Clean(k, n) == \A m \in 1..n : k[m] \notin Escapes
PlainTo(k, n) == \A m \in 1..n : k[m] = "plain"

\* Of the migrations before any escape, exactly those up to n took effect.
AppliedTo(k, applied, n) ==
    \A m \in Migration : Clean(k, m) => applied[m] = IF m <= n THEN 1 ELSE 0

\* The committed database is a prefix, or carries the sentinel because a
\* migration escaped.
DbOk ==
    /\ committed.version # Sentinel =>
        /\ PlainTo(kind, committed.version)
        /\ AppliedTo(kind, committed.applied, committed.version)
    /\ committed.version = Sentinel =>
        \E e \in Migration :
            /\ kind[e] \in Escapes /\ PlainTo(kind, e - 1)
            /\ AppliedTo(kind, committed.applied, e - 1)

\* What each place of the batch knows of its transaction.
ReadOk(r) == pc[r] = "read" => txOwner = r /\ tx = committed

ApplyOk(r) ==
    pc[r] = "apply" =>
        /\ txOwner = r /\ tx.version = Sentinel
        /\ next[r] \in 1..Newest[Proc[r]]
        /\ committed.version = Sentinel => next[r] = 1
        /\ committed.version # Sentinel =>
            /\ next[r] > committed.version
            /\ PlainTo(kind, next[r] - 1) /\ AppliedTo(kind, tx.applied, next[r] - 1)

VerifyOk(r) ==
    pc[r] = "verify" =>
        /\ next[r] \in 1..Newest[Proc[r]]
        /\ txOwner = r /\ tx.version = Sentinel /\ committed.version # Sentinel =>
            /\ next[r] > committed.version
            /\ PlainTo(kind, next[r]) /\ AppliedTo(kind, tx.applied, next[r])

CommitOk(r) ==
    pc[r] = "commit" =>
        /\ txOwner = r
        /\ tx.version = Newest[Proc[r]]
        /\ PlainTo(kind, Newest[Proc[r]]) /\ AppliedTo(kind, tx.applied, Newest[Proc[r]])
        /\ committed.version # Sentinel /\ committed.version <= Newest[Proc[r]]

\* A run that succeeded is never undone.
OkOk(r) ==
    result[r] = "ok" =>
        /\ PlainTo(kind, Newest[Proc[r]])
        /\ committed.version # Sentinel => committed.version >= Newest[Proc[r]]

HeldOk(r) ==
    /\ pc[r] \in {"start", "observer"} => held[r] = 0
    /\ pc[r] = "conn" => held[r] = 1

RunOk(r) == ReadOk(r) /\ ApplyOk(r) /\ VerifyOk(r) /\ CommitOk(r) /\ OkOk(r)

IInv ==
    /\ TypeOK
    /\ DbOk
    /\ NoLockLeft
    /\ \A r \in Run : HeldOk(r) /\ RunOk(r)

\* An empty database and no run.
LEMMA InitIInv == Init => IInv
  <1> SUFFICES ASSUME Init PROVE IInv
    OBVIOUS
  <1>1. PICK n \in Nat : Migration = 1..n
    BY Embedded
  <1>2. Fresh \in Database /\ Fresh.version = 0 /\ \A m \in Migration : Fresh.applied[m] = 0
    BY DEF Fresh, Database
  <1>3. TypeOK
    BY <1>2, MigrationAssumption DEF Init, TypeOK, InBatch
  <1>4. DbOk
    <2>1. \A m \in Migration : m >= 1
      BY <1>1
    <2> QED BY <1>2, <2>1, <1>1 DEF Init, DbOk, PlainTo, AppliedTo, Sentinel
  <1>5. NoLockLeft
    BY MigrationAssumption DEF Init, NoLockLeft
  <1>6. ASSUME NEW r \in Run PROVE HeldOk(r) /\ RunOk(r)
    BY DEF Init, HeldOk, RunOk, ReadOk, ApplyOk, VerifyOk, CommitOk, OkOk
  <1> QED BY <1>3, <1>4, <1>5, <1>6 DEF IInv

\* An escape takes effect outside the prefix.
LEMMA EscapeHarmless ==
    ASSUME NEW k \in [Migration -> Kind], NEW m \in Migration, k[m] \in Escapes,
           NEW db \in Database, NEW n
    PROVE  /\ AppliedTo(k, db.applied, n) => AppliedTo(k, Apply(db, m).applied, n)
           /\ m = 1 => AppliedTo(k, Apply(db, m).applied, n)
  <1>1. PICK top \in Nat : Migration = 1..top
    BY Embedded
  <1>2. \A x \in Migration : Clean(k, x) => x < m
    BY <1>1 DEF Clean
  <1>3. \A x \in Migration \ {m} : Apply(db, m).applied[x] = db.applied[x]
    BY Applied
  <1>4. AppliedTo(k, db.applied, n) => AppliedTo(k, Apply(db, m).applied, n)
    BY <1>1, <1>2, <1>3 DEF AppliedTo
  <1>5. m = 1 => AppliedTo(k, Apply(db, m).applied, n)
    BY <1>1, <1>2 DEF AppliedTo
  <1> QED BY <1>4, <1>5

\* The next migration lengthens it.
LEMMA PlainLengthens ==
    ASSUME NEW k \in [Migration -> Kind], NEW m \in Migration, k[m] = "plain",
           NEW db \in Database, PlainTo(k, m - 1), AppliedTo(k, db.applied, m - 1)
    PROVE  PlainTo(k, m) /\ AppliedTo(k, Apply(db, m).applied, m)
  <1>1. PICK top \in Nat : Migration = 1..top
    BY Embedded
  <1>2. PlainTo(k, m)
    BY <1>1 DEF PlainTo
  <1>3. ASSUME NEW x \in Migration, Clean(k, x)
        PROVE  Apply(db, m).applied[x] = IF x <= m THEN 1 ELSE 0
    <2>1. CASE x = m
      <3>1. db.applied[m] = 0
        BY <1>1, <1>3, <2>1 DEF AppliedTo
      <3> QED BY <1>1, <2>1, <3>1, Applied
    <2>2. CASE x # m
      <3>1. db.applied[x] = IF x <= m - 1 THEN 1 ELSE 0
        BY <1>3 DEF AppliedTo
      <3>2. x <= m <=> x <= m - 1
        BY <1>1, <2>2
      <3> QED BY <2>2, <3>1, <3>2, Applied
    <2> QED BY <2>1, <2>2
  <1> QED BY <1>2, <1>3 DEF AppliedTo

\* While r has the transaction, or nobody, the other runs know nothing of
\* it that r's step could make untrue.
LEMMA OthersOk ==
    ASSUME IInv, NEW r \in Run,
           txOwner \in {r, NoRun}, txOwner' \in {r, NoRun}, kind' = kind,
           \A q \in Run \ {r} : pc'[q] = pc[q] /\ next'[q] = next[q] /\ result'[q] = result[q],
           committed' \in Database,
           committed'.version # Sentinel =>
               committed.version # Sentinel /\ committed'.version >= committed.version
    PROVE  \A q \in Run \ {r} : RunOk(q)'
  <1> TAKE q \in Run \ {r}
  <1>1. txOwner # q /\ txOwner' # q
    BY MigrationAssumption
  <1>2. pc[q] \notin {"read", "apply", "commit"}
    BY <1>1 DEF IInv, RunOk, ReadOk, ApplyOk, CommitOk
  <1>3. ReadOk(q)' /\ ApplyOk(q)' /\ CommitOk(q)'
    BY <1>2 DEF ReadOk, ApplyOk, CommitOk
  <1>4. VerifyOk(q)'
    BY <1>1 DEF IInv, RunOk, VerifyOk
  <1>5. committed.version \in Int /\ committed'.version \in Int /\ Newest[Proc[q]] \in Nat
    BY Embedded, OwnMigrations DEF IInv, TypeOK, Database, Sentinel
  <1>6. OkOk(q)'
    <2>1. committed'.version # Sentinel => committed'.version >= committed.version
      OBVIOUS
    <2>2. result'[q] = "ok" => PlainTo(kind, Newest[Proc[q]])
      BY DEF IInv, RunOk, OkOk
    <2> QED BY <2>1, <2>2, <1>5 DEF IInv, RunOk, OkOk
  <1> QED BY <1>3, <1>4, <1>6 DEF RunOk

\* A step that leaves the database alone.
LEMMA QuietOk ==
    ASSUME IInv, NEW r \in Run, UNCHANGED <<kind, committed, txOwner, tx>>,
           \A q \in Run \ {r} : pc'[q] = pc[q] /\ next'[q] = next[q] /\ result'[q] = result[q]
    PROVE  DbOk' /\ \A q \in Run \ {r} : RunOk(q)'
  <1>1. DbOk'
    BY DEF IInv, DbOk
  <1>2. ASSUME NEW q \in Run \ {r} PROVE RunOk(q)'
    BY DEF IInv, RunOk, ReadOk, ApplyOk, VerifyOk, CommitOk, OkOk
  <1> QED BY <1>1, <1>2

-----------------------------------------------------------------------------
(* The steps *)

\* The version is a number, and a real one is not the sentinel.
LEMMA Versions ==
    ASSUME NEW db \in Database
    PROVE  db.version \in Int /\ (db.version # Sentinel => db.version >= 0)
  BY Embedded DEF Database, Sentinel

\* What IInv' needs once the database and the other runs are settled.
LEMMA Settled ==
    ASSUME IInv, NEW r \in Run, TypeOK', DbOk', HeldOk(r)', RunOk(r)',
           \A q \in Run \ {r} : RunOk(q)' /\ pc'[q] = pc[q] /\ held'[q] = held[q],
           txOwner' = r => pc'[r] \in InBatch,
           txOwner' \in {txOwner, r, NoRun}
    PROVE  IInv'
  <1>1. \A q \in Run : RunOk(q)' /\ HeldOk(q)'
    BY DEF IInv, HeldOk
  <1>2. NoLockLeft'
    BY MigrationAssumption DEF IInv, NoLockLeft
  <1> QED BY <1>1, <1>2 DEF IInv

\* Before the batch and after it.
LEMMA OutsideIInv ==
    ASSUME IInv, NEW r \in Run,
           \/ Gate(r) \/ GateAbandoned(r) \/ TakeConn(r) \/ Busy(r) \/ Release(r) \/ StatementFails(r)
    PROVE  IInv'
  <1> USE DEF Fail, Goto
  <1>1. TypeOK'
    <2> USE DEF IInv, TypeOK, InBatch
    <2>1. CASE Gate(r)
      BY <2>1, MigrationAssumption DEF Gate
    <2>2. CASE GateAbandoned(r) \/ Busy(r) \/ StatementFails(r)
      BY <2>2 DEF GateAbandoned, Busy, StatementFails
    <2>3. CASE TakeConn(r)
      <3>1. held[r] + 1 \in 0..2
        BY <2>3 DEF TakeConn, HeldOk
      <3> QED BY <2>3, <3>1 DEF TakeConn
    <2>4. CASE Release(r)
      BY <2>4, MigrationAssumption DEF Release
    <2> QED BY <2>1, <2>2, <2>3, <2>4
  <1>2. UNCHANGED <<kind, committed, txOwner, tx, next>>
    BY DEF Gate, GateAbandoned, TakeConn, Busy, Release, StatementFails
  <1>3. \A q \in Run \ {r} :
            pc'[q] = pc[q] /\ held'[q] = held[q] /\ next'[q] = next[q] /\ result'[q] = result[q]
    BY DEF Gate, GateAbandoned, TakeConn, Busy, Release, StatementFails, IInv, TypeOK
  <1>4. pc'[r] \in {"release", "observer", "done", "conn", "begin", "rollback"}
    BY DEF Gate, GateAbandoned, TakeConn, Busy, Release, StatementFails, IInv, TypeOK
  <1>5. result'[r] \in {result[r], "error"}
    BY DEF Gate, GateAbandoned, TakeConn, Busy, Release, StatementFails, IInv, TypeOK
  <1>6. RunOk(r)'
    <2>1. OkOk(r)'
      BY <1>2, <1>5 DEF IInv, RunOk, OkOk
    <2> QED BY <2>1, <1>4 DEF RunOk, ReadOk, ApplyOk, VerifyOk, CommitOk
  <1>7. HeldOk(r)'
    BY DEF Gate, GateAbandoned, TakeConn, Busy, Release, StatementFails, IInv, TypeOK, HeldOk
  <1>8. txOwner' = r => pc'[r] \in InBatch
    BY <1>2, <1>4 DEF Gate, GateAbandoned, TakeConn, Busy, Release, StatementFails, IInv, TypeOK,
                      NoLockLeft, InBatch
  <1>9. DbOk' /\ \A q \in Run \ {r} : RunOk(q)'
    BY <1>2, <1>3, QuietOk
  <1> QED BY <1>1, <1>2, <1>3, <1>6, <1>7, <1>8, <1>9, Settled

\* The lock is taken and given back.
LEMMA LockIInv ==
    ASSUME IInv, NEW r \in Run, Begin(r) \/ Rollback(r)
    PROVE  IInv'
  <1> USE DEF Goto
  <1>1. TypeOK'
    BY DEF Begin, Rollback, IInv, TypeOK, InBatch
  <1>2. UNCHANGED <<kind, committed, held, next, result>>
    BY DEF Begin, Rollback
  <1>3. \A q \in Run \ {r} : pc'[q] = pc[q]
    BY DEF Begin, Rollback, IInv, TypeOK
  <1>4. HeldOk(r)' /\ (txOwner' = r => pc'[r] \in InBatch)
    BY MigrationAssumption DEF Begin, Rollback, IInv, TypeOK, HeldOk, InBatch
  <1>5. RunOk(r)'
    BY DEF Begin, Rollback, IInv, TypeOK, RunOk, ReadOk, ApplyOk, VerifyOk, CommitOk, OkOk
  <1>6. DbOk'
    BY <1>2 DEF IInv, DbOk
  <1>7. \A q \in Run \ {r} : RunOk(q)'
    <2>1. CASE txOwner \in {r, NoRun}
      <3>1. txOwner' \in {r, NoRun}
        BY <2>1 DEF Begin, Rollback
      <3>2. committed \in Database /\ committed.version \in Int
        BY Versions DEF IInv, TypeOK
      <3> QED BY <1>2, <1>3, <2>1, <3>1, <3>2, OthersOk
    <2>2. CASE txOwner \notin {r, NoRun}
      <3>1. UNCHANGED <<txOwner, tx>>
        BY <2>2 DEF Begin, Rollback
      <3> QED BY <1>2, <1>3, <3>1, QuietOk
    <2> QED BY <2>1, <2>2
  <1>8. txOwner' \in {txOwner, r, NoRun}
    BY DEF Begin, Rollback
  <1> QED BY <1>1, <1>2, <1>3, <1>4, <1>5, <1>6, <1>7, <1>8, Settled

\* What a step of the batch leaves to show: r holds the transaction and the
\* committed version is kept, raised or replaced by the sentinel.
LEMMA BatchSettled ==
    ASSUME IInv, NEW r \in Run, TypeOK', DbOk', RunOk(r)',
           txOwner \in {r, NoRun}, txOwner' \in {r, NoRun}, UNCHANGED <<kind, held>>,
           \A q \in Run \ {r} : pc'[q] = pc[q] /\ next'[q] = next[q] /\ result'[q] = result[q],
           pc'[r] \in InBatch \cup {"release"}, txOwner' = r => pc'[r] \in InBatch,
           committed'.version # Sentinel =>
               committed.version # Sentinel /\ committed'.version >= committed.version
    PROVE  IInv'
  <1>1. committed' \in Database
    BY DEF TypeOK
  <1>2. \A q \in Run \ {r} : RunOk(q)'
    BY <1>1, OthersOk
  <1>3. HeldOk(r)'
    BY DEF HeldOk, InBatch
  <1> QED BY <1>2, <1>3, Settled

\* The version is read under the lock, so it is still the version when the
\* batch commits.
LEMMA ReadVersionIInv ==
    ASSUME IInv, NEW r \in Run, ReadVersion(r)
    PROVE  IInv'
  <1> USE DEF Goto, Fail
  <1>1. pc[r] = "read" /\ txOwner = r /\ tx = committed /\ UNCHANGED <<kind, committed, txOwner, gate, held, crashes>>
    BY DEF ReadVersion, IInv, RunOk, ReadOk
  <1>2. committed \in Database /\ committed.version \in Int /\ (committed.version # Sentinel => committed.version >= 0)
    BY Versions DEF IInv, TypeOK
  <1>3. OwnView(r).version = committed.version
    BY <1>1 DEF OwnView
  <1>4. Newest[Proc[r]] \in Nat /\ Newest[Proc[r]] >= 1 /\ \A m \in 1..Newest[Proc[r]] : m \in Migration
    BY OwnMigrations, MigrationAssumption
  <1>5. \A q \in Run \ {r} : pc'[q] = pc[q] /\ next'[q] = next[q] /\ result'[q] = result[q]
    BY DEF ReadVersion, IInv, TypeOK
  <1>6. DbOk'
    BY <1>1 DEF IInv, DbOk
  <1>7. txOwner \in {r, NoRun} /\ txOwner' \in {r, NoRun}
    BY <1>1
  <1>8. committed'.version # Sentinel =>
            committed.version # Sentinel /\ committed'.version >= committed.version
    BY <1>1, <1>2
  <1>9. OkOk(r)'
    BY <1>1 DEF ReadVersion, IInv, TypeOK, RunOk, OkOk
  <1>10. CASE committed.version > Newest[Proc[r]]
    <2>1. pc' = [pc EXCEPT ![r] = "rollback"] /\ result' = [result EXCEPT ![r] = "error"] /\ UNCHANGED <<tx, next>>
      BY <1>2, <1>3, <1>4, <1>10 DEF ReadVersion
    <2>2. TypeOK' /\ pc'[r] = "rollback"
      BY <1>1, <2>1 DEF IInv, TypeOK, InBatch
    <2>3. RunOk(r)'
      BY <1>9, <2>2 DEF RunOk, ReadOk, ApplyOk, VerifyOk, CommitOk
    <2> QED BY <1>1, <1>5, <1>6, <1>7, <1>8, <2>2, <2>3, BatchSettled DEF InBatch
  <1>11. CASE committed.version = Newest[Proc[r]]
    <2>1. pc' = [pc EXCEPT ![r] = "commit"] /\ UNCHANGED <<tx, next, result>>
      BY <1>2, <1>3, <1>4, <1>11 DEF ReadVersion
    <2>2. TypeOK' /\ pc'[r] = "commit"
      BY <1>1, <2>1 DEF IInv, TypeOK, InBatch
    <2>3. committed.version # Sentinel
      BY <1>4, <1>11 DEF Sentinel
    <2>4. CommitOk(r)'
      BY <1>1, <1>2, <1>11, <2>1, <2>3 DEF IInv, DbOk, CommitOk
    <2>5. RunOk(r)'
      BY <1>9, <2>2, <2>4 DEF RunOk, ReadOk, ApplyOk, VerifyOk
    <2> QED BY <1>1, <1>5, <1>6, <1>7, <1>8, <2>2, <2>5, BatchSettled DEF InBatch
  <1>12. CASE committed.version < Newest[Proc[r]]
    <2> DEFINE first == IF committed.version < 0 THEN 1 ELSE committed.version + 1
    <2>1. /\ tx' = [tx EXCEPT !.version = Sentinel]
          /\ next' = [next EXCEPT ![r] = first]
          /\ pc' = [pc EXCEPT ![r] = "apply"] /\ UNCHANGED result
      BY <1>2, <1>3, <1>4, <1>12 DEF ReadVersion
    <2>2. first \in 1..Newest[Proc[r]]
      BY <1>2, <1>4, <1>12
    <2>3. next'[r] = first /\ pc'[r] = "apply"
      BY <2>1 DEF IInv, TypeOK
    <2>4. tx' \in Database /\ tx'.version = Sentinel /\ tx'.applied = committed.applied
      BY <1>1, <1>2, <2>1, Stamped
    <2>5. TypeOK'
      BY <1>1, <1>4, <2>1, <2>2, <2>3, <2>4 DEF IInv, TypeOK, InBatch
    <2>6. committed.version = Sentinel => first = 1
      BY DEF Sentinel
    <2>7. committed.version # Sentinel => first = committed.version + 1 /\ first - 1 = committed.version
      BY <1>2
    <2>8. ApplyOk(r)'
      <3>1. committed.version # Sentinel =>
              PlainTo(kind, first - 1) /\ AppliedTo(kind, tx'.applied, first - 1) /\ first > committed.version
        BY <1>2, <2>4, <2>7 DEF IInv, DbOk
      <3> HIDE DEF first
      <3> QED BY <1>1, <2>2, <2>3, <2>4, <2>6, <3>1 DEF ApplyOk
    <2>9. RunOk(r)'
      BY <1>9, <2>3, <2>8 DEF RunOk, ReadOk, VerifyOk, CommitOk
    <2> QED BY <1>1, <1>5, <1>6, <1>7, <1>8, <2>3, <2>5, <2>9, BatchSettled DEF InBatch
  <1> QED BY <1>2, <1>4, <1>10, <1>11, <1>12

\* A migration that leaves the transaction alone lengthens the batch; one
\* that ends it takes effect outside every prefix.
LEMMA ApplyOneIInv ==
    ASSUME IInv, NEW r \in Run, ApplyOne(r)
    PROVE  IInv'
  <1> USE DEF Goto, Fail
  <1>1. /\ pc[r] = "apply" /\ txOwner = r /\ tx.version = Sentinel
        /\ next[r] \in 1..Newest[Proc[r]] /\ UNCHANGED <<kind, gate, held, next, crashes>>
    BY DEF ApplyOne, IInv, RunOk, ApplyOk
  <1>2. PICK m \in Migration : m = next[r]
    BY <1>1, OwnMigrations
  <1>3. PICK done : done = Apply(tx, m)
    OBVIOUS
  <1>4. committed \in Database /\ tx \in Database /\ kind \in [Migration -> Kind]
    BY DEF IInv, TypeOK
  <1>5. /\ committed.version \in Int
        /\ done \in Database /\ done.version = Sentinel
        /\ Apply(committed, m) \in Database /\ Apply(committed, m).version = committed.version
    BY <1>1, <1>3, <1>4, Applied, Versions
  <1>6. \A q \in Run \ {r} : pc'[q] = pc[q] /\ next'[q] = next[q] /\ result'[q] = result[q]
    BY DEF ApplyOne, IInv, TypeOK
  <1>7. txOwner' \in {r, NoRun} /\ result'[r] \in {result[r], "error"}
    BY <1>1 DEF ApplyOne, IInv, TypeOK
  <1>8. committed' \in {committed, done, Apply(committed, m)}
    BY <1>2, <1>3 DEF ApplyOne
  <1>9. committed' \in Database /\ committed'.version \in {committed.version, Sentinel}
    BY <1>4, <1>5, <1>8
  <1>10. OkOk(r)'
    BY <1>1, <1>7, <1>9 DEF IInv, RunOk, OkOk
  <1>11. committed'.version # Sentinel =>
            committed.version # Sentinel /\ committed'.version >= committed.version
    BY <1>5, <1>9
  <1>12. pc'[r] \in {"verify", "rollback"}
    BY DEF ApplyOne, IInv, TypeOK
  <1>13. tx' \in {tx, done, committed, Apply(committed, m)}
    BY <1>2, <1>3 DEF ApplyOne
  <1>14. TypeOK'
    <2>1. tx' \in Database
      BY <1>4, <1>5, <1>13
    <2>2. pc' \in [Run -> {"start", "observer", "conn", "begin", "release", "done"} \cup InBatch]
      BY DEF ApplyOne, IInv, TypeOK, InBatch
    <2>3. result' \in [Run -> {"none", "ok", "error"}]
      BY DEF ApplyOne, IInv, TypeOK
    <2>4. \A q \in Run : pc'[q] \in {"apply", "verify"} => next'[q] \in Migration
      BY <1>1, <1>2, <1>6 DEF IInv, TypeOK
    <2> QED BY <1>1, <1>7, <1>9, <2>1, <2>2, <2>3, <2>4 DEF IInv, TypeOK
  <1>15. kind[m] \in Escapes =>
            /\ PlainTo(kind, m - 1) /\ AppliedTo(kind, done.applied, m - 1)
    <2> SUFFICES ASSUME kind[m] \in Escapes PROVE PlainTo(kind, m - 1) /\ AppliedTo(kind, done.applied, m - 1)
      OBVIOUS
    <2>1. CASE committed.version = Sentinel
      <3>1. m = 1
        BY <1>1, <1>2, <2>1 DEF IInv, RunOk, ApplyOk
      <3> QED BY <1>3, <1>4, <3>1, EscapeHarmless DEF PlainTo
    <2>2. CASE committed.version # Sentinel
      <3>1. PlainTo(kind, m - 1) /\ AppliedTo(kind, tx.applied, m - 1)
        BY <1>1, <1>2, <2>2 DEF IInv, RunOk, ApplyOk
      <3> QED BY <1>3, <1>4, <3>1, EscapeHarmless
    <2> QED BY <2>1, <2>2
  <1>16. DbOk'
    <2>1. CASE committed' = committed
      BY <1>1, <2>1 DEF IInv, DbOk
    <2>2. CASE committed' # committed
      <3>1. kind[m] \in Escapes /\ (committed' = done \/ committed' = Apply(committed, m))
        BY <1>2, <1>3, <2>2 DEF ApplyOne, Escapes
      <3>2. CASE committed' = done
        BY <1>1, <1>5, <1>15, <3>1, <3>2 DEF DbOk
      <3>3. CASE committed' = Apply(committed, m)
        <4>1. \A n : AppliedTo(kind, committed.applied, n) => AppliedTo(kind, committed'.applied, n)
          BY <1>4, <3>1, <3>3, EscapeHarmless
        <4>2. committed'.version = committed.version
          BY <1>5, <3>3
        <4> QED BY <1>1, <4>1, <4>2 DEF IInv, DbOk
      <3> QED BY <3>1, <3>2, <3>3
    <2> QED BY <2>1, <2>2
  <1>17. VerifyOk(r)'
    <2> SUFFICES ASSUME pc'[r] = "verify", txOwner' = r, tx'.version = Sentinel, committed'.version # Sentinel
                 PROVE  /\ m > committed'.version
                        /\ PlainTo(kind, m) /\ AppliedTo(kind, tx'.applied, m)
      BY <1>1, <1>2 DEF VerifyOk
    <2>1. r # NoRun
      BY MigrationAssumption
    <2>2. kind[m] \notin {"fails", "commits", "rollsBack"}
      BY <1>2, <2>1 DEF ApplyOne, IInv, TypeOK
    <2>3. kind[m] # "commitsBegins"
      BY <1>2, <1>3, <1>5 DEF ApplyOne
    <2>4. kind[m] # "rollsBackBegins"
      BY <1>2, <1>5 DEF ApplyOne
    <2>5. kind[m] = "plain" /\ tx' = done /\ committed' = committed
      BY <1>2, <1>3, <2>2, <2>3, <2>4 DEF ApplyOne
    <2>6. m > committed.version /\ PlainTo(kind, m - 1) /\ AppliedTo(kind, tx.applied, m - 1)
      BY <1>1, <1>2, <2>5 DEF IInv, RunOk, ApplyOk
    <2> QED BY <1>3, <1>4, <2>5, <2>6, PlainLengthens
  <1>18. RunOk(r)'
    BY <1>10, <1>12, <1>17 DEF RunOk, ReadOk, ApplyOk, CommitOk
  <1> QED BY <1>1, <1>6, <1>7, <1>11, <1>12, <1>14, <1>16, <1>18, BatchSettled DEF InBatch

\* What both connections see tells an intact batch from every escape.
LEMMA VerifyIInv ==
    ASSUME IInv, NEW r \in Run, Verify(r)
    PROVE  IInv'
  <1> USE DEF Goto, Fail
  <1>1. /\ pc[r] = "verify" /\ next[r] \in 1..Newest[Proc[r]]
        /\ UNCHANGED <<kind, committed, txOwner, gate, held, crashes>>
    BY DEF Verify, IInv, RunOk, VerifyOk
  <1>2. committed \in Database /\ committed.version \in Int /\ tx \in Database
    BY Versions DEF IInv, TypeOK
  <1>3. Newest[Proc[r]] \in Nat /\ \A m \in 1..Newest[Proc[r]] : m \in Migration
    BY OwnMigrations
  <1>4. \A q \in Run \ {r} : pc'[q] = pc[q] /\ next'[q] = next[q] /\ result'[q] = result[q]
    BY DEF Verify, IInv, TypeOK
  <1>5. DbOk'
    BY <1>1 DEF IInv, DbOk
  <1>6. OkOk(r)'
    BY <1>1 DEF Verify, IInv, TypeOK, RunOk, OkOk
  <1>7. CASE ~Intact(r)
    <2>1. pc' = [pc EXCEPT ![r] = "rollback"] /\ result' = [result EXCEPT ![r] = "error"] /\ UNCHANGED <<tx, next>>
      BY <1>7 DEF Verify
    <2>2. TypeOK' /\ pc'[r] = "rollback"
      BY <1>1, <2>1 DEF IInv, TypeOK, InBatch
    <2>3. RunOk(r)'
      BY <1>6, <2>2 DEF RunOk, ReadOk, ApplyOk, VerifyOk, CommitOk
    <2>4. \A q \in Run \ {r} : RunOk(q)'
      BY <1>1, <1>4, <2>1, QuietOk
    <2>5. HeldOk(r)'
      BY <2>2 DEF HeldOk
    <2> QED BY <1>1, <1>4, <1>5, <2>2, <2>3, <2>4, <2>5, Settled DEF InBatch
  <1>8. CASE Intact(r)
    <2>1. txOwner = r /\ tx.version = Sentinel /\ committed.version # Sentinel
      BY <1>8 DEF Intact, OwnView
    <2>2. /\ next[r] > committed.version
          /\ PlainTo(kind, next[r]) /\ AppliedTo(kind, tx.applied, next[r])
      BY <1>1, <2>1 DEF IInv, RunOk, VerifyOk
    <2>3. txOwner \in {r, NoRun} /\ txOwner' \in {r, NoRun}
      BY <1>1, <2>1
    <2>4. committed'.version # Sentinel =>
              committed.version # Sentinel /\ committed'.version >= committed.version
      BY <1>1, <1>2, <2>1
    <2>5. CASE next[r] < Newest[Proc[r]]
      <3>1. next' = [next EXCEPT ![r] = @ + 1] /\ pc' = [pc EXCEPT ![r] = "apply"] /\ UNCHANGED <<tx, result>>
        BY <1>1, <1>3, <1>8, <2>5 DEF Verify
      <3>2. PICK m : m = next[r] + 1
        OBVIOUS
      <3>3. m \in 1..Newest[Proc[r]] /\ m - 1 = next[r] /\ m > committed.version
        BY <1>1, <1>2, <1>3, <2>2, <2>5, <3>2
      <3>4. next'[r] = m /\ pc'[r] = "apply"
        BY <3>1, <3>2 DEF IInv, TypeOK
      <3>5. TypeOK'
        BY <1>1, <1>3, <3>1, <3>3, <3>4 DEF IInv, TypeOK, InBatch
      <3>6. ApplyOk(r)'
        BY <1>1, <2>1, <2>2, <3>1, <3>3, <3>4 DEF ApplyOk
      <3>7. RunOk(r)'
        BY <1>6, <3>4, <3>6 DEF RunOk, ReadOk, VerifyOk, CommitOk
      <3> QED BY <1>1, <1>4, <1>5, <2>3, <2>4, <3>4, <3>5, <3>7, BatchSettled DEF InBatch
    <2>6. CASE next[r] = Newest[Proc[r]]
      <3>1. tx' = [tx EXCEPT !.version = next[r]] /\ pc' = [pc EXCEPT ![r] = "commit"] /\ UNCHANGED <<next, result>>
        BY <1>1, <1>3, <1>8, <2>6 DEF Verify
      <3>2. next[r] \in Migration
        BY <1>1, <1>3
      <3>3. tx' \in Database /\ tx'.version = next[r] /\ tx'.applied = tx.applied
        BY <1>2, <3>1, <3>2, Stamped
      <3>4. pc'[r] = "commit"
        BY <3>1 DEF IInv, TypeOK
      <3>5. TypeOK'
        BY <1>1, <3>1, <3>3 DEF IInv, TypeOK, InBatch
      <3>6. committed.version <= Newest[Proc[r]]
        BY <1>2, <1>3, <2>2, <2>6
      <3>7. CommitOk(r)'
        BY <1>1, <2>1, <2>2, <2>6, <3>3, <3>6 DEF CommitOk
      <3>8. RunOk(r)'
        BY <1>6, <3>4, <3>7 DEF RunOk, ReadOk, ApplyOk, VerifyOk
      <3> QED BY <1>1, <1>4, <1>5, <2>3, <2>4, <3>4, <3>5, <3>8, BatchSettled DEF InBatch
    <2> QED BY <1>1, <1>3, <2>5, <2>6
  <1> QED BY <1>7, <1>8

\* The batch becomes the database.
LEMMA CommitIInv ==
    ASSUME IInv, NEW r \in Run, Commit(r)
    PROVE  IInv'
  <1> USE DEF Goto
  <1>1. /\ pc[r] = "commit" /\ txOwner = r /\ committed' = tx /\ txOwner' = NoRun
        /\ tx.version = Newest[Proc[r]]
        /\ PlainTo(kind, Newest[Proc[r]]) /\ AppliedTo(kind, tx.applied, Newest[Proc[r]])
        /\ committed.version # Sentinel /\ committed.version <= Newest[Proc[r]]
        /\ UNCHANGED <<kind, held>>
    BY DEF Commit, IInv, RunOk, CommitOk
  <1>2. Newest[Proc[r]] \in Nat /\ committed.version \in Int
    BY OwnMigrations, Versions DEF IInv, TypeOK
  <1>3. TypeOK'
    BY DEF Commit, IInv, TypeOK, InBatch
  <1>4. tx.version # Sentinel /\ tx.version >= committed.version
    BY <1>1, <1>2 DEF Sentinel
  <1>5. DbOk'
    BY <1>1, <1>4 DEF DbOk
  <1>6. pc'[r] = "release"
    BY DEF Commit, IInv, TypeOK
  <1>7. OkOk(r)'
    BY <1>1, <1>2 DEF OkOk
  <1>8. RunOk(r)'
    BY <1>6, <1>7 DEF RunOk, ReadOk, ApplyOk, VerifyOk, CommitOk
  <1>9. \A q \in Run \ {r} : pc'[q] = pc[q] /\ next'[q] = next[q] /\ result'[q] = result[q]
    BY DEF Commit, IInv, TypeOK
  <1>10. txOwner \in {r, NoRun} /\ txOwner' \in {r, NoRun} /\ (txOwner' = r => pc'[r] \in InBatch)
    BY <1>1, MigrationAssumption
  <1> QED BY <1>1, <1>3, <1>4, <1>5, <1>6, <1>8, <1>9, <1>10, BatchSettled

\* A crash takes a process's runs, and the lock if one of them had it.
LEMMA CrashIInv ==
    ASSUME IInv, NEW p \in Process, Crash(p)
    PROVE  IInv'
  <1>1. TypeOK'
    BY MigrationAssumption DEF Crash, IInv, TypeOK, InBatch
  <1>2. UNCHANGED <<kind, committed, tx, next>>
    BY DEF Crash
  <1>3. DbOk'
    BY <1>2 DEF IInv, DbOk
  <1>4. \A r \in Run : Proc[r] = p => pc'[r] = "start" /\ held'[r] = 0 /\ result'[r] = "none" /\ txOwner' # r
    BY MigrationAssumption DEF Crash, IInv, TypeOK
  <1>5. \A r \in Run : Proc[r] # p =>
            /\ pc'[r] = pc[r] /\ held'[r] = held[r] /\ result'[r] = result[r]
            /\ (txOwner' = r) = (txOwner = r)
    BY MigrationAssumption DEF Crash, IInv, TypeOK
  <1>6. NoLockLeft'
    BY <1>4, <1>5 DEF IInv, NoLockLeft
  <1>7. ASSUME NEW r \in Run PROVE HeldOk(r)' /\ RunOk(r)'
    <2>1. CASE Proc[r] = p
      BY <1>4, <2>1 DEF HeldOk, RunOk, ReadOk, ApplyOk, VerifyOk, CommitOk, OkOk
    <2>2. CASE Proc[r] # p
      BY <1>2, <1>5, <2>2 DEF IInv, HeldOk, RunOk, ReadOk, ApplyOk, VerifyOk, CommitOk, OkOk
    <2> QED BY <2>1, <2>2
  <1> QED BY <1>1, <1>3, <1>6, <1>7 DEF IInv

LEMMA NextIInv == IInv /\ [Next]_vars => IInv'
  <1> SUFFICES ASSUME IInv, [Next]_vars PROVE IInv'
    OBVIOUS
  <1>1. CASE UNCHANGED vars
    BY <1>1 DEF vars, IInv, TypeOK, DbOk, NoLockLeft, HeldOk, RunOk, ReadOk, ApplyOk, VerifyOk, CommitOk, OkOk
  <1>2. ASSUME NEW r \in Run, Step(r) \/ GateAbandoned(r) \/ Busy(r) \/ StatementFails(r) PROVE IInv'
    BY <1>2, OutsideIInv, LockIInv, ReadVersionIInv, ApplyOneIInv, VerifyIInv, CommitIInv DEF Step
  <1>3. ASSUME NEW p \in Process, Crash(p) PROVE IInv'
    BY <1>3, CrashIInv
  <1> QED BY <1>1, <1>2, <1>3 DEF Next, AllDone

LEMMA AlwaysIInv == Spec => []IInv
  BY InitIInv, NextIInv, PTL DEF Spec

-----------------------------------------------------------------------------
(* Theorems *)

\* An escape anywhere keeps every later version from counting as plain, so
\* a clean set of files means a clean prefix.
LEMMA PrefixIsSchema == IInv => SchemaIsPrefix
  <1> SUFFICES ASSUME IInv, \A m \in Migration : kind[m] \notin Escapes
               PROVE  /\ committed.version # Sentinel
                      /\ \A m \in Migration :
                             committed.applied[m] = IF m <= committed.version THEN 1 ELSE 0
    BY DEF SchemaIsPrefix
  <1>1. PICK n \in Nat : Migration = 1..n
    BY Embedded
  <1>2. \A m \in Migration : Clean(kind, m)
    BY <1>1 DEF Clean
  <1>3. committed.version # Sentinel
    BY DEF IInv, DbOk
  <1> QED BY <1>2, <1>3 DEF IInv, DbOk, AppliedTo

\* A run that succeeded saw every migration it embeds plain, and the
\* database can only have moved on from there.
LEMMA SuccessIsSchema == IInv => OkMeansMigrated
  <1> SUFFICES ASSUME IInv, NEW r \in Run, result[r] = "ok", NEW m \in 1..Newest[Proc[r]]
               PROVE  kind[m] = "plain" /\ committed.applied[m] = 1
    BY DEF OkMeansMigrated
  <1>1. Newest[Proc[r]] \in Nat /\ m \in Migration
    BY OwnMigrations
  <1>2. PlainTo(kind, Newest[Proc[r]]) /\ (committed.version # Sentinel => committed.version >= Newest[Proc[r]])
    BY DEF IInv, RunOk, OkOk
  <1>3. Clean(kind, m)
    BY <1>1, <1>2 DEF Clean, PlainTo, Escapes
  <1>4. committed.version \in Int
    BY Versions DEF IInv, TypeOK
  <1>5. CASE committed.version # Sentinel
    BY <1>1, <1>2, <1>3, <1>4, <1>5 DEF IInv, DbOk, AppliedTo, PlainTo
  <1>6. CASE committed.version = Sentinel
    <2>1. PICK e \in Migration : kind[e] \in Escapes /\ AppliedTo(kind, committed.applied, e - 1)
      BY <1>6 DEF IInv, DbOk
    <2>2. e \in Nat /\ e > Newest[Proc[r]]
      <3>1. PICK n \in Nat : Migration = 1..n
        BY Embedded
      <3> QED BY <1>1, <1>2, <2>1, <3>1 DEF PlainTo, Escapes
    <2>3. m <= e - 1
      BY <1>1, <2>2
    <2> QED BY <1>1, <1>2, <1>3, <2>1, <2>3 DEF AppliedTo, PlainTo
  <1> QED BY <1>5, <1>6

\* However many processes of whatever versions race and crash, the database
\* holds exactly the migrations its version names, each applied once.
THEOREM SchemaIsSound == Spec => [](TypeOK /\ SchemaIsPrefix)
  <1>1. IInv => TypeOK
    BY DEF IInv
  <1> QED BY <1>1, PrefixIsSchema, AlwaysIInv, PTL

\* Whatever the migration files do, a run that reports success left all of
\* its binary's migrations applied once.
THEOREM SuccessIsTrue == Spec => []OkMeansMigrated
  BY SuccessIsSchema, AlwaysIInv, PTL

\* No run keeps the write lock past its batch, however the batch ended.
THEOREM LockIsGivenBack == Spec => []NoLockLeft
  <1>1. IInv => NoLockLeft
    BY DEF IInv
  <1> QED BY <1>1, AlwaysIInv, PTL

\* A binary opens a database only at the version it embeds.
THEOREM BinaryOpensItsOwn == Spec => OpenedAtOwnVersion
  <1> DEFINE Opened == \A r \in Run : result'[r] = "ok" /\ result[r] # "ok" =>
                           committed'.version = Newest[Proc[r]]
  <1>1. ASSUME IInv, [Next]_vars PROVE [Opened]_vars
    <2> SUFFICES ASSUME Next, NEW r \in Run, result'[r] = "ok", result[r] # "ok"
                 PROVE  committed'.version = Newest[Proc[r]]
      BY <1>1
    <2>1. \E q \in Run : Commit(q)
      <3>1. CASE \E p \in Process : Crash(p)
        BY <3>1 DEF Crash
      <3>2. CASE AllDone
        BY <3>2 DEF AllDone, vars
      <3>3. ASSUME NEW q \in Run, ~Commit(q),
                   Step(q) \/ GateAbandoned(q) \/ Busy(q) \/ StatementFails(q)
            PROVE  FALSE
        <4>1. result' = result \/ result' = [result EXCEPT ![q] = "error"]
          BY <3>3 DEF Step, Gate, TakeConn, Begin, ReadVersion, ApplyOne, Verify, Rollback, Release,
                      GateAbandoned, Busy, StatementFails, Fail
        <4> QED BY <1>1, <4>1 DEF IInv, TypeOK
      <3> QED BY <3>1, <3>2, <3>3 DEF Next
    <2>2. PICK q \in Run : Commit(q)
      BY <2>1
    <2>3. q = r
      BY <1>1, <2>2 DEF Commit, IInv, TypeOK
    <2> QED BY <1>1, <2>2, <2>3 DEF Commit, IInv, RunOk, CommitOk
  <1> QED BY <1>1, AlwaysIInv, PTL DEF Spec, OpenedAtOwnVersion

=============================================================================
