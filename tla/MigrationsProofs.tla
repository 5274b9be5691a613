-------------------------- MODULE MigrationsProofs --------------------------
(***************************************************************************)
(* Theorems about Migrations, for any number of runners, releases and      *)
(* failures.                                                               *)
(*                                                                         *)
(* The invariant: only the holder of the advisory lock is at work, the rows*)
(* are the applied migrations and at most one more, and what a runner has  *)
(* learnt at each place of Migrate still holds there.                      *)
(***************************************************************************)
EXTENDS Migrations, TLAPS

\* At most one runner is between its lock and its return.
LockHeld == \A r \in Runner : run[r].pc \in Working => lock = r

\* The table has a row for each applied migration, and at most one more.
Contiguous == DOMAIN rows \in {1..Len(applied), 1..Len(applied) + 1}

\* A row says which SQL was applied, where checksums were tracked.
RecordedIsApplied ==
    \A v \in Len(Legacy) + 1..Len(applied) :
        rows[v].name = applied[v][2].name /\ rows[v].checksum = applied[v][2].checksum

\* What the statements so far have established at each place of Migrate.
Learnt(r) ==
    LET v == run[r].next IN
    /\ run[r].pc \in {"future", "next", "dirty", "require"} => DOMAIN rows = 1..Len(applied)
    /\ run[r].pc \in {"next", "dirty", "apply", "require"} =>
           DOMAIN rows \subseteq 1..Len(Release[r])
    /\ run[r].pc = "next" => v <= Len(applied) + 1
    /\ run[r].pc \in {"dirty", "apply"} => v = Len(applied) + 1 /\ v <= Len(Release[r])
    /\ run[r].pc = "apply" =>
           /\ v \in DOMAIN rows
           /\ rows[v].name = Release[r][v].name /\ rows[v].checksum = Release[r][v].checksum

IInv ==
    /\ MigrationsTypeOK
    /\ LockHeld
    /\ Contiguous
    /\ AppliedInOrder
    /\ DirtyIsUnapplied
    /\ RecordedIsApplied
    /\ \A r \in Runner : Learnt(r)

USE ReleaseAssumption, LegacyAssumption, NullsAssumption, MaxFaultsAssumption

\* The migrations of a release are records with a name and a checksum.
LEMMA ReleaseType ==
  ASSUME NEW r \in Runner
  PROVE  /\ Release[r] \in Seq(Migration) /\ Len(Release[r]) \in Nat
         /\ \A v \in 1..Len(Release[r]) :
                Release[r][v] \in Migration /\ Release[r][v].name \in Name
                    /\ Release[r][v].checksum \in Checksum
  <1>1. Release[r] \in Seq(Migration) BY DEF EmbeddedMigrations
  <1>2. Len(Release[r]) \in Nat /\ \A v \in 1..Len(Release[r]) : Release[r][v] \in Migration
    BY <1>1
  <1>3. \A m \in Migration : m.name \in Name /\ m.checksum \in Checksum BY DEF Migration
  <1> QED BY <1>1, <1>2, <1>3

\* A database without a run satisfies the invariant.
LEMMA InitEstablishes == Init => IInv
  <1> SUFFICES ASSUME Init PROVE IInv OBVIOUS
  <1>1. /\ Len(Legacy) \in Nat /\ DOMAIN Legacy = 1..Len(Legacy)
        /\ \A v \in 1..Len(Legacy) : Legacy[v] \in Migration
    OBVIOUS
  <1>2. applied \in Seq(Nat \X Migration) /\ Len(applied) = Len(Legacy)
    <2>1. applied \in [1..Len(Legacy) -> Nat \X Migration] BY <1>1 DEF Init
    <2> QED BY <1>1, <2>1
  <1>3. MigrationsTypeOK
    <2>1. DOMAIN rows = 1..Len(Legacy) BY <1>1 DEF Init
    <2>2. \A v \in 1..Len(Legacy) : rows[v] \in Row BY <1>1 DEF Init, Row, Migration
    <2>3. rows \in [DOMAIN rows -> Row] BY <2>1, <2>2 DEF Init
    <2>4. run \in [Runner -> [pc: Stopped \cup Working, next: Nat \ {0}]]
      BY DEF Init, At, Stopped
    <2>5. \A r \in Runner : run[r].next <= Len(Release[r]) + 1
      BY ReleaseType DEF Init, At
    <2>6. DOMAIN rows \subseteq Nat BY <1>1, <2>1
    <2>7. lock \in Runner \cup {NoRunner} /\ faults \in 0..MaxFaults BY DEF Init
    <2>8. strict \in BOOLEAN BY Zenon DEF Init
    <2> QED BY <1>2, <2>3, <2>4, <2>5, <2>6, <2>7, <2>8 DEF MigrationsTypeOK
  <1>4. LockHeld BY DEF Init, LockHeld, At, Working
  <1>5. Contiguous /\ AppliedInOrder /\ DirtyIsUnapplied
    BY <1>1, <1>2 DEF Init, Contiguous, AppliedInOrder, DirtyIsUnapplied
  <1>6. RecordedIsApplied BY <1>1, <1>2 DEF RecordedIsApplied
  <1>7. \A r \in Runner : Learnt(r) BY DEF Init, Learnt, At
  <1> QED BY <1>3, <1>4, <1>5, <1>6, <1>7 DEF IInv

-----------------------------------------------------------------------------
(* Steps.                                                                  *)

\* Nothing is claimed of a runner that is not at work.
LEMMA StoppedLearnt ==
  ASSUME NEW r \in Runner, (run[r].pc \in Stopped)' PROVE Learnt(r)'
  BY DEF Stopped, Learnt

\* While r has the lock, or nobody has, no other runner is at work.
LEMMA OthersStopped ==
  ASSUME IInv, NEW r \in Runner, lock \in {r, NoRunner}, NEW s \in Runner \ {r}
  PROVE  run[s].pc \in Stopped
  BY DEF IInv, LockHeld, MigrationsTypeOK

\* A step of r, with what it has to show of the table and the schema.
LEMMA Write ==
  ASSUME IInv, NEW r \in Runner, NEW pc \in Stopped \cup Working,
         NEW n \in Nat \ {0}, n <= Len(Release[r]) + 1,
         run' = [run EXCEPT ![r] = At(pc, n)],
         DOMAIN rows' \subseteq Nat, rows' \in [DOMAIN rows' -> Row],
         applied' \in Seq(Nat \X Migration), strict' \in BOOLEAN, faults' \in 0..MaxFaults,
         lock = r \/ lock = NoRunner, lock' = r \/ (lock' = NoRunner /\ pc \in Stopped),
         Contiguous', AppliedInOrder', DirtyIsUnapplied', RecordedIsApplied', Learnt(r)'
  PROVE  IInv'
  <1>1. MigrationsTypeOK'
    BY ReleaseType DEF IInv, MigrationsTypeOK, At
  <1>2. \A s \in Runner \ {r} : run'[s] = run[s] /\ run[s].pc \in Stopped
    BY OthersStopped DEF IInv, MigrationsTypeOK
  <1>3. run'[r].pc = pc BY DEF IInv, MigrationsTypeOK, At
  <1>4. LockHeld' BY <1>2, <1>3 DEF LockHeld, Stopped, Working
  <1>5. \A s \in Runner : Learnt(s)' BY <1>2, StoppedLearnt
  <1> QED BY <1>1, <1>4, <1>5 DEF IInv

\* A step of r that leaves the table and the schema alone.
LEMMA Advance ==
  ASSUME IInv, NEW r \in Runner, NEW pc \in Stopped \cup Working,
         NEW n \in Nat \ {0}, n <= Len(Release[r]) + 1,
         run' = [run EXCEPT ![r] = At(pc, n)], rows' = rows, applied' = applied,
         strict' \in BOOLEAN, faults' \in 0..MaxFaults,
         lock = r \/ lock = NoRunner, lock' = r \/ (lock' = NoRunner /\ pc \in Stopped),
         Learnt(r)'
  PROVE  IInv'
  <1>1. Contiguous' /\ AppliedInOrder' /\ DirtyIsUnapplied' /\ RecordedIsApplied'
    BY DEF IInv, Contiguous, AppliedInOrder, DirtyIsUnapplied, RecordedIsApplied
  <1>2. /\ DOMAIN rows' \subseteq Nat /\ rows' \in [DOMAIN rows' -> Row]
        /\ applied' \in Seq(Nat \X Migration)
    BY DEF IInv, MigrationsTypeOK
  <1> QED BY <1>1, <1>2, Write

\* The same, where the runner starts again from version 1.
LEMMA AdvanceFromFirst ==
  ASSUME IInv, NEW r \in Runner, NEW pc \in Stopped \cup Working,
         run' = [run EXCEPT ![r] = At(pc, 1)], rows' = rows, applied' = applied,
         strict' \in BOOLEAN, faults' \in 0..MaxFaults,
         lock = r \/ lock = NoRunner, lock' = r \/ (lock' = NoRunner /\ pc \in Stopped),
         Learnt(r)'
  PROVE  IInv'
  <1> DEFINE n == 1
  <1>1. n \in Nat \ {0} /\ n <= Len(Release[r]) + 1 BY ReleaseType
  <1>2. run' = [run EXCEPT ![r] = At(pc, n)] OBVIOUS
  <1> HIDE DEF n
  <1> QED BY <1>1, <1>2, Advance

\* Taking the advisory lock.
LEMMA AcquireStep == ASSUME IInv, NEW r \in Runner, Acquire(r) PROVE IInv'
  <1>1. run' = [run EXCEPT ![r] = At("inspect", 1)] BY DEF Acquire, Goto
  <1>2. Learnt(r)' BY <1>1 DEF IInv, MigrationsTypeOK, Learnt, At
  <1>3. /\ rows' = rows /\ applied' = applied /\ lock = NoRunner /\ lock' = r
        /\ strict' \in BOOLEAN /\ faults' \in 0..MaxFaults
    BY DEF Acquire, IInv, MigrationsTypeOK
  <1> QED BY <1>1, <1>2, <1>3, AdvanceFromFirst DEF Working

\* A runner at work holds the lock.
LEMMA WorkerHolds ==
  ASSUME IInv, NEW r \in Runner, run[r].pc \in Working PROVE lock = r
  BY DEF IInv, LockHeld

\* Every return without a write.
LEMMA ReturnStep ==
  ASSUME IInv, NEW r \in Runner, run[r].pc \in Working, NEW pc \in Stopped, Return(r, pc),
         rows' = rows, applied' = applied, strict' \in BOOLEAN, faults' \in 0..MaxFaults
  PROVE  IInv'
  <1>1. run' = [run EXCEPT ![r] = At(pc, 1)] /\ lock' = NoRunner BY DEF Return, Goto
  <1>2. Learnt(r)' BY <1>1 DEF IInv, MigrationsTypeOK, Learnt, At, Stopped
  <1>3. lock = r BY WorkerHolds
  <1> QED BY <1>1, <1>2, <1>3, AdvanceFromFirst

\* No row is dirty: the table is what was applied.
LEMMA CleanTable ==
  ASSUME IInv, ~\E v \in DOMAIN rows : rows[v].dirty PROVE DOMAIN rows = 1..Len(applied)
  <1>1. Len(applied) \in Nat BY DEF IInv, MigrationsTypeOK
  <1>2. CASE DOMAIN rows = 1..Len(applied) + 1
    <2>1. Len(applied) + 1 \in DOMAIN rows BY <1>1, <1>2
    <2> QED BY <1>1, <2>1 DEF IInv, DirtyIsUnapplied
  <1> QED BY <1>2 DEF IInv, Contiguous

\* The query for a dirty row.
LEMMA InspectDirtyStep == ASSUME IInv, NEW r \in Runner, InspectDirty(r) PROVE IInv'
  <1>1. run[r].pc \in Working BY DEF InspectDirty, Working
  <1>2. strict' \in BOOLEAN /\ faults' \in 0..MaxFaults /\ rows' = rows /\ applied' = applied
    BY DEF InspectDirty, IInv, MigrationsTypeOK
  <1>3. CASE \E v \in DOMAIN rows : rows[v].dirty
    BY <1>1, <1>2, <1>3, ReturnStep DEF InspectDirty, Stopped
  <1>4. CASE ~\E v \in DOMAIN rows : rows[v].dirty
    <2>1. run' = [run EXCEPT ![r] = At("future", 1)] /\ UNCHANGED lock
      BY <1>4 DEF InspectDirty, Goto
    <2>2. Learnt(r)' BY <1>2, <1>4, <2>1, CleanTable DEF IInv, MigrationsTypeOK, Learnt, At
    <2> QED BY <1>1, <1>2, <2>1, <2>2, WorkerHolds, AdvanceFromFirst DEF Working
  <1> QED BY <1>3, <1>4

\* The query for a version the release does not know.
LEMMA InspectFutureStep == ASSUME IInv, NEW r \in Runner, InspectFuture(r) PROVE IInv'
  <1>1. run[r].pc \in Working /\ run[r].pc = "future" BY DEF InspectFuture, Working
  <1>2. strict' \in BOOLEAN /\ faults' \in 0..MaxFaults /\ rows' = rows /\ applied' = applied
    BY DEF InspectFuture, IInv, MigrationsTypeOK
  <1>3. CASE \E v \in DOMAIN rows : v > Len(Release[r])
    BY <1>1, <1>2, <1>3, ReturnStep DEF InspectFuture, Stopped
  <1>4. CASE ~\E v \in DOMAIN rows : v > Len(Release[r])
    <2>1. run' = [run EXCEPT ![r] = At("next", 1)] /\ UNCHANGED lock
      BY <1>4 DEF InspectFuture, Goto
    <2>2. DOMAIN rows = 1..Len(applied) /\ Len(applied) \in Nat
      BY <1>1 DEF IInv, Learnt, MigrationsTypeOK
    <2>3. DOMAIN rows \subseteq 1..Len(Release[r]) BY <1>4, <2>2, ReleaseType
    <2>4. Learnt(r)' BY <1>2, <2>1, <2>2, <2>3 DEF IInv, MigrationsTypeOK, Learnt, At
    <2> QED BY <1>1, <1>2, <2>1, <2>4, WorkerHolds, AdvanceFromFirst DEF Working
  <1> QED BY <1>3, <1>4

\* The lookup that finds no row.
LEMMA PendingStep == ASSUME IInv, NEW r \in Runner, Pending(r) PROVE IInv'
  <1> DEFINE v == run[r].next
  <1>1. /\ run[r].pc = "next" /\ v \in 1..Len(Release[r]) /\ v \notin DOMAIN rows
        /\ run' = [run EXCEPT ![r] = At("dirty", v)]
        /\ UNCHANGED <<rows, strict, applied, lock, faults>>
    BY DEF Pending, Goto
  <1>2. v = Len(applied) + 1 /\ DOMAIN rows = 1..Len(applied) /\ Len(applied) \in Nat
        /\ DOMAIN rows \subseteq 1..Len(Release[r])
    BY <1>1 DEF IInv, Learnt, MigrationsTypeOK
  <1>3. v \in Nat \ {0} /\ v <= Len(Release[r]) /\ v <= Len(Release[r]) + 1 BY <1>1, ReleaseType
  <1>4. Learnt(r)' BY <1>1, <1>2, <1>3 DEF IInv, MigrationsTypeOK, Learnt, At
  <1>5. "dirty" \in Working /\ lock = r BY <1>1, WorkerHolds DEF Working
  <1> HIDE DEF v
  <1> QED BY <1>1, <1>3, <1>4, <1>5, Advance DEF IInv, MigrationsTypeOK

\* The end of the loop.
LEMMA LastMigrationStep == ASSUME IInv, NEW r \in Runner, LastMigration(r) PROVE IInv'
  <1> DEFINE v == run[r].next
  <1>1. /\ run[r].pc = "next" /\ run' = [run EXCEPT ![r] = At("require", v)]
        /\ UNCHANGED <<rows, strict, applied, lock, faults>>
    BY DEF LastMigration, Goto
  <1>2. v \in Nat \ {0} /\ v <= Len(Release[r]) + 1 BY DEF IInv, MigrationsTypeOK
  <1>3. Learnt(r)' BY <1>1 DEF IInv, MigrationsTypeOK, Learnt, At
  <1>4. "require" \in Working /\ lock = r BY <1>1, WorkerHolds DEF Working
  <1> HIDE DEF v
  <1> QED BY <1>1, <1>2, <1>3, <1>4, Advance DEF IInv, MigrationsTypeOK

\* ALTER COLUMN checksum SET NOT NULL.
LEMMA RequireChecksumsStep == ASSUME IInv, NEW r \in Runner, RequireChecksums(r) PROVE IInv'
  <1>1. run[r].pc \in Working BY DEF RequireChecksums, Working
  <1>2. /\ UNCHANGED <<rows, applied, faults>> /\ strict' \in BOOLEAN
        /\ \E pc \in Stopped : Return(r, pc)
    BY DEF RequireChecksums, IInv, MigrationsTypeOK, Stopped
  <1> QED BY <1>1, <1>2, ReturnStep DEF IInv, MigrationsTypeOK

\* A failure or crash at any statement.
LEMMA FailStep == ASSUME IInv, NEW r \in Runner, Fail(r) PROVE IInv'
  <1>1. run[r].pc \in Working BY DEF Fail, IInv, MigrationsTypeOK
  <1>2. faults' \in 0..MaxFaults BY DEF Fail, IInv, MigrationsTypeOK
  <1> QED BY <1>1, <1>2, ReturnStep DEF Fail, IInv, MigrationsTypeOK, Stopped

\* A row of the table, as a record.
LEMMA RowType ==
  ASSUME IInv
  PROVE  /\ DOMAIN rows \subseteq Nat /\ Len(applied) \in Nat
         /\ \A v \in DOMAIN rows :
                rows[v] \in Row /\ rows[v].dirty \in BOOLEAN /\ rows[v].name \in Name
  BY DEF IInv, MigrationsTypeOK, Row

\* The comparison with a recorded row, which may give it a checksum.
LEMMA CompareStep == ASSUME IInv, NEW r \in Runner, Compare(r) PROVE IInv'
  <1> DEFINE v == run[r].next
             m == Release[r][v]
  <1>1. run[r].pc = "next" /\ run[r].pc \in Working /\ v \in DOMAIN rows
    BY DEF Compare, Working
  <1>2. strict' \in BOOLEAN /\ faults' \in 0..MaxFaults /\ applied' = applied
    BY DEF Compare, IInv, MigrationsTypeOK
  <1>3. lock = r BY <1>1, WorkerHolds
  <1>4. CASE ~(rows[v].name = m.name /\ rows[v].checksum \in {NoChecksum, m.checksum})
    <2>1. Return(r, "error") /\ rows' = rows BY <1>4 DEF Compare
    <2> QED BY <1>1, <1>2, <2>1, ReturnStep DEF Stopped
  <1>5. CASE rows[v].name = m.name /\ rows[v].checksum \in {NoChecksum, m.checksum}
    <2>1. /\ rows' = [rows EXCEPT ![v].checksum = m.checksum] /\ lock' = lock
          /\ run' = [run EXCEPT ![r] = At("next", v + 1)]
      BY <1>5 DEF Compare, Goto
    <2>2. /\ DOMAIN rows = 1..Len(applied) /\ DOMAIN rows \subseteq 1..Len(Release[r])
          /\ Len(applied) \in Nat /\ v \in Nat \ {0}
      BY <1>1 DEF IInv, Learnt, MigrationsTypeOK
    <2>3. v \in 1..Len(Release[r]) /\ m.checksum \in Checksum BY <1>1, <2>2, ReleaseType
    <2>4. /\ DOMAIN rows' = DOMAIN rows
          /\ \A w \in DOMAIN rows : w # v => rows'[w] = rows[w]
          /\ rows'[v] = [rows[v] EXCEPT !.checksum = m.checksum]
      BY <1>1, <2>1 DEF IInv, MigrationsTypeOK
    <2>5. /\ rows'[v] \in Row /\ rows'[v].checksum = m.checksum
          /\ rows'[v].name = rows[v].name /\ rows'[v].dirty = rows[v].dirty
      BY <1>1, <2>3, <2>4, RowType DEF Row
    <2>6. rows' \in [DOMAIN rows' -> Row] /\ DOMAIN rows' \subseteq Nat
      BY <2>1, <2>4, <2>5, RowType DEF IInv, MigrationsTypeOK
    <2>7. AppliedInOrder' /\ Contiguous' BY <1>2, <2>4 DEF IInv, AppliedInOrder, Contiguous
    <2>8. DirtyIsUnapplied' BY <1>1, <1>2, <2>4, <2>5 DEF IInv, DirtyIsUnapplied
    <2>9. RecordedIsApplied'
      <3> SUFFICES ASSUME NEW w \in Len(Legacy) + 1..Len(applied)
                   PROVE  rows'[w].name = applied[w][2].name
                              /\ rows'[w].checksum = applied[w][2].checksum
        BY <1>2 DEF RecordedIsApplied
      <3>1. /\ rows[w].name = applied[w][2].name /\ rows[w].checksum = applied[w][2].checksum
            /\ w \in 1..Len(applied)
        BY <2>2 DEF IInv, RecordedIsApplied
      <3>2. applied[w][2].checksum # NoChecksum
        <4>1. applied[w] \in Nat \X Migration BY <3>1 DEF IInv, MigrationsTypeOK
        <4> QED BY <4>1 DEF Migration
      <3> QED BY <1>5, <2>2, <2>4, <2>5, <3>1, <3>2
    <2>10. Learnt(r)'
      BY <1>2, <2>1, <2>2, <2>4, <1>1 DEF IInv, MigrationsTypeOK, Learnt, At
    <2>11. v + 1 \in Nat \ {0} /\ v + 1 <= Len(Release[r]) + 1 BY <2>2, <2>3, ReleaseType
    <2>12. applied' \in Seq(Nat \X Migration) BY <1>2 DEF IInv, MigrationsTypeOK
    <2>13. "next" \in Stopped \cup Working BY DEF Working
    <2> DEFINE n == v + 1
    <2>14. n \in Nat \ {0} /\ n <= Len(Release[r]) + 1 /\ run' = [run EXCEPT ![r] = At("next", n)]
      BY <2>1, <2>11
    <2> HIDE DEF n, v, m
    <2> QED BY <1>2, <1>3, <2>1, <2>6, <2>7, <2>8, <2>9, <2>10, <2>12, <2>13, <2>14, Write
  <1> QED BY <1>4, <1>5

\* The insertion of the dirty row.
LEMMA MarkDirtyStep == ASSUME IInv, NEW r \in Runner, MarkDirty(r) PROVE IInv'
  <1> DEFINE v == run[r].next
             row == [name |-> Release[r][v].name, checksum |-> Release[r][v].checksum, dirty |-> TRUE]
  <1>1. run[r].pc = "dirty" /\ run[r].pc \in Working BY DEF MarkDirty, Working
  <1>2. strict' \in BOOLEAN /\ faults' \in 0..MaxFaults /\ applied' = applied
    BY DEF MarkDirty, IInv, MigrationsTypeOK
  <1>3. lock = r BY <1>1, WorkerHolds
  <1>4. /\ DOMAIN rows = 1..Len(applied) /\ Len(applied) \in Nat
        /\ v = Len(applied) + 1 /\ v \in 1..Len(Release[r]) /\ v \notin DOMAIN rows
        /\ DOMAIN rows \subseteq 1..Len(Release[r])
    BY <1>1, ReleaseType DEF IInv, Learnt, MigrationsTypeOK
  <1>5. /\ rows' = [w \in DOMAIN rows \cup {v} |-> IF w = v THEN row ELSE rows[w]]
        /\ lock' = lock /\ run' = [run EXCEPT ![r] = At("apply", v)]
    BY <1>4 DEF MarkDirty, Goto
  <1>6. row \in Row BY <1>4, ReleaseType DEF Row
  <1>7. /\ DOMAIN rows' = 1..Len(applied) + 1 /\ rows'[v] = row
        /\ \A w \in DOMAIN rows : rows'[w] = rows[w]
    BY <1>4, <1>5
  <1>8. rows' \in [DOMAIN rows' -> Row] /\ DOMAIN rows' \subseteq Nat
    BY <1>4, <1>5, <1>6, <1>7, RowType
  <1>9. Contiguous' /\ AppliedInOrder' BY <1>2, <1>7 DEF IInv, Contiguous, AppliedInOrder
  <1>10. DirtyIsUnapplied' BY <1>2, <1>4, <1>7 DEF IInv, DirtyIsUnapplied
  <1>11. RecordedIsApplied'
    <2>1. Len(Legacy) \in Nat OBVIOUS
    <2> QED BY <1>2, <1>4, <1>7, <2>1 DEF IInv, RecordedIsApplied
  <1>12. Learnt(r)'
    BY <1>2, <1>4, <1>5, <1>7, ReleaseType DEF IInv, MigrationsTypeOK, Learnt, At
  <1>13. v \in Nat \ {0} /\ v <= Len(Release[r]) + 1 BY <1>4, ReleaseType
  <1>14. applied' \in Seq(Nat \X Migration) BY <1>2 DEF IInv, MigrationsTypeOK
  <1>15. "apply" \in Stopped \cup Working BY DEF Working
  <1> HIDE DEF v, row
  <1> QED BY <1>2, <1>3, <1>5, <1>8, <1>9, <1>10, <1>11, <1>12, <1>13, <1>14, <1>15, Write

\* The transaction of Apply, whether or not its answer arrives.
LEMMA Commit ==
  ASSUME IInv, NEW r \in Runner, run[r].pc = "apply",
         applied' = Append(applied, <<run[r].next, Release[r][run[r].next]>>),
         rows' = [rows EXCEPT ![run[r].next].dirty = FALSE]
  PROVE  /\ DOMAIN rows' \subseteq Nat /\ rows' \in [DOMAIN rows' -> Row]
         /\ applied' \in Seq(Nat \X Migration)
         /\ Contiguous' /\ AppliedInOrder' /\ DirtyIsUnapplied' /\ RecordedIsApplied'
         /\ Len(applied') = run[r].next /\ DOMAIN rows' = 1..run[r].next
         /\ run[r].next \in 1..Len(Release[r])
  <1> DEFINE v == run[r].next
  <1>1. /\ Len(applied) \in Nat /\ v = Len(applied) + 1 /\ v \in 1..Len(Release[r])
        /\ v \in DOMAIN rows
        /\ rows[v].name = Release[r][v].name /\ rows[v].checksum = Release[r][v].checksum
    BY ReleaseType DEF IInv, Learnt, MigrationsTypeOK
  <1>2. DOMAIN rows = 1..Len(applied) + 1 BY <1>1 DEF IInv, Contiguous
  <1>3. Release[r][v] \in Migration /\ <<v, Release[r][v]>> \in Nat \X Migration
    BY <1>1, ReleaseType
  <1>4. applied \in Seq(Nat \X Migration) BY DEF IInv, MigrationsTypeOK
  <1>5. /\ applied' \in Seq(Nat \X Migration) /\ Len(applied') = Len(applied) + 1
        /\ \A i \in 1..Len(applied) : applied'[i] = applied[i]
        /\ applied'[v] = <<v, Release[r][v]>>
    BY <1>1, <1>3, <1>4
  <1>6. /\ DOMAIN rows' = DOMAIN rows
        /\ \A w \in DOMAIN rows : w # v => rows'[w] = rows[w]
        /\ rows'[v] = [rows[v] EXCEPT !.dirty = FALSE]
    BY <1>1 DEF IInv, MigrationsTypeOK
  <1>7. /\ rows'[v] \in Row /\ rows'[v].name = rows[v].name
        /\ rows'[v].checksum = rows[v].checksum /\ rows'[v].dirty = FALSE
    BY <1>1, <1>6, RowType DEF Row
  <1>8. rows' \in [DOMAIN rows' -> Row] /\ DOMAIN rows' \subseteq Nat
    BY <1>6, <1>7, RowType
  <1>9. Contiguous' BY <1>2, <1>5, <1>6 DEF Contiguous
  <1>10. AppliedInOrder' BY <1>1, <1>5 DEF IInv, AppliedInOrder
  <1>11. DirtyIsUnapplied'
    BY <1>1, <1>2, <1>5, <1>6, <1>7 DEF IInv, DirtyIsUnapplied
  <1>12. RecordedIsApplied'
    <2>1. Len(Legacy) \in Nat OBVIOUS
    <2> SUFFICES ASSUME NEW w \in Len(Legacy) + 1..Len(applied')
                 PROVE  rows'[w].name = applied'[w][2].name
                            /\ rows'[w].checksum = applied'[w][2].checksum
      BY DEF RecordedIsApplied
    <2>2. CASE w = v BY <1>1, <1>5, <1>7, <2>2
    <2>3. CASE w # v
      <3>1. w \in Len(Legacy) + 1..Len(applied) /\ w \in 1..Len(applied) BY <1>1, <1>5, <2>1, <2>3
      <3> QED BY <1>2, <1>5, <1>6, <2>3, <3>1 DEF IInv, RecordedIsApplied
    <2> QED BY <2>2, <2>3
  <1> QED BY <1>1, <1>2, <1>5, <1>6, <1>8, <1>9, <1>10, <1>11, <1>12

\* The transaction of UpSQL, and the loop goes on.
LEMMA ApplyStep == ASSUME IInv, NEW r \in Runner, Apply(r) PROVE IInv'
  <1> DEFINE v == run[r].next
             n == v + 1
  <1>1. /\ run[r].pc = "apply" /\ run[r].pc \in Working
        /\ applied' = Append(applied, <<v, Release[r][v]>>)
        /\ rows' = [rows EXCEPT ![v].dirty = FALSE]
        /\ run' = [run EXCEPT ![r] = At("next", n)] /\ lock' = lock
        /\ strict' = strict /\ faults' = faults
    BY DEF Apply, Goto, Working
  <1>2. lock = r BY <1>1, WorkerHolds
  <1>3. /\ DOMAIN rows' \subseteq Nat /\ rows' \in [DOMAIN rows' -> Row]
        /\ applied' \in Seq(Nat \X Migration)
        /\ Contiguous' /\ AppliedInOrder' /\ DirtyIsUnapplied' /\ RecordedIsApplied'
        /\ Len(applied') = v /\ DOMAIN rows' = 1..v /\ v \in 1..Len(Release[r])
    BY <1>1, Commit
  <1>4. n \in Nat \ {0} /\ n <= Len(Release[r]) + 1 BY <1>3, ReleaseType
  <1>5. 1..v \subseteq 1..Len(Release[r]) BY <1>3, ReleaseType
  <1>6. Learnt(r)' BY <1>1, <1>3, <1>5 DEF IInv, MigrationsTypeOK, Learnt, At
  <1>7. strict' \in BOOLEAN /\ faults' \in 0..MaxFaults /\ "next" \in Stopped \cup Working
    BY <1>1 DEF IInv, MigrationsTypeOK, Working
  <1> HIDE DEF v, n
  <1> QED BY <1>1, <1>2, <1>3, <1>4, <1>6, <1>7, Write

\* The same transaction, the runner lost.
LEMMA CommitAnswerLostStep == ASSUME IInv, NEW r \in Runner, CommitAnswerLost(r) PROVE IInv'
  <1> DEFINE v == run[r].next
             n == 1
  <1>1. /\ run[r].pc = "apply" /\ run[r].pc \in Working
        /\ applied' = Append(applied, <<v, Release[r][v]>>)
        /\ rows' = [rows EXCEPT ![v].dirty = FALSE]
        /\ run' = [run EXCEPT ![r] = At("error", n)] /\ lock' = NoRunner /\ strict' = strict
    BY DEF CommitAnswerLost, Return, Goto, Working
  <1>2. lock = r BY <1>1, WorkerHolds
  <1>3. /\ DOMAIN rows' \subseteq Nat /\ rows' \in [DOMAIN rows' -> Row]
        /\ applied' \in Seq(Nat \X Migration)
        /\ Contiguous' /\ AppliedInOrder' /\ DirtyIsUnapplied' /\ RecordedIsApplied'
    BY <1>1, Commit
  <1>4. n \in Nat \ {0} /\ n <= Len(Release[r]) + 1 BY ReleaseType
  <1>5. Learnt(r)' BY <1>1 DEF IInv, MigrationsTypeOK, Learnt, At
  <1>6. strict' \in BOOLEAN BY <1>1 DEF IInv, MigrationsTypeOK
  <1>7. faults' \in 0..MaxFaults BY DEF CommitAnswerLost, IInv, MigrationsTypeOK
  <1>8. "error" \in Stopped BY DEF Stopped
  <1> HIDE DEF v, n
  <1> QED BY <1>1, <1>2, <1>3, <1>4, <1>5, <1>6, <1>7, <1>8, Write

\* The operator's repair of a dirty row.
LEMMA RepairStep == ASSUME IInv, NEW v \in DOMAIN rows, Repair(v) PROVE IInv'
  <1>1. /\ lock = NoRunner /\ rows[v].dirty
        /\ rows' = [w \in DOMAIN rows \ {v} |-> rows[w]]
        /\ UNCHANGED <<strict, applied, lock, run, faults>>
    BY DEF Repair
  <1>2. Len(applied) \in Nat /\ DOMAIN rows = 1..Len(applied) + 1 /\ v = Len(applied) + 1
    BY <1>1, RowType DEF IInv, DirtyIsUnapplied, Contiguous
  <1>3. DOMAIN rows' = 1..Len(applied) /\ \A w \in DOMAIN rows' : rows'[w] = rows[w]
    BY <1>1, <1>2
  <1>4. rows' \in [DOMAIN rows' -> Row] BY <1>1, <1>2, <1>3, RowType
  <1>5. MigrationsTypeOK' BY <1>1, <1>2, <1>3, <1>4 DEF IInv, MigrationsTypeOK
  <1>6. Contiguous' /\ AppliedInOrder' BY <1>1, <1>3 DEF IInv, Contiguous, AppliedInOrder
  <1>7. DirtyIsUnapplied' BY <1>1, <1>2, <1>3 DEF IInv, DirtyIsUnapplied
  <1>8. RecordedIsApplied'
    <2>1. Len(Legacy) \in Nat OBVIOUS
    <2> QED BY <1>1, <1>2, <1>3, <2>1 DEF IInv, RecordedIsApplied
  <1>9. LockHeld' BY <1>1 DEF IInv, LockHeld
  <1>10. \A r \in Runner : run[r].pc \in Stopped
    BY <1>1 DEF IInv, LockHeld, MigrationsTypeOK
  <1>11. \A r \in Runner : Learnt(r)' BY <1>1, <1>10, StoppedLearnt
  <1> QED BY <1>5, <1>6, <1>7, <1>8, <1>9, <1>11 DEF IInv

\* Every action of Next, and stuttering, keeps the invariant.
LEMMA NextPreserves == IInv /\ [Next]_vars => IInv'
  <1> SUFFICES ASSUME IInv, [Next]_vars PROVE IInv' OBVIOUS
  <1>1. CASE UNCHANGED vars
    BY <1>1 DEF vars, IInv, MigrationsTypeOK, LockHeld, Contiguous, AppliedInOrder,
                DirtyIsUnapplied, RecordedIsApplied, Learnt
  <1>2. ASSUME NEW r \in Runner, Migrate(r) PROVE IInv'
    BY <1>2, InspectDirtyStep, InspectFutureStep, CompareStep, PendingStep, MarkDirtyStep,
       ApplyStep, LastMigrationStep, RequireChecksumsStep DEF Migrate
  <1>3. ASSUME NEW r \in Runner, Acquire(r) PROVE IInv' BY <1>3, AcquireStep
  <1>4. ASSUME NEW r \in Runner, Fail(r) PROVE IInv' BY <1>4, FailStep
  <1>5. ASSUME NEW r \in Runner, CommitAnswerLost(r) PROVE IInv' BY <1>5, CommitAnswerLostStep
  <1>6. ASSUME NEW v \in DOMAIN rows, Repair(v) PROVE IInv' BY <1>6, RepairStep
  <1> QED BY <1>1, <1>2, <1>3, <1>4, <1>5, <1>6 DEF Next

\* Migrate: the lock, the table, the schema and every runner's position agree
\* in each reachable state.
THEOREM Invariance == Spec => []IInv
  <1> QED BY InitEstablishes, NextPreserves, PTL DEF Spec

\* Every reachable state of Migrate is well typed.
THEOREM TypeCorrect == Spec => []MigrationsTypeOK
  <1>1. IInv => MigrationsTypeOK BY DEF IInv
  <1> QED BY <1>1, Invariance, PTL

\* Migrate applies the migrations in the order of their versions, without a
\* gap and each once, for any set of releases and any failures.
THEOREM OnceAndInOrder == Spec => []AppliedInOrder
  <1>1. IInv => AppliedInOrder BY DEF IInv
  <1> QED BY <1>1, Invariance, PTL

\* The dirty flag marks exactly the migration whose SQL is not committed,
\* whichever statement of Migrate a failure interrupts.
THEOREM DirtyMarksUnapplied == Spec => []DirtyIsUnapplied
  <1>1. IInv => DirtyIsUnapplied BY DEF IInv
  <1> QED BY <1>1, Invariance, PTL

\* A state that VerifyMigrationState accepts for a release was made by the SQL
\* that the release embeds.
THEOREM ReadyRunsItsSchema == Spec => []VerifiedRunsItsSchema
  <1>1. ASSUME IInv, NEW r \in Runner, Verified(r)
        PROVE  /\ Len(applied) = Len(Release[r])
               /\ \A v \in Len(Legacy) + 1..Len(applied) : applied[v][2] = Release[r][v]
    <2>1. /\ Len(applied) \in Nat /\ Len(Release[r]) \in Nat /\ Len(Legacy) \in Nat
          /\ applied \in Seq(Nat \X Migration)
      BY <1>1, ReleaseType DEF IInv, MigrationsTypeOK
    <2>2. DOMAIN rows # 1..Len(applied) + 1
      <3> SUFFICES ASSUME DOMAIN rows = 1..Len(applied) + 1 PROVE FALSE OBVIOUS
      <3>1. Len(applied) + 1 \in DOMAIN rows BY <2>1
      <3> QED BY <1>1, <2>1, <3>1 DEF IInv, DirtyIsUnapplied, Verified
    <2>3. DOMAIN rows = 1..Len(applied) /\ DOMAIN rows = 1..Len(Release[r])
      BY <1>1, <2>2 DEF IInv, Contiguous, Verified
    <2>4. Len(applied) = Len(Release[r])
      <3>1. \A m, n \in Nat : 1..m = 1..n => m = n
        <4> SUFFICES ASSUME NEW m \in Nat, NEW n \in Nat, 1..m = 1..n PROVE m <= n /\ n <= m
          OBVIOUS
        <4>1. m <= n
          <5>1. CASE m = 0 BY <5>1
          <5>2. CASE m # 0
            <6>1. m \in 1..m BY <5>2
            <6> QED BY <6>1
          <5> QED BY <5>1, <5>2
        <4>2. n <= m
          <5>1. CASE n = 0 BY <5>1
          <5>2. CASE n # 0
            <6>1. n \in 1..n BY <5>2
            <6> QED BY <6>1
          <5> QED BY <5>1, <5>2
        <4> QED BY <4>1, <4>2
      <3> QED BY <2>1, <2>3, <3>1
    <2>5. ASSUME NEW v \in Len(Legacy) + 1..Len(applied) PROVE applied[v][2] = Release[r][v]
      <3>1. v \in 1..Len(applied) /\ v \in 1..Len(Release[r]) /\ v \in DOMAIN rows
        BY <2>1, <2>3, <2>4
      <3>2. applied[v] \in Nat \X Migration BY <2>1, <3>1
      <3>3. applied[v][2] \in Migration BY <3>2
      <3>4. Release[r][v] \in Migration BY <3>1, ReleaseType
      <3>5. /\ applied[v][2].name = Release[r][v].name
            /\ applied[v][2].checksum = Release[r][v].checksum
        BY <1>1, <3>1 DEF IInv, RecordedIsApplied, Verified
      <3>6. \A m, n \in Migration : m.name = n.name /\ m.checksum = n.checksum => m = n
        BY DEF Migration
      <3> QED BY <3>3, <3>4, <3>5, <3>6
    <2> QED BY <2>4, <2>5
  <1>2. IInv => VerifiedRunsItsSchema BY <1>1 DEF VerifiedRunsItsSchema
  <1> QED BY <1>2, Invariance, PTL

\* A step that moves a runner is a step of that runner.
LEMMA OwnStep ==
  ASSUME IInv, NEW r \in Runner, [Next]_vars, run'[r] # run[r]
  PROVE  Acquire(r) \/ Migrate(r) \/ Fail(r) \/ CommitAnswerLost(r)
  <1>1. ~UNCHANGED vars BY DEF vars
  <1>2. ASSUME NEW v \in DOMAIN rows, Repair(v) PROVE FALSE BY <1>2 DEF Repair
  <1>3. PICK s \in Runner : Acquire(s) \/ Migrate(s) \/ Fail(s) \/ CommitAnswerLost(s)
    BY <1>1, <1>2 DEF Next
  <1>4. \E p : run' = [run EXCEPT ![s] = p]
    BY <1>3 DEF Acquire, Migrate, InspectDirty, InspectFuture, Compare, Pending, MarkDirty,
                Apply, LastMigration, RequireChecksums, Fail, CommitAnswerLost, Return, Goto
  <1>5. s = r BY <1>4 DEF IInv, MigrationsTypeOK
  <1> QED BY <1>3, <1>5

\* Migrate of a release changes neither the table nor the schema of a database
\* that has a version the release does not know, although its check was made
\* several statements before its writes.
THEOREM OldReleaseKeepsOff == Spec => NewerIsUntouched
  <1>1. ASSUME IInv, [Next]_vars, NEW r \in Runner, run'[r] # run[r],
               NEW v \in DOMAIN rows, v > Len(Release[r])
        PROVE  rows' = rows /\ applied' = applied
    <2>1. run[r].pc \notin {"next", "dirty", "apply", "require"}
      <3>1. v \in Nat /\ Len(Release[r]) \in Nat /\ v \notin 1..Len(Release[r])
        BY <1>1, RowType, ReleaseType
      <3> QED BY <1>1, <3>1 DEF IInv, Learnt
    <2>2. Acquire(r) \/ Migrate(r) \/ Fail(r) \/ CommitAnswerLost(r) BY <1>1, OwnStep
    <2>3. ~Compare(r) /\ ~MarkDirty(r) /\ ~Apply(r) /\ ~CommitAnswerLost(r)
      BY <2>1 DEF Compare, MarkDirty, Apply, CommitAnswerLost
    <2> QED BY <2>2, <2>3 DEF Acquire, Migrate, InspectDirty, InspectFuture, Pending,
                              LastMigration, RequireChecksums, Fail
  <1>2. IInv /\ [Next]_vars =>
            [\A r \in Runner : run'[r] # run[r] /\ (\E v \in DOMAIN rows : v > Len(Release[r]))
                 => rows' = rows /\ applied' = applied]_vars
    BY <1>1
  <1> QED BY <1>2, Invariance, PTL DEF Spec, NewerIsUntouched
=============================================================================
