----------------------------- MODULE Migrations -----------------------------
(***************************************************************************)
(* postgres.Migrate and VerifyMigrationState.  Runners of different        *)
(* releases share one database.  A runner takes a session advisory lock,   *)
(* inspects schema_migrations, and for each pending migration first commits*)
(* a dirty row and then runs the DDL and clears the flag in a second       *)
(* transaction.  It may crash, lose its connection or fail at any step, and*)
(* is started again.  All its statements run on the connection that holds  *)
(* the lock, so losing the connection loses the lock and the open          *)
(* transaction together.                                                   *)
(***************************************************************************)
EXTENDS Integers, Sequences, FiniteSets

CONSTANTS
    Runner,       \* processes that call Migrate
    Name,         \* migration names
    Checksum,     \* checksums of up files
    Release,      \* Runner -> the migrations its binary embeds, in order
    Legacy,       \* migrations applied before checksums were tracked
    NoChecksum,   \* SQL NULL
    NoRunner,     \* the lock is free
    MaxFaults     \* bound: failures and crashes

Migration == [name: Name, checksum: Checksum]

\* What EmbeddedMigrations returns: version v is at place v, without a gap,
\* with the checksum of its up file.
EmbeddedMigrations(ms) == ms \in Seq(Migration)

ASSUME ReleaseAssumption ==
    DOMAIN Release = Runner /\ \A r \in Runner : EmbeddedMigrations(Release[r])
ASSUME LegacyAssumption == Legacy \in Seq(Migration)
ASSUME NullsAssumption == NoRunner \notin Runner /\ NoChecksum \notin Checksum
ASSUME MaxFaultsAssumption == MaxFaults \in Nat

VARIABLES
    rows,      \* schema_migrations: version -> [name, checksum, dirty]
    strict,    \* the checksum column is NOT NULL
    applied,   \* history: <<version, migration>> of every committed UpSQL
    lock,      \* holder of pg_advisory_lock(migrationLockID)
    run,       \* Runner -> [pc, next]: where Migrate is, the version in hand
    faults     \* failures so far

vars == <<rows, strict, applied, lock, run, faults>>

Row == [name: Name, checksum: Checksum \cup {NoChecksum}, dirty: BOOLEAN]
At(pc, next) == [pc |-> pc, next |-> next]
Stopped == {"idle", "ok", "error"}
Working == {"inspect", "future", "next", "dirty", "apply", "require"}

MigrationsTypeOK ==
    /\ DOMAIN rows \subseteq Nat /\ rows \in [DOMAIN rows -> Row]
    /\ strict \in BOOLEAN
    /\ applied \in Seq(Nat \X Migration)
    /\ lock \in Runner \cup {NoRunner}
    /\ run \in [Runner -> [pc: Stopped \cup Working, next: Nat \ {0}]]
    /\ \A r \in Runner : run[r].next <= Len(Release[r]) + 1
    /\ faults \in 0..MaxFaults

\* An empty database, or one that a version without checksums created.
Init ==
    /\ rows = [v \in 1..Len(Legacy) |->
                  [name |-> Legacy[v].name, checksum |-> NoChecksum, dirty |-> FALSE]]
    /\ strict = FALSE
    /\ applied = [v \in 1..Len(Legacy) |-> <<v, Legacy[v]>>]
    /\ lock = NoRunner
    /\ run = [r \in Runner |-> At("idle", 1)]
    /\ faults = 0

-----------------------------------------------------------------------------
(* Migrate, one statement per action.                                      *)

Goto(r, pc, next) == run' = [run EXCEPT ![r] = At(pc, next)]

\* Every return releases the lock: the deferred unlock, or the server when
\* the connection is gone.
Return(r, pc) == Goto(r, pc, 1) /\ lock' = NoRunner

\* Mutant: the runner does not wait for the lock.
AcquireAnyway(r) ==
    /\ run[r].pc \in Stopped
    /\ lock' = IF lock = NoRunner THEN r ELSE lock
    /\ Goto(r, "inspect", 1)
    /\ UNCHANGED <<rows, strict, applied, faults>>

Acquire(r) ==
    /\ run[r].pc \in Stopped
    /\ lock = NoRunner
    /\ lock' = r
    /\ Goto(r, "inspect", 1)
    /\ UNCHANGED <<rows, strict, applied, faults>>

\* Mutant: a dirty row does not stop the runner.
InspectDirtyIgnored(r) ==
    /\ run[r].pc = "inspect"
    /\ Goto(r, "future", 1)
    /\ UNCHANGED <<rows, strict, applied, lock, faults>>

\* The schema and the table exist from here on; a dirty row stops the run.
InspectDirty(r) ==
    /\ run[r].pc = "inspect"
    /\ IF \E v \in DOMAIN rows : rows[v].dirty
       THEN Return(r, "error")
       ELSE Goto(r, "future", 1) /\ UNCHANGED lock
    /\ UNCHANGED <<rows, strict, applied, faults>>

InspectFuture(r) ==
    /\ run[r].pc = "future"
    /\ IF \E v \in DOMAIN rows : v > Len(Release[r])
       THEN Return(r, "error")
       ELSE Goto(r, "next", 1) /\ UNCHANGED lock
    /\ UNCHANGED <<rows, strict, applied, faults>>

\* Mutant: the recorded checksum is replaced instead of compared.
CompareRebaselines(r) ==
    LET v == run[r].next IN
    /\ run[r].pc = "next" /\ v \in DOMAIN rows
    /\ rows' = [rows EXCEPT ![v].checksum = Release[r][v].checksum]
    /\ Goto(r, "next", v + 1)
    /\ UNCHANGED <<strict, applied, lock, faults>>

\* Mutant: a row without a checksum is refused.
CompareWithoutBaseline(r) ==
    LET v == run[r].next IN
    /\ run[r].pc = "next" /\ v \in DOMAIN rows
    /\ IF rows[v].name = Release[r][v].name /\ rows[v].checksum = Release[r][v].checksum
       THEN Goto(r, "next", v + 1) /\ UNCHANGED lock
       ELSE Return(r, "error")
    /\ UNCHANGED <<rows, strict, applied, faults>>

\* A recorded migration must be the embedded one; a row without a checksum
\* receives the embedded one's.
Compare(r) ==
    LET v == run[r].next
        m == Release[r][v]
    IN  /\ run[r].pc = "next" /\ v \in DOMAIN rows
        /\ IF rows[v].name = m.name /\ rows[v].checksum \in {NoChecksum, m.checksum}
           THEN /\ rows' = [rows EXCEPT ![v].checksum = m.checksum]
                /\ Goto(r, "next", v + 1) /\ UNCHANGED lock
           ELSE Return(r, "error") /\ UNCHANGED rows
        /\ UNCHANGED <<strict, applied, faults>>

\* SELECT found no row and the runner will insert one.
Pending(r) ==
    /\ run[r].pc = "next"
    /\ run[r].next \in 1..Len(Release[r]) \ DOMAIN rows
    /\ Goto(r, "dirty", run[r].next)
    /\ UNCHANGED <<rows, strict, applied, lock, faults>>

\* INSERT ... dirty = TRUE, committed by itself.  A row that another runner
\* put there meanwhile violates the primary key.
MarkDirty(r) ==
    LET v == run[r].next IN
    /\ run[r].pc = "dirty"
    /\ IF v \in DOMAIN rows
       THEN Return(r, "error") /\ UNCHANGED rows
       ELSE /\ rows' = [w \in DOMAIN rows \cup {v} |->
                           IF w = v THEN [name |-> Release[r][v].name,
                                          checksum |-> Release[r][v].checksum, dirty |-> TRUE]
                                    ELSE rows[w]]
            /\ Goto(r, "apply", v) /\ UNCHANGED lock
    /\ UNCHANGED <<strict, applied, faults>>

\* Mutant: the flag is cleared before the DDL, outside its transaction.
ApplyUnguarded(r) ==
    LET v == run[r].next IN
    /\ run[r].pc = "apply"
    /\ rows' = [rows EXCEPT ![v].dirty = FALSE]
    /\ \/ applied' = Append(applied, <<v, Release[r][v]>>)
       \/ UNCHANGED applied
    /\ Goto(r, "next", v + 1)
    /\ UNCHANGED <<strict, lock, faults>>

\* One transaction: UpSQL and dirty = FALSE.
Apply(r) ==
    LET v == run[r].next IN
    /\ run[r].pc = "apply"
    /\ applied' = Append(applied, <<v, Release[r][v]>>)
    /\ rows' = [rows EXCEPT ![v].dirty = FALSE]
    /\ Goto(r, "next", v + 1)
    /\ UNCHANGED <<strict, lock, faults>>

\* The loop is over.
LastMigration(r) ==
    /\ run[r].pc = "next" /\ run[r].next > Len(Release[r])
    /\ Goto(r, "require", run[r].next)
    /\ UNCHANGED <<rows, strict, applied, lock, faults>>

\* ALTER COLUMN checksum SET NOT NULL fails where a row has none.
RequireChecksums(r) ==
    /\ run[r].pc = "require"
    /\ IF \E v \in DOMAIN rows : rows[v].checksum = NoChecksum
       THEN Return(r, "error") /\ UNCHANGED strict
       ELSE Return(r, "ok") /\ strict' = TRUE
    /\ UNCHANGED <<rows, applied, faults>>

\* A statement fails, the process dies or its connection breaks.  The open
\* transaction is rolled back, unless it is the COMMIT whose answer is lost.
Fail(r) ==
    /\ faults < MaxFaults /\ faults' = faults + 1
    /\ run[r].pc \notin Stopped
    /\ Return(r, "error")
    /\ UNCHANGED <<rows, strict, applied>>

CommitAnswerLost(r) ==
    LET v == run[r].next IN
    /\ faults < MaxFaults /\ faults' = faults + 1
    /\ run[r].pc = "apply"
    /\ applied' = Append(applied, <<v, Release[r][v]>>)
    /\ rows' = [rows EXCEPT ![v].dirty = FALSE]
    /\ Return(r, "error")
    /\ UNCHANGED strict

\* "repair it before continuing", with no runner at work: an operator brings
\* the table back to what it was before the dirty migration, from a backup or
\* by hand.  DirtyIsUnapplied says that the schema needs no repair.
Repair(v) ==
    /\ lock = NoRunner
    /\ v \in DOMAIN rows /\ rows[v].dirty
    /\ rows' = [w \in DOMAIN rows \ {v} |-> rows[w]]
    /\ UNCHANGED <<strict, applied, lock, run, faults>>

Migrate(r) ==
    \/ InspectDirty(r) \/ InspectFuture(r) \/ Compare(r) \/ Pending(r) \/ MarkDirty(r)
    \/ Apply(r) \/ LastMigration(r) \/ RequireChecksums(r)

Next ==
    \/ \E r \in Runner : Acquire(r) \/ Migrate(r) \/ Fail(r) \/ CommitAnswerLost(r)
    \/ \E v \in DOMAIN rows : Repair(v)

Spec == Init /\ [][Next]_vars

\* A runner that holds the lock goes on; pg_advisory_lock queues the releases
\* that are deployed again; a dirty row that runs keep reporting is repaired.
FairSpec ==
    /\ Spec
    /\ \A r \in Runner : WF_vars(Migrate(r)) /\ SF_vars(Acquire(r))
    /\ SF_vars(\E v \in DOMAIN rows : Repair(v))

-----------------------------------------------------------------------------
(* What VerifyMigrationState answers to the readiness probe of a server of *)
(* the same release.                                                       *)

Verified(r) ==
    /\ DOMAIN rows = 1..Len(Release[r])
    /\ \A v \in DOMAIN rows :
           /\ rows[v].name = Release[r][v].name
           /\ rows[v].checksum = Release[r][v].checksum
           /\ ~rows[v].dirty

-----------------------------------------------------------------------------
(* Properties.                                                             *)

\* Migrate: whatever crashes and whichever releases run, the migrations take
\* effect in the order of their versions, without a gap, each once.
AppliedInOrder == \A i \in 1..Len(applied) : applied[i][1] = i

\* The dirty marker of Migrate: a row is dirty exactly while its SQL has not
\* been committed, so an interrupted migration is never taken for success and
\* a committed one never has to be repaired.
DirtyIsUnapplied ==
    /\ \A v \in DOMAIN rows : rows[v].dirty <=> v > Len(applied)
    /\ 1..Len(applied) \subseteq DOMAIN rows

\* VerifyMigrationState: a server that passes its readiness probe runs on the
\* SQL its own binary embeds, but for migrations applied before checksums.
VerifiedRunsItsSchema ==
    \A r \in Runner : Verified(r) =>
        /\ Len(applied) = Len(Release[r])
        /\ \A v \in Len(Legacy) + 1..Len(applied) : applied[v][2] = Release[r][v]

\* Migrate: a release never touches a database that is ahead of it.
NewerIsUntouched ==
    [][\A r \in Runner :
          run'[r] # run[r] /\ (\E v \in DOMAIN rows : v > Len(Release[r]))
              => rows' = rows /\ applied' = applied]_vars

\* Migrate: once failures stop, the database reaches a schema that a release
\* verifies and keeps it: every interruption leaves a state that a repair and a
\* repeated run bring forward, also where releases disagree.
EventuallyVerified == <>[](\E r \in Runner : Verified(r))

=============================================================================
