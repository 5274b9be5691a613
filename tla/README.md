# Verification of Amsonia Core

TLA+ specifications of Amsonia Core, the TLC configurations that check them on
small instances, and TLAPS proofs. `PROJECT.json` maps every definition that
models code to its lines, lists the hazards the properties are aimed at, and
gives for each property a mutation of the code's model that breaks it.

## The system

Amsonia Core is an authorization kernel for Go programs (the root package), two
adapters that store it (`memory/`, `postgres/`), and a standalone administration
application on top of the PostgreSQL one (`internal/coreapp`, `cmd/`, `web/`).

| component | state | operations | what is hard | what makes it correct |
|---|---|---|---|---|
| Scope contract (`policy.go`) | none | allowAccess, allowDelegation | two comparisons of workspace role names; the empty list is the largest | passing a grant on never passes on more than it allows |
| Policy kernel (`manager.go`, `bootstrap.go`) | roles, grants, bindings, delegation edges, version snapshots, audit | nine mutations, each one transaction | long legal sequences by several administrators; refusals recorded after rollback | an administrator remains, delegation is acyclic, nothing is amplified, history is immutable |
| Authorizer (`authorizer.go`) | one call's progress | Check | unspecified row order, a host that changes memberships meanwhile, failing reads | the decision is the documented function of grants and one membership |
| Tenant maintenance (`maintenance.go`) | audit sink, purge ledger, tombstone | PurgeTenant, ExportTenant | three systems without a common transaction, crashes, retries | one purge, after its intent, with its completion in the end |
| Store adapters (`memory/`, `postgres/store.go`, `tx.go`) | the tables | tenant reader, transactions, row-level security | isolation of tenants and transactions | an operation is atomic or has no effect |
| Migrations (`postgres/migrate.go`) | `schema_migrations`, the schema | Migrate, VerifyMigrationState | crashes between statements, releases side by side | each migration once and in order; a ready server runs on its own schema |
| Accounts and sessions (`coreapp/service.go`, `accounts.go`, `*recovery.go`, `session_retention.go`) | account row, access and refresh sessions, recoveries | login, refresh, logout, revocation, password change, recovery, pruning | reads before a slow password check and writes after it; replays | sessions are bound to the current password; replay ends them; lockout holds |
| Members and tenants (`coreapp/tenant_admin.go`, `policy_store.go`, `service.go`) | tenant state, memberships, invitations | create, invite, accept, suspend, remove, provision; the guard around the kernel | creation in three transactions that may commit late; stale previews and checks | an *active* administrator remains; bindings belong to members |
| Organization (`coreapp/application.go`, `organization.go`) | the single organization, its settings version | setup, resolve, rename | a lock on another connection than what it protects; an activation that is decided after its client gave up | every process takes the same tenant for the organization; no rename is lost |
| Source synchronisation (`internal/coresync`, `cmd/core-sync`) | worktree, provenance file, staged files and backups of a call | sync, check, verify | failures half-way, also of the rollback; kills; edits by others | a release is installed at once or not at all, and no edit is overwritten |
| Web console, session client (`web/src/api.ts`) and session handlers (`coreapp/http.go`) | access token, account and epoch of each tab; the shared refresh cookie | request, renew, sign in, sign out, change password, restore | tabs that share a cookie and take turns at every await; late and lost answers | no renewal replays a spent token; no request is repeated as another account; nobody waits for ever |
| HTTP layer, command line, examples, deployment | – | – | decoding, rendering, wiring | see *Not modelled* |

The application calls the kernel through `PolicyStore`, which adds its guard
inside the kernel's transaction; the kernel calls back into the store and, after
a rollback, into the security audit sink. Sessions and members meet in the
account row; the console drives the sessions through the cookie. Hosts embed the kernel with their own membership reader and sink.

## Modules

`EXTENDS` goes from right to left: Delegation ← PolicyKernel ← CorePolicy, and
Delegation ← Authorizer. The others stand alone; Sessions, Maintenance and
CoreSync instantiate an abstract specification each (see *Refinements*). Each
`MC*` module only defines constants, a symmetry set and a view. Theorems are in
modules of their own, `PolicyKernelProofs`, `CorePolicyProofs`, `SessionsProofs`,
`AuthorizerProofs`, `MaintenanceProofs`, `MigrationsProofs`, `CoreSyncProofs` and
`ConsoleProofs`, each of which extends the module it is about; `CorePolicyProofs`
also extends `PolicyKernelProofs` and uses its lemmas. Operators whose
comment starts with "Mutant:" are not part of a specification: each is the
plausible bug that `PROJECT.json` pairs with a property.

**Delegation** – the scope contract as pure operators. A stored list of
workspace roles is normalised by the code and is a set here; `Canonical` is the
case-folded form that access decisions compare.

**PolicyKernel** – one tenant. Each variable is a table (or the map of the memory
adapter); each operation of Manager and Bootstrapper is one action, because
`Store.MutateTenant` runs it in a serializable transaction under a tenant lock.
For each there is an error operator (`AssignError`, `RevokeError`, …) that gives
the checks in the order of the code; an error leaves the policy unchanged and
records a security event with the outcome the code gives it. `StoreFails` is a
transaction that aborts. The tenant's other callers are the arbitrary actors,
versions and grants of `Next`, so stale expected versions are included. Names,
descriptions, time and input syntax are left out. The tenant's log is shared:
`Logged` adds the names that the application writes to it (`invitation.accept`,
`member.remove`, …) to the kernel's own operations.

**CorePolicy** – extends the kernel with the application's tables. Creation is
its separate transactions; the one in flight may commit after the client has
given up and while it is cleaning up. Reads that the code makes before a
transaction and uses in it (opening an invitation, the operator's
RequireMembership) are steps of their own; reads that the transaction repeats
are not. `PolicyGuard` and `Guarded` put the store's checks around the kernel's
own actions.

**Authorizer** – one call of Check, one read or one grant per step, with the host
changing the membership and either read failing at any point. `Reference` is the
doc comment of Check as a function of the *set* of grants.

**Sessions** – one account. Transactions that lock the account row are single
actions; what a request read before is in `calls`. A password is a number that
grows with every change, a token the next number, a device family its first
token; time is a counter and lifetimes are constants of a tick or two. Prune
deletes a `Batch` of the rows that are `OutOfRetention` from each table; any of
them may stay, because it skips rows that somebody has locked.
`exchanged`, `issuedUnder`, `wrong` and `last` are history variables.

**Maintenance** – PurgeTenant for several callers. A call to the sink or the
store may fail with or without effect, and a caller may crash anywhere; `faults`
counts and bounds that. The sink is either one that keeps the documented
contract, or the service's own `RecordSecurityEvent`.

**Migrations** – Migrate, one statement per step, for runners that each have a
release. A failure or crash gives the session lock back, because all statements
use the connection that holds it. `Repair`, what an operator does with a dirty
row, is not in the code.

**Organization** – the single organization. Every operator has a process; a call
of SetupOrganization is one step per statement, the advisory lock is a variable
that is lost with its connection, and an activation that was sent is `undecided`
until the server commits or aborts it, whether or not its client is still there.
What the bootstrap writes, and who may be a member, is in PolicyKernel and
CorePolicy; the creation's effect on a tenant's policy is therefore left out
here. Settings are read, and renamed later with the version that was read.

**CoreSync** – one call of Sync after another on one worktree, one file per step:
plan, open and create directories, stage, publish, validate, roll back, clean
up, close. Every step has a branch in which the operation fails; `Kill` ends the
process. A file is its content, a check and the operation it guards are one step
(the package excludes writers that hit the time between them), but somebody may
edit or delete a destination between any two steps. Check and Verify are the
operators of the same names.

**Console** – tabs of one browser and the session handlers. What JavaScript runs
between two awaits is one step. `job` holds the calls of a tab with what they
captured when they began (epoch, token, account), `renewal` the `refreshInFlight`
of each epoch. Web Locks and the queue of the page are `LockFree`; a call holds
the lock while its request is out. The server is reduced to whether an access
token is accepted and a refresh token live, spent or dead. Answers may be late,
lost before or after their headers, or belong to a page that was reloaded. A
pair is issued only while the bound leaves one, so that no handler runs out of
tokens half-way.

## Refinements

| abstract specification | implemented by | mapping |
|---|---|---|
| `Devices`: devices sign in with the password of the moment, keep one refresh token that is new with each exchange, end when somebody signs them out, no others with them, and once gone stay gone | Sessions (`DevicesSignedIn`) | a device is a family with a row neither revoked nor deleted; its tokens are the live refresh rows, its passwords the ones its holder proved; `SignedOut` is what the last call asked to end: the families of the tokens it presented, the one it chose, or all but the bearer's |
| `PurgeProtocol`: an intent, then one purge by a call that announced itself, then completions that name that call | Maintenance (`PurgedByProtocol`) | the sink's and the ledger's records |
| `Publication`: a release is installed at once or not at all and others' edits survive; only a call that was killed or reports a failed rollback leaves some files of before and some of the release | CoreSync (`AllOrNothing`) | until the release is installed, a file that is published and that nobody has touched since counts as the one before it (`Before`); every other file is itself |

The mappings need history variables where the code forgets: `issuedUnder` for
the password behind a family, and `published`, which is the call's own record.
All three are proved (see *Proofs*). That of CoreSync used to be written with the set of edited files:
a file that somebody changes and puts back before the call publishes it would
count as edited for the rest of the call, and its publication would show half-way;
that takes two edits and escaped a run with one. `Before` compares the file itself
and is right for any number of edits.

## Runs

Every run explores its instance exhaustively. *Safety only* where no fairness is
mentioned.

| run | instance | shows |
|---|---|---|
| policy_versions | 2 subjects, 2 roles, 2 versions, constrained and unconstrained workspace grants | no step gives access that neither the actor nor the host had; an administrator remains; whatever changes is in the tenant's log; a version names the grants its role has; snapshots and purges are final |
| core | 2 accounts, 2 roles, 2 versions, 1 link | an active administrator remains and a failed tenant has no members; bindings belong to members; the delegation graph survives removal and return; only active members change policy; links are final and lift no suspension |
| authorizer | all requests, up to 3 rows in every order, malformed rows, changing memberships | the decision is the reference for a membership the host really had; failures are reported as such |
| sessions_member | a system administrator, 3 token pairs, 1 request in flight | the sessions implement Devices, also when a device is signed out with a token that was exchanged meanwhile; replay ends all access and refresh rows, as long as the rotated row may be kept; pruning keeps the detection window; tokens of an earlier password do no harm |
| sessions_recovery | a member, 2 links, 2 requests in flight, 2 token pairs, 3 passwords, lock after 2 failures | the lockout threshold holds under concurrency; a link applies once and never over a newer password; a stale bearer ends no session of a newer password |
| purge | 3 callers, 2 requests, 3 faults | PurgeTenant implements PurgeProtocol, and a completion follows in the end |
| purge_service_sink | 1 caller, 1 fault; *expected to fail* | see *Findings* |
| migrations | releases of 2 and 3 migrations and a fork with an edited file, a database without checksums, 4 failures | once and in order; dirty marks exactly the uncommitted; an old release keeps off a newer schema; a ready server runs on its own SQL; the database settles |
| organization | 2 operators, 3 tenants, 3 setups, 2 faults; databases with none, one or two active tenants, with and without a selected one | the organization never changes unless a creation lost its lock undecided, and then processes refuse; no lost rename; setups end |
| core_sync | 5 releases (2 to install, 3 to refuse) of 4 destinations in nested directories, 2 failures or kills, 1 edit | Sync implements Publication; what it replaced is recoverable; quiet means tidy; what it installed passes its own check; calls end |
| console | 2 tabs, 2 accounts, 2 calls at a time per tab, 2 calls, 1 sign-in or sign-out, 1 lost answer or reload, Web Locks | no false replay unless an answer was lost; no request repeated as another account; calls end |
| console_restore | the same without faults; *expected to fail* | see *Findings* |

**Bounds.** Each bound is a named constant that appears in a guard or in the set
an input is taken from: `MaxVersion`, `Offered`, `RoleInput`, `MaxToken`,
`MaxCredential`, `MaxTime`, `MaxRows`, `RowGrant`, `MaxFaults`, `MaxEdits`,
`MaxSetups`, `MaxCalls`, `MaxSigns`, `Open`. They are one more
than, or exactly, what the interesting case needs: three
token pairs for a replay beside a rotated and a foreign family, two requests in
flight for a race, three passwords for a link that is older than the previous
one, three faults for one in each phase of a purge, two failures for one that
starts a rollback and one that breaks it, three tenants for a third creation
beside two that overlap, two calls in a tab for a late 401 beside a renewal.
The core run trades a third account for a second role with versions: an indirect
delegation cycle of three needs a third subject, which `NoDelegationCycle` proves
for every number. Two recovery links and two calls leave room for one clock tick
in sessions_recovery; pruning needs three and is explored in sessions_member,
where there are no links.
The mutants confirm it: each
property is violated under its own run's bounds by a bug in the code it is about.

**Views and symmetry.** The event written last (`lastEvent`, `last`) enables
nothing and is left out of the view, and so is a lock on an account that has run
out; TLC evaluates action properties on every
transition, so they still see it. The core run also merges states that differ only
in a creation that can change nothing more (on an active tenant its clean-up is
followed while the creator is the only member) and in the account of a used or
revoked link. In that run every role is created with the four administrator
permissions, so deleting a role is always refused there; that it succeeds is
explored in policy_versions. Subjects other than the operator, links and
concurrent calls are interchangeable. No liveness is checked under symmetry or a
view.

**Deadlock.** Checked where something can always happen. The Sessions runs end
when clock, tokens and passwords reach their bounds and an Authorizer run ends
with its decision; in the organization and console runs every call may have been
made and answered. Those configurations switch the check off.

**Fairness.** `CompletionFollowsPurge` assumes that a caller's process runs its
call to the end or to an error and that the operator repeats the call with the
same request identifier, which is what the doc comment of PurgeTenant asks of it;
faults are finite in number. `EventuallyVerified` assumes that
a runner that holds the lock proceeds, that releases are started again
(`compose.yaml` runs `migrate` at every start; `pg_advisory_lock` queues its
waiters, hence strong fairness), and that a dirty row runs keep reporting is
repaired. `SetupEnds` assumes that each operator's call goes on as long as it can,
a free lock included, and that the server decides every transaction it was sent;
the number of setups is bounded, so weak fairness suffices for the lock. `CallEnds`
assumes that the running call takes its next step (file operations return).
`CallsEnd` assumes that each tab makes some progress while it can: a request is
answered or fails and a free lock is granted. With a bounded number of calls the
order of service does not matter.

## Proofs

`PolicyKernelProofs` proves, for every number of subjects, roles, versions,
permissions and workspace roles:

- `DelegationSound`: a grant that covers another for delegation allows every
  request the other allows, although the two compare role names differently.
- `TypeCorrect`, `AdministratorRemains`, `NoDelegationCycle`,
  `OneEdgePerAssignment`, `VersionNamesGrants`, `NoAmplification` – the
  invariants that the kernel runs check; `PurgeIsFinal` (`PurgedIsEmpty`).
- `NoStepEscalates`, `HistoryKept` – their action properties.

All rest on one inductive invariant,

    IInv = TypeOK ∧ LastAdministrator ∧ DelegationAcyclic ∧ EdgePerAssignment
           ∧ CurrentSnapshot ∧ RetiredRolesEmpty ∧ CoveredByHost ∧ PurgedIsEmpty

The parts need each other. A new role may only be created where no row is, and
`RetiredRolesEmpty` is what makes it start without members and grants.
Unassigning removes the edge of the binding's grantor, so that
`EdgePerAssignment` is needed to know that no edge is left behind.
`AuthorityFromBootstrap` speaks of requests and is not inductive; `CoveredByHost`
says that each grant is *covered* by a grant of a bootstrap snapshot, is
preserved because Covers is transitive, and implies it by `DelegationSound`;
`CurrentSnapshot` is needed so that a bump never drops the bootstrap's snapshot.
Reachability in the delegation graph is defined as the least closed set
(`ReachIn`) and not recursively, so acyclicity under a new edge is a proof by
closed sets (`AcyclicAddEdge`). There is one lemma per action (`AssignRoleStep`,
…), `NextPreserves` collects them.

`PolicyChangesAudited` (`AuditedChange`) needs no invariant: whatever the state,
an action that commits writes its success, and one that does not leaves the tables.

Assumptions: the controls are in the catalog, the two null values are no
subjects, offered grants are grants, `MaxVersion` is positive. `MaxVersion` is
arbitrary, so the bound is no restriction of the theorems. Not proved but
modelled: that a transaction of the store is atomic.

`CorePolicyProofs` carries that through the application, for any accounts, roles,
links and operators: `ActiveAdministratorRemains`, `OnlyMembersBound`,
`CoreKeepsDelegation` (acyclic, one edge per delegated binding, members that
leave and return included), and the action properties `InvitationsAreFinal`,
`SuspensionsOutlive` and `ActiveMembersChange`; so every safety property of the
core run. The invariant is

    CoreInv = IInv ∧ CoreTypeOK ∧ CreationOK ∧ OwnerOK ∧ BindingsOfMembers
              ∧ ActiveAdministrator

The kernel's steps are reused through `PolicyKernelProofs`; what is new is the
creation in three transactions. `CreationOK` says that nobody belongs to a tenant
that is not active and that an activation in flight is of a bootstrapped one,
`OwnerOK` that the policy of a tenant that is not yet active is what the bootstrap
made of it, so that the creator is the active administrator the moment an
activation commits, late or not. Assumptions: `MemberManage` and the owner's role
exist, operators are accounts.

`MigrationsProofs` proves, for any runners, releases, legacy table and number of
failures: `TypeCorrect`, `OnceAndInOrder`, `DirtyMarksUnapplied`,
`ReadyRunsItsSchema` and `OldReleaseKeepsOff`, that is, every safety property of
the migrations run. The inductive invariant is

    IInv = MigrationsTypeOK ∧ LockHeld ∧ Contiguous ∧ AppliedInOrder
           ∧ DirtyIsUnapplied ∧ RecordedIsApplied ∧ ∀ r : Learnt(r)

Migrate acts on what it read several statements before, so the properties are
not inductive alone. `Learnt` states per place of Migrate what its checks
established and still holds, `LockHeld` is why it still holds: nobody else is at
work and a repair waits. `Contiguous` says that the table is the applied
migrations and at most one dirty row, which a clean inspection excludes;
`RecordedIsApplied` survives the checksum baseline because only legacy rows have
none. Assumptions: each release embeds a gapless sequence of migrations
(EmbeddedMigrations refuses others), the null values are no runner and no
checksum.

`SessionsProofs` proves, for any number of tokens, passwords, links and requests
in flight: `TypeCorrect`, `LockoutThresholdHolds`, `ReplayDetectableHolds`,
`ReplayEndsSessionsHolds`, `OldLineageHarmlessHolds`, `RecoveryAppliesOnceHolds`
and `SessionsRefineDevices`. The invariant is

    IInv = TypeOK ∧ LoginsPast ∧ CountOK ∧ IssuedRows ∧ OldRows ∧ OneRefresh
           ∧ ExchangedIssued ∧ ReplayDetectable ∧ OpenRecoveryCurrent

`CountOK` bounds the wrong passwords by the stored count, which is what the
threshold is compared with. `LoginsPast` says that a login under way began less than
the duration of a lock ago, so that what it read of the lock still counts;
`OldRows` says that rows of an earlier password are revoked and not marked as
rotated: a replay of theirs is a stranger's token and not a replay, which is why
it ends nothing. `OneRefresh` is what the mapping to Devices needs, and
`IssuedRows`, by which both rows of a pair are of one device, what makes a
sign-out by either token end the same. `ReplayDetectable` makes
`ReplayEndsSessionsHolds` cover expired tokens, too: Refresh looks for a rotation
before it looks at the expiry. All steps but issuing and exchanging only take rows
away (`Faded`), so they share one proof. `MaxCredential` is at least one, because
an account has a password.

`AuthorizerProofs` proves `DecisionIsReferenceHolds` for every catalog, every list
of grants of any length in any order and every schedule of the host: that the
merge of denial reasons does not depend on the order of rows is `DeniedOK`, which
states `denied` and `bestDenied` as functions of the *set* of scopes tried so far
(`Why`, `Best`); `NoneAllows` says that no row passed allows the request with any
membership the snapshot leaves open, and `SnapshotOK` that the snapshot is one
the host had. Assumption: rows are grants of one permission, which is what
`ListEffectiveGrants` is asked for.

`MaintenanceProofs` proves `PurgeRefines`: with a sink that keeps the contract
PurgeTenant implements PurgeProtocol, for any callers, however they share request
identifiers. The hypothesis `~ServiceSink` is the contract; the run
purge_service_sink shows what happens without it. The invariant says that a call
past its intent finds it on record, that a call about to complete carries the
initiator of the ledger, and so does every completion on record.

`CoreSyncProofs` proves, for every set of paths and releases and any number of
failures, kills and edits: `CoreSyncTypeCorrect`, `RecoverableHolds`,
`QuietMeansTidyHolds`, `InstalledPassesCheckHolds` and `SyncRefinesPublication`.
The invariant goes phase by phase (`PhaseOK`: what is staged, published and left
to do at each place; `RunningOK`: a file that the call has not published is the
previous one, a managed one that it has is in a backup; `ArtifactsOK`,
`DirectoriesOK`: what is not removed is reported), because the rollback acts on
what the loops before it recorded. That a loop has a least item to take is
`LeastItem`, from the well-foundedness of `<`. Assumptions: paths and releases
are not empty, the two null contents are no content of a release.

`ConsoleProofs` proves, for any number of tabs, accounts, calls and faults:
`ConsoleTypeCorrect`, `NoFalseReplayHolds`, `AuthLockExclusive` and
`NoCrossAccountReplayHolds`. The invariant is

    IInv = Types ∧ Shape ∧ Exclusive ∧ CookieFresh ∧ NoFalseReplay ∧ Context

`Exclusive`: under Web Locks one call or renewal of all tabs is in the critical
section; from it follows `CookieFresh`: while no answer was lost, the cookie is
spent only between a renewal's answer and its acceptance, and then the answer
holds the fresh one. `Context` ties the active account of a tab, and the account
a call began with, to the owner of their tokens, as long as no restore was
overtaken. `NoCrossAccountReplay` speaks of calls whose request is out or
answered: one that waits may hold a token that its guard will refuse. Assumption:
there is an account, and the two null answers are none.

**Only model-checked.** `CompletionFollowsPurge`, `EventuallyVerified`, `CallEnds`,
`CallsEnd` and `SetupEnds`: liveness under fairness is outside the prover's reach.
`OrganizationIsFinal` and `NoLostRename`: not yet proved. That the model's
transactions are those of the code is the abstraction described below, and the
two runs that are expected to fail are counterexamples.

## Findings

`purge_service_sink`: `Service.RecordSecurityEvent` says
`ON CONFLICT DO NOTHING`, but `audit_events` has no unique column besides its
serial key, so an event that is recorded again is stored again. The interface
(`store.go:76`) and the method's comment (`policy_store.go:154`) promise
deduplication by request identifier. In this repository no retrying caller is
composed with that sink (every HTTP request gets a fresh identifier and the
application does not run Maintenance), so it concerns embedding hosts.

`console_restore`: `restoreSession` compares only the epoch before it sets
`activeAccountID` to the account it was answered (`api.ts:277`). A renewal keeps
the epoch, and a sign-in advances it before it queues, so the token may be
another account's by then. The shortest run: with the token of `a1`, a sign-in
as `a2` is pending (an invitation page offers one); the restore of the page that
opens next asks with the old token; the sign-in ends; the restore ends and sets the
account back to `a1`. The console shows `a1` while its requests go as `a2`, where
`docs/core-administration.md:99` says that it switches account context. The
server authorizes by the token, so nobody gains access. `NoCrossAccountReplay`
holds as long as that has not happened (`overtaken`): the retry guard compares
`activeAccountID`, which is then wrong.

## Abstractions shared by all modules

PostgreSQL is trusted for what the code asks of it: a serializable transaction
is atomic or aborts, row locks and advisory locks exclude, a session's lock ends
with its connection. Cryptography is trusted: hashes and tokens are distinct
values. Row-level security and the signed tenant binding are why one tenant can
be modelled at a time.

## Not modelled

- What the SQL inside a migration does.
- The transaction protocol inside `postgres/store.go` (signed binding, row-level
  security): the models take a transaction as atomic or aborted.
- The HTTP layer beyond the guards it sets and the session handlers: decoding, the
  sign-in slots, status codes, paging and read-only directories. Tenant export: a
  read of one snapshot.
- Argon2id parameters, token generation, constant-time comparison.
- Command line, static server, examples, website, deployment: wiring and I/O.
- The console's pages. Of the session client, `setToken` after the current device
  is revoked, which is a sign-out without a request.
- Symbolic links, moved directories and path syntax in source synchronisation:
  they are refused, and an exclusively controlled worktree is its trust model.
- Row-lock deadlocks between recovery creation and logout: PostgreSQL aborts one
  transaction, which is below the granularity of Sessions.

## Plan

1. *Done:* Delegation, PolicyKernel, Sessions, CorePolicy, Authorizer,
   Maintenance, Migrations, Organization, CoreSync, Console; the abstract Devices,
   PurgeProtocol and Publication.
2. *Done:* proofs of the invariants and action properties of all of them but
   Organization, and of the three refinements.
3. Proofs for Organization: `NoLostRename` from the version that a rename expects,
   and `OrganizationIsFinal`, which needs an invariant about the creations that
   lost their lock while undecided.
