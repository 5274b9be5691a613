---------------------------- MODULE PolicyKernel ----------------------------
(***************************************************************************)
(* One tenant's authorization state and the operations of Manager,         *)
(* Bootstrapper and the store's purge on it.  Store.MutateTenant gives     *)
(* every operation a serializable, exclusive transaction on the tenant, so *)
(* each operation is one action; an error rolls all of it back and the     *)
(* caller records a security event afterwards, outside the transaction.    *)
(*                                                                         *)
(* Left out: names, descriptions, timestamps, reason codes and request     *)
(* identifiers of role mutations, and the syntactic validation that        *)
(* refuses a malformed input before a transaction is opened.               *)
(***************************************************************************)
EXTENDS Delegation

CONSTANTS
    Subject,        \* SubjectIDs
    RoleID,         \* role identifiers
    ManageRoles,    \* the three ControlPermissions of the application
    ManageGrants,
    AssignRoles,
    RequestID,      \* request identifiers of purge calls
    Absent,         \* no binding
    Host,           \* the host workflow, in place of a subject (bootstrap)
    Offered,        \* the grants that bootstrap and grant inputs name
    MaxVersion      \* bound: role versions the model goes up to

ASSUME ControlsAssumption == {ManageRoles, ManageGrants, AssignRoles} \subseteq Permission
ASSUME NullsAssumption == Absent \notin Subject /\ Host \notin Subject /\ Absent # Host
ASSUME OfferedAssumption == Offered \subseteq Grant
ASSUME MaxVersionAssumption == MaxVersion \in Nat \ {0}

VARIABLES
    roles,         \* RoleID -> row; version 0 is "no row"
    rolePerms,     \* RoleID -> the grants of the role
    subjectRoles,  \* Subject -> RoleID -> who granted it, or Host, or Absent
    grantEdges,    \* <<grantor, grantee, role>> of every delegated binding
    roleVersions,  \* RoleID -> the snapshots written so far
    bootstrapped,
    purged,        \* the permanent purge tombstone
    purgeLedger,   \* request identifiers of committed purges
    lastEvent      \* the audit event written last, by whom and in which log

policy == <<roles, rolePerms, subjectRoles, grantEdges, roleVersions, bootstrapped>>
vars == <<policy, purged, purgeLedger, lastEvent>>

Control == {ManageRoles, ManageGrants, AssignRoles}
Version == 1..MaxVersion
NoRole == [version |-> 0, deleted |-> FALSE]
\* byHost: the snapshot names a bootstrap initiator and no subject.
Snapshot == [version: Version, grants: SUBSET Grant, deleted: BOOLEAN, byHost: BOOLEAN]
Operation == {"none", "tenant.bootstrap", "role.create", "role.update", "role.delete",
              "grant.permission", "revoke.permission", "assign.role", "unassign.role"}
\* The application writes operations of its own to the same log.
Logged == Operation \cup {"invitation.create", "invitation.revoke", "invitation.accept",
                         "member.suspend", "member.resume", "member.remove"}
Event == [log: {"none", "tenant", "security"}, op: Logged,
          actor: Subject \cup {Host},
          outcome: {"none", "success", "noop", "denied", "conflict", "failed"}]

NoEvent == [log |-> "none", op |-> "none", actor |-> Host, outcome |-> "none"]

TypeOK ==
    /\ roles \in [RoleID -> [version: 0..MaxVersion, deleted: BOOLEAN]]
    /\ rolePerms \in [RoleID -> SUBSET Grant]
    /\ subjectRoles \in [Subject -> [RoleID -> Subject \cup {Host, Absent}]]
    /\ grantEdges \in SUBSET (Subject \X Subject \X RoleID)
    /\ roleVersions \in [RoleID -> SUBSET Snapshot]
    /\ bootstrapped \in BOOLEAN
    /\ purged \in BOOLEAN
    /\ purgeLedger \in SUBSET RequestID
    /\ lastEvent \in Event

\* newTenantState: a tenant nobody has touched.
Init ==
    /\ roles = [r \in RoleID |-> NoRole]
    /\ rolePerms = [r \in RoleID |-> {}]
    /\ subjectRoles = [s \in Subject |-> [r \in RoleID |-> Absent]]
    /\ grantEdges = {}
    /\ roleVersions = [r \in RoleID |-> {}]
    /\ bootstrapped = FALSE
    /\ purged = FALSE
    /\ purgeLedger = {}
    /\ lastEvent = NoEvent

-----------------------------------------------------------------------------
(* What the transaction reads. *)

\* Not deleted and present.
Live(r) == roles[r].version > 0 /\ ~roles[r].deleted

\* The grants s holds through the bindings b on live roles with grants p.
EffectiveIn(b, p, s) ==
    UNION {p[r] : r \in {q \in RoleID : Live(q) /\ b[s][q] # Absent}}

EffectiveGrants(s) == EffectiveIn(subjectRoles, rolePerms, s)

\* One subject holds every control at tenant scope.
HasAdministratorIn(b, p) ==
    \E s \in Subject : \A c \in Control :
        \E g \in EffectiveIn(b, p, s) : g.permission = c /\ g.scope = "tenant"

HasAdministrator == HasAdministratorIn(subjectRoles, rolePerms)

\* S holds every grantee of a grantor in it.
ClosedIn(edges, S) == \A e \in edges : e[1] \in S => e[2] \in S

\* The subjects the search visits from `from`: the least closed set it is in.
ReachIn(edges, from) ==
    {x \in Subject : \A S \in SUBSET Subject :
                        from \in S /\ ClosedIn(edges, S) => x \in S}

HasGrantPath(from, to) == to \in ReachIn(grantEdges, from)

RoleSubjects(r) == {s \in Subject : subjectRoles[s][r] # Absent}

\* requireGrant, for the exact control (requireActor) and for coverage.
RequireActor(a, p) ==
    \E g \in EffectiveGrants(a) : AllowDelegation(TenantGrant(p), TRUE, g)

RequireActorForGrant(a, target) == \E g \in EffectiveGrants(a) : Covers(g, target)

RequireRoleCoverage(a, r) == \A g \in rolePerms[r] : RequireActorForGrant(a, g)

-----------------------------------------------------------------------------
(* The ways a call ends. *)

\* A call commits and writes its audit event in the same transaction.
Committed(op, a, outcome) ==
    lastEvent' = [log |-> "tenant", op |-> op, actor |-> a, outcome |-> outcome]

\* recordDenied's classification: only conflicts and refusals have names.
OutcomeOf(err) ==
    IF err = "conflict" THEN "conflict"
    ELSE IF err = "forbidden" THEN "denied" ELSE "failed"

\* recordDenied: nothing of the call stays, and the security sink gets an
\* event unless the sink fails too, which is only logged.
RecordDenied(op, a, err) ==
    /\ lastEvent' \in {lastEvent,
                       [log |-> "security", op |-> op, actor |-> a,
                        outcome |-> OutcomeOf(err)]}
    /\ UNCHANGED <<policy, purged, purgeLedger>>

\* The checks every mutation of an existing role makes on it, in order.
RoleError(r, v) ==
    IF ~Live(r) THEN "not_found"
    ELSE IF roles[r].version # v THEN "conflict" ELSE "none"

\* Mutant: the snapshot is taken before the change it records.
BumpRoleVersionEarly(r, grants, deleted) ==
    LET next == roles[r].version + 1
    IN  /\ next <= MaxVersion
        /\ roles' = [roles EXCEPT ![r] = [version |-> next, deleted |-> deleted]]
        /\ roleVersions' = [roleVersions EXCEPT ![r] = @ \cup
                {[version |-> next, grants |-> rolePerms[r], deleted |-> deleted, byHost |-> FALSE]}]

\* bumpRoleVersion: the next version, with a snapshot of the grants it has.
BumpRoleVersion(r, grants, deleted) ==
    LET next == roles[r].version + 1
    IN  /\ next <= MaxVersion
        /\ roles' = [roles EXCEPT ![r] = [version |-> next, deleted |-> deleted]]
        /\ roleVersions' = [roleVersions EXCEPT ![r] = @ \cup
                {[version |-> next, grants |-> grants, deleted |-> deleted, byHost |-> FALSE]}]

-----------------------------------------------------------------------------
(* Bootstrapper. *)

\* InsertRole and its first snapshot.
InsertRole(r, grants, byHost) ==
    /\ roles' = [roles EXCEPT ![r] = [version |-> 1, deleted |-> FALSE]]
    /\ rolePerms' = [rolePerms EXCEPT ![r] = grants]
    /\ roleVersions' = [roleVersions EXCEPT ![r] = @ \cup
            {[version |-> 1, grants |-> grants, deleted |-> FALSE, byHost |-> byHost]}]

\* grantMap keeps one grant per permission and scope, and must hold the three
\* controls at tenant scope.
BootstrapGrants(gs) ==
    /\ \A g, h \in gs : g.permission = h.permission /\ g.scope = h.scope => g = h
    /\ \A c \in Control : \E g \in gs : g.permission = c /\ g.scope = "tenant"

\* Mutant: the purge tombstone is not looked at.
BootstrapTenantAgain(owner, r, gs) ==
    /\ BootstrapGrants(gs)
    /\ ~bootstrapped /\ roles[r].version = 0
    /\ InsertRole(r, gs, TRUE)
    /\ subjectRoles' = [subjectRoles EXCEPT ![owner][r] = Host]
    /\ bootstrapped' = TRUE
    /\ Committed("tenant.bootstrap", Host, "success")
    /\ UNCHANGED <<grantEdges, purged, purgeLedger>>

\* The owner role, its grants, the owner's binding (no grantor, no edge), the
\* first snapshot and the marker, once.  A purged tenant, a bootstrapped one
\* and a role identifier in use are refused, and nothing records the refusal.
BootstrapTenant(owner, r, gs) ==
    /\ BootstrapGrants(gs)
    /\ ~purged /\ ~bootstrapped /\ roles[r].version = 0
    /\ InsertRole(r, gs, TRUE)
    /\ subjectRoles' = [subjectRoles EXCEPT ![owner][r] = Host]
    /\ bootstrapped' = TRUE
    /\ Committed("tenant.bootstrap", Host, "success")
    /\ UNCHANGED <<grantEdges, purged, purgeLedger>>

-----------------------------------------------------------------------------
(* Manager. *)

\* Mutant: only a live role holds its identifier.
CreateRoleErrorReuse(a, r, gs) ==
    IF purged THEN "not_found"
    ELSE IF ~RequireActor(a, ManageRoles) THEN "forbidden"
    ELSE IF \E g \in gs : ~RequireActorForGrant(a, g) THEN "forbidden"
    ELSE IF Live(r) THEN "conflict" ELSE "none"

\* CreateRole when gs is empty; CreateRoleWithPermissions, whose grants are at
\* tenant scope and covered by the actor, otherwise.
CreateRoleError(a, r, gs) ==
    IF purged THEN "not_found"
    ELSE IF ~RequireActor(a, ManageRoles) THEN "forbidden"
    ELSE IF \E g \in gs : ~RequireActorForGrant(a, g) THEN "forbidden"
    ELSE IF roles[r].version > 0 THEN "conflict" ELSE "none"

CreateRole(a, r, ps) ==
    LET gs == {TenantGrant(p) : p \in ps}
        err == CreateRoleError(a, r, gs)
    IN  \/ err # "none" /\ RecordDenied("role.create", a, err)
        \/ /\ err = "none"
           /\ InsertRole(r, gs, FALSE)
           /\ Committed("role.create", a, "success")
           /\ UNCHANGED <<subjectRoles, grantEdges, bootstrapped, purged, purgeLedger>>

UpdateRoleError(a, r, v) ==
    IF purged THEN "not_found"
    ELSE IF ~RequireActor(a, ManageRoles) THEN "forbidden"
    ELSE RoleError(r, v)

UpdateRole(a, r, v) ==
    LET err == UpdateRoleError(a, r, v)
    IN  \/ err # "none" /\ RecordDenied("role.update", a, err)
        \/ /\ err = "none"
           /\ BumpRoleVersion(r, rolePerms[r], FALSE)
           /\ Committed("role.update", a, "success")
           /\ UNCHANGED <<rolePerms, subjectRoles, grantEdges, bootstrapped, purged, purgeLedger>>

\* A role with grants or subjects is not retired.
DeleteRoleError(a, r, v) ==
    IF UpdateRoleError(a, r, v) # "none" THEN UpdateRoleError(a, r, v)
    ELSE IF rolePerms[r] # {} \/ RoleSubjects(r) # {} THEN "conflict" ELSE "none"

\* TombstoneRole: the row stays, so the identifier is never free again.
DeleteRole(a, r, v) ==
    LET err == DeleteRoleError(a, r, v)
    IN  \/ err # "none" /\ RecordDenied("role.delete", a, err)
        \/ /\ err = "none"
           /\ BumpRoleVersion(r, {}, TRUE)
           /\ Committed("role.delete", a, "success")
           /\ UNCHANGED <<rolePerms, subjectRoles, grantEdges, bootstrapped, purged, purgeLedger>>

\* Mutant: the actor needs a control and not the permission it grants.
GrantErrorControl(a, r, g, v) ==
    IF purged THEN "not_found"
    ELSE IF ~RequireActor(a, ManageGrants) THEN "forbidden"
    ELSE RoleError(r, v)

GrantError(a, r, g, v) ==
    IF purged THEN "not_found"
    ELSE IF ~RequireActorForGrant(a, g) THEN "forbidden"
    ELSE RoleError(r, v)

GrantPermission(a, r, g, v) ==
    LET err == GrantError(a, r, g, v)
    IN  \/ err # "none" /\ RecordDenied("grant.permission", a, err)
        \/ /\ err = "none" /\ g \in rolePerms[r]
           /\ Committed("grant.permission", a, "noop")
           /\ UNCHANGED <<policy, purged, purgeLedger>>
        \/ /\ err = "none" /\ g \notin rolePerms[r]
           /\ rolePerms' = [rolePerms EXCEPT ![r] = @ \cup {g}]
           /\ BumpRoleVersion(r, rolePerms[r] \cup {g}, FALSE)
           /\ Committed("grant.permission", a, "success")
           /\ UNCHANGED <<subjectRoles, grantEdges, bootstrapped, purged, purgeLedger>>

\* The guard looks at the tenant without the grant, in the same transaction.
RevokeError(a, r, g, v) ==
    IF GrantError(a, r, g, v) # "none" THEN GrantError(a, r, g, v)
    ELSE IF /\ g \in rolePerms[r]
            /\ ~HasAdministratorIn(subjectRoles, [rolePerms EXCEPT ![r] = @ \ {g}])
         THEN "last_administrator" ELSE "none"

RevokePermission(a, r, g, v) ==
    LET err == RevokeError(a, r, g, v)
    IN  \/ err # "none" /\ RecordDenied("revoke.permission", a, err)
        \/ /\ err = "none" /\ g \notin rolePerms[r]
           /\ Committed("revoke.permission", a, "noop")
           /\ UNCHANGED <<policy, purged, purgeLedger>>
        \/ /\ err = "none" /\ g \in rolePerms[r]
           /\ rolePerms' = [rolePerms EXCEPT ![r] = @ \ {g}]
           /\ BumpRoleVersion(r, rolePerms[r] \ {g}, FALSE)
           /\ Committed("revoke.permission", a, "success")
           /\ UNCHANGED <<subjectRoles, grantEdges, bootstrapped, purged, purgeLedger>>

\* Mutant: only edges of the same role are followed back.
AssignErrorSameRole(a, s, r, v) ==
    IF purged THEN "not_found"
    ELSE IF ~RequireActor(a, AssignRoles) THEN "forbidden"
    ELSE IF RoleError(r, v) # "none" THEN RoleError(r, v)
    ELSE IF ~RequireRoleCoverage(a, r) THEN "forbidden"
    ELSE IF a # s /\ a \in ReachIn({e \in grantEdges : e[3] = r}, s) THEN "grant_cycle" ELSE "none"

\* Nobody may assign to a subject it was reached from; assigning to oneself
\* skips the search.
AssignError(a, s, r, v) ==
    IF purged THEN "not_found"
    ELSE IF ~RequireActor(a, AssignRoles) THEN "forbidden"
    ELSE IF RoleError(r, v) # "none" THEN RoleError(r, v)
    ELSE IF ~RequireRoleCoverage(a, r) THEN "forbidden"
    ELSE IF a # s /\ HasGrantPath(s, a) THEN "grant_cycle" ELSE "none"

\* Mutant: a repeated assignment takes the binding over, as an upsert would.
AssignRoleUpsert(a, s, r, v) ==
    LET err == AssignError(a, s, r, v)
    IN  \/ err # "none" /\ RecordDenied("assign.role", a, err)
        \/ /\ err = "none"
           /\ subjectRoles' = [subjectRoles EXCEPT ![s][r] = a]
           /\ grantEdges' = (grantEdges \ {<<subjectRoles[s][r], s, r>>}) \cup {<<a, s, r>>}
           /\ Committed("assign.role", a, IF subjectRoles[s][r] = Absent THEN "success" ELSE "noop")
           /\ UNCHANGED <<roles, rolePerms, roleVersions, bootstrapped, purged, purgeLedger>>

AssignRole(a, s, r, v) ==
    LET err == AssignError(a, s, r, v)
    IN  \/ err # "none" /\ RecordDenied("assign.role", a, err)
        \/ /\ err = "none" /\ subjectRoles[s][r] # Absent
           /\ Committed("assign.role", a, "noop")
           /\ UNCHANGED <<policy, purged, purgeLedger>>
        \/ /\ err = "none" /\ subjectRoles[s][r] = Absent
           /\ subjectRoles' = [subjectRoles EXCEPT ![s][r] = a]
           /\ grantEdges' = grantEdges \cup {<<a, s, r>>}
           /\ Committed("assign.role", a, "success")
           /\ UNCHANGED <<roles, rolePerms, roleVersions, bootstrapped, purged, purgeLedger>>

\* Mutant: no guard on the last administrator.
UnassignErrorUnguarded(a, s, r, v) ==
    IF purged THEN "not_found"
    ELSE IF ~RequireActor(a, AssignRoles) THEN "forbidden"
    ELSE IF RoleError(r, v) = "not_found" THEN "not_found"
    ELSE IF v # 0 /\ RoleError(r, v) # "none" THEN "conflict"
    ELSE IF ~RequireRoleCoverage(a, r) THEN "forbidden" ELSE "none"

\* Expected version 0 skips the version check.
UnassignError(a, s, r, v) ==
    IF purged THEN "not_found"
    ELSE IF ~RequireActor(a, AssignRoles) THEN "forbidden"
    ELSE IF RoleError(r, v) = "not_found" THEN "not_found"
    ELSE IF v # 0 /\ RoleError(r, v) # "none" THEN "conflict"
    ELSE IF ~RequireRoleCoverage(a, r) THEN "forbidden"
    ELSE IF /\ subjectRoles[s][r] # Absent
            /\ ~HasAdministratorIn([subjectRoles EXCEPT ![s][r] = Absent], rolePerms)
         THEN "last_administrator" ELSE "none"

\* Only a delegated binding has an edge: <<Host, s, r>> is never one.
UnassignRole(a, s, r, v) ==
    LET err == UnassignError(a, s, r, v)
    IN  \/ err # "none" /\ RecordDenied("unassign.role", a, err)
        \/ /\ err = "none" /\ subjectRoles[s][r] = Absent
           /\ Committed("unassign.role", a, "noop")
           /\ UNCHANGED <<policy, purged, purgeLedger>>
        \/ /\ err = "none" /\ subjectRoles[s][r] # Absent
           /\ subjectRoles' = [subjectRoles EXCEPT ![s][r] = Absent]
           /\ grantEdges' = grantEdges \ {<<subjectRoles[s][r], s, r>>}
           /\ Committed("unassign.role", a, "success")
           /\ UNCHANGED <<roles, rolePerms, roleVersions, bootstrapped, purged, purgeLedger>>

-----------------------------------------------------------------------------
(* The store's purge, and its failures. *)

\* A retry with a request identifier of the ledger changes nothing, and a
\* second purge is refused; the first one clears everything but the tombstone
\* and the ledger.  (The purge protocol around it is in Maintenance.)
PurgeTenant(req) ==
    /\ req \notin purgeLedger /\ ~purged
    /\ roles' = [r \in RoleID |-> NoRole]
    /\ rolePerms' = [r \in RoleID |-> {}]
    /\ subjectRoles' = [s \in Subject |-> [r \in RoleID |-> Absent]]
    /\ grantEdges' = {}
    /\ roleVersions' = [r \in RoleID |-> {}]
    /\ bootstrapped' = FALSE
    /\ purged' = TRUE
    /\ purgeLedger' = purgeLedger \cup {req}
    /\ lastEvent' = NoEvent

\* The transaction of any mutation may fail in the store and roll back.
StoreFails(op, a) == RecordDenied(op, a, "dependency_unavailable")

ManagerStep(a) ==
    \E r \in RoleID :
        \/ \E ps \in SUBSET Permission : CreateRole(a, r, ps)
        \/ \E v \in Version :
            \/ UpdateRole(a, r, v)
            \/ DeleteRole(a, r, v)
            \/ \E g \in Offered : GrantPermission(a, r, g, v) \/ RevokePermission(a, r, g, v)
            \/ \E s \in Subject : AssignRole(a, s, r, v)
        \/ \E v \in Version \cup {0}, s \in Subject : UnassignRole(a, s, r, v)

Next ==
    \/ \E owner \in Subject, r \in RoleID, gs \in SUBSET Offered : BootstrapTenant(owner, r, gs)
    \/ \E a \in Subject : ManagerStep(a)
    \/ \E a \in Subject, op \in Operation \ {"none", "tenant.bootstrap"} : StoreFails(op, a)
    \/ \E req \in RequestID : PurgeTenant(req)

Spec == Init /\ [][Next]_vars

-----------------------------------------------------------------------------
(* Safety. *)

\* Once bootstrapped, a tenant always has a subject that holds the three
\* controls at tenant scope on live roles, whatever sequence of revocations,
\* unassignments and retirements its administrators run (guardLastAdministrator).
LastAdministrator == bootstrapped => HasAdministrator

\* Delegation never runs in a circle: of two subjects, at most one was reached
\* from the other (AssignRole's HasGrantPath check; a subject assigning to
\* itself makes an edge the check ignores).
DelegationAcyclic ==
    \A x, y \in Subject :
        x # y => ~(y \in ReachIn(grantEdges, x) /\ x \in ReachIn(grantEdges, y))

\* "One edge exists per active normal assignment" (types.go:163): an edge
\* outlives neither its binding nor the other way round, through noop
\* assignments by a second grantor and unassignments by a third.
EdgePerAssignment ==
    \A a, s \in Subject, r \in RoleID :
        <<a, s, r>> \in grantEdges <=> subjectRoles[s][r] = a

\* The current version of a role has exactly one snapshot, holding the grants
\* the role has now: what an expected version names is what a caller gets.
CurrentSnapshot ==
    \A r \in RoleID :
        /\ \A w \in roleVersions[r] : w.version <= roles[r].version
        /\ roles[r].version > 0 =>
            \E w \in roleVersions[r] :
                /\ w.version = roles[r].version
                /\ w.grants = rolePerms[r] /\ w.deleted = roles[r].deleted
                /\ \A x \in roleVersions[r] : x.version = w.version => x = w

\* A retired role, or one that was never created, gives nothing to anybody.
RetiredRolesEmpty ==
    \A r \in RoleID : ~Live(r) => rolePerms[r] = {} /\ RoleSubjects(r) = {}

\* Delegation amplifies nothing: whatever request a grant of any role allows,
\* one of the grants the host gave the tenant at bootstrap allows it too,
\* however many actors and roles it was passed through (allowDelegation against
\* allowAccess, requireActorForGrant at each hop).
AuthorityFromBootstrap ==
    \A r \in RoleID : \A g \in rolePerms[r] :
        \E q \in RoleID : \E w \in roleVersions[q] :
            w.byHost /\ \E h \in w.grants : <<h, g>> \in AtLeast

\* A purged tenant has no roles, grants, bindings, edges and versions, and is
\* not bootstrapped again: the tombstone outlives every late call.
PurgedIsEmpty ==
    purged => /\ ~bootstrapped /\ grantEdges = {}
              /\ \A r \in RoleID : /\ roles[r] = NoRole /\ roleVersions[r] = {}
                                   /\ rolePerms[r] = {} /\ RoleSubjects(r) = {}

-----------------------------------------------------------------------------
(* What a step may never do. *)

\* What a grant that the step gives a subject allows, the subject's own grants
\* allowed before, or it came from the host, or a grant of the audited actor
\* allowed it.
AllowedBefore ==
    \A s \in Subject : \A g \in EffectiveGrants(s)' \ EffectiveGrants(s) :
        \/ lastEvent'.op = "tenant.bootstrap"
        \/ \E h \in EffectiveGrants(s) : <<h, g>> \in AtLeast
        \/ /\ lastEvent'.actor \in Subject
           /\ \E h \in EffectiveGrants(lastEvent'.actor) : <<h, g>> \in AtLeast

\* Nobody gains access that the audited actor of the step did not have, through
\* a grant to a role with members, an assignment or a new role.
NoEscalation == [][AllowedBefore]_vars

HistoryGrows ==
    ~purged' => \A r \in RoleID :
        /\ roleVersions[r] \subseteq roleVersions'[r]
        /\ roles[r].version <= roles'[r].version
        /\ roles[r].version > 0 /\ roles[r].deleted => roles'[r] = roles[r]

\* Snapshots are never rewritten and a retired identifier never comes back:
\* short of a purge, history only grows and versions never decrease.
HistoryImmutable == [][HistoryGrows]_vars

\* A change of the tenant's policy is in the tenant's own log as a success: a
\* refused call, a noop and a failed transaction leave no part of themselves.
AuditedChange ==
    [][~purged' /\ policy' # policy =>
            lastEvent'.log = "tenant" /\ lastEvent'.outcome = "success"]_vars

=============================================================================
