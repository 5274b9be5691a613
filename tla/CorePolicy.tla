----------------------------- MODULE CorePolicy -----------------------------
(***************************************************************************)
(* The standalone application's use of the policy kernel: how a tenant is  *)
(* created, who its members are, how they are invited, suspended and       *)
(* removed, and the guard that PolicyStore puts around every operation of  *)
(* Manager.  All of it but the creation runs in RunTenant or MutateTenant, *)
(* serializable transactions of one tenant, so those are single actions;   *)
(* what the code reads before it opens the transaction is an action of its *)
(* own.                                                                    *)
(*                                                                         *)
(* Left out: what accepting an invitation and provisioning do to accounts  *)
(* (Sessions), the reads of the HTTP layer that can only refuse a request  *)
(* its transaction checks again (RequireMembership before a handler,       *)
(* MemberStatus before bindRole), and the application's tenancy mode.      *)
(***************************************************************************)
EXTENDS PolicyKernel

CONSTANTS
    MemberManage,   \* iam:member:manage
    SysAdmin,       \* the accounts that are system administrators
    OwnerRole,      \* role_owner
    InvitationID,
    RoleInput       \* bound: the permission sets that create requests name

ASSUME MemberManageAssumption == MemberManage \in Permission
ASSUME SysAdminAssumption == SysAdmin \subseteq Subject
ASSUME OwnerRoleAssumption == OwnerRole \in RoleID
ASSUME RoleInputAssumption == RoleInput \subseteq SUBSET Permission

VARIABLES
    tenantState,   \* tenants.state, "none" before the row exists
    creation,      \* where createTenant is, its transaction at the server, and its actor
    members,       \* Subject -> tenant_memberships.status, or "none"
    invitations,   \* InvitationID -> state and invited account, "none" before
    previews,      \* invitations whose link somebody has opened
    passed         \* operators whose RequireMembership read has succeeded

hostVars == <<tenantState, creation, members, invitations, previews, passed>>
coreVars == <<vars, hostVars>>

MemberState == {"none", "active", "suspended"}
InvitationState == {"none", "open", "expired", "accepted", "revoked"}
Creation == [step: {"none", "bootstrap", "activate", "cleanup", "done"},
             flight: {"none", "bootstrap", "activate", "committed"},
             actor: Subject \cup {Host}]

CoreTypeOK ==
    /\ tenantState \in {"none", "pending", "active", "failed"}
    /\ creation \in Creation
    /\ members \in [Subject -> MemberState]
    /\ invitations \in [InvitationID -> [state: InvitationState, account: Subject \cup {Host}]]
    /\ previews \subseteq InvitationID
    /\ passed \subseteq SysAdmin

CoreInit ==
    /\ Init
    /\ tenantState = "none"
    /\ creation = [step |-> "none", flight |-> "none", actor |-> Host]
    /\ members = [s \in Subject |-> "none"]
    /\ invitations = [i \in InvitationID |-> [state |-> "none", account |-> Host]]
    /\ previews = {}
    /\ passed = {}

-----------------------------------------------------------------------------
(* What the transactions read. *)

AdministratorPermissions == Control \cup {MemberManage}

\* hasActiveAdministrator: an active member holds the four permissions at
\* tenant scope on live roles.
HasActiveAdministrator(excluded) ==
    \E s \in Subject \ excluded :
        members[s] = "active" /\ \A p \in AdministratorPermissions : RequireActor(s, p)

\* requireTenantPermission: an active member holding the permission.
RequireTenantPermission(a, p) == members[a] = "active" /\ RequireActor(a, p)

-----------------------------------------------------------------------------
(* createTenant: three transactions, and a clean-up when one seems to fail. *)

InsertTenant(a) ==
    /\ a \in SysAdmin /\ tenantState = "none"
    /\ tenantState' = "pending"
    /\ creation' = [step |-> "bootstrap", flight |-> "bootstrap", actor |-> a]
    /\ UNCHANGED <<vars, members, invitations, previews, passed>>

\* ownerGrants: every permission of the catalog at tenant scope.
OwnerGrants == {TenantGrant(p) : p \in Permission}

\* The server commits the bootstrap, whether or not its client still waits.
CommitBootstrap ==
    /\ creation.flight = "bootstrap"
    /\ BootstrapTenant(creation.actor, OwnerRole, OwnerGrants)
    /\ creation' = [creation EXCEPT !.flight = "committed"]
    /\ UNCHANGED <<tenantState, members, invitations, previews, passed>>

SendActivate ==
    /\ creation.step = "bootstrap" /\ creation.flight = "committed"
    /\ creation' = [creation EXCEPT !.step = "activate", !.flight = "activate"]
    /\ UNCHANGED <<vars, tenantState, members, invitations, previews, passed>>

\* The owner's membership and activate_tenant, which only moves a pending
\* tenant: both or neither.
CommitActivate ==
    /\ creation.flight = "activate"
    /\ members[creation.actor] = "none" /\ tenantState = "pending"
    /\ members' = [members EXCEPT ![creation.actor] = "active"]
    /\ tenantState' = "active"
    /\ creation' = [creation EXCEPT !.flight = "committed"]
    /\ UNCHANGED <<vars, invitations, previews, passed>>

FinishCreate ==
    /\ creation.step = "activate" /\ creation.flight = "committed"
    /\ creation' = [creation EXCEPT !.step = "done"]
    /\ UNCHANGED <<vars, tenantState, members, invitations, previews, passed>>

\* The server rolls the transaction back: an error, a refusal, a lost client.
AbortInFlight ==
    /\ creation.flight \in {"bootstrap", "activate"}
    /\ creation' = [creation EXCEPT !.flight = "none"]
    /\ UNCHANGED <<vars, tenantState, members, invitations, previews, passed>>

\* The client gives up (an error, a timeout or a lost connection), whatever
\* becomes of the transaction; a crash is a give-up whose clean-up fails.
GiveUp ==
    /\ creation.step \in {"bootstrap", "activate"}
    /\ creation' = [creation EXCEPT !.step = "cleanup"]
    /\ UNCHANGED <<vars, tenantState, members, invitations, previews, passed>>

\* fail_created_tenant only moves a pending tenant; it may fail itself.
FailCreatedTenant ==
    /\ creation.step = "cleanup"
    /\ creation' = [creation EXCEPT !.step = "done"]
    /\ \/ tenantState' = IF tenantState = "pending" THEN "failed" ELSE tenantState
       \/ UNCHANGED tenantState
    /\ UNCHANGED <<vars, members, invitations, previews, passed>>

CreateTenantStep ==
    \/ \E a \in Subject : InsertTenant(a)
    \/ CommitBootstrap \/ SendActivate \/ CommitActivate \/ FinishCreate
    \/ AbortInFlight \/ GiveUp \/ FailCreatedTenant

-----------------------------------------------------------------------------
(* Manager behind PolicyStore. *)

\* Mutants: the actor's membership is trusted to the middleware; the target's
\* membership is trusted to the handler.
PolicyGuardAnyActor(a, target, assign, r, v, grant) ==
    IF purged THEN "not_found"
    ELSE IF \E t \in target : members[t] = "none" \/ (assign /\ members[t] # "active") THEN "not_found"
    ELSE IF v > 0 /\ RoleError(r, v) # "none" THEN RoleError(r, v)
    ELSE IF grant /\ ~RequireActor(a, ManageGrants) THEN "forbidden" ELSE "none"

PolicyGuardAnyTarget(a, target, assign, r, v, grant) ==
    IF purged THEN "not_found"
    ELSE IF members[a] # "active" THEN "forbidden"
    ELSE IF v > 0 /\ RoleError(r, v) # "none" THEN RoleError(r, v)
    ELSE IF grant /\ ~RequireActor(a, ManageGrants) THEN "forbidden" ELSE "none"

\* policyGuard, first thing in the transaction: the actor is an active member;
\* the target, if there is one, is a member, and an active one if it is to get
\* a role; the role has the expected version, if one is given; and an actor
\* that changes grants holds the grant control.
PolicyGuard(a, target, assign, r, v, grant) ==
    IF purged THEN "not_found"
    ELSE IF members[a] # "active" THEN "forbidden"
    ELSE IF \E t \in target : members[t] = "none" \/ (assign /\ members[t] # "active") THEN "not_found"
    ELSE IF v > 0 /\ RoleError(r, v) # "none" THEN RoleError(r, v)
    ELSE IF grant /\ ~RequireActor(a, ManageGrants) THEN "forbidden" ELSE "none"

\* PolicyStore.MutateTenant: the guard, the kernel's operation, and an active
\* administrator at the end.  Where the last is missing the call ends as
\* StoreFails does, with a "failed" security event and no change.
Guarded(op, a, err, Operate) ==
    /\ UNCHANGED hostVars
    /\ \/ err # "none" /\ RecordDenied(op, a, err)
       \/ err = "none" /\ Operate /\ (UNCHANGED policy \/ HasActiveAdministrator({})')

\* The requests of the API.  createRole and changeGrant ask for the grant
\* control; bindRole names its target and the version, at least 1.
RoleRequest(a, r) ==
    \/ \E ps \in RoleInput :
        Guarded("role.create", a, PolicyGuard(a, {}, FALSE, r, 0, ps # {}), CreateRole(a, r, ps))
    \/ \E v \in Version :
        \/ Guarded("role.update", a, PolicyGuard(a, {}, FALSE, r, 0, FALSE), UpdateRole(a, r, v))
        \/ Guarded("role.delete", a, PolicyGuard(a, {}, FALSE, r, 0, FALSE), DeleteRole(a, r, v))
        \/ \E g \in Offered :
            \/ Guarded("grant.permission", a, PolicyGuard(a, {}, FALSE, r, 0, TRUE),
                       GrantPermission(a, r, g, v))
            \/ Guarded("revoke.permission", a, PolicyGuard(a, {}, FALSE, r, 0, TRUE),
                       RevokePermission(a, r, g, v))

BindRole(a, s, r, v) ==
    \/ Guarded("assign.role", a, PolicyGuard(a, {s}, TRUE, r, v, FALSE), AssignRole(a, s, r, v))
    \/ Guarded("unassign.role", a, PolicyGuard(a, {s}, FALSE, r, v, FALSE), UnassignRole(a, s, r, v))

-----------------------------------------------------------------------------
(* Members and invitations. *)

\* A fresh link for an account that is no member; an earlier link of the same
\* account that nobody accepted is revoked, expired or not.
CreateInvitation(a, i, s) ==
    /\ invitations[i].state = "none"
    /\ RequireTenantPermission(a, MemberManage) /\ members[s] = "none"
    /\ invitations' = [j \in InvitationID |->
            IF j = i THEN [state |-> "open", account |-> s]
            ELSE IF invitations[j].account = s /\ invitations[j].state \in {"open", "expired"}
                 THEN [invitations[j] EXCEPT !.state = "revoked"] ELSE invitations[j]]
    /\ Committed("invitation.create", a, "success")
    /\ UNCHANGED <<policy, purged, purgeLedger, tenantState, creation, members, previews, passed>>

RevokeInvitation(a, i) ==
    /\ RequireTenantPermission(a, MemberManage)
    /\ invitations[i].state \notin {"none", "accepted"}
    /\ invitations' = [invitations EXCEPT ![i].state = "revoked"]
    /\ Committed("invitation.revoke", a, IF invitations[i].state = "revoked" THEN "noop" ELSE "success")
    /\ UNCHANGED <<policy, purged, purgeLedger, tenantState, creation, members, previews, passed>>

InvitationExpires(i) ==
    /\ invitations[i].state = "open"
    /\ invitations' = [invitations EXCEPT ![i].state = "expired"]
    /\ UNCHANGED <<vars, tenantState, creation, members, previews, passed>>

\* inspect_invitation: the link is good now.
PreviewInvitation(i) ==
    /\ invitations[i].state = "open" /\ tenantState = "active"
    /\ previews' = previews \cup {i}
    /\ UNCHANGED <<vars, tenantState, creation, members, invitations, passed>>

\* Mutants: the preview is trusted; an upsert of the membership.
AcceptInvitationPreviewed(i) ==
    LET s == invitations[i].account
    IN  /\ i \in previews /\ members[s] # "suspended"
        /\ members' = [members EXCEPT ![s] = "active"]
        /\ invitations' = [invitations EXCEPT ![i].state = "accepted"]
        /\ Committed("invitation.accept", s, "success")
        /\ UNCHANGED <<policy, purged, purgeLedger, tenantState, creation, previews, passed>>

AcceptInvitationUpsert(i) ==
    LET s == invitations[i].account
    IN  /\ i \in previews /\ invitations[i].state = "open"
        /\ members' = [members EXCEPT ![s] = "active"]
        /\ invitations' = [invitations EXCEPT ![i].state = "accepted"]
        /\ Committed("invitation.accept", s, "success")
        /\ UNCHANGED <<policy, purged, purgeLedger, tenantState, creation, previews, passed>>

\* After the preview, in the transaction: the link is still good, and the
\* account is not a suspended member; an active one stays as it is.
AcceptInvitation(i) ==
    LET s == invitations[i].account
    IN  /\ i \in previews /\ invitations[i].state = "open"
        /\ members[s] # "suspended"
        /\ members' = [members EXCEPT ![s] = "active"]
        /\ invitations' = [invitations EXCEPT ![i].state = "accepted"]
        /\ Committed("invitation.accept", s, "success")
        /\ UNCHANGED <<policy, purged, purgeLedger, tenantState, creation, previews, passed>>

\* Mutant: the member to be suspended counts as an administrator.
SetMemberStatusIncluding(a, s, status) ==
    /\ RequireTenantPermission(a, MemberManage) /\ members[s] # "none"
    /\ status = "suspended" => HasActiveAdministrator({})
    /\ members' = [members EXCEPT ![s] = status]
    /\ Committed(IF status = "suspended" THEN "member.suspend" ELSE "member.resume", a,
                 IF members[s] = status THEN "noop" ELSE "success")
    /\ UNCHANGED <<policy, purged, purgeLedger, tenantState, creation, invitations, previews, passed>>

\* Suspend and resume.  Another active administrator must exist before a
\* member is suspended, whether or not the member is one.
SetMemberStatus(a, s, status) ==
    /\ RequireTenantPermission(a, MemberManage) /\ members[s] # "none"
    /\ status = "suspended" => HasActiveAdministrator({s})
    /\ members' = [members EXCEPT ![s] = status]
    /\ Committed(IF status = "suspended" THEN "member.suspend" ELSE "member.resume", a,
                 IF members[s] = status THEN "noop" ELSE "success")
    /\ UNCHANGED <<policy, purged, purgeLedger, tenantState, creation, invitations, previews, passed>>

\* Mutant: the edges the member made go, not the ones made to it.
RemoveMemberGrantor(a, s) ==
    /\ RequireTenantPermission(a, MemberManage) /\ members[s] # "none"
    /\ HasActiveAdministrator({s})
    /\ grantEdges' = {e \in grantEdges : e[1] # s}
    /\ subjectRoles' = [subjectRoles EXCEPT ![s] = [r \in RoleID |-> Absent]]
    /\ members' = [members EXCEPT ![s] = "none"]
    /\ Committed("member.remove", a, "success")
    /\ UNCHANGED <<roles, rolePerms, roleVersions, bootstrapped, purged, purgeLedger,
                   tenantState, creation, invitations, previews, passed>>

\* Removal takes the bindings of the member and the edges made to it; the
\* bindings it gave to others stay.
RemoveMember(a, s) ==
    /\ RequireTenantPermission(a, MemberManage) /\ members[s] # "none"
    /\ HasActiveAdministrator({s})
    /\ grantEdges' = {e \in grantEdges : e[2] # s}
    /\ subjectRoles' = [subjectRoles EXCEPT ![s] = [r \in RoleID |-> Absent]]
    /\ members' = [members EXCEPT ![s] = "none"]
    /\ Committed("member.remove", a, "success")
    /\ UNCHANGED <<roles, rolePerms, roleVersions, bootstrapped, purged, purgeLedger,
                   tenantState, creation, invitations, previews, passed>>

\* ProvisionMember reads the operator's membership in a transaction of its own
\* and then makes the account an active member, suspended or not.
RequireMembership(o) ==
    /\ o \in SysAdmin /\ members[o] = "active"
    /\ passed' = passed \cup {o}
    /\ UNCHANGED <<vars, tenantState, creation, members, invitations, previews>>

ProvisionMember(o, s) ==
    /\ o \in passed /\ s \notin SysAdmin
    /\ members' = [members EXCEPT ![s] = "active"]
    /\ passed' = passed \ {o}
    /\ UNCHANGED <<vars, tenantState, creation, invitations, previews>>

MemberRequest(a) ==
    \/ \E i \in InvitationID : RevokeInvitation(a, i) \/ \E s \in Subject : CreateInvitation(a, i, s)
    \/ \E s \in Subject : RemoveMember(a, s) \/ \E status \in {"active", "suspended"} : SetMemberStatus(a, s, status)

-----------------------------------------------------------------------------
CoreNext ==
    \/ CreateTenantStep
    \/ \E a \in Subject : \E r \in RoleID :
        RoleRequest(a, r) \/ \E s \in Subject, v \in Version : BindRole(a, s, r, v)
    \/ \E a \in Subject : MemberRequest(a)
    \/ \E i \in InvitationID : InvitationExpires(i) \/ PreviewInvitation(i) \/ AcceptInvitation(i)
    \/ \E o \in Subject : RequireMembership(o) \/ \E s \in Subject : ProvisionMember(o, s)
    \/ \E a \in Subject, op \in Operation \ {"none", "tenant.bootstrap"} :
        StoreFails(op, a) /\ UNCHANGED hostVars
    \/ \E req \in RequestID : PurgeTenant(req) /\ UNCHANGED hostVars

CoreSpec == CoreInit /\ [][CoreNext]_coreVars

-----------------------------------------------------------------------------
(* Safety. *)

\* A tenant that is in use, because it is active or because somebody belongs
\* to it, is active and has an active member with the four administrator
\* permissions: neither the kernel's mutations, nor suspension and removal, nor
\* a creation whose transactions commit after it was given up lose the last
\* one or leave members in a failed tenant (hasActiveAdministrator in
\* PolicyStore and ManageMember, failCreatedTenant).
ActiveAdministrator ==
    ~purged /\ (tenantState = "active" \/ \E s \in Subject : members[s] # "none")
        => tenantState = "active" /\ HasActiveAdministrator({})

\* Whoever is bound to a role of an active tenant is a member: a removal
\* between the handler's look at the target and the kernel's transaction does
\* not leave authority with an outsider (policyGuard.Target).
BindingsOfMembers ==
    tenantState = "active" =>
        \A s \in Subject, r \in RoleID : subjectRoles[s][r] # Absent => members[s] # "none"

\* An accepted or revoked link is final: it is accepted at most once, and a
\* link revoked after somebody opened it admits nobody (AcceptInvitation).
InvitationFinal ==
    [][\A i \in InvitationID :
        invitations[i].state \in {"accepted", "revoked"} => invitations'[i] = invitations[i]]_coreVars

\* An invitation never lifts a suspension, even one that was open before the
\* account became a member by other means (AcceptInvitation).
SuspensionOutlivesInvitation ==
    [][\A s \in Subject :
        members[s] = "suspended" /\ members'[s] = "active" => invitations' = invitations]_coreVars

\* Short of bootstrap and purge, only an active member changes the policy of
\* the tenant, bindings lost by a removal included: a member that is suspended
\* or removed while its request is under way changes nothing
\* (policyGuard.Actor, requireTenantPermission).
ChangedByActiveMember ==
    [][policy' # policy /\ ~purged' /\ lastEvent'.op # "tenant.bootstrap"
       => lastEvent'.log = "tenant" /\ members[lastEvent'.actor] = "active"]_coreVars
=============================================================================
