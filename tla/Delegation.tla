----------------------------- MODULE Delegation -----------------------------
(***************************************************************************)
(* The fixed scope contract of the authorization kernel: what a scoped     *)
(* grant lets its holder do (allowAccess) and what it lets its holder pass *)
(* on (allowDelegation).  Pure operators, no state.                        *)
(*                                                                         *)
(* Workspace role names are matched two ways in the code: byte for byte    *)
(* when authority is passed on (coversWorkspaceRoles), and with            *)
(* strings.EqualFold after trimming when access is decided                 *)
(* (workspaceRoleMatch).  Canonical[n] is the trimmed, case-folded form of *)
(* the name n, so two names match with EqualFold when their canonical      *)
(* forms are equal.                                                        *)
(***************************************************************************)
EXTENDS Naturals

CONSTANTS
    Permission,     \* the keys of the application's permission catalog
    WorkspaceRole,  \* the workspace role names that grants and members carry
    Canonical       \* a function: the case-folded form of each name

\* Every name has a canonical form.
ASSUME CanonicalAssumption == DOMAIN Canonical = WorkspaceRole

Scope == {"own", "workspace", "tenant"}

\* A scoped grant.  WorkspaceRoles is normalised (trimmed, no duplicates,
\* sorted) before it is stored, so a set represents it; {} is "no constraint".
Grant == [permission: Permission, scope: Scope,
          workspaceRoles: SUBSET WorkspaceRole]

TenantGrant(p) == [permission |-> p, scope |-> "tenant", workspaceRoles |-> {}]

-----------------------------------------------------------------------------
(* Passing authority on. *)

\* Mutant: the empty target is taken for the smallest list, not the largest.
CoversWorkspaceRolesSubset(actorRoles, targetRoles) ==
    actorRoles = {} \/ targetRoles \subseteq actorRoles

\* An unconstrained list covers any target; a constrained one covers only the
\* non-empty sublists of itself.
CoversWorkspaceRoles(actorRoles, targetRoles) ==
    \/ actorRoles = {}
    \/ targetRoles # {} /\ targetRoles \subseteq actorRoles

\* grant lets its holder pass target on; with exact, only at the same scope.
AllowDelegation(target, exact, grant) ==
    /\ target.permission = grant.permission
    /\ \/ grant.scope = target.scope
       \/ ~exact /\ grant.scope = "tenant"
    /\ grant.scope = "workspace" =>
           CoversWorkspaceRoles(grant.workspaceRoles, target.workspaceRoles)

Covers(grant, target) == AllowDelegation(target, FALSE, grant)

-----------------------------------------------------------------------------
(* Deciding access.  A request names the permission it needs and whether   *)
(* the resource is the principal's own, whether it names no tenant or the  *)
(* principal's, whether it is in a workspace, and the principal's          *)
(* membership there: the set holding its role, empty for no member.        *)
(* Members' roles come from the host in any spelling; the roles of stored  *)
(* grants are lower case in the code and any name here.                    *)

ResourceMode == {"existing", "create", "tenant_action"}

Request == [permission: Permission, mode: ResourceMode, sameTenant: BOOLEAN,
            own: BOOLEAN, inWorkspace: BOOLEAN,
            membership: {{}} \cup {{n} : n \in WorkspaceRole}]

\* The member's role is one of the allowed names, case folded; an empty list
\* allows every member.
WorkspaceRoleMatch(role, allowed) ==
    \/ allowed = {}
    \/ \E n \in allowed : Canonical[n] = Canonical[role]

AllowAccess(request, grant) ==
    /\ request.permission = grant.permission
    /\ request.sameTenant
    /\ \/ grant.scope = "tenant"
       \/ /\ request.mode # "tenant_action"
          /\ \/ grant.scope = "own" /\ request.own
             \/ /\ grant.scope = "workspace"
                /\ request.inWorkspace
                /\ \E role \in request.membership :
                      WorkspaceRoleMatch(role, grant.workspaceRoles)

\* The pairs <<h, g>> where h allows every request that g allows.
AtLeast ==
    {p \in Grant \X Grant :
        \A request \in Request : AllowAccess(request, p[2]) => AllowAccess(request, p[1])}
=============================================================================
