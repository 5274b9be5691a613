-------------------------- MODULE CorePolicyProofs --------------------------
(***************************************************************************)
(* An organization in use keeps an active administrator and gives authority*)
(* to members only, whoever creates it, fails to, joins, leaves or changes *)
(* its policy: the kernel's invariant, carried through the steps of the    *)
(* application.                                                            *)
(***************************************************************************)
EXTENDS CorePolicy, PolicyKernelProofs

-----------------------------------------------------------------------------
(* The inductive invariant. *)

\* How far the creation of the tenant has come.  Nobody belongs to a tenant
\* that is not active; nothing is in flight for one that is.
CreationOK ==
    /\ tenantState = "none" => creation.flight = "none" /\ creation.step = "none" /\ ~bootstrapped
    /\ tenantState # "none" => creation.actor \in Subject
    /\ tenantState = "active" => creation.flight = "committed" /\ creation.step # "bootstrap"
    /\ tenantState # "active" => (\A s \in Subject : members[s] = "none") /\ previews = {} /\ passed = {}
    /\ creation.flight = "activate" => creation.step # "bootstrap"
    /\ creation.flight \in {"activate", "committed"} => bootstrapped \/ purged

\* Before the tenant is active, its policy is what the bootstrap made of it.
OwnerOK ==
    tenantState # "active" =>
        /\ bootstrapped => /\ Live(OwnerRole) /\ rolePerms[OwnerRole] = OwnerGrants
                           /\ subjectRoles[creation.actor][OwnerRole] # Absent
        /\ \A s \in Subject, r \in RoleID :
              subjectRoles[s][r] # Absent => bootstrapped /\ s = creation.actor

CoreInv == IInv /\ CoreTypeOK /\ CreationOK /\ OwnerOK /\ BindingsOfMembers /\ ActiveAdministrator

-----------------------------------------------------------------------------
(* What the steps have in common. *)

\* Who passes a check depends on roles, grants and bindings only.
LEMMA SameActors ==
  ASSUME UNCHANGED policy
  PROVE  \A s, p : RequireActor(s, p)' <=> RequireActor(s, p)
  BY DEF policy, RequireActor, EffectiveGrants, EffectiveIn, Live

\* An administrator who is still an active member, with the roles it had, is
\* one in the next state.
LEMMA AdministratorStays ==
  ASSUME NEW S, HasActiveAdministrator(S), UNCHANGED <<roles, rolePerms>>,
         \A s \in Subject \ S : members[s] = "active" =>
            members'[s] = "active" /\ subjectRoles'[s] = subjectRoles[s]
  PROVE  HasActiveAdministrator({})'
  <1>1. PICK s \in Subject \ S :
          members[s] = "active" /\ \A p \in AdministratorPermissions : RequireActor(s, p)
    BY DEF HasActiveAdministrator
  <1>2. members'[s] = "active" /\ subjectRoles'[s] = subjectRoles[s] BY <1>1
  <1>3. EffectiveGrants(s)' = EffectiveGrants(s) BY <1>2 DEF EffectiveGrants, EffectiveIn, Live
  <1>4. \A p \in AdministratorPermissions : RequireActor(s, p)' BY <1>1, <1>3 DEF RequireActor
  <1> QED BY <1>1, <1>2, <1>4 DEF HasActiveAdministrator

\* The owner of a bootstrapped tenant has every permission of the catalog.
LEMMA OwnerAdministers ==
  ASSUME NEW s \in Subject, Live(OwnerRole), rolePerms[OwnerRole] = OwnerGrants,
         subjectRoles[s][OwnerRole] # Absent
  PROVE  \A p \in AdministratorPermissions : RequireActor(s, p)
  <1> SUFFICES ASSUME NEW p \in AdministratorPermissions PROVE RequireActor(s, p) OBVIOUS
  <1>1. p \in Permission BY MemberManageAssumption, ControlsAssumption DEF AdministratorPermissions, Control
  <1>2. TenantGrant(p) \in OwnerGrants BY <1>1 DEF OwnerGrants
  <1>3. TenantGrant(p) \in EffectiveGrants(s) BY <1>2, OwnerRoleAssumption DEF EffectiveGrants, EffectiveIn
  <1> QED BY <1>3 DEF RequireActor, AllowDelegation, TenantGrant

\* An active member is one of an active tenant.
LEMMA MembersOfActive ==
  ASSUME CreationOK, NEW s \in Subject, members[s] # "none"
  PROVE  tenantState = "active"
  BY DEF CreationOK

\* A committed operation of the application leaves the kernel's invariant.
LEMMA HostEvent ==
  ASSUME IInv, UNCHANGED <<policy, purged, purgeLedger>>,
         NEW op \in Logged, NEW a \in Subject \cup {Host}, NEW o \in {"success", "noop"}, Committed(op, a, o)
  PROVE  IInv'
  BY CommittedEvent, UnchangedPolicy

\* A step of the application that leaves the kernel alone keeps its invariant.
LEMMA KernelAlone == ASSUME IInv, UNCHANGED vars PROVE IInv'
  <1>1. lastEvent' \in Event BY DEF vars, IInv, TypeOK
  <1> QED BY <1>1, UnchangedPolicy DEF vars

\* The steps that change neither policy nor tenant nor creation: no
\* administrator leaves, and who becomes a member does so in an active tenant.
LEMMA MembersStep ==
  ASSUME CoreInv, IInv', CoreTypeOK', UNCHANGED <<policy, purged, tenantState, creation>>,
         tenantState # "active" => UNCHANGED <<members, previews, passed>>,
         \A s \in Subject : members[s] # "none" => members'[s] # "none",
         ~purged /\ tenantState = "active" => HasActiveAdministrator({})'
  PROVE  CoreInv'
  <1> USE DEF CoreInv, policy
  <1>1. CreationOK' BY DEF CreationOK
  <1>2. OwnerOK' BY DEF OwnerOK, Live
  <1>3. BindingsOfMembers' BY DEF BindingsOfMembers
  <1>4. ActiveAdministrator' BY DEF ActiveAdministrator, CreationOK
  <1> QED BY <1>1, <1>2, <1>3, <1>4

\* The same where no member's status changes.
LEMMA SameMembers ==
  ASSUME CoreInv, IInv', CoreTypeOK', UNCHANGED <<policy, purged, tenantState, creation, members>>,
         tenantState # "active" => UNCHANGED <<previews, passed>>
  PROVE  CoreInv'
  <1>1. ~purged /\ tenantState = "active" => HasActiveAdministrator({})'
    BY AdministratorStays DEF CoreInv, ActiveAdministrator, policy
  <1> QED BY <1>1, MembersStep

-----------------------------------------------------------------------------
(* Manager behind PolicyStore. *)

\* A request that passed the guard, of an active member, keeps an active
\* administrator and binds members only.
LEMMA GuardedKept ==
  ASSUME CoreInv, IInv', UNCHANGED hostVars, UNCHANGED purged,
         \/ UNCHANGED policy
         \/ /\ \E a \in Subject : members[a] = "active"
            /\ HasActiveAdministrator({})'
            /\ \A s \in Subject, r \in RoleID :
                  subjectRoles'[s][r] # Absent => subjectRoles[s][r] # Absent \/ members[s] # "none"
            /\ bootstrapped' = bootstrapped
  PROVE  CoreInv'
  <1>1. CoreTypeOK' BY DEF CoreInv, CoreTypeOK, hostVars
  <1>2. CASE UNCHANGED policy BY <1>1, <1>2, SameMembers DEF hostVars
  <1>3. CASE /\ \E a \in Subject : members[a] = "active"
             /\ HasActiveAdministrator({})'
             /\ \A s \in Subject, r \in RoleID :
                  subjectRoles'[s][r] # Absent => subjectRoles[s][r] # Absent \/ members[s] # "none"
             /\ bootstrapped' = bootstrapped
    <2>1. tenantState = "active" /\ tenantState' = "active"
      BY <1>3, MembersOfActive DEF CoreInv, hostVars
    <2>2. CreationOK' BY <1>3, <2>1 DEF CoreInv, CreationOK, hostVars
    <2>3. OwnerOK' BY <2>1 DEF OwnerOK
    <2>4. BindingsOfMembers' BY <1>3, <2>1 DEF CoreInv, BindingsOfMembers, hostVars
    <2>5. ActiveAdministrator' BY <1>3, <2>1 DEF ActiveAdministrator
    <2> QED BY <1>1, <2>2, <2>3, <2>4, <2>5 DEF CoreInv
  <1> QED BY <1>2, <1>3

\* The guard refuses an actor that is not an active member, and a target that
\* is none when it is to get a role.
LEMMA GuardPassed ==
  ASSUME NEW a, NEW target, NEW assign, NEW r, NEW v, NEW grant,
         PolicyGuard(a, target, assign, r, v, grant) = "none"
  PROVE  /\ ~purged /\ members[a] = "active"
         /\ assign => \A t \in target : members[t] = "active"
  BY DEF PolicyGuard

\* A refused request leaves the kernel's invariant.
LEMMA GuardRefused ==
  ASSUME CoreInv, NEW op \in Logged, NEW a \in Subject, NEW err, RecordDenied(op, a, err), UNCHANGED hostVars
  PROVE  CoreInv'
  <1>1. UNCHANGED <<policy, purged, purgeLedger>> /\ lastEvent' \in Event
    BY DeniedEvent DEF CoreInv, IInv
  <1>2. IInv' BY <1>1, UnchangedPolicy DEF CoreInv
  <1> QED BY <1>1, <1>2, GuardedKept

\* The guarded requests on roles are steps of the kernel and leave the bindings
\* of an active administrator.
LEMMA RoleRequestInv ==
  ASSUME CoreInv, NEW a \in Subject, NEW r \in RoleID, RoleRequest(a, r)
  PROVE  CoreInv'
  <1> USE DEF CoreInv
  <1>1. ASSUME NEW ps \in RoleInput,
               Guarded("role.create", a, PolicyGuard(a, {}, FALSE, r, 0, ps # {}), CreateRole(a, r, ps))
        PROVE  CoreInv'
    <2>1. CASE PolicyGuard(a, {}, FALSE, r, 0, ps # {}) # "none"
      BY <1>1, <2>1, GuardRefused DEF Guarded, Logged, Operation
    <2>2. CASE PolicyGuard(a, {}, FALSE, r, 0, ps # {}) = "none"
      <3>1. CreateRole(a, r, ps) /\ (UNCHANGED policy \/ HasActiveAdministrator({})') /\ UNCHANGED hostVars
        BY <1>1, <2>2 DEF Guarded
      <3>2. members[a] = "active" BY <2>2, GuardPassed
      <3>3. IInv' BY <3>1, CreateRoleStep, RoleInputAssumption
      <3>4. UNCHANGED <<subjectRoles, bootstrapped, purged>>
        BY <3>1 DEF CreateRole, RecordDenied, policy
      <3> QED BY <3>1, <3>2, <3>3, <3>4, GuardedKept
    <2> QED BY <2>1, <2>2
  <1>2. ASSUME NEW v \in Version,
               Guarded("role.update", a, PolicyGuard(a, {}, FALSE, r, 0, FALSE), UpdateRole(a, r, v))
        PROVE  CoreInv'
    <2>1. CASE PolicyGuard(a, {}, FALSE, r, 0, FALSE) # "none"
      BY <1>2, <2>1, GuardRefused DEF Guarded, Logged, Operation
    <2>2. CASE PolicyGuard(a, {}, FALSE, r, 0, FALSE) = "none"
      <3>1. UpdateRole(a, r, v) /\ (UNCHANGED policy \/ HasActiveAdministrator({})') /\ UNCHANGED hostVars
        BY <1>2, <2>2 DEF Guarded
      <3>2. members[a] = "active" BY <2>2, GuardPassed
      <3>3. IInv' BY <3>1, UpdateRoleStep
      <3>4. UNCHANGED <<subjectRoles, bootstrapped, purged>>
        BY <3>1 DEF UpdateRole, RecordDenied, policy
      <3> QED BY <3>1, <3>2, <3>3, <3>4, GuardedKept
    <2> QED BY <2>1, <2>2
  <1>3. ASSUME NEW v \in Version,
               Guarded("role.delete", a, PolicyGuard(a, {}, FALSE, r, 0, FALSE), DeleteRole(a, r, v))
        PROVE  CoreInv'
    <2>1. CASE PolicyGuard(a, {}, FALSE, r, 0, FALSE) # "none"
      BY <1>3, <2>1, GuardRefused DEF Guarded, Logged, Operation
    <2>2. CASE PolicyGuard(a, {}, FALSE, r, 0, FALSE) = "none"
      <3>1. DeleteRole(a, r, v) /\ (UNCHANGED policy \/ HasActiveAdministrator({})') /\ UNCHANGED hostVars
        BY <1>3, <2>2 DEF Guarded
      <3>2. members[a] = "active" BY <2>2, GuardPassed
      <3>3. IInv' BY <3>1, DeleteRoleStep
      <3>4. UNCHANGED <<subjectRoles, bootstrapped, purged>>
        BY <3>1 DEF DeleteRole, RecordDenied, policy
      <3> QED BY <3>1, <3>2, <3>3, <3>4, GuardedKept
    <2> QED BY <2>1, <2>2
  <1>4. ASSUME NEW v \in Version, NEW g \in Offered,
               Guarded("grant.permission", a, PolicyGuard(a, {}, FALSE, r, 0, TRUE), GrantPermission(a, r, g, v))
        PROVE  CoreInv'
    <2>1. CASE PolicyGuard(a, {}, FALSE, r, 0, TRUE) # "none"
      BY <1>4, <2>1, GuardRefused DEF Guarded, Logged, Operation
    <2>2. CASE PolicyGuard(a, {}, FALSE, r, 0, TRUE) = "none"
      <3>1. GrantPermission(a, r, g, v) /\ (UNCHANGED policy \/ HasActiveAdministrator({})') /\ UNCHANGED hostVars
        BY <1>4, <2>2 DEF Guarded
      <3>2. members[a] = "active" BY <2>2, GuardPassed
      <3>3. IInv' BY <3>1, GrantPermissionStep, OfferedAssumption
      <3>4. UNCHANGED <<subjectRoles, bootstrapped, purged>>
        BY <3>1 DEF GrantPermission, RecordDenied, policy
      <3> QED BY <3>1, <3>2, <3>3, <3>4, GuardedKept
    <2> QED BY <2>1, <2>2
  <1>5. ASSUME NEW v \in Version, NEW g \in Offered,
               Guarded("revoke.permission", a, PolicyGuard(a, {}, FALSE, r, 0, TRUE), RevokePermission(a, r, g, v))
        PROVE  CoreInv'
    <2>1. CASE PolicyGuard(a, {}, FALSE, r, 0, TRUE) # "none"
      BY <1>5, <2>1, GuardRefused DEF Guarded, Logged, Operation
    <2>2. CASE PolicyGuard(a, {}, FALSE, r, 0, TRUE) = "none"
      <3>1. RevokePermission(a, r, g, v) /\ (UNCHANGED policy \/ HasActiveAdministrator({})') /\ UNCHANGED hostVars
        BY <1>5, <2>2 DEF Guarded
      <3>2. members[a] = "active" BY <2>2, GuardPassed
      <3>3. IInv' BY <3>1, RevokePermissionStep, OfferedAssumption
      <3>4. UNCHANGED <<subjectRoles, bootstrapped, purged>>
        BY <3>1 DEF RevokePermission, RecordDenied, policy
      <3> QED BY <3>1, <3>2, <3>3, <3>4, GuardedKept
    <2> QED BY <2>1, <2>2
  <1> QED BY <1>1, <1>2, <1>3, <1>4, <1>5 DEF RoleRequest

\* Only an active member gets a role.
LEMMA BindRoleInv ==
  ASSUME CoreInv, NEW a \in Subject, NEW s \in Subject, NEW r \in RoleID, NEW v \in Version, BindRole(a, s, r, v)
  PROVE  CoreInv'
  <1> USE DEF CoreInv
  <1>1. CASE Guarded("assign.role", a, PolicyGuard(a, {s}, TRUE, r, v, FALSE), AssignRole(a, s, r, v))
    <2>1. CASE PolicyGuard(a, {s}, TRUE, r, v, FALSE) # "none"
      BY <1>1, <2>1, GuardRefused DEF Guarded, Logged, Operation
    <2>2. CASE PolicyGuard(a, {s}, TRUE, r, v, FALSE) = "none"
      <3>1. AssignRole(a, s, r, v) /\ (UNCHANGED policy \/ HasActiveAdministrator({})') /\ UNCHANGED hostVars
        BY <1>1, <2>2 DEF Guarded
      <3>2. members[a] = "active" /\ members[s] = "active" BY <2>2, GuardPassed
      <3>3. IInv' BY <3>1, AssignRoleStep
      <3>4. UNCHANGED <<bootstrapped, purged>> BY <3>1 DEF AssignRole, RecordDenied, policy
      <3>5. subjectRoles' = subjectRoles \/ subjectRoles' = [subjectRoles EXCEPT ![s][r] = a]
        BY <3>1 DEF AssignRole, RecordDenied, policy
      <3>6. \A t \in Subject, q \in RoleID :
              subjectRoles'[t][q] # Absent => subjectRoles[t][q] # Absent \/ members[t] # "none"
        BY <3>2, <3>5 DEF IInv, TypeOK
      <3> QED BY <3>1, <3>2, <3>3, <3>4, <3>6, GuardedKept
    <2> QED BY <2>1, <2>2
  <1>2. CASE Guarded("unassign.role", a, PolicyGuard(a, {s}, FALSE, r, v, FALSE), UnassignRole(a, s, r, v))
    <2>1. CASE PolicyGuard(a, {s}, FALSE, r, v, FALSE) # "none"
      BY <1>2, <2>1, GuardRefused DEF Guarded, Logged, Operation
    <2>2. CASE PolicyGuard(a, {s}, FALSE, r, v, FALSE) = "none"
      <3>1. UnassignRole(a, s, r, v) /\ (UNCHANGED policy \/ HasActiveAdministrator({})') /\ UNCHANGED hostVars
        BY <1>2, <2>2 DEF Guarded
      <3>2. members[a] = "active" BY <2>2, GuardPassed
      <3>3. IInv' BY <3>1, UnassignRoleStep
      <3>4. UNCHANGED <<bootstrapped, purged>> BY <3>1 DEF UnassignRole, RecordDenied, policy
      <3>5. subjectRoles' = subjectRoles \/ subjectRoles' = [subjectRoles EXCEPT ![s][r] = Absent]
        BY <3>1 DEF UnassignRole, RecordDenied, policy
      <3>6. \A t \in Subject, q \in RoleID :
              subjectRoles'[t][q] # Absent => subjectRoles[t][q] # Absent \/ members[t] # "none"
        BY <3>5 DEF IInv, TypeOK
      <3> QED BY <3>1, <3>2, <3>3, <3>4, <3>6, GuardedKept
    <2> QED BY <2>1, <2>2
  <1> QED BY <1>1, <1>2 DEF BindRole

-----------------------------------------------------------------------------
(* Members and invitations. *)

\* A new invitation binds nobody.
LEMMA CreateInvitationInv ==
  ASSUME CoreInv, NEW a \in Subject, NEW i \in InvitationID, NEW s \in Subject, CreateInvitation(a, i, s)
  PROVE  CoreInv'
  <1>1. IInv' BY HostEvent DEF CreateInvitation, CoreInv, Logged
  <1>2. CoreTypeOK'
    <2>1. invitations' \in [InvitationID -> [state: InvitationState, account: Subject \cup {Host}]]
      BY DEF CreateInvitation, CoreInv, CoreTypeOK, InvitationState
    <2> QED BY <2>1 DEF CreateInvitation, CoreInv, CoreTypeOK
  <1> QED BY <1>1, <1>2, SameMembers DEF CreateInvitation

\* Revoking an invitation binds nobody and suspends nobody.
LEMMA RevokeInvitationInv ==
  ASSUME CoreInv, NEW a \in Subject, NEW i \in InvitationID, RevokeInvitation(a, i)
  PROVE  CoreInv'
  <1>1. IInv' BY HostEvent DEF RevokeInvitation, CoreInv, Logged
  <1>2. CoreTypeOK'
    <2>1. invitations' \in [InvitationID -> [state: InvitationState, account: Subject \cup {Host}]]
      BY DEF RevokeInvitation, CoreInv, CoreTypeOK, InvitationState
    <2> QED BY <2>1 DEF RevokeInvitation, CoreInv, CoreTypeOK
  <1> QED BY <1>1, <1>2, SameMembers DEF RevokeInvitation

\* An invitation that expires binds nobody.
LEMMA InvitationExpiresInv ==
  ASSUME CoreInv, NEW i \in InvitationID, InvitationExpires(i)
  PROVE  CoreInv'
  <1>1. IInv' BY KernelAlone DEF InvitationExpires, CoreInv
  <1>2. CoreTypeOK'
    <2>1. invitations' \in [InvitationID -> [state: InvitationState, account: Subject \cup {Host}]]
      BY DEF InvitationExpires, CoreInv, CoreTypeOK, InvitationState
    <2> QED BY <2>1 DEF InvitationExpires, CoreInv, CoreTypeOK
  <1> QED BY <1>1, <1>2, SameMembers DEF InvitationExpires, vars

\* A preview of an invitation changes no tenant, member or role.
LEMMA PreviewInvitationInv ==
  ASSUME CoreInv, NEW i \in InvitationID, PreviewInvitation(i)
  PROVE  CoreInv'
  <1>1. IInv' BY KernelAlone DEF PreviewInvitation, CoreInv
  <1>2. CoreTypeOK' BY DEF PreviewInvitation, CoreInv, CoreTypeOK
  <1> QED BY <1>1, <1>2, SameMembers DEF PreviewInvitation, vars

\* A link was opened while the tenant was active.
LEMMA AcceptInvitationInv ==
  ASSUME CoreInv, NEW i \in InvitationID, AcceptInvitation(i)
  PROVE  CoreInv'
  <1> DEFINE s == invitations[i].account
  <1>1. s \in Subject \cup {Host} BY DEF CoreInv, CoreTypeOK
  <1>2. IInv' BY <1>1, HostEvent DEF AcceptInvitation, CoreInv, Logged
  <1>3. tenantState = "active" BY DEF AcceptInvitation, CoreInv, CreationOK
  <1>4. CoreTypeOK'
    <2>1. invitations' \in [InvitationID -> [state: InvitationState, account: Subject \cup {Host}]]
      BY DEF AcceptInvitation, CoreInv, CoreTypeOK, InvitationState
    <2>2. members' \in [Subject -> MemberState] BY DEF AcceptInvitation, CoreInv, CoreTypeOK, MemberState
    <2> QED BY <2>1, <2>2 DEF AcceptInvitation, CoreInv, CoreTypeOK
  <1>5. \A t \in Subject : members'[t] = members[t] \/ members'[t] = "active"
    BY DEF AcceptInvitation, CoreInv, CoreTypeOK
  <1>6. ~purged /\ tenantState = "active" => HasActiveAdministrator({})'
    BY <1>5, AdministratorStays DEF AcceptInvitation, CoreInv, ActiveAdministrator, policy
  <1> QED BY <1>2, <1>3, <1>4, <1>5, <1>6, MembersStep DEF AcceptInvitation

\* Another active administrator exists before somebody is suspended.
LEMMA SetMemberStatusInv ==
  ASSUME CoreInv, NEW a \in Subject, NEW s \in Subject, NEW status \in {"active", "suspended"},
         SetMemberStatus(a, s, status)
  PROVE  CoreInv'
  <1>1. IInv' BY HostEvent DEF SetMemberStatus, CoreInv, Logged
  <1>2. tenantState = "active"
    BY MembersOfActive DEF SetMemberStatus, RequireTenantPermission, CoreInv
  <1>3. members' = [members EXCEPT ![s] = status] /\ members \in [Subject -> MemberState]
    BY DEF SetMemberStatus, CoreInv, CoreTypeOK
  <1>4. CoreTypeOK' BY <1>3 DEF SetMemberStatus, CoreInv, CoreTypeOK, MemberState
  <1>5. HasActiveAdministrator({})' \/ purged
    <2>1. CASE status = "active"
      BY <1>2, <1>3, <2>1, AdministratorStays DEF SetMemberStatus, CoreInv, ActiveAdministrator, policy
    <2>2. CASE status = "suspended"
      <3>1. HasActiveAdministrator({s}) BY <2>2 DEF SetMemberStatus
      <3> QED BY <1>3, <3>1, AdministratorStays DEF SetMemberStatus, policy
    <2> QED BY <2>1, <2>2
  <1> QED BY <1>1, <1>2, <1>3, <1>4, <1>5, MembersStep DEF SetMemberStatus

\* The kernel's invariant outlives the removal of bindings and edges of a
\* member, because another administrator stays.
LEMMA RemoveMemberKernel ==
  ASSUME CoreInv, NEW a \in Subject, NEW s \in Subject, RemoveMember(a, s)
  PROVE  IInv' /\ HasActiveAdministrator({})'
  <1> USE DEF IInv, CoreInv, RemoveMember
  <1>1. subjectRoles \in [Subject -> [RoleID -> Subject \cup {Host, Absent}]] /\ members \in [Subject -> MemberState]
    BY DEF TypeOK, CoreTypeOK
  <1>2. \A t \in Subject : t # s => subjectRoles'[t] = subjectRoles[t] /\ members'[t] = members[t] BY <1>1
  <1>3. \A r \in RoleID : subjectRoles'[s][r] = Absent BY <1>1
  <1>4. HasActiveAdministrator({})' BY <1>2, AdministratorStays
  <1>5. TypeOK'
    <2>1. lastEvent' \in Event BY CommittedEvent DEF Logged
    <2>2. subjectRoles' \in [Subject -> [RoleID -> Subject \cup {Host, Absent}]] BY <1>1
    <2> QED BY <2>1, <2>2 DEF TypeOK
  <1>6. LastAdministrator'
    <2>1. PICK t \in Subject : \A p \in AdministratorPermissions : RequireActor(t, p)'
      BY <1>4 DEF HasActiveAdministrator
    <2>2. \A c \in Control : RequireActor(t, c)' BY <2>1 DEF AdministratorPermissions
    <2>3. \A c \in Control : \E g \in EffectiveIn(subjectRoles, rolePerms, t)' : g.permission = c /\ g.scope = "tenant"
      BY <2>2 DEF RequireActor, EffectiveGrants, AllowDelegation, TenantGrant
    <2>4. HasAdministrator' BY <2>3 DEF HasAdministrator, HasAdministratorIn
    <2> QED BY <2>4 DEF LastAdministrator
  <1>7. DelegationAcyclic'
    <2>1. grantEdges' \in SUBSET grantEdges OBVIOUS
    <2>2. Acyclic(grantEdges) BY AcyclicNow
    <2>3. Acyclic(grantEdges') BY <2>1, <2>2, AcyclicSubset
    <2> QED BY <2>3, AcyclicNext
  <1>8. EdgePerAssignment'
    <2> SUFFICES ASSUME NEW b \in Subject, NEW t \in Subject, NEW r \in RoleID
                 PROVE  <<b, t, r>> \in grantEdges' <=> subjectRoles'[t][r] = b
      BY DEF EdgePerAssignment
    <2>1. CASE t = s BY <1>3, <2>1, NullsAssumption
    <2>2. CASE t # s BY <1>2, <2>2 DEF EdgePerAssignment
    <2> QED BY <2>1, <2>2
  <1>9. CurrentSnapshot' /\ CoveredByHost' BY DEF CurrentSnapshot, CoveredByHost
  <1>10. PurgedIsEmpty'
    <2>1. \A r \in RoleID : RoleSubjects(r) = {} => RoleSubjects(r)' = {} BY <1>2, <1>3 DEF RoleSubjects
    <2> QED BY <2>1 DEF PurgedIsEmpty
  <1>11. RetiredRolesEmpty'
    <2> SUFFICES ASSUME NEW r \in RoleID, ~Live(r)' PROVE rolePerms'[r] = {} /\ RoleSubjects(r)' = {}
      BY DEF RetiredRolesEmpty
    <2>1. rolePerms[r] = {} /\ RoleSubjects(r) = {} BY DEF RetiredRolesEmpty, Live
    <2>2. \A t \in Subject : subjectRoles'[t][r] = Absent BY <1>2, <1>3, <2>1 DEF RoleSubjects
    <2> QED BY <2>1, <2>2 DEF RoleSubjects
  <1> QED BY <1>4, <1>5, <1>6, <1>7, <1>8, <1>9, <1>10, <1>11

\* Removing a member takes its bindings with it, and never the last active
\* administrator.
LEMMA RemoveMemberInv ==
  ASSUME CoreInv, NEW a \in Subject, NEW s \in Subject, RemoveMember(a, s)
  PROVE  CoreInv'
  <1>1. IInv' /\ HasActiveAdministrator({})' BY RemoveMemberKernel
  <1>2. tenantState = "active" /\ tenantState' = "active"
    BY MembersOfActive DEF RemoveMember, RequireTenantPermission, CoreInv
  <1>3. CoreTypeOK' BY DEF RemoveMember, CoreInv, CoreTypeOK, MemberState
  <1>4. CreationOK' BY <1>2 DEF RemoveMember, CoreInv, CreationOK
  <1>5. OwnerOK' BY <1>2 DEF OwnerOK
  <1>6. BindingsOfMembers'
    BY <1>2 DEF RemoveMember, BindingsOfMembers, CoreInv, IInv, TypeOK, CoreTypeOK
  <1>7. ActiveAdministrator' BY <1>1, <1>2 DEF ActiveAdministrator
  <1> QED BY <1>1, <1>3, <1>4, <1>5, <1>6, <1>7 DEF CoreInv

\* The check of an operator's membership changes nothing it checks.
LEMMA RequireMembershipInv ==
  ASSUME CoreInv, NEW o \in Subject, RequireMembership(o)
  PROVE  CoreInv'
  <1>1. IInv' BY KernelAlone DEF RequireMembership, CoreInv
  <1>2. tenantState = "active" BY MembersOfActive DEF RequireMembership, CoreInv
  <1>3. CoreTypeOK' BY DEF RequireMembership, CoreInv, CoreTypeOK
  <1> QED BY <1>1, <1>2, <1>3, SameMembers DEF RequireMembership, vars

\* A provisioned member is active and has the bindings it had.
LEMMA ProvisionMemberInv ==
  ASSUME CoreInv, NEW o \in Subject, NEW s \in Subject, ProvisionMember(o, s)
  PROVE  CoreInv'
  <1>1. IInv' BY KernelAlone DEF ProvisionMember, CoreInv
  <1>2. tenantState = "active" BY DEF ProvisionMember, CoreInv, CreationOK
  <1>3. CoreTypeOK' BY DEF ProvisionMember, CoreInv, CoreTypeOK, MemberState
  <1>4. \A t \in Subject : members'[t] = members[t] \/ members'[t] = "active"
    BY DEF ProvisionMember, CoreInv, CoreTypeOK
  <1>5. ~purged /\ tenantState = "active" => HasActiveAdministrator({})'
    BY <1>4, AdministratorStays DEF ProvisionMember, CoreInv, ActiveAdministrator, vars, policy
  <1> QED BY <1>1, <1>2, <1>3, <1>4, <1>5, MembersStep DEF ProvisionMember, vars

-----------------------------------------------------------------------------
(* The creation of the tenant. *)

\* A step of the creation that commits nothing.
LEMMA CreationMoves ==
  ASSUME CoreInv, UNCHANGED <<vars, members, invitations, previews, passed>>,
         tenantState' = "active" <=> tenantState = "active",
         creation' \in Creation, CreationOK', creation'.actor = creation.actor \/ ~bootstrapped,
         tenantState' \in {"none", "pending", "active", "failed"}
  PROVE  CoreInv'
  <1> USE DEF CoreInv, vars, policy
  <1>1. IInv' BY KernelAlone
  <1>2. CoreTypeOK' BY DEF CoreTypeOK
  <1>3. OwnerOK' BY DEF OwnerOK, Live
  <1>4. BindingsOfMembers' BY DEF BindingsOfMembers
  <1>5. ActiveAdministrator'
    <2>1. CASE tenantState = "active"
      BY <2>1, AdministratorStays DEF ActiveAdministrator
    <2>2. CASE tenantState # "active" BY <2>2 DEF ActiveAdministrator, CreationOK
    <2> QED BY <2>1, <2>2
  <1> QED BY <1>1, <1>2, <1>3, <1>4, <1>5

\* A new tenant is pending, and nobody uses it yet.
LEMMA InsertTenantInv ==
  ASSUME CoreInv, NEW a \in Subject, InsertTenant(a)
  PROVE  CoreInv'
  <1>1. creation' \in Creation BY DEF InsertTenant, Creation
  <1>2. ~bootstrapped BY DEF InsertTenant, CoreInv, CreationOK
  <1>3. CreationOK' BY DEF InsertTenant, CoreInv, CreationOK
  <1> QED BY <1>1, <1>2, <1>3, CreationMoves DEF InsertTenant

\* What the client of a creation does, or gives up, changes no role and no member.
LEMMA ClientStepsInv ==
  ASSUME CoreInv, SendActivate \/ FinishCreate \/ AbortInFlight \/ GiveUp \/ FailCreatedTenant
  PROVE  CoreInv'
  <1>1. creation \in Creation /\ tenantState \in {"none", "pending", "active", "failed"}
    BY DEF CoreInv, CoreTypeOK
  <1>2. creation' \in Creation /\ creation'.actor = creation.actor
    BY <1>1 DEF SendActivate, FinishCreate, AbortInFlight, GiveUp, FailCreatedTenant, Creation
  <1>3. UNCHANGED <<vars, members, invitations, previews, passed>>
    BY DEF SendActivate, FinishCreate, AbortInFlight, GiveUp, FailCreatedTenant
  <1>4. tenantState' = tenantState \/ (FailCreatedTenant /\ tenantState = "pending" /\ tenantState' = "failed")
    BY DEF SendActivate, FinishCreate, AbortInFlight, GiveUp, FailCreatedTenant
  <1>5. CreationOK'
    <2> USE <1>1, <1>3, <1>4 DEF CoreInv, CreationOK, vars, policy, Creation
    <2>1. CASE SendActivate BY <2>1 DEF SendActivate, FailCreatedTenant
    <2>2. CASE FinishCreate BY <2>2 DEF FinishCreate, FailCreatedTenant
    <2>3. CASE AbortInFlight BY <2>3 DEF AbortInFlight, FailCreatedTenant
    <2>4. CASE GiveUp BY <2>4 DEF GiveUp, FailCreatedTenant
    <2>5. CASE FailCreatedTenant BY <2>5 DEF FailCreatedTenant
    <2> QED BY <2>1, <2>2, <2>3, <2>4, <2>5
  <1> QED BY <1>1, <1>2, <1>3, <1>4, <1>5, CreationMoves

\* The bootstrap gives the owner a role with every permission at tenant scope,
\* before anybody is a member.
LEMMA CommitBootstrapInv ==
  ASSUME CoreInv, CommitBootstrap
  PROVE  CoreInv'
  <1> DEFINE owner == creation.actor
  <1>1. /\ creation.flight = "bootstrap" /\ tenantState \notin {"none", "active"}
        /\ BootstrapTenant(owner, OwnerRole, OwnerGrants) /\ owner \in Subject
        /\ UNCHANGED <<tenantState, members, invitations, previews, passed>>
    BY DEF CommitBootstrap, CoreInv, CreationOK
  <1>2. OwnerGrants \in SUBSET Grant BY DEF OwnerGrants, TenantGrant, Grant, Scope
  <1>3. IInv' BY <1>1, <1>2, OwnerRoleAssumption, BootstrapStep DEF CoreInv
  <1>4. /\ creation' \in Creation /\ creation'.flight = "committed" /\ creation'.step = creation.step
        /\ creation'.actor = owner
    BY DEF CommitBootstrap, CoreInv, CoreTypeOK, Creation
  <1>5. bootstrapped' /\ ~bootstrapped BY <1>1 DEF BootstrapTenant
  <1>6. CoreTypeOK' BY <1>1, <1>4 DEF CoreInv, CoreTypeOK
  <1>7. CreationOK' BY <1>1, <1>4, <1>5 DEF CoreInv, CreationOK
  <1>8. OwnerOK'
    <2>1. Live(OwnerRole)' /\ rolePerms'[OwnerRole] = OwnerGrants
      BY <1>1, OwnerRoleAssumption DEF BootstrapTenant, InsertRole, Live, CoreInv, IInv, TypeOK
    <2>2. subjectRoles' = [subjectRoles EXCEPT ![owner][OwnerRole] = Host] BY <1>1 DEF BootstrapTenant
    <2>3. \A s \in Subject, r \in RoleID : subjectRoles[s][r] = Absent
      BY <1>1, <1>5 DEF CoreInv, OwnerOK
    <2>4. subjectRoles'[owner][OwnerRole] # Absent
      BY <1>1, <2>2, OwnerRoleAssumption, NullsAssumption DEF CoreInv, IInv, TypeOK
    <2>5. \A s \in Subject, r \in RoleID : subjectRoles'[s][r] # Absent => s = owner
      BY <2>2, <2>3 DEF CoreInv, IInv, TypeOK
    <2> QED BY <1>4, <1>5, <2>1, <2>4, <2>5 DEF OwnerOK
  <1>9. BindingsOfMembers' /\ ActiveAdministrator'
    BY <1>1 DEF BindingsOfMembers, ActiveAdministrator, CoreInv, CreationOK
  <1> QED BY <1>3, <1>6, <1>7, <1>8, <1>9 DEF CoreInv

\* The tenant becomes active together with its owner.
LEMMA CommitActivateInv ==
  ASSUME CoreInv, CommitActivate
  PROVE  CoreInv'
  <1> DEFINE owner == creation.actor
  <1>1. /\ creation.flight = "activate" /\ tenantState = "pending" /\ tenantState' = "active" /\ owner \in Subject
        /\ members' = [members EXCEPT ![owner] = "active"] /\ members \in [Subject -> MemberState]
        /\ UNCHANGED <<vars, invitations, previews, passed>>
    BY DEF CommitActivate, CoreInv, CreationOK, CoreTypeOK
  <1>2. IInv' BY <1>1, KernelAlone DEF CoreInv
  <1>3. /\ creation' \in Creation /\ creation'.flight = "committed" /\ creation'.step = creation.step
        /\ creation'.actor = owner
    BY DEF CommitActivate, CoreInv, CoreTypeOK, Creation
  <1>4. CoreTypeOK' BY <1>1, <1>3 DEF CoreInv, CoreTypeOK, MemberState
  <1>5. CreationOK' BY <1>1, <1>3 DEF CoreInv, CreationOK, vars, policy
  <1>6. OwnerOK' BY <1>1 DEF OwnerOK
  <1>7. BindingsOfMembers'
    BY <1>1 DEF BindingsOfMembers, CoreInv, OwnerOK, vars, policy
  <1>8. ActiveAdministrator'
    <2> SUFFICES ASSUME ~purged PROVE HasActiveAdministrator({})'
      BY <1>1 DEF ActiveAdministrator, vars
    <2>1. bootstrapped BY <1>1 DEF CoreInv, CreationOK
    <2>2. \A p \in AdministratorPermissions : RequireActor(owner, p)
      BY <1>1, <2>1, OwnerAdministers DEF CoreInv, OwnerOK
    <2>3. \A p \in AdministratorPermissions : RequireActor(owner, p)'
      <3>1. PICK w : w = owner OBVIOUS
      <3>2. \A p : RequireActor(w, p)' <=> RequireActor(w, p) BY <1>1, SameActors DEF vars
      <3>3. owner' = w BY <1>3, <3>1
      <3> QED BY <2>2, <3>1, <3>2, <3>3
    <2>4. members'[owner] = "active" BY <1>1
    <2>5. owner' = owner BY <1>3
    <2> QED BY <1>1, <2>3, <2>4, <2>5 DEF HasActiveAdministrator
  <1> QED BY <1>2, <1>4, <1>5, <1>6, <1>7, <1>8 DEF CoreInv

-----------------------------------------------------------------------------
(* The invariant. *)

\* A failed transaction changes nothing.
LEMMA StoreFailsInv ==
  ASSUME CoreInv, NEW a \in Subject, NEW op \in Operation, StoreFails(op, a), UNCHANGED hostVars
  PROVE  CoreInv'
  BY GuardRefused DEF StoreFails, Logged

\* A purge takes every binding with it.
LEMMA PurgeTenantInv ==
  ASSUME CoreInv, NEW req \in RequestID, PurgeTenant(req), UNCHANGED hostVars
  PROVE  CoreInv'
  <1>1. IInv' BY PurgeStep DEF CoreInv
  <1>2. /\ purged' /\ ~bootstrapped' /\ UNCHANGED <<tenantState, creation, members, invitations, previews, passed>>
        /\ \A s \in Subject, r \in RoleID : subjectRoles'[s][r] = Absent
    BY DEF PurgeTenant, hostVars
  <1>3. CoreTypeOK' BY <1>2 DEF CoreInv, CoreTypeOK
  <1>4. CreationOK' BY <1>2 DEF CoreInv, CreationOK
  <1>5. OwnerOK' /\ BindingsOfMembers' /\ ActiveAdministrator'
    BY <1>2 DEF OwnerOK, BindingsOfMembers, ActiveAdministrator
  <1> QED BY <1>1, <1>3, <1>4, <1>5 DEF CoreInv

\* The empty store satisfies the invariant.
LEMMA CoreInitInv == CoreInit => CoreInv
  <1> SUFFICES ASSUME CoreInit PROVE CoreInv OBVIOUS
  <1> USE DEF CoreInit
  <1>1. IInv BY InitEstablishes
  <1>2. CoreTypeOK BY DEF CoreTypeOK, Creation, MemberState, InvitationState
  <1>3. CreationOK /\ OwnerOK BY DEF CreationOK, OwnerOK, Init
  <1>4. BindingsOfMembers /\ ActiveAdministrator BY DEF BindingsOfMembers, ActiveAdministrator
  <1> QED BY <1>1, <1>2, <1>3, <1>4 DEF CoreInv

\* A step that changes no variable keeps the invariant.
LEMMA CoreStutterInv == CoreInv /\ UNCHANGED coreVars => CoreInv'
  <1> SUFFICES ASSUME CoreInv, UNCHANGED coreVars PROVE CoreInv' OBVIOUS
  <1>1. IInv' BY KernelAlone DEF coreVars, CoreInv
  <1>2. CoreTypeOK' BY DEF coreVars, hostVars, CoreInv, CoreTypeOK
  <1> QED BY <1>1, <1>2, SameMembers DEF coreVars, hostVars, vars

\* Every step of the application preserves the invariant.
LEMMA CoreNextInv == CoreInv /\ [CoreNext]_coreVars => CoreInv'
  <1> SUFFICES ASSUME CoreInv, CoreNext PROVE CoreInv' BY CoreStutterInv
  <1>1. CASE CreateTenantStep
    BY <1>1, InsertTenantInv, CommitBootstrapInv, CommitActivateInv, ClientStepsInv DEF CreateTenantStep
  <1>2. CASE \E a \in Subject : \E r \in RoleID :
               RoleRequest(a, r) \/ \E s \in Subject, v \in Version : BindRole(a, s, r, v)
    BY <1>2, RoleRequestInv, BindRoleInv
  <1>3. CASE \E a \in Subject : MemberRequest(a)
    BY <1>3, CreateInvitationInv, RevokeInvitationInv, SetMemberStatusInv, RemoveMemberInv DEF MemberRequest
  <1>4. CASE \E i \in InvitationID : InvitationExpires(i) \/ PreviewInvitation(i) \/ AcceptInvitation(i)
    BY <1>4, InvitationExpiresInv, PreviewInvitationInv, AcceptInvitationInv
  <1>5. CASE \E o \in Subject : RequireMembership(o) \/ \E s \in Subject : ProvisionMember(o, s)
    BY <1>5, RequireMembershipInv, ProvisionMemberInv
  <1>6. CASE \E a \in Subject, op \in Operation \ {"none", "tenant.bootstrap"} :
               StoreFails(op, a) /\ UNCHANGED hostVars
    BY <1>6, StoreFailsInv
  <1>7. CASE \E req \in RequestID : PurgeTenant(req) /\ UNCHANGED hostVars
    BY <1>7, PurgeTenantInv
  <1> QED BY <1>1, <1>2, <1>3, <1>4, <1>5, <1>6, <1>7 DEF CoreNext

\* The kernel's invariant and the application's hold in every reachable state.
THEOREM CoreInvariance == CoreSpec => []CoreInv
  BY CoreInitInv, CoreNextInv, PTL DEF CoreSpec

\* The types of the kernel's and the application's state.
THEOREM CoreTypeCorrect == CoreSpec => [](TypeOK /\ CoreTypeOK)
  <1>1. CoreInv => TypeOK /\ CoreTypeOK BY DEF CoreInv, IInv
  <1> QED BY <1>1, CoreInvariance, PTL

\* An organization in use never loses its last active administrator
\* (PolicyStore.MutateTenant, ManageMember, createTenant).
THEOREM ActiveAdministratorRemains == CoreSpec => []ActiveAdministrator
  <1>1. CoreInv => ActiveAdministrator BY DEF CoreInv
  <1> QED BY <1>1, CoreInvariance, PTL

\* No outsider is bound to a role of an active tenant (policyGuard.Target,
\* removal of a member).
THEOREM OnlyMembersBound == CoreSpec => []BindingsOfMembers
  <1>1. CoreInv => BindingsOfMembers BY DEF CoreInv
  <1> QED BY <1>1, CoreInvariance, PTL

\* What the kernel promises of delegation survives the application's removal
\* of members, which edits bindings and edges behind Manager's back.
THEOREM CoreKeepsDelegation == CoreSpec => []DelegationAcyclic /\ []EdgePerAssignment
  <1>1. CoreInv => DelegationAcyclic /\ EdgePerAssignment BY DEF CoreInv, IInv
  <1> QED BY <1>1, CoreInvariance, PTL

-----------------------------------------------------------------------------
(* What a step may never do. *)

\* Only four steps touch an invitation's row.
LEMMA InvitationChanges ==
  ASSUME CoreNext
  PROVE  \/ UNCHANGED invitations
         \/ \E a, s \in Subject, i \in InvitationID : CreateInvitation(a, i, s)
         \/ \E a \in Subject, i \in InvitationID : RevokeInvitation(a, i)
         \/ \E i \in InvitationID : InvitationExpires(i) \/ AcceptInvitation(i)
  <1>1. CASE CreateTenantStep
    BY <1>1 DEF CreateTenantStep, InsertTenant, CommitBootstrap, SendActivate, CommitActivate, FinishCreate,
                AbortInFlight, GiveUp, FailCreatedTenant
  <1>2. CASE \E a \in Subject : \E r \in RoleID :
               RoleRequest(a, r) \/ \E s \in Subject, v \in Version : BindRole(a, s, r, v)
    <2>1. ASSUME NEW a \in Subject, NEW r \in RoleID, RoleRequest(a, r) PROVE UNCHANGED hostVars
      BY <2>1 DEF RoleRequest, Guarded
    <2>2. ASSUME NEW a \in Subject, NEW r \in RoleID, NEW s \in Subject, NEW v \in Version, BindRole(a, s, r, v)
          PROVE  UNCHANGED hostVars
      BY <2>2 DEF BindRole, Guarded
    <2> QED BY <1>2, <2>1, <2>2 DEF hostVars
  <1>3. CASE \E a \in Subject : MemberRequest(a) BY <1>3 DEF MemberRequest, SetMemberStatus, RemoveMember
  <1>4. CASE \E i \in InvitationID : InvitationExpires(i) \/ PreviewInvitation(i) \/ AcceptInvitation(i)
    BY <1>4 DEF PreviewInvitation
  <1>5. CASE \E o \in Subject : RequireMembership(o) \/ \E s \in Subject : ProvisionMember(o, s)
    BY <1>5 DEF RequireMembership, ProvisionMember
  <1>6. CASE UNCHANGED hostVars BY <1>6 DEF hostVars
  <1> QED BY <1>1, <1>2, <1>3, <1>4, <1>5, <1>6 DEF CoreNext

\* A link that was accepted or revoked never changes again (AcceptInvitation,
\* RevokeInvitation).
THEOREM InvitationsAreFinal == CoreSpec => InvitationFinal
  <1>1. ASSUME CoreInv, [CoreNext]_coreVars, NEW i \in InvitationID,
               invitations[i].state \in {"accepted", "revoked"}
        PROVE  invitations'[i] = invitations[i]
    <2>1. invitations \in [InvitationID -> [state: InvitationState, account: Subject \cup {Host}]]
      BY <1>1 DEF CoreInv, CoreTypeOK
    <2>2. CASE UNCHANGED invitations BY <2>2
    <2>3. ASSUME NEW a \in Subject, NEW s \in Subject, NEW j \in InvitationID, CreateInvitation(a, j, s)
          PROVE  invitations'[i] = invitations[i]
      BY <1>1, <2>1, <2>3 DEF CreateInvitation
    <2>4. ASSUME NEW a \in Subject, NEW j \in InvitationID, RevokeInvitation(a, j)
          PROVE  invitations'[i] = invitations[i]
      BY <1>1, <2>1, <2>4 DEF RevokeInvitation
    <2>5. ASSUME NEW j \in InvitationID, InvitationExpires(j) \/ AcceptInvitation(j)
          PROVE  invitations'[i] = invitations[i]
      BY <1>1, <2>1, <2>5 DEF InvitationExpires, AcceptInvitation
    <2> QED BY <1>1, <2>2, <2>3, <2>4, <2>5, InvitationChanges DEF coreVars, hostVars
  <1>2. CoreInv /\ [CoreNext]_coreVars =>
          [\A i \in InvitationID : invitations[i].state \in {"accepted", "revoked"}
                                      => invitations'[i] = invitations[i]]_coreVars
    BY <1>1
  <1> QED BY <1>2, CoreInvariance, PTL DEF CoreSpec, InvitationFinal

\* No invitation lifts a suspension (AcceptInvitation).
THEOREM SuspensionsOutlive == CoreSpec => SuspensionOutlivesInvitation
  <1>1. ASSUME CoreInv, [CoreNext]_coreVars, NEW s \in Subject,
               members[s] = "suspended", members'[s] = "active"
        PROVE  invitations' = invitations
    <2>1. members \in [Subject -> MemberState] BY <1>1 DEF CoreInv, CoreTypeOK
    <2>2. ASSUME NEW j \in InvitationID, AcceptInvitation(j) PROVE FALSE
      BY <1>1, <2>1, <2>2 DEF AcceptInvitation
    <2>3. CASE UNCHANGED members BY <1>1, <2>3
    <2> QED BY <1>1, <2>2, <2>3, InvitationChanges
        DEF CreateInvitation, RevokeInvitation, InvitationExpires, coreVars, hostVars
  <1>2. CoreInv /\ [CoreNext]_coreVars =>
          [\A s \in Subject : members[s] = "suspended" /\ members'[s] = "active" => invitations' = invitations]_coreVars
    BY <1>1
  <1> QED BY <1>2, CoreInvariance, PTL DEF CoreSpec, SuspensionOutlivesInvitation

\* A request behind the guard changes the policy only for an active member,
\* which it names in the tenant's log.
LEMMA GuardedChange ==
  ASSUME CoreNext, policy' # policy, ~purged'
  PROVE  \/ lastEvent'.op = "tenant.bootstrap"
         \/ lastEvent'.log = "tenant" /\ members[lastEvent'.actor] = "active"
  <1>1. CASE CreateTenantStep
    <2>1. CASE CommitBootstrap BY <2>1 DEF CommitBootstrap, BootstrapTenant, Committed
    <2>2. CASE UNCHANGED vars BY <2>2 DEF vars
    <2> QED BY <1>1, <2>1, <2>2 DEF CreateTenantStep, InsertTenant, SendActivate, CommitActivate, FinishCreate,
                                     AbortInFlight, GiveUp, FailCreatedTenant
  <1>2. ASSUME NEW a \in Subject, NEW r \in RoleID, RoleRequest(a, r)
        PROVE  lastEvent'.log = "tenant" /\ members[lastEvent'.actor] = "active"
    <2>1. members[a] = "active" BY <1>2, GuardPassed DEF RoleRequest, Guarded, RecordDenied
    <2>2. \E op, o : Committed(op, a, o)
      BY <1>2 DEF RoleRequest, Guarded, RecordDenied, CreateRole, UpdateRole, DeleteRole, GrantPermission,
                  RevokePermission
    <2> QED BY <2>1, <2>2 DEF Committed
  <1>3. ASSUME NEW a \in Subject, NEW r \in RoleID, NEW s \in Subject, NEW v \in Version, BindRole(a, s, r, v)
        PROVE  lastEvent'.log = "tenant" /\ members[lastEvent'.actor] = "active"
    <2>1. members[a] = "active" BY <1>3, GuardPassed DEF BindRole, Guarded, RecordDenied
    <2>2. \E op, o : Committed(op, a, o) BY <1>3 DEF BindRole, Guarded, RecordDenied, AssignRole, UnassignRole
    <2> QED BY <2>1, <2>2 DEF Committed
  <1>4. ASSUME NEW a \in Subject, MemberRequest(a)
        PROVE  lastEvent'.log = "tenant" /\ members[lastEvent'.actor] = "active"
    <2>1. members[a] = "active"
      BY <1>4 DEF MemberRequest, CreateInvitation, RevokeInvitation, SetMemberStatus, RemoveMember,
                  RequireTenantPermission
    <2>2. \E op, o : Committed(op, a, o)
      BY <1>4 DEF MemberRequest, CreateInvitation, RevokeInvitation, SetMemberStatus, RemoveMember
    <2> QED BY <2>1, <2>2 DEF Committed
  <1>5. CASE \E i \in InvitationID : InvitationExpires(i) \/ PreviewInvitation(i) \/ AcceptInvitation(i)
    BY <1>5 DEF InvitationExpires, PreviewInvitation, AcceptInvitation, vars
  <1>6. CASE \E o \in Subject : RequireMembership(o) \/ \E s \in Subject : ProvisionMember(o, s)
    BY <1>6 DEF RequireMembership, ProvisionMember, vars
  <1>7. CASE \E a \in Subject, op \in Operation \ {"none", "tenant.bootstrap"} :
               StoreFails(op, a) /\ UNCHANGED hostVars
    BY <1>7 DEF StoreFails, RecordDenied
  <1>8. CASE \E req \in RequestID : PurgeTenant(req) /\ UNCHANGED hostVars BY <1>8 DEF PurgeTenant
  <1> QED BY <1>1, <1>2, <1>3, <1>4, <1>5, <1>6, <1>7, <1>8 DEF CoreNext

\* Short of bootstrap and purge, only an active member changes the policy
\* (policyGuard.Actor, requireTenantPermission).
THEOREM ActiveMembersChange == CoreSpec => ChangedByActiveMember
  <1>1. [CoreNext]_coreVars =>
          [policy' # policy /\ ~purged' /\ lastEvent'.op # "tenant.bootstrap"
             => lastEvent'.log = "tenant" /\ members[lastEvent'.actor] = "active"]_coreVars
    BY GuardedChange
  <1> QED BY <1>1, PTL DEF CoreSpec, ChangedByActiveMember
=============================================================================
