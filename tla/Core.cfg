CONSTANTS
    Subject = {owner, a}
    RoleID = {r1, r2}
    InvitationID = {i1}
    MaxVersion = 2
    RoleInput <- FullInput
    Offered <- MemberGrant
    ManageRoles = manageRoles
    ManageGrants = manageGrants
    AssignRoles = assignRoles
    MemberManage = memberManage
    SysAdmin = {owner}
    OwnerRole = r1
    RequestID = {q1}
    Absent = Absent
    Host = Host
    Permission <- CoreCatalog
    WorkspaceRole <- NoWorkspaceRole
    Canonical <- NoCanonical
SPECIFICATION CoreSpec
VIEW CoreView
INVARIANTS
    BindingsOfMembers
    DelegationAcyclic
    EdgePerAssignment
    ActiveAdministrator
PROPERTIES
    InvitationFinal
    SuspensionOutlivesInvitation
    ChangedByActiveMember
