CONSTANTS
    Subject = {s1, s2}
    RoleID = {r1, r2}
    ManageRoles = manageRoles
    ManageGrants = manageRoles
    AssignRoles = assignRoles
    read = read
    editor = editor
    Editor = Editor
    viewer = viewer
    RequestID = {q1, q2}
    Absent = Absent
    Host = Host
    MaxVersion = 2
    Permission <- MCPermission
    WorkspaceRole <- MCWorkspaceRole
    Canonical <- MCCanonical
    Offered <- ScopedGrants
SPECIFICATION Spec
SYMMETRY Symmetry
VIEW PolicyView
INVARIANTS
    LastAdministrator
    AuthorityFromBootstrap
    CurrentSnapshot
    PurgedIsEmpty
PROPERTIES
    NoEscalation
    AuditedChange
    HistoryImmutable
