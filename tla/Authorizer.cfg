CONSTANTS
    read = read
    editor = editor
    Editor = Editor
    viewer = viewer
    Malformed = Malformed
    MaxRows = 3
    Permission <- MCPermission
    WorkspaceRole <- MCWorkspaceRole
    Canonical <- MCCanonical
    RowGrant <- MCRowGrant
SPECIFICATION Spec
CHECK_DEADLOCK FALSE
INVARIANTS
    DecisionIsReference
