--------------------------- MODULE MCPolicyKernel ---------------------------
(* A small tenant for TLC. *)
EXTENDS PolicyKernel, TLC

CONSTANTS editor, Editor, viewer, read

\* Two spellings of one workspace role, and another role.
MCWorkspaceRole == {editor, Editor, viewer}
MCCanonical == [n \in MCWorkspaceRole |-> IF n = Editor THEN editor ELSE n]
MCPermission == {ManageRoles, ManageGrants, AssignRoles, read}

\* The controls at tenant scope, alone, and with one permission that has a
\* constrained and an unconstrained workspace grant.
ControlGrants == {TenantGrant(p) : p \in {ManageRoles, ManageGrants, AssignRoles}}
ScopedGrants == ControlGrants \cup
    [permission: {read}, scope: {"workspace"}, workspaceRoles: {{}, {editor}}]

Symmetry == Permutations(Subject)

\* lastEvent never enables an action; action properties are evaluated on every
\* transition, so states that differ in it need not be told apart.
PolicyView == <<policy, purged, purgeLedger>>
=============================================================================
