---------------------------- MODULE MCAuthorizer ----------------------------
(* One permission, the grants of every scope and two workspace roles. *)
EXTENDS Authorizer

CONSTANTS editor, Editor, viewer, read

MCPermission == {read}
MCWorkspaceRole == {editor, Editor, viewer}
MCCanonical == [n \in MCWorkspaceRole |-> IF n = Editor THEN editor ELSE n]
MCRowGrant ==
    {[permission |-> read, scope |-> s, workspaceRoles |-> {}] : s \in Scope} \cup
    {[permission |-> read, scope |-> "workspace", workspaceRoles |-> {n}] : n \in {editor, viewer}}
=============================================================================
