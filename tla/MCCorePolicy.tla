---------------------------- MODULE MCCorePolicy ----------------------------
(* A small organization for TLC: the four administrator permissions. *)
EXTENDS CorePolicy, TLC

CoreCatalog == {ManageRoles, ManageGrants, AssignRoles, MemberManage}
NoWorkspaceRole == {}
NoCanonical == [n \in {} |-> n]

\* What create and grant requests ask for.
FullInput == {CoreCatalog}
MemberGrant == {TenantGrant(MemberManage)}

\* lastEvent never enables an action, and action properties are evaluated on
\* every transition; a link that was used or has expired never opens again, and
\* the account of a used or revoked link is not read; a creation that is over
\* does nothing more, and one whose last transaction is committed can only be
\* given up, which it could have been before the commit to the same effect.
\* On an active tenant the clean-up of a given-up creation changes nothing,
\* whoever its members are: it is followed while the creator is the only one.
\* States that differ in these need not be told apart.
LivePreviews == {i \in previews : invitations[i].state \in {"open", "revoked"}}
LiveCreation ==
    IF \/ creation.step = "done" /\ creation.flight \notin {"bootstrap", "activate"}
       \/ creation.step = "activate" /\ creation.flight = "committed"
       \/ tenantState = "active" /\ \E s \in Subject \ {creation.actor} : members[s] # "none"
    THEN <<>> ELSE creation
Links == [i \in InvitationID |->
    IF invitations[i].state \in {"open", "expired"} THEN invitations[i] ELSE invitations[i].state]
CoreView ==
    <<policy, purged, purgeLedger, tenantState, members, Links, LivePreviews, LiveCreation, passed>>
=============================================================================
