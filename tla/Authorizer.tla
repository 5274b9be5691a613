----------------------------- MODULE Authorizer -----------------------------
(***************************************************************************)
(* One call of Authorizer.Check: the request is validated, the grants are  *)
(* read once, in whatever row order the adapter returns them, all of them  *)
(* are validated, and then they are tried scope by scope.  The principal's *)
(* workspace membership is the host's: it is looked up when the first      *)
(* workspace grant is tried, and the host may change it at any moment.     *)
(* Either read may fail.                                                   *)
(*                                                                         *)
(* The reference the call is compared with is the doc comment of Check, as *)
(* a function of the set of grants and one membership.                     *)
(***************************************************************************)
EXTENDS Delegation, Sequences, FiniteSets

CONSTANTS
    Malformed,   \* a persisted grant that EffectiveGrant.Validate refuses
    RowGrant,    \* bound: the well-formed grants the rows may hold
    MaxRows      \* bound: rows the policy reader returns

ASSUME MalformedAssumption == Malformed \notin Grant
ASSUME RowGrantAssumption ==
    RowGrant \subseteq Grant /\ \A g, h \in RowGrant : g.permission = h.permission
ASSUME MaxRowsAssumption == MaxRows \in Nat

VARIABLES
    pc,           \* where the call is
    request,      \* the request; its membership field is not used
    valid,        \* whether validateRequest accepts it
    rows,         \* what ListEffectiveGrants returned, in row order
    tried,        \* how far the loops are: <<scopes done, rows done>>
    snapshot,     \* workspaceMembershipSnapshot: {} until loaded
    denied,       \* the reason so far in this scope
    bestDenied,   \* and over the scopes before it
    decision,
    membership,   \* the host's fact now: the set of the principal's role
    seen,         \* history: the memberships since the call began
    failed        \* history: a read of the call failed

vars == <<pc, request, valid, rows, tried, snapshot, denied, bestDenied, decision,
          membership, seen, failed>>

Membership == {{}} \cup {{n} : n \in WorkspaceRole}
Scopes == <<"tenant", "workspace", "own">>
DeniedReason == {"none", "tenant", "owner", "missing", "role", "other"}
Reason == {"allowed", "invalid_request", "permission_not_granted", "tenant_mismatch",
           "owner_mismatch", "workspace_membership_missing", "workspace_role_denied",
           "invalid_policy", "dependency_unavailable"}
Decision == [allowed: BOOLEAN, reason: Reason, scope: Scope \cup {"none"}]

Denial(reason) == [allowed |-> FALSE, reason |-> reason, scope |-> "none"]
Allowed(scope) == [allowed |-> TRUE, reason |-> "allowed", scope |-> scope]

AuthorizerTypeOK ==
    /\ pc \in {"list", "validate", "evaluate", "done"}
    /\ request \in Request /\ valid \in BOOLEAN
    /\ Len(rows) <= MaxRows /\ \A i \in 1..Len(rows) : rows[i] \in RowGrant \cup {Malformed}
    /\ tried \in (0..3) \X (0..MaxRows)
    /\ snapshot \subseteq Membership /\ Cardinality(snapshot) <= 1
    /\ denied \in DeniedReason /\ bestDenied \in DeniedReason
    /\ decision \in Decision
    /\ membership \in seen /\ seen \subseteq Membership
    /\ failed \in BOOLEAN

\* validateRequest, then the tenant: neither touches a policy row.
Entry(r, ok) ==
    IF ~ok THEN Denial("invalid_request")
    ELSE IF ~r.sameTenant THEN Denial("tenant_mismatch") ELSE Denial("permission_not_granted")

\* A call starts with any request, in any state of the host.
Init ==
    /\ membership \in Membership /\ seen = {membership}
    /\ \E p \in {g.permission : g \in RowGrant} :
        request \in {r \in Request : r.permission = p /\ r.membership = {}}
    /\ valid \in BOOLEAN
    /\ decision = Entry(request, valid)
    /\ pc = IF valid /\ request.sameTenant THEN "list" ELSE "done"
    /\ rows = <<>> /\ tried = <<0, 0>> /\ snapshot = {}
    /\ denied = "none" /\ bestDenied = "none"
    /\ failed = FALSE

-----------------------------------------------------------------------------
(* The reads. *)

Fails ==
    /\ failed' = TRUE /\ pc' = "done"
    /\ decision' = Denial("dependency_unavailable")

ListEffectiveGrants ==
    /\ pc = "list"
    /\ \/ /\ \E n \in 0..MaxRows : rows' \in [1..n -> RowGrant \cup {Malformed}]
          /\ pc' = "validate"
          /\ UNCHANGED <<decision, failed>>
       \/ Fails /\ UNCHANGED rows
    /\ UNCHANGED <<request, valid, tried, snapshot, denied, bestDenied, membership, seen>>

\* All of the grants, before any of them is tried.
ValidateGrants ==
    /\ pc = "validate"
    /\ IF \E i \in 1..Len(rows) : rows[i] = Malformed
       THEN pc' = "done" /\ decision' = Denial("invalid_policy")
       ELSE pc' = "evaluate" /\ UNCHANGED decision
    /\ UNCHANGED <<request, valid, rows, tried, snapshot, denied, bestDenied, membership, seen, failed>>

-----------------------------------------------------------------------------
(* The loops. *)

Rank == [tenant |-> 1, owner |-> 2, missing |-> 3, role |-> 4, other |-> 5, none |-> 6]

\* mergeDenied: "other" absorbs, "none" gives way, else the lower rank wins.
MergeDenied(a, b) ==
    IF "other" \in {a, b} THEN "other"
    ELSE IF Rank[b] < Rank[a] THEN b ELSE a

ReasonOr(d) ==
    CASE d = "tenant" -> "tenant_mismatch"
      [] d = "owner" -> "owner_mismatch"
      [] d = "missing" -> "workspace_membership_missing"
      [] d = "role" -> "workspace_role_denied"
      [] OTHER -> "permission_not_granted"

\* Why a grant did not allow the request, with the membership it was tried on.
DeniedBy(g, m) ==
    IF ~request.sameTenant THEN "tenant"
    ELSE IF request.mode = "tenant_action" THEN "other"
    ELSE IF g.scope = "own" THEN "owner"
    ELSE IF g.scope = "workspace" THEN IF m = {} THEN "missing" ELSE "role"
    ELSE "other"

NeedsMembership(g) == g.scope = "workspace" /\ request.mode # "tenant_action" /\ request.inWorkspace

\* Mutant: the membership is looked up for every candidate.
LoadEach(g) == IF NeedsMembership(g) THEN {membership} ELSE snapshot

\* What the snapshot holds when g is tried: loaded by the first grant that
\* needs it, and kept.
Load(g) ==
    IF NeedsMembership(g) /\ snapshot = {} THEN {membership} ELSE snapshot

\* The grant, tried on the snapshot; one that was never loaded is no member.
Evaluate(g) ==
    LET loaded == Load(g)
        m == IF loaded = {} THEN {} ELSE CHOOSE x \in loaded : TRUE
    IN  /\ snapshot' = loaded
        /\ IF AllowAccess([request EXCEPT !.membership = m], g)
           THEN pc' = "done" /\ decision' = Allowed(g.scope) /\ UNCHANGED denied
           ELSE denied' = MergeDenied(denied, DeniedBy(g, m)) /\ UNCHANGED <<pc, decision>>

\* One turn of the inner loop: a grant of another scope is passed over, a look-up
\* may fail, and otherwise the grant is tried.
TryNext ==
    LET g == rows[tried[2] + 1]
    IN  /\ pc = "evaluate" /\ tried[1] < 3 /\ tried[2] < Len(rows)
        /\ tried' = <<tried[1], tried[2] + 1>>
        /\ \/ g.scope # Scopes[tried[1] + 1] /\ UNCHANGED <<pc, snapshot, denied, decision, failed>>
           \/ g.scope = Scopes[tried[1] + 1] /\ Evaluate(g) /\ UNCHANGED failed
           \/ /\ g.scope = Scopes[tried[1] + 1] /\ NeedsMembership(g) /\ snapshot = {}
              /\ Fails /\ UNCHANGED <<snapshot, denied>>
        /\ UNCHANGED <<request, valid, rows, bestDenied, membership, seen>>

\* The end of a scope, and of the last one.
NextScope ==
    /\ pc = "evaluate" /\ tried[1] < 3 /\ tried[2] = Len(rows)
    /\ tried' = <<tried[1] + 1, 0>>
    /\ bestDenied' = MergeDenied(bestDenied, denied)
    /\ denied' = "none"
    /\ UNCHANGED <<pc, request, valid, rows, snapshot, decision, membership, seen, failed>>

Deny ==
    /\ pc = "evaluate" /\ tried[1] = 3
    /\ pc' = "done"
    /\ decision' = Denial(ReasonOr(bestDenied))
    /\ UNCHANGED <<request, valid, rows, tried, snapshot, denied, bestDenied, membership, seen, failed>>

\* The host changes the principal's membership of the workspace.
HostChanges ==
    /\ pc # "done"
    /\ membership' \in Membership
    /\ seen' = seen \cup {membership'}
    /\ UNCHANGED <<pc, request, valid, rows, tried, snapshot, denied, bestDenied, decision, failed>>

Check == ListEffectiveGrants \/ ValidateGrants \/ TryNext \/ NextScope \/ Deny

Next == Check \/ HostChanges

Spec == Init /\ [][Next]_vars

-----------------------------------------------------------------------------
(* The reference: the doc comment of Check. *)

Reference(gs, m) ==
    LET asked == [request EXCEPT !.membership = m]
        allowing(s) == \E g \in gs : g.scope = s /\ AllowAccess(asked, g)
        holds(s) == request.mode # "tenant_action" /\ \E g \in gs : g.scope = s
    IN  CASE ~valid -> Denial("invalid_request")
          [] valid /\ ~request.sameTenant -> Denial("tenant_mismatch")
          [] OTHER ->
             IF Malformed \in gs THEN Denial("invalid_policy")
             ELSE IF allowing("tenant") THEN Allowed("tenant")
             ELSE IF allowing("workspace") THEN Allowed("workspace")
             ELSE IF allowing("own") THEN Allowed("own")
             ELSE IF holds("own") THEN Denial("owner_mismatch")
             ELSE IF holds("workspace") /\ (m = {} \/ ~request.inWorkspace)
                  THEN Denial("workspace_membership_missing")
             ELSE IF holds("workspace") THEN Denial("workspace_role_denied")
             ELSE Denial("permission_not_granted")

\* "The result is deterministic and independent of adapter row order"
\* (authorizer.go:35): the decision is the documented function of the set of
\* grants and of one membership that the host had during the call, however
\* often the host changed it meanwhile.  "Dependency failure ... never enters
\* reason precedence" (:45): a failed read ends the call as such, and is never
\* taken for a missing grant or a missing membership.
DecisionIsReference ==
    pc = "done" =>
        IF failed THEN decision = Denial("dependency_unavailable")
        ELSE \E m \in seen : decision = Reference({rows[i] : i \in 1..Len(rows)}, m)
=============================================================================
