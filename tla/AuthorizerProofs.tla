-------------------------- MODULE AuthorizerProofs --------------------------
(***************************************************************************)
(* Authorizer.Check decides what its doc comment says, for every catalog,  *)
(* every list of grants of any length in any row order, and every schedule *)
(* of the host's changes.                                                  *)
(***************************************************************************)
EXTENDS Authorizer, TLAPS, SequenceTheorems, FiniteSetTheorems

USE MaxRowsAssumption

\* The request as it is judged with the membership m.
Asked(m) == [request EXCEPT !.membership = m]

\* The memberships that the call may be taken to have been decided with.
Fits(m) == m \in seen /\ snapshot \subseteq {m}

\* The place of a scope in the order they are tried in.
Pos(s) == IF s = "tenant" THEN 1 ELSE IF s = "workspace" THEN 2 ELSE 3

\* Row j has been tried.
Past(j) == Pos(rows[j].scope) <= tried[1] \/ (Pos(rows[j].scope) = tried[1] + 1 /\ j <= tried[2])

Holds(s) == \E j \in 1..Len(rows) : rows[j].scope = s

\* Why the grants of scope s that were tried did not allow the request.
Why(s) ==
    IF request.mode = "tenant_action" THEN "other"
    ELSE IF s = "own" THEN "owner"
    ELSE IF snapshot = {} \/ snapshot = {{}} THEN "missing" ELSE "role"

\* What bestDenied is after k scopes: a tenant grant would have allowed.
Best(k) ==
    IF request.mode = "tenant_action"
    THEN IF \E j \in 1..Len(rows) : Pos(rows[j].scope) <= k THEN "other" ELSE "none"
    ELSE IF k = 3 /\ Holds("own") THEN "owner"
    ELSE IF k >= 2 /\ Holds("workspace") THEN Why("workspace")
    ELSE "none"

-----------------------------------------------------------------------------
(* The inductive invariant. *)

Types ==
    /\ pc \in {"list", "validate", "evaluate", "done"}
    /\ request \in Request /\ valid \in BOOLEAN
    /\ \E g \in RowGrant : request.permission = g.permission
    /\ rows \in Seq(RowGrant \cup {Malformed}) /\ Len(rows) <= MaxRows
    /\ tried \in (0..3) \X (0..MaxRows)
    /\ denied \in DeniedReason /\ bestDenied \in DeniedReason
    /\ decision \in Decision
    /\ seen \subseteq Membership /\ membership \in seen
    /\ failed \in BOOLEAN

\* The snapshot is a membership the host had, and is read only for a resource
\* in a workspace.
SnapshotOK ==
    snapshot # {} => /\ \E m \in seen : snapshot = {m}
                     /\ request.inWorkspace /\ request.mode # "tenant_action"

\* Until the loops start nothing was read of the host; from then on the grants
\* are well formed.
Started ==
    /\ pc # "done" => valid /\ request.sameTenant /\ ~failed
    /\ pc \in {"list", "validate"} => tried = <<0, 0>> /\ snapshot = {} /\ denied = "none" /\ bestDenied = "none"
    /\ pc = "evaluate" => tried[2] <= Len(rows) /\ \A j \in 1..Len(rows) : rows[j] \in RowGrant

\* No grant that was tried allows the request, with the membership of the
\* snapshot; while there is none, no grant that was tried depends on one.
NoneAllows ==
    pc = "evaluate" => \A j \in 1..Len(rows) : Past(j) =>
        /\ NeedsMembership(rows[j]) => snapshot # {}
        /\ \A m \in Membership : snapshot \subseteq {m} => ~AllowAccess(Asked(m), rows[j])

\* The reasons collected depend on the scopes alone, not on the order of rows.
DeniedOK ==
    pc = "evaluate" =>
        /\ denied = IF \E j \in 1..tried[2] : Pos(rows[j].scope) = tried[1] + 1
                    THEN Why(IF tried[1] = 0 THEN "tenant" ELSE IF tried[1] = 1 THEN "workspace" ELSE "own")
                    ELSE "none"
        /\ tried[1] = 3 => denied = "none"
        /\ bestDenied = Best(tried[1])

IInv == Types /\ SnapshotOK /\ Started /\ NoneAllows /\ DeniedOK /\ DecisionIsReference

-----------------------------------------------------------------------------
(* What the operators give. *)

\* The scopes are tried in the order of Pos.
LEMMA ScopeOrder ==
  ASSUME NEW k \in 0..2, NEW s \in Scope
  PROVE  /\ s = Scopes[k + 1] <=> Pos(s) = k + 1
         /\ Pos(s) \in 1..3
  <1>1. Scopes[1] = "tenant" /\ Scopes[2] = "workspace" /\ Scopes[3] = "own" BY DEF Scopes
  <1>2. k = 0 \/ k = 1 \/ k = 2 OBVIOUS
  <1> QED BY <1>1, <1>2 DEF Pos, Scope

\* A row of the list is a grant with the permission of the request.
LEMMA RowFacts ==
  ASSUME NEW g \in RowGrant
  PROVE  /\ g \in Grant /\ g.scope \in Scope /\ g # Malformed
         /\ Types => request.permission = g.permission
  <1>1. g \in Grant /\ g # Malformed BY RowGrantAssumption, MalformedAssumption
  <1>2. Types => request.permission = g.permission BY RowGrantAssumption DEF Types
  <1> QED BY <1>1, <1>2 DEF Grant

\* When a row allows the request.
LEMMA AllowsWhen ==
  ASSUME Types, request.sameTenant, NEW g \in RowGrant, NEW m
  PROVE  AllowAccess(Asked(m), g) <=>
            \/ g.scope = "tenant"
            \/ /\ request.mode # "tenant_action"
               /\ \/ g.scope = "own" /\ request.own
                  \/ /\ g.scope = "workspace" /\ request.inWorkspace
                     /\ \E role \in m : WorkspaceRoleMatch(role, g.workspaceRoles)
  <1>1. /\ Asked(m).membership = m /\ Asked(m).permission = request.permission
        /\ Asked(m).sameTenant = request.sameTenant /\ Asked(m).mode = request.mode
        /\ Asked(m).own = request.own /\ Asked(m).inWorkspace = request.inWorkspace
    BY DEF Asked, Types, Request
  <1> QED BY <1>1, RowFacts DEF AllowAccess

\* A row that needs no membership allows with any or with none.
LEMMA NoMembershipNeeded ==
  ASSUME Types, request.sameTenant, NEW g \in RowGrant, ~NeedsMembership(g), NEW m, NEW n
  PROVE  AllowAccess(Asked(m), g) <=> AllowAccess(Asked(n), g)
  BY AllowsWhen DEF NeedsMembership

\* The rows as a set.
LEMMA RowSet ==
  ASSUME Types, NEW i \in 1..Len(rows)
  PROVE  rows[i] \in RowGrant \cup {Malformed}
  BY ElementOfSeq DEF Types

\* Merging the reasons of one scope.
LEMMA MergeSame ==
  ASSUME NEW d \in DeniedReason
  PROVE  MergeDenied("none", d) = d /\ MergeDenied(d, "none") = d /\ MergeDenied(d, d) = d
  BY DEF MergeDenied, Rank, DeniedReason

\* Merging the reasons of the scopes.
LEMMA MergeScopes ==
  /\ MergeDenied("missing", "owner") = "owner" /\ MergeDenied("role", "owner") = "owner"
  /\ \A d \in DeniedReason : MergeDenied(d, "other") = "other" /\ MergeDenied("other", d) = "other"
  /\ \A d, e \in DeniedReason : MergeDenied(d, e) \in DeniedReason
  BY DEF MergeDenied, Rank, DeniedReason

\* A reason is a reason.
LEMMA WhyIs == \A x \in Scope : Why(x) \in DeniedReason
  BY DEF Why, DeniedReason

\* Decisions have their type.
LEMMA Decisions ==
  /\ \A r \in Reason : Denial(r) \in Decision
  /\ \A x \in Scope : Allowed(x) \in Decision
  /\ \A d : ReasonOr(d) \in Reason
  BY DEF Denial, Allowed, Decision, Reason, ReasonOr

-----------------------------------------------------------------------------
(* The invariant is inductive. *)

\* The invariant holds when a call starts.
LEMMA InitIInv == Init => IInv
  <1> SUFFICES ASSUME Init PROVE IInv OBVIOUS
  <1>1. Types
    <2>1. rows \in Seq(RowGrant \cup {Malformed}) /\ Len(rows) = 0 BY EmptySeq DEF Init
    <2>2. tried \in (0..3) \X (0..MaxRows) BY DEF Init
    <2>3. decision \in Decision BY Decisions DEF Init, Entry, Reason
    <2>4. request \in Request /\ \E g \in RowGrant : request.permission = g.permission BY DEF Init
    <2>5. pc \in {"list", "done"} BY DEF Init
    <2>6. seen \subseteq Membership /\ membership \in seen BY DEF Init
    <2>7. valid \in BOOLEAN /\ failed \in BOOLEAN BY DEF Init
    <2>8. denied \in DeniedReason /\ bestDenied \in DeniedReason BY DEF Init, DeniedReason
    <2> QED BY <2>1, <2>2, <2>3, <2>4, <2>5, <2>6, <2>7, <2>8 DEF Types
  <1>2. SnapshotOK /\ Started /\ NoneAllows /\ DeniedOK
    BY DEF Init, SnapshotOK, Started, NoneAllows, DeniedOK
  <1>3. DecisionIsReference
    <2> SUFFICES ASSUME pc = "done"
                 PROVE  ~failed /\ decision = Reference({rows[i] : i \in 1..Len(rows)}, membership) /\ membership \in seen
      BY DEF DecisionIsReference
    <2>1. ~valid \/ ~request.sameTenant BY DEF Init
    <2>2. CASE ~valid BY <2>2 DEF Init, Entry, Reference
    <2>3. CASE valid /\ ~request.sameTenant BY <2>3 DEF Init, Entry, Reference
    <2> QED BY <2>1, <2>2, <2>3 DEF Init
  <1> QED BY <1>1, <1>2, <1>3 DEF IInv

\* Reading the rows.
LEMMA ListIInv == ASSUME IInv, ListEffectiveGrants PROVE IInv'
  <1> USE DEF IInv
  <1>1. CASE Fails /\ UNCHANGED rows
    <2>1. Types' BY <1>1, Decisions DEF ListEffectiveGrants, Fails, Types, Reason
    <2> QED BY <1>1, <2>1 DEF ListEffectiveGrants, Fails, SnapshotOK, Started, NoneAllows, DeniedOK,
                              DecisionIsReference
  <1>2. CASE \E n \in 0..MaxRows : rows' \in [1..n -> RowGrant \cup {Malformed}] /\ pc' = "validate"
    <2>1. PICK n \in 0..MaxRows : rows' \in [1..n -> RowGrant \cup {Malformed}] BY <1>2
    <2>2. rows' \in Seq(RowGrant \cup {Malformed}) BY <2>1, SeqDef
    <2>3. Len(rows') = n BY <2>1, <2>2, LenProperties
    <2>4. pc' = "validate" /\ UNCHANGED <<decision, failed>> BY <1>2 DEF ListEffectiveGrants, Fails
    <2>5. Types' BY <2>2, <2>3, <2>4 DEF ListEffectiveGrants, Types
    <2> QED BY <2>4, <2>5 DEF ListEffectiveGrants, SnapshotOK, Started, NoneAllows, DeniedOK, DecisionIsReference
  <1> QED BY <1>1, <1>2 DEF ListEffectiveGrants

\* Validating them.
LEMMA ValidateIInv == ASSUME IInv, ValidateGrants PROVE IInv'
  <1> USE DEF IInv
  <1>0. Types'
    BY Decisions DEF ValidateGrants, Types, Reason
  <1>1. CASE \E i \in 1..Len(rows) : rows[i] = Malformed
    <2>1. Malformed \in {rows[i] : i \in 1..Len(rows)} BY <1>1
    <2>2. Reference({rows[i] : i \in 1..Len(rows)}, membership) = Denial("invalid_policy")
      BY <2>1 DEF Reference, Started, ValidateGrants
    <2>3. Reference({rows[i] : i \in 1..Len(rows)}, membership)'
            = Reference({rows[i] : i \in 1..Len(rows)}, membership)
      BY DEF Reference, ValidateGrants
    <2>4. DecisionIsReference' BY <1>1, <2>2, <2>3 DEF ValidateGrants, DecisionIsReference, Started, Types
    <2> QED BY <1>0, <1>1, <2>4 DEF ValidateGrants, SnapshotOK, Started, NoneAllows, DeniedOK
  <1>2. CASE ~\E i \in 1..Len(rows) : rows[i] = Malformed
    <2>1. pc' = "evaluate" BY <1>2 DEF ValidateGrants
    <2>2. Started' BY <1>2, <2>1, RowSet DEF ValidateGrants, Started, Types
    <2>3. tried[1] = 0 /\ tried[2] = 0 BY DEF Started, ValidateGrants
    <2>4. \A j \in 1..Len(rows) : Pos(rows[j].scope) # 0 /\ ~(Pos(rows[j].scope) <= 0) BY DEF Pos
    <2>5. NoneAllows'
      <3> SUFFICES ASSUME NEW j \in 1..Len(rows), Past(j)' PROVE FALSE
        BY DEF NoneAllows, ValidateGrants
      <3> QED BY <2>3, <2>4 DEF Past, ValidateGrants
    <2>6. DeniedOK'
      <3>1. denied = "none" /\ bestDenied = "none" BY DEF Started, ValidateGrants
      <3> QED BY <2>3, <2>4, <3>1 DEF DeniedOK, ValidateGrants, Best
    <2> QED BY <1>0, <2>1, <2>2, <2>5, <2>6 DEF ValidateGrants, SnapshotOK, DecisionIsReference
  <1> QED BY <1>1, <1>2

\* The host's changes add to what the call may have seen.
LEMMA HostIInv == ASSUME IInv, HostChanges PROVE IInv'
  <1> USE DEF IInv, HostChanges
  <1>1. Types' BY DEF Types
  <1>2. SnapshotOK' BY DEF SnapshotOK
  <1>3. Started' BY DEF Started
  <1>4. NoneAllows' BY DEF NoneAllows, Past, NeedsMembership, Asked
  <1>5. DeniedOK' BY DEF DeniedOK, Best, Why, Holds
  <1>6. DecisionIsReference' BY DEF DecisionIsReference
  <1> QED BY <1>1, <1>2, <1>3, <1>4, <1>5, <1>6

\* Turning to the next scope.
LEMMA NextScopeIInv == ASSUME IInv, NextScope PROVE IInv'
  <1> USE DEF IInv
  <1>0. pc = "evaluate" /\ pc' = "evaluate" /\ tried[1] \in 0..2 /\ tried[2] = Len(rows) /\ Len(rows) \in Nat
    BY LenProperties DEF NextScope, Types
  <1>1. tried'[1] = tried[1] + 1 /\ tried'[2] = 0 BY DEF NextScope
  <1>2. \A j \in 1..Len(rows) : rows[j] \in RowGrant /\ rows[j].scope \in Scope /\ Pos(rows[j].scope) \in 1..3
    BY <1>0, RowFacts DEF Started, Pos
  <1>3. Types'
    <2>1. tried' \in (0..3) \X (0..MaxRows) BY <1>0, <1>1 DEF NextScope, Types
    <2>2. denied' \in DeniedReason /\ bestDenied' \in DeniedReason
      BY MergeScopes DEF NextScope, Types, DeniedReason
    <2> QED BY <2>1, <2>2 DEF NextScope, Types
  <1>4. SnapshotOK' BY DEF NextScope, SnapshotOK
  <1>5. Started' BY <1>0, <1>1 DEF NextScope, Started
  <1>6. \A j \in 1..Len(rows) : Past(j)' => Past(j) BY <1>0, <1>1, <1>2 DEF Past, NextScope
  <1>7. NoneAllows' BY <1>0, <1>6 DEF NextScope, NoneAllows, NeedsMembership, Asked
  <1>8. DeniedOK'
    <2>1. denied' = "none" /\ 1..tried'[2] = {} BY <1>1 DEF NextScope
    <2> SUFFICES Best(tried[1] + 1) = MergeDenied(Best(tried[1]), denied)
      BY <1>0, <1>1, <2>1 DEF DeniedOK, NextScope, Best, Why, Holds
    <2>2. denied = IF \E j \in 1..Len(rows) : Pos(rows[j].scope) = tried[1] + 1
                   THEN Why(IF tried[1] = 0 THEN "tenant" ELSE IF tried[1] = 1 THEN "workspace" ELSE "own")
                   ELSE "none"
      BY <1>0 DEF DeniedOK
    <2>3. ~\E j \in 1..Len(rows) : Past(j) /\ rows[j].scope = "tenant"
      <3> SUFFICES ASSUME NEW j \in 1..Len(rows), Past(j), rows[j].scope = "tenant" PROVE FALSE OBVIOUS
      <3>1. PICK m \in Membership : snapshot \subseteq {m} BY DEF SnapshotOK, Types
      <3> QED BY <1>0, <1>2, <3>1, AllowsWhen DEF NoneAllows, Started
    <2>4. CASE request.mode = "tenant_action"
      <3>1. Best(tried[1]) \in {"none", "other"} /\ denied \in {"none", "other"} BY <2>2, <2>4 DEF Best, Why
      <3>2. Best(tried[1] + 1) = "other" <=> Best(tried[1]) = "other" \/ denied = "other"
        <4>1. \A j \in 1..Len(rows) : Pos(rows[j].scope) <= tried[1] + 1
                  <=> Pos(rows[j].scope) <= tried[1] \/ Pos(rows[j].scope) = tried[1] + 1
          BY <1>0, <1>2
        <4> QED BY <2>2, <2>4, <4>1 DEF Best, Why
      <3>3. Best(tried[1] + 1) \in {"none", "other"} BY <2>4 DEF Best
      <3> QED BY <3>1, <3>2, <3>3, MergeScopes, MergeSame DEF DeniedReason
    <2>5. CASE request.mode # "tenant_action" /\ tried[1] = 0
      <3>1. ~\E j \in 1..Len(rows) : Pos(rows[j].scope) = 1
        <4> SUFFICES ASSUME NEW j \in 1..Len(rows), Pos(rows[j].scope) = 1 PROVE FALSE OBVIOUS
        <4>1. rows[j].scope = "tenant" /\ Past(j) BY <1>0, <2>5 DEF Pos, Past
        <4> QED BY <2>3, <4>1
      <3>2. denied = "none" BY <2>2, <2>5, <3>1
      <3>3. Best(0) = "none" /\ Best(1) = "none" BY <2>5 DEF Best
      <3> QED BY <2>5, <3>2, <3>3, MergeSame DEF DeniedReason
    <2>6. CASE request.mode # "tenant_action" /\ tried[1] = 1
      <3>1. (\E j \in 1..Len(rows) : Pos(rows[j].scope) = 2) <=> Holds("workspace")
        BY <1>2 DEF Pos, Holds, Scope
      <3>2. Best(1) = "none" /\ Best(2) = IF Holds("workspace") THEN Why("workspace") ELSE "none"
        BY <2>6 DEF Best
      <3>3. denied = Best(2) BY <2>2, <2>6, <3>1, <3>2
      <3> QED BY <2>6, <3>2, <3>3, MergeSame DEF Types
    <2>7. CASE request.mode # "tenant_action" /\ tried[1] = 2
      <3>1. (\E j \in 1..Len(rows) : Pos(rows[j].scope) = 3) <=> Holds("own")
        BY <1>2 DEF Pos, Holds, Scope
      <3>2. Best(2) \in {"none", "missing", "role"} BY <2>7 DEF Best, Why
      <3>3. Best(3) = IF Holds("own") THEN "owner" ELSE Best(2) BY <2>7 DEF Best
      <3>4. denied = IF Holds("own") THEN "owner" ELSE "none" BY <2>2, <2>7, <3>1 DEF Why
      <3> QED BY <2>7, <3>2, <3>3, <3>4, MergeSame, MergeScopes DEF DeniedReason
    <2> QED BY <1>0, <2>4, <2>5, <2>6, <2>7
  <1>9. DecisionIsReference' BY <1>0 DEF DecisionIsReference
  <1> QED BY <1>3, <1>4, <1>5, <1>7, <1>8, <1>9

\* What the reference says of a set of well-formed rows, once the request is
\* accepted.
LEMMA ReferenceOfRows ==
  ASSUME Types, Started, pc = "evaluate", NEW m
  PROVE  LET allowing(s) == \E j \in 1..Len(rows) : rows[j].scope = s /\ AllowAccess(Asked(m), rows[j])
             holds(s) == request.mode # "tenant_action" /\ Holds(s)
         IN  Reference({rows[i] : i \in 1..Len(rows)}, m) =
             IF allowing("tenant") THEN Allowed("tenant")
             ELSE IF allowing("workspace") THEN Allowed("workspace")
             ELSE IF allowing("own") THEN Allowed("own")
             ELSE IF holds("own") THEN Denial("owner_mismatch")
             ELSE IF holds("workspace") /\ (m = {} \/ ~request.inWorkspace)
                  THEN Denial("workspace_membership_missing")
             ELSE IF holds("workspace") THEN Denial("workspace_role_denied")
             ELSE Denial("permission_not_granted")
  <1> DEFINE gs == {rows[i] : i \in 1..Len(rows)}
             allowingSet(s) == \E g \in gs : g.scope = s /\ AllowAccess(Asked(m), g)
             allowing(s) == \E j \in 1..Len(rows) : rows[j].scope = s /\ AllowAccess(Asked(m), rows[j])
             holdsSet(s) == request.mode # "tenant_action" /\ \E g \in gs : g.scope = s
             holds(s) == request.mode # "tenant_action" /\ Holds(s)
  <1>1. Malformed \notin gs BY RowFacts DEF Started
  <1>2. valid /\ request.sameTenant BY DEF Started
  <1>3. Reference(gs, m) =
             IF allowingSet("tenant") THEN Allowed("tenant")
             ELSE IF allowingSet("workspace") THEN Allowed("workspace")
             ELSE IF allowingSet("own") THEN Allowed("own")
             ELSE IF holdsSet("own") THEN Denial("owner_mismatch")
             ELSE IF holdsSet("workspace") /\ (m = {} \/ ~request.inWorkspace)
                  THEN Denial("workspace_membership_missing")
             ELSE IF holdsSet("workspace") THEN Denial("workspace_role_denied")
             ELSE Denial("permission_not_granted")
    <2> HIDE DEF gs
    <2> QED BY <1>1, <1>2 DEF Reference, Asked
  <1>4. ASSUME NEW x PROVE allowingSet(x) <=> allowing(x) OBVIOUS
  <1>5. ASSUME NEW x PROVE holdsSet(x) <=> holds(x) BY DEF Holds
  <1> HIDE DEF allowingSet, allowing, holdsSet, holds, gs
  <1>6. Reference(gs, m) =
             IF allowing("tenant") THEN Allowed("tenant")
             ELSE IF allowing("workspace") THEN Allowed("workspace")
             ELSE IF allowing("own") THEN Allowed("own")
             ELSE IF holds("own") THEN Denial("owner_mismatch")
             ELSE IF holds("workspace") /\ (m = {} \/ ~request.inWorkspace)
                  THEN Denial("workspace_membership_missing")
             ELSE IF holds("workspace") THEN Denial("workspace_role_denied")
             ELSE Denial("permission_not_granted")
    BY <1>3, <1>4, <1>5
  <1> QED BY <1>6 DEF allowing, holds, gs

\* The reference depends on what a step of the loops leaves alone.
LEMMA ReferenceKept ==
  ASSUME UNCHANGED <<request, valid, rows, seen>>, pc' = "done", failed' = failed, ~failed,
         NEW m \in seen, decision' = Reference({rows[i] : i \in 1..Len(rows)}, m)
  PROVE  DecisionIsReference'
  <1>1. ASSUME NEW x PROVE Reference({rows[i] : i \in 1..Len(rows)}, x)' = Reference({rows[i] : i \in 1..Len(rows)}, x)
    BY DEF Reference
  <1> QED BY <1>1 DEF DecisionIsReference

\* All the scopes were tried in vain.
LEMMA DenyIInv == ASSUME IInv, Deny PROVE IInv'
  <1> USE DEF IInv
  <1>0. pc = "evaluate" /\ tried[1] = 3 /\ pc' = "done" /\ ~failed /\ bestDenied = Best(3)
    BY DEF Deny, DeniedOK, Started
  <1>1. Types' BY Decisions DEF Deny, Types
  <1>2. PICK m \in seen : snapshot \subseteq {m} /\ m \in Membership BY DEF SnapshotOK, Types
  <1>3. ASSUME NEW j \in 1..Len(rows)
        PROVE  /\ ~AllowAccess(Asked(m), rows[j])
               /\ NeedsMembership(rows[j]) => snapshot # {}
               /\ rows[j] \in RowGrant
    <2>1. Past(j) BY <1>0 DEF Past, Pos
    <2> QED BY <1>0, <1>2, <2>1 DEF NoneAllows, Started
  <1>4. Reference({rows[i] : i \in 1..Len(rows)}, m) =
             IF request.mode # "tenant_action" /\ Holds("own") THEN Denial("owner_mismatch")
             ELSE IF request.mode # "tenant_action" /\ Holds("workspace") /\ (m = {} \/ ~request.inWorkspace)
                  THEN Denial("workspace_membership_missing")
             ELSE IF request.mode # "tenant_action" /\ Holds("workspace") THEN Denial("workspace_role_denied")
             ELSE Denial("permission_not_granted")
    BY <1>0, <1>3, ReferenceOfRows
  <1>5. decision' = Denial(ReasonOr(Best(3))) BY <1>0 DEF Deny
  <1>6. decision' = Reference({rows[i] : i \in 1..Len(rows)}, m)
    <2>1. CASE request.mode = "tenant_action"
      <3>1. Best(3) \in {"other", "none"} BY <2>1 DEF Best
      <3>2. ReasonOr(Best(3)) = "permission_not_granted" BY <3>1 DEF ReasonOr
      <3> QED BY <1>4, <1>5, <2>1, <3>2
    <2>2. CASE request.mode # "tenant_action" /\ Holds("own")
      <3>1. ReasonOr(Best(3)) = "owner_mismatch" BY <2>2 DEF Best, ReasonOr
      <3> QED BY <1>4, <1>5, <2>2, <3>1
    <2>3. CASE request.mode # "tenant_action" /\ ~Holds("own") /\ Holds("workspace")
      <3>1. Best(3) = Why("workspace") BY <2>3 DEF Best
      <3>2. Why("workspace") = IF m = {} \/ ~request.inWorkspace THEN "missing" ELSE "role"
        <4>1. request.inWorkspace => snapshot # {} BY <1>3, <2>3 DEF NeedsMembership, Holds
        <4>2. snapshot = {} \/ (snapshot = {m} /\ request.inWorkspace) BY <1>2 DEF SnapshotOK
        <4> QED BY <2>3, <4>1, <4>2 DEF Why
      <3>3. ReasonOr(Best(3)) = IF m = {} \/ ~request.inWorkspace THEN "workspace_membership_missing"
                                ELSE "workspace_role_denied"
        BY <3>1, <3>2 DEF ReasonOr
      <3> QED BY <1>4, <1>5, <2>3, <3>3
    <2>4. CASE request.mode # "tenant_action" /\ ~Holds("own") /\ ~Holds("workspace")
      <3>1. ReasonOr(Best(3)) = "permission_not_granted" BY <2>4 DEF Best, ReasonOr
      <3> QED BY <1>4, <1>5, <2>4, <3>1
    <2> QED BY <2>1, <2>2, <2>3, <2>4
  <1>7. DecisionIsReference' BY <1>0, <1>2, <1>6, ReferenceKept DEF Deny
  <1> QED BY <1>0, <1>1, <1>7 DEF Deny, SnapshotOK, Started, NoneAllows, DeniedOK

\* A row is tried, or passed over.
LEMMA TryIInv == ASSUME IInv, TryNext PROVE IInv'
  <1> USE DEF IInv
  <1>k. PICK k : k = tried[1] OBVIOUS
  <1>i. PICK i : i = tried[2] + 1 OBVIOUS
  <1>g. PICK g : g = rows[i] OBVIOUS
  <1> USE <1>k, <1>i, <1>g
  <1>0. /\ pc = "evaluate" /\ k \in 0..2 /\ i \in 1..Len(rows) /\ Len(rows) \in Nat /\ Len(rows) <= MaxRows
        /\ tried'[1] = k /\ tried'[2] = i /\ i - 1 = tried[2] /\ i \in 0..MaxRows
        /\ UNCHANGED <<request, valid, rows, bestDenied, membership, seen>>
    <2>1. Len(rows) \in Nat BY LenProperties DEF Types
    <2>2. tried[1] \in 0..3 /\ tried[2] \in 0..MaxRows BY DEF Types
    <2> QED BY <2>1, <2>2 DEF TryNext, Types
  <1>1. ~failed /\ valid /\ request.sameTenant BY <1>0 DEF Started
  <1>2. \A j \in 1..Len(rows) : rows[j] \in RowGrant /\ rows[j].scope \in Scope
    BY <1>0, RowFacts DEF Started
  <1>3. g \in RowGrant /\ g.scope \in Scope /\ (g.scope = Scopes[k + 1] <=> Pos(g.scope) = k + 1)
    BY <1>0, <1>2, ScopeOrder
  <1>4. tried' \in (0..3) \X (0..MaxRows)
    <2>1. tried' = <<k, i>> BY DEF TryNext
    <2> QED BY <1>0, <2>1
  <1>5. PICK x : x = (IF k = 0 THEN "tenant" ELSE IF k = 1 THEN "workspace" ELSE "own") OBVIOUS
  <1>6. x \in Scope /\ \A y \in Scope : Pos(y) = k + 1 <=> y = x
    <2>1. k = 0 \/ k = 1 \/ k = 2 BY <1>0
    <2> QED BY <1>5, <2>1 DEF Scope, Pos
  <1>7. \A j \in 1..Len(rows) : Past(j) <=> Pos(rows[j].scope) <= k \/ (rows[j].scope = x /\ j <= i - 1)
    BY <1>0, <1>2, <1>6 DEF Past
  <1>8. \A j \in 1..Len(rows) : Past(j)' <=> Pos(rows[j].scope) <= k \/ (rows[j].scope = x /\ j <= i)
    BY <1>0, <1>2, <1>6 DEF Past
  <1>9. denied = IF \E j \in 1..(i - 1) : rows[j].scope = x THEN Why(x) ELSE "none"
    <2>1. \A j \in 1..(i - 1) : rows[j].scope = x <=> Pos(rows[j].scope) = k + 1 BY <1>0, <1>2, <1>6
    <2> QED BY <1>0, <1>5, <2>1 DEF DeniedOK
  <1> HIDE <1>k, <1>i, <1>g
  <1>10. k = tried[1] /\ g = rows[i] BY <1>k, <1>g
  <1>11. CASE g.scope # x /\ UNCHANGED <<pc, snapshot, denied, decision, failed>>
    <2>1. Types' BY <1>0, <1>4, <1>11 DEF Types
    <2>2. SnapshotOK' BY <1>0, <1>11 DEF SnapshotOK
    <2>3. Started' BY <1>0, <1>11 DEF Started
    <2>4. \A j \in 1..Len(rows) : Past(j)' => Past(j)
      <3> SUFFICES ASSUME NEW j \in 1..Len(rows), rows[j].scope = x, j <= i PROVE j <= i - 1 BY <1>7, <1>8
      <3>1. j # i BY <1>10, <1>11
      <3> QED BY <1>0, <3>1
    <2>5. NoneAllows' BY <1>0, <1>11, <2>4 DEF NoneAllows, NeedsMembership, Asked
    <2>6. (\E j \in 1..i : rows[j].scope = x) <=> (\E j \in 1..(i - 1) : rows[j].scope = x)
      <3>1. 1..i = (1..(i - 1)) \cup {i} BY <1>0
      <3> QED BY <1>10, <1>11, <3>1
    <2>7. DeniedOK'
      <3>1. \A j \in 1..i : rows[j].scope = x <=> Pos(rows[j].scope) = k + 1 BY <1>0, <1>2, <1>6
      <3>2. denied' = IF \E j \in 1..i : Pos(rows[j].scope) = k + 1 THEN Why(x)' ELSE "none"
        BY <1>0, <1>9, <1>11, <2>6, <3>1 DEF Why
      <3>3. bestDenied' = Best(k)' BY <1>0, <1>10, <1>11 DEF DeniedOK, Best, Holds, Why
      <3> QED BY <1>0, <1>5, <3>2, <3>3 DEF DeniedOK
    <2>8. DecisionIsReference' BY <1>0, <1>11 DEF DecisionIsReference
    <2> QED BY <2>1, <2>2, <2>3, <2>5, <2>7, <2>8
  <1>12. CASE Fails /\ UNCHANGED <<snapshot, denied>>
    <2>1. Types' BY <1>0, <1>4, <1>12, Decisions DEF Types, Fails, Reason
    <2> QED BY <1>0, <1>12, <2>1 DEF Fails, SnapshotOK, Started, NoneAllows, DeniedOK, DecisionIsReference
  <1>13. CASE g.scope = x /\ Evaluate(g) /\ UNCHANGED failed
    <2> DEFINE mm == IF Load(g) = {} THEN {} ELSE CHOOSE y \in Load(g) : TRUE
    <2>0. snapshot' = Load(g) BY <1>13 DEF Evaluate
    <2>1. PICK m : m = mm OBVIOUS
    <2>2. /\ snapshot = {} \/ snapshot = {m}
          /\ snapshot' = {} \/ snapshot' = {m}
          /\ snapshot # {} => snapshot' = snapshot
          /\ snapshot' = {} => m = {} /\ ~NeedsMembership(g)
          /\ snapshot' # {} => m \in seen /\ m \in Membership
          /\ snapshot' # {} => request.inWorkspace /\ request.mode # "tenant_action"
      <3>1. CASE NeedsMembership(g) /\ snapshot = {}
        <4>1. Load(g) = {membership} BY <3>1 DEF Load
        <4>2. m = membership BY <2>1, <4>1
        <4> QED BY <2>0, <3>1, <4>1, <4>2 DEF Types, NeedsMembership
      <3>2. CASE snapshot # {}
        <4>1. Load(g) = snapshot BY <3>2 DEF Load
        <4>2. PICK q \in seen : snapshot = {q} BY <3>2 DEF SnapshotOK
        <4>3. m = q BY <2>1, <4>1, <4>2
        <4> QED BY <2>0, <3>2, <4>1, <4>2, <4>3 DEF Types, SnapshotOK
      <3>3. CASE ~NeedsMembership(g) /\ snapshot = {}
        <4>1. Load(g) = {} BY <3>3 DEF Load
        <4> QED BY <2>0, <2>1, <3>3, <4>1
      <3> QED BY <3>1, <3>2, <3>3
    <2>3. PICK q \in seen : snapshot' \subseteq {q} /\ q \in Membership /\ (snapshot' # {} => q = m)
      BY <2>2 DEF Types
    <2>4. AllowAccess(Asked(m), g) <=> AllowAccess(Asked(q), g)
      BY <1>1, <1>3, <2>2, <2>3, NoMembershipNeeded
    <2>5. SnapshotOK' BY <1>0, <2>2, <2>3 DEF SnapshotOK
    <2>6. ASSUME NEW j \in 1..Len(rows), Past(j) PROVE ~AllowAccess(Asked(q), rows[j])
      BY <1>0, <2>2, <2>3, <2>6 DEF NoneAllows
    <2>7. CASE AllowAccess(Asked(m), g)
      <3>1. pc' = "done" /\ decision' = Allowed(x) /\ denied' = denied
        BY <1>13, <2>1, <2>7 DEF Evaluate, Asked
      <3>2. Types' BY <1>0, <1>4, <1>6, <1>13, <3>1, Decisions DEF Types
      <3>3. \E j \in 1..Len(rows) : rows[j].scope = x /\ AllowAccess(Asked(q), rows[j])
        BY <1>0, <1>10, <1>13, <2>4, <2>7
      <3>4. \A j \in 1..Len(rows) : Pos(rows[j].scope) <= k => ~AllowAccess(Asked(q), rows[j])
        BY <1>7, <2>6
      <3>5. decision' = Reference({rows[h] : h \in 1..Len(rows)}, q)
        <4>1. CASE x = "tenant" BY <1>0, <3>1, <3>3, <4>1, ReferenceOfRows
        <4>2. CASE x = "workspace"
          <5>1. k = 1 BY <1>0, <1>5, <4>2
          <5>2. \A j \in 1..Len(rows) : rows[j].scope = "tenant" => ~AllowAccess(Asked(q), rows[j])
            BY <3>4, <5>1 DEF Pos
          <5> QED BY <1>0, <3>1, <3>3, <4>2, <5>2, ReferenceOfRows
        <4>3. CASE x = "own"
          <5>1. k = 2 BY <1>0, <1>5, <4>3
          <5>2. \A j \in 1..Len(rows) : rows[j].scope \in {"tenant", "workspace"} => ~AllowAccess(Asked(q), rows[j])
            BY <3>4, <5>1 DEF Pos
          <5> QED BY <1>0, <3>1, <3>3, <4>3, <5>2, ReferenceOfRows
        <4> QED BY <1>6, <4>1, <4>2, <4>3 DEF Scope
      <3>6. DecisionIsReference' BY <1>0, <1>1, <1>13, <3>1, <3>5, ReferenceKept
      <3> QED BY <2>5, <3>1, <3>2, <3>6 DEF Started, NoneAllows, DeniedOK
    <2>8. CASE ~AllowAccess(Asked(m), g)
      <3>1. pc' = pc /\ decision' = decision /\ denied' = MergeDenied(denied, DeniedBy(g, m))
        BY <1>13, <2>1, <2>8 DEF Evaluate, Asked
      <3>2. g.scope # "tenant" BY <1>1, <1>3, <2>8, AllowsWhen
      <3>3. DeniedBy(g, m) = Why(x)'
        BY <1>0, <1>1, <1>6, <1>13, <2>2, <3>2 DEF DeniedBy, Why, Scope
      <3>4. denied = "none" \/ (denied = Why(x) /\ \E j \in 1..(i - 1) : rows[j].scope = x) BY <1>9
      <3>5. (\E j \in 1..(i - 1) : rows[j].scope = x) => Why(x) = Why(x)'
        <4> SUFFICES ASSUME NEW j \in 1..(i - 1), rows[j].scope = x PROVE Why(x) = Why(x)' OBVIOUS
        <4>1. j \in 1..Len(rows) /\ Past(j) BY <1>0, <1>7
        <4>2. CASE x = "workspace"
          <5>1. NeedsMembership(rows[j]) => snapshot # {} BY <1>0, <4>1 DEF NoneAllows
          <5>2. NeedsMembership(rows[j]) <=> NeedsMembership(g) BY <1>13, <4>2 DEF NeedsMembership
          <5>3. snapshot' = snapshot
            BY <2>0, <5>1, <5>2 DEF Load
          <5> QED BY <1>0, <5>3 DEF Why
        <4>3. CASE x = "own" BY <1>0, <4>3 DEF Why
        <4> QED BY <1>6, <1>13, <3>2, <4>2, <4>3 DEF Scope
      <3>6. Why(x)' \in DeniedReason BY <1>6 DEF Why, DeniedReason
      <3>7. denied' = Why(x)' BY <3>1, <3>3, <3>4, <3>5, <3>6, MergeSame
      <3>8. Types' BY <1>0, <1>4, <1>13, <3>1, <3>6, <3>7 DEF Types
      <3>9. Started' BY <1>0, <1>13, <3>1 DEF Started
      <3>10. NoneAllows'
        <4> SUFFICES ASSUME NEW j \in 1..Len(rows), Past(j)'
                     PROVE  /\ NeedsMembership(rows[j]) => snapshot' # {}
                            /\ \A y \in Membership : snapshot' \subseteq {y} => ~AllowAccess(Asked(y), rows[j])
          BY <1>0 DEF NoneAllows, NeedsMembership, Asked
        <4>1. CASE Past(j)
          <5>1. /\ NeedsMembership(rows[j]) => snapshot # {}
                /\ \A y \in Membership : snapshot \subseteq {y} => ~AllowAccess(Asked(y), rows[j])
            BY <1>0, <4>1 DEF NoneAllows
          <5>2. snapshot \subseteq snapshot' BY <2>2
          <5> QED BY <5>1, <5>2
        <4>2. CASE ~Past(j)
          <5>1. j = i BY <1>0, <1>7, <1>8, <4>2
          <5>2. ~AllowAccess(Asked(m), rows[j]) /\ rows[j] = g BY <1>10, <2>8, <5>1
          <5>3. NeedsMembership(g) => snapshot' # {} BY <2>2
          <5>4. ASSUME NEW y \in Membership, snapshot' \subseteq {y} PROVE ~AllowAccess(Asked(y), g)
            <6>1. CASE snapshot' = {m} BY <2>8, <5>4, <6>1
            <6>2. CASE snapshot' = {} BY <1>1, <1>3, <2>2, <2>8, <6>2, NoMembershipNeeded
            <6> QED BY <2>2, <6>1, <6>2
          <5> QED BY <5>2, <5>3, <5>4
        <4> QED BY <4>1, <4>2
      <3>11. DeniedOK'
        <4>1. \E j \in 1..i : Pos(rows[j].scope) = k + 1
          <5>1. i \in 1..i /\ Pos(rows[i].scope) = k + 1 BY <1>0, <1>2, <1>6, <1>10, <1>13
          <5> QED BY <5>1
        <4>2. bestDenied' = Best(k)'
          <5>1. bestDenied = Best(k) BY <1>0, <1>10 DEF DeniedOK
          <5>2. k < 2 \/ ~Holds("workspace") \/ Why("workspace")' = Why("workspace") \/ request.mode = "tenant_action"
            <6> SUFFICES ASSUME k = 2, request.mode # "tenant_action" PROVE Why("workspace")' = Why("workspace")
              BY <1>0
            <6>1. x = "own" /\ ~NeedsMembership(g) BY <1>5, <1>13 DEF NeedsMembership
            <6>2. snapshot' = snapshot BY <2>0, <6>1 DEF Load
            <6> QED BY <1>0, <6>2 DEF Why
          <5>3. Best(k)' = Best(k) BY <1>0, <5>2 DEF Best, Holds
          <5> QED BY <1>0, <5>1, <5>3
        <4> QED BY <1>0, <1>5, <3>7, <4>1, <4>2 DEF DeniedOK
      <3>12. DecisionIsReference' BY <1>0, <3>1 DEF DecisionIsReference
      <3> QED BY <2>5, <3>8, <3>9, <3>10, <3>11, <3>12
    <2> QED BY <2>7, <2>8
  <1> QED BY <1>3, <1>6, <1>11, <1>12, <1>13, <1>k, <1>i, <1>g DEF TryNext

\* The invariant is inductive.
LEMMA NextIInv == IInv /\ [Next]_vars => IInv'
  <1> SUFFICES ASSUME IInv, [Next]_vars PROVE IInv' OBVIOUS
  <1>1. CASE UNCHANGED vars
    <2> USE <1>1 DEF vars, IInv
    <2>1. Types' /\ SnapshotOK' /\ Started' BY DEF Types, SnapshotOK, Started
    <2>2. NoneAllows' BY DEF NoneAllows, Past, NeedsMembership, Asked
    <2>3. DeniedOK' BY DEF DeniedOK, Best, Why, Holds
    <2>4. DecisionIsReference'
      <3>1. ASSUME NEW x
            PROVE  Reference({rows[i] : i \in 1..Len(rows)}, x)' = Reference({rows[i] : i \in 1..Len(rows)}, x)
        BY DEF Reference
      <3> QED BY <3>1 DEF DecisionIsReference
    <2> QED BY <2>1, <2>2, <2>3, <2>4
  <1> QED BY <1>1, ListIInv, ValidateIInv, TryIInv, NextScopeIInv, DenyIInv, HostIInv DEF Next, Check

\* The invariant holds of every call.
THEOREM AuthorizerInvariant == Spec => []IInv
  BY InitIInv, NextIInv, PTL DEF Spec

\* Every variable keeps its type; the membership is looked up at most once.
THEOREM AuthorizerTypeCorrect == Spec => []AuthorizerTypeOK
  <1>1. IInv => AuthorizerTypeOK
    <2> SUFFICES ASSUME IInv PROVE AuthorizerTypeOK OBVIOUS
    <2>1. snapshot \subseteq Membership /\ Cardinality(snapshot) <= 1
      <3>1. CASE snapshot = {} BY <3>1, FS_EmptySet
      <3>2. CASE \E m \in seen : snapshot = {m}
        <4>1. PICK m \in seen : snapshot = {m} BY <3>2
        <4>2. Cardinality({m}) = 1 BY FS_Singleton
        <4> QED BY <4>1, <4>2 DEF IInv, Types
      <3> QED BY <3>1, <3>2 DEF IInv, SnapshotOK
    <2>2. \A i \in 1..Len(rows) : rows[i] \in RowGrant \cup {Malformed} BY RowSet DEF IInv
    <2> QED BY <2>1, <2>2 DEF IInv, Types, AuthorizerTypeOK
  <1> QED BY <1>1, AuthorizerInvariant, PTL

\* The decision is the documented function of the set of grants and of one
\* membership that the host had during the call, whatever the order of the
\* rows; a failed read is reported as such.
THEOREM DecisionIsReferenceHolds == Spec => []DecisionIsReference
  <1>1. IInv => DecisionIsReference BY DEF IInv
  <1> QED BY <1>1, AuthorizerInvariant, PTL
=============================================================================
