------------------------- MODULE PolicyKernelProofs -------------------------
(***************************************************************************)
(* Theorems about PolicyKernel, for every set of subjects, roles,          *)
(* permissions and offered grants and every version bound.                 *)
(***************************************************************************)
EXTENDS PolicyKernel, TLAPS

-----------------------------------------------------------------------------
(* The operators the kernel is built from. *)

\* A grant covers itself.
LEMMA CoversReflexive == ASSUME NEW g \in Grant PROVE Covers(g, g)
  BY DEF Covers, AllowDelegation, CoversWorkspaceRoles, Grant, Scope

\* Coverage is transitive: what is passed on by one who was passed it is
\* covered by the first.
LEMMA CoversTransitive ==
  ASSUME NEW f \in Grant, NEW g \in Grant, NEW h \in Grant, Covers(f, g), Covers(g, h)
  PROVE  Covers(f, h)
  BY DEF Covers, AllowDelegation, CoversWorkspaceRoles, Grant, Scope

\* Passing authority on never widens access (policy.go): whatever a request is
\* allowed by a grant, it is allowed by any grant that covers it.
THEOREM DelegationSound ==
  ASSUME NEW g \in Grant, NEW h \in Grant, NEW q \in Request,
         Covers(g, h), AllowAccess(q, h)
  PROVE  AllowAccess(q, g)
  <1>1. CASE g.scope = "tenant"
    BY <1>1 DEF Covers, AllowDelegation, AllowAccess
  <1>2. CASE g.scope # "tenant" /\ g.scope = "own"
    BY <1>2 DEF Covers, AllowDelegation, AllowAccess
  <1>3. CASE g.scope = "workspace"
    BY <1>3 DEF Covers, AllowDelegation, AllowAccess, CoversWorkspaceRoles, WorkspaceRoleMatch
  <1> QED BY <1>1, <1>2, <1>3 DEF Grant, Scope

\* Coverage, the code's check, implies AtLeast, what it is there for.
LEMMA CoversAtLeast ==
  ASSUME NEW g \in Grant, NEW h \in Grant, Covers(g, h)
  PROVE  <<g, h>> \in AtLeast
  BY DelegationSound DEF AtLeast

-----------------------------------------------------------------------------
(* The search for a grant path. *)

\* The search starts at its root.
LEMMA ReachSelf == ASSUME NEW E, NEW x \in Subject PROVE x \in ReachIn(E, x)
  BY DEF ReachIn

\* The visited set is closed under edges between subjects.
LEMMA ReachClosed ==
  ASSUME NEW E \in SUBSET (Subject \X Subject \X RoleID), NEW x
  PROVE  ClosedIn(E, ReachIn(E, x))
  BY DEF ReachIn, ClosedIn

\* It is the least such set.
LEMMA ReachLeast ==
  ASSUME NEW E, NEW x, NEW S \in SUBSET Subject, x \in S, ClosedIn(E, S)
  PROVE  ReachIn(E, x) \subseteq S
  BY DEF ReachIn

\* What is reached from a reached subject is reached.
LEMMA ReachTransitive ==
  ASSUME NEW E \in SUBSET (Subject \X Subject \X RoleID), NEW x, NEW y \in ReachIn(E, x)
  PROVE  ReachIn(E, y) \subseteq ReachIn(E, x)
  <1>1. ReachIn(E, x) \in SUBSET Subject BY DEF ReachIn
  <1> QED BY <1>1, ReachClosed, ReachLeast

\* No two subjects reach each other.
Acyclic(E) == \A x, y \in Subject : x # y => ~(y \in ReachIn(E, x) /\ x \in ReachIn(E, y))

\* Dropping edges makes no cycle.
LEMMA AcyclicSubset ==
  ASSUME NEW E, NEW F \in SUBSET E, Acyclic(E)
  PROVE  Acyclic(F)
  <1>1. \A S : ClosedIn(E, S) => ClosedIn(F, S) BY DEF ClosedIn
  <1>2. \A x : ReachIn(F, x) \subseteq ReachIn(E, x) BY <1>1 DEF ReachIn
  <1> QED BY <1>2 DEF Acyclic

\* An edge whose grantee does not reach its grantor makes no cycle.
LEMMA AcyclicAddEdge ==
  ASSUME NEW E \in SUBSET (Subject \X Subject \X RoleID), Acyclic(E),
         NEW a \in Subject, NEW s \in Subject, NEW r \in RoleID,
         a = s \/ a \notin ReachIn(E, s)
  PROVE  Acyclic(E \cup {<<a, s, r>>})
  <1> DEFINE F == E \cup {<<a, s, r>>}
             R(x) == ReachIn(E, x)
  <1>1. \A x : R(x) \in SUBSET Subject BY DEF ReachIn
  <1>2. F \in SUBSET (Subject \X Subject \X RoleID) OBVIOUS
  <1>3. CASE a = s
    <2>1. \A S : ClosedIn(E, S) => ClosedIn(F, S) BY <1>3 DEF ClosedIn
    <2>2. \A x : ReachIn(F, x) \subseteq ReachIn(E, x) BY <2>1 DEF ReachIn
    <2> QED BY <2>2 DEF Acyclic
  <1>4. CASE a \notin R(s)
    <2>1. ASSUME NEW x \in Subject, a \notin R(x) PROVE ReachIn(F, x) \subseteq R(x)
      <3>1. ClosedIn(F, R(x)) BY <2>1, ReachClosed DEF ClosedIn
      <3> QED BY <1>1, <3>1, ReachSelf, ReachLeast
    <2>2. ASSUME NEW x \in Subject PROVE ReachIn(F, x) \subseteq R(x) \cup R(s)
      <3>1. ClosedIn(F, R(x) \cup R(s)) BY ReachClosed, ReachSelf DEF ClosedIn
      <3> QED BY <1>1, <3>1, ReachSelf, ReachLeast
    <2> SUFFICES ASSUME NEW x \in Subject, NEW y \in Subject, x # y,
                        y \in ReachIn(F, x), x \in ReachIn(F, y)
                 PROVE  FALSE
      BY DEF Acyclic
    <2>3. x \in R(s) => a \notin R(x) BY <1>4, ReachTransitive
    <2>4. y \in R(s) => a \notin R(y) BY <1>4, ReachTransitive
    <2>5. y \in R(x) \cup R(s) /\ x \in R(y) \cup R(s) BY <2>2
    <2>6. (a \notin R(x) => y \in R(x)) /\ (a \notin R(y) => x \in R(y)) BY <2>1
    <2>7. y \in R(s) => R(y) \subseteq R(s) BY ReachTransitive
    <2>8. x \in R(s) => R(x) \subseteq R(s) BY ReachTransitive
    <2>9. y \in R(x) /\ x \in R(y) BY <2>3, <2>4, <2>5, <2>6, <2>7, <2>8
    <2> QED BY <2>9 DEF Acyclic
  <1> QED BY <1>3, <1>4

-----------------------------------------------------------------------------
(* The inductive invariant: the properties support one another (coverage     *)
(* needs the grants of live roles only, retirement needs bindings and edges  *)
(* to agree), so they are carried through a step together.                   *)

\* AuthorityFromBootstrap in the terms of the code's own check: coverage is
\* transitive, which is what carries it through a chain of grants.
CoveredByHost ==
    \A r \in RoleID : \A g \in rolePerms[r] :
        \E q \in RoleID : \E w \in roleVersions[q] :
            w.byHost /\ \E h \in w.grants : Covers(h, g)

IInv ==
    /\ TypeOK
    /\ LastAdministrator
    /\ DelegationAcyclic
    /\ EdgePerAssignment
    /\ CurrentSnapshot
    /\ RetiredRolesEmpty
    /\ CoveredByHost
    /\ PurgedIsEmpty

USE ControlsAssumption, NullsAssumption, OfferedAssumption, MaxVersionAssumption

\* An untouched tenant satisfies the invariant.
LEMMA InitEstablishes == Init => IInv
  <1> SUFFICES ASSUME Init PROVE IInv OBVIOUS
  <1>1. TypeOK
    <2>1. roles \in [RoleID -> [version: 0..MaxVersion, deleted: BOOLEAN]]
      BY DEF Init, NoRole
    <2>2. subjectRoles \in [Subject -> [RoleID -> Subject \cup {Host, Absent}]]
      BY DEF Init
    <2>3. bootstrapped \in BOOLEAN /\ purged \in BOOLEAN
      BY DEF Init
    <2>4. lastEvent \in Event
      BY DEF Init, NoEvent, Event, Logged, Operation
    <2> QED BY <2>1, <2>2, <2>3, <2>4 DEF Init, TypeOK
  <1>2. LastAdministrator /\ PurgedIsEmpty BY DEF Init, LastAdministrator, PurgedIsEmpty
  <1>3. DelegationAcyclic
    <2>1. \A x \in Subject : ReachIn({}, x) \subseteq {x} BY DEF ReachIn, ClosedIn
    <2> QED BY <2>1 DEF Init, DelegationAcyclic
  <1>4. EdgePerAssignment BY DEF Init, EdgePerAssignment
  <1>5. CurrentSnapshot BY DEF Init, CurrentSnapshot, NoRole
  <1>6. RetiredRolesEmpty BY DEF Init, RetiredRolesEmpty, RoleSubjects
  <1>7. CoveredByHost BY DEF Init, CoveredByHost
  <1> QED BY <1>1, <1>2, <1>3, <1>4, <1>5, <1>6, <1>7 DEF IInv

\* DelegationAcyclic is Acyclic of the current edges.
LEMMA AcyclicNow == DelegationAcyclic <=> Acyclic(grantEdges)
  BY DEF DelegationAcyclic, Acyclic

\* The same in the next state.
LEMMA AcyclicNext == DelegationAcyclic' <=> Acyclic(grantEdges')
  BY DEF DelegationAcyclic, Acyclic

\* A call that is refused, fails or changes nothing keeps everything.
LEMMA UnchangedPolicy ==
  ASSUME IInv, UNCHANGED <<policy, purged, purgeLedger>>, lastEvent' \in Event
  PROVE  IInv'
  <1> USE DEF IInv, policy
  <1>1. TypeOK' BY DEF TypeOK
  <1>2. LastAdministrator'
    BY DEF LastAdministrator, HasAdministrator, HasAdministratorIn, EffectiveIn, Live
  <1>3. DelegationAcyclic' BY AcyclicNow, AcyclicNext
  <1>4. EdgePerAssignment' BY DEF EdgePerAssignment
  <1>5. CurrentSnapshot' BY DEF CurrentSnapshot
  <1>6. RetiredRolesEmpty' BY DEF RetiredRolesEmpty, RoleSubjects, Live
  <1>7. CoveredByHost' BY DEF CoveredByHost
  <1>8. PurgedIsEmpty' BY DEF PurgedIsEmpty, RoleSubjects
  <1> QED BY <1>1, <1>2, <1>3, <1>4, <1>5, <1>6, <1>7, <1>8

\* A refused call (recordDenied) leaves a well-formed event.
LEMMA DeniedEvent ==
  ASSUME TypeOK, NEW op \in Logged, NEW a \in Subject, NEW err, RecordDenied(op, a, err)
  PROVE  UNCHANGED <<policy, purged, purgeLedger>> /\ lastEvent' \in Event
  BY DEF RecordDenied, TypeOK, Event, OutcomeOf

\* A committed call leaves a well-formed event.
LEMMA CommittedEvent ==
  ASSUME NEW op \in Logged, NEW a \in Subject \cup {Host},
         NEW o \in {"success", "noop"}, Committed(op, a, o)
  PROVE  lastEvent' \in Event
  BY DEF Committed, Event

\* A grant covered by an actor is covered by a grant of the bootstrap.
LEMMA CoveredByBootstrap ==
  ASSUME IInv, NEW a \in Subject, NEW g \in Grant, RequireActorForGrant(a, g)
  PROVE  \E q \in RoleID : \E w \in roleVersions[q] :
            w.byHost /\ \E h \in w.grants : Covers(h, g)
  <1>1. PICK f \in EffectiveGrants(a) : Covers(f, g) BY DEF RequireActorForGrant
  <1>2. PICK r \in RoleID : f \in rolePerms[r] BY <1>1 DEF EffectiveGrants, EffectiveIn
  <1>3. PICK q \in RoleID : \E w \in roleVersions[q] :
            w.byHost /\ \E h \in w.grants : Covers(h, f)
    BY <1>2 DEF IInv, CoveredByHost
  <1>4. PICK w \in roleVersions[q] : w.byHost /\ \E h \in w.grants : Covers(h, f)
    BY <1>3
  <1>5. PICK h \in w.grants : Covers(h, f) BY <1>4
  <1>6. f \in Grant /\ h \in Grant BY <1>2, <1>4, <1>5 DEF IInv, TypeOK, Snapshot
  <1>7. Covers(h, g) BY <1>1, <1>5, <1>6, CoversTransitive
  <1> QED BY <1>4, <1>7

\* A new version of a live role r, with the grants it has after the step,
\* keeps the history consistent.
LEMMA BumpKeepsSnapshots ==
  ASSUME IInv, NEW r \in RoleID, Live(r), NEW gs \in SUBSET Grant, NEW d \in BOOLEAN,
         BumpRoleVersion(r, gs, d), rolePerms' = [rolePerms EXCEPT ![r] = gs]
  PROVE  /\ roles' \in [RoleID -> [version: 0..MaxVersion, deleted: BOOLEAN]]
         /\ rolePerms' \in [RoleID -> SUBSET Grant]
         /\ roleVersions' \in [RoleID -> SUBSET Snapshot]
         /\ \A q \in RoleID : roleVersions[q] \subseteq roleVersions'[q]
         /\ \A q \in RoleID : q # r => Live(q)' = Live(q)
         /\ ~d => Live(r)'
         /\ CurrentSnapshot'
  <1> DEFINE n == roles[r].version + 1
             new == [version |-> n, grants |-> gs, deleted |-> d, byHost |-> FALSE]
  <1>1. n \in Version /\ n > 0 BY DEF IInv, TypeOK, BumpRoleVersion, Version, Live
  <1>2. roles' = [roles EXCEPT ![r] = [version |-> n, deleted |-> d]] BY DEF BumpRoleVersion
  <1>3. roleVersions' = [roleVersions EXCEPT ![r] = @ \cup {new}] BY DEF BumpRoleVersion
  <1>4. new \in Snapshot BY <1>1 DEF Snapshot
  <1>5. roles' \in [RoleID -> [version: 0..MaxVersion, deleted: BOOLEAN]]
    BY <1>1, <1>2 DEF IInv, TypeOK, Version
  <1>6. roleVersions' \in [RoleID -> SUBSET Snapshot] BY <1>3, <1>4 DEF IInv, TypeOK
  <1>7. \A q \in RoleID : q # r => roles'[q] = roles[q] /\ roleVersions'[q] = roleVersions[q]
                                     /\ rolePerms'[q] = rolePerms[q]
    BY <1>2, <1>3 DEF IInv, TypeOK
  <1>8. /\ roles'[r] = [version |-> n, deleted |-> d] /\ rolePerms'[r] = gs
        /\ roleVersions'[r] = roleVersions[r] \cup {new}
    BY <1>2, <1>3 DEF IInv, TypeOK
  <1>9. ASSUME NEW q \in RoleID PROVE
            /\ \A w \in roleVersions'[q] : w.version <= roles'[q].version
            /\ roles'[q].version > 0 =>
                \E w \in roleVersions'[q] :
                    /\ w.version = roles'[q].version
                    /\ w.grants = rolePerms'[q] /\ w.deleted = roles'[q].deleted
                    /\ \A x \in roleVersions'[q] : x.version = w.version => x = w
    <2>1. CASE q # r BY <2>1, <1>7 DEF IInv, CurrentSnapshot
    <2>2. CASE q = r
      <3>1. \A w \in roleVersions[r] : w.version \in Nat /\ w.version < n
        BY DEF IInv, CurrentSnapshot, TypeOK, Snapshot, Version
      <3>2. \A w \in roleVersions'[r] : w.version <= n /\ (w.version = n => w = new)
        BY <1>8, <3>1, <1>1 DEF Version
      <3>3. new.version = n /\ new.grants = gs /\ new.deleted = d OBVIOUS
      <3> HIDE DEF new, n
      <3>4. new \in roleVersions'[r] /\ roles'[r].version = n /\ roles'[r].deleted = d
        BY <1>8
      <3> QED BY <2>2, <1>8, <3>2, <3>3, <3>4
    <2> QED BY <2>1, <2>2
  <1>10. CurrentSnapshot' BY <1>9 DEF CurrentSnapshot
  <1>11. \A q \in RoleID : q # r => Live(q)' = Live(q) BY <1>7 DEF Live
  <1>12. ~d => Live(r)' BY <1>1, <1>8 DEF Live
  <1>13. rolePerms' \in [RoleID -> SUBSET Grant] BY DEF IInv, TypeOK
  <1>14. \A q \in RoleID : roleVersions[q] \subseteq roleVersions'[q] BY <1>7, <1>8
  <1> QED BY <1>5, <1>6, <1>10, <1>11, <1>12, <1>13, <1>14

\* Inserting a role that has no row keeps the history consistent, and changes
\* no other role.
LEMMA InsertKeepsSnapshots ==
  ASSUME IInv, NEW r \in RoleID, roles[r].version = 0, NEW gs \in SUBSET Grant,
         NEW h \in BOOLEAN, InsertRole(r, gs, h)
  PROVE  /\ roles' \in [RoleID -> [version: 0..MaxVersion, deleted: BOOLEAN]]
         /\ rolePerms' \in [RoleID -> SUBSET Grant]
         /\ roleVersions' \in [RoleID -> SUBSET Snapshot]
         /\ \A q \in RoleID : roleVersions[q] \subseteq roleVersions'[q]
         /\ \A q \in RoleID : q # r => Live(q)' = Live(q) /\ rolePerms'[q] = rolePerms[q]
         /\ Live(r)' /\ rolePerms'[r] = gs
         /\ \E w \in roleVersions'[r] : w.grants = gs /\ w.byHost = h
         /\ CurrentSnapshot'
  <1> DEFINE new == [version |-> 1, grants |-> gs, deleted |-> FALSE, byHost |-> h]
  <1>1. roles' = [roles EXCEPT ![r] = [version |-> 1, deleted |-> FALSE]] BY DEF InsertRole
  <1>2. roleVersions' = [roleVersions EXCEPT ![r] = @ \cup {new}] BY DEF InsertRole
  <1>3. rolePerms' = [rolePerms EXCEPT ![r] = gs] BY DEF InsertRole
  <1>4. new \in Snapshot BY DEF Snapshot, Version
  <1>5. roles' \in [RoleID -> [version: 0..MaxVersion, deleted: BOOLEAN]]
    BY <1>1 DEF IInv, TypeOK
  <1>6. roleVersions' \in [RoleID -> SUBSET Snapshot] BY <1>2, <1>4 DEF IInv, TypeOK
  <1>7. \A q \in RoleID : q # r => roles'[q] = roles[q] /\ roleVersions'[q] = roleVersions[q]
                                     /\ rolePerms'[q] = rolePerms[q]
    BY <1>1, <1>2, <1>3 DEF IInv, TypeOK
  <1>8. /\ roles'[r] = [version |-> 1, deleted |-> FALSE] /\ rolePerms'[r] = gs
        /\ roleVersions'[r] = roleVersions[r] \cup {new}
    BY <1>1, <1>2, <1>3 DEF IInv, TypeOK
  <1>9. roleVersions[r] = {}
    BY DEF IInv, CurrentSnapshot, TypeOK, Snapshot, Version
  <1>10. new.version = 1 /\ new.grants = gs /\ new.deleted = FALSE /\ new.byHost = h OBVIOUS
  <1>11. roles'[r].version = 1 /\ roles'[r].deleted = FALSE BY <1>8
  <1> HIDE DEF new
  <1>12. ASSUME NEW q \in RoleID PROVE
            /\ \A w \in roleVersions'[q] : w.version <= roles'[q].version
            /\ roles'[q].version > 0 =>
                \E w \in roleVersions'[q] :
                    /\ w.version = roles'[q].version
                    /\ w.grants = rolePerms'[q] /\ w.deleted = roles'[q].deleted
                    /\ \A x \in roleVersions'[q] : x.version = w.version => x = w
    <2>1. CASE q # r BY <2>1, <1>7 DEF IInv, CurrentSnapshot
    <2>2. CASE q = r
      <3>1. roleVersions'[r] = {new} BY <1>8, <1>9
      <3>2. roles'[r].version = new.version /\ rolePerms'[r] = new.grants
            /\ roles'[r].deleted = new.deleted
        BY <1>8, <1>10, <1>11
      <3> QED BY <2>2, <3>1, <3>2, <1>10
    <2> QED BY <2>1, <2>2
  <1>13. CurrentSnapshot' BY <1>12 DEF CurrentSnapshot
  <1>14. \A q \in RoleID : q # r => Live(q)' = Live(q) BY <1>7 DEF Live
  <1>15. Live(r)' BY <1>11 DEF Live
  <1>16. rolePerms' \in [RoleID -> SUBSET Grant] BY <1>3 DEF IInv, TypeOK
  <1> QED BY <1>5, <1>6, <1>7, <1>8, <1>10, <1>13, <1>14, <1>15, <1>16

\* New grants that are covered by the bootstrap keep CoveredByHost.
LEMMA AuthorityKept ==
  ASSUME IInv, \A q \in RoleID : roleVersions[q] \subseteq roleVersions'[q],
         \A q \in RoleID : \A g \in rolePerms'[q] : g \notin rolePerms[q] =>
            \E p \in RoleID : \E w \in roleVersions'[p] :
                w.byHost /\ \E h \in w.grants : Covers(h, g)
  PROVE  CoveredByHost'
  BY DEF IInv, CoveredByHost

\* BootstrapTenant (bootstrap.go:48) establishes what the others preserve.
LEMMA BootstrapStep ==
  ASSUME IInv, NEW owner \in Subject, NEW r \in RoleID, NEW gs \in SUBSET Grant,
         BootstrapTenant(owner, r, gs)
  PROVE  IInv'
  <1> USE DEF BootstrapTenant
  <1>1. gs \in SUBSET Grant /\ InsertRole(r, gs, TRUE) /\ roles[r].version = 0 OBVIOUS
  <1>2. /\ roles' \in [RoleID -> [version: 0..MaxVersion, deleted: BOOLEAN]]
        /\ rolePerms' \in [RoleID -> SUBSET Grant]
        /\ roleVersions' \in [RoleID -> SUBSET Snapshot]
        /\ \A q \in RoleID : roleVersions[q] \subseteq roleVersions'[q]
        /\ \A q \in RoleID : q # r => Live(q)' = Live(q) /\ rolePerms'[q] = rolePerms[q]
        /\ Live(r)' /\ rolePerms'[r] = gs
        /\ \E w \in roleVersions'[r] : w.grants = gs /\ w.byHost = TRUE
        /\ CurrentSnapshot'
    BY <1>1, InsertKeepsSnapshots
  <1>3. lastEvent' \in Event BY CommittedEvent DEF Logged, Operation
  <1>4. subjectRoles' \in [Subject -> [RoleID -> Subject \cup {Host, Absent}]]
    BY DEF IInv, TypeOK
  <1>5. /\ subjectRoles'[owner][r] = Host
        /\ \A s \in Subject, q \in RoleID :
              <<s, q>> # <<owner, r>> => subjectRoles'[s][q] = subjectRoles[s][q]
    BY DEF IInv, TypeOK
  <1>6. TypeOK' BY <1>2, <1>3, <1>4 DEF IInv, TypeOK
  <1>7. LastAdministrator'
    <2>1. gs \subseteq EffectiveGrants(owner)' BY <1>2, <1>5 DEF EffectiveGrants, EffectiveIn
    <2>2. \A c \in Control : \E g \in gs : g.permission = c /\ g.scope = "tenant"
      BY DEF BootstrapGrants
    <2> QED BY <2>1, <2>2 DEF LastAdministrator, HasAdministrator, HasAdministratorIn, EffectiveGrants, Control
  <1>8. DelegationAcyclic' BY AcyclicNow, AcyclicNext DEF IInv
  <1>9. EdgePerAssignment'
    <2>1. subjectRoles[owner][r] = Absent
      BY DEF IInv, RetiredRolesEmpty, RoleSubjects, Live, TypeOK
    <2>2. \A b \in Subject : <<b, owner, r>> \notin grantEdges
      BY <2>1 DEF IInv, EdgePerAssignment
    <2> SUFFICES ASSUME NEW b \in Subject, NEW s \in Subject, NEW q \in RoleID
                 PROVE  <<b, s, q>> \in grantEdges' <=> subjectRoles'[s][q] = b
      BY DEF EdgePerAssignment
    <2>3. CASE s = owner /\ q = r BY <2>2, <2>3, <1>5
    <2>4. CASE <<s, q>> # <<owner, r>> BY <2>4, <1>5 DEF IInv, EdgePerAssignment
    <2> QED BY <2>3, <2>4
  <1>10. RetiredRolesEmpty' BY <1>2, <1>5 DEF IInv, RetiredRolesEmpty, RoleSubjects
  <1>11. CoveredByHost'
    <2>1. \A g \in gs : Covers(g, g) BY <1>1, CoversReflexive
    <2> QED BY <1>2, <2>1, AuthorityKept
  <1>12. PurgedIsEmpty' BY DEF PurgedIsEmpty
  <1> QED BY <1>2, <1>6, <1>7, <1>8, <1>9, <1>10, <1>11, <1>12 DEF IInv

\* CreateRole and CreateRoleWithPermissions preserve the invariant.
LEMMA CreateRoleStep ==
  ASSUME IInv, NEW a \in Subject, NEW r \in RoleID, NEW ps \in SUBSET Permission,
         CreateRole(a, r, ps)
  PROVE  IInv'
  <1> DEFINE gs == {TenantGrant(p) : p \in ps}
  <1>1. CASE RecordDenied("role.create", a, CreateRoleError(a, r, gs))
    <2>1. TypeOK /\ "role.create" \in Logged BY DEF IInv, Logged, Operation
    <2> QED BY <1>1, <2>1, DeniedEvent, UnchangedPolicy
  <1>2. CASE /\ CreateRoleError(a, r, gs) = "none"
             /\ InsertRole(r, gs, FALSE)
             /\ Committed("role.create", a, "success")
             /\ UNCHANGED <<subjectRoles, grantEdges, bootstrapped, purged, purgeLedger>>
    <2> USE <1>2
    <2>1. gs \in SUBSET Grant BY DEF TenantGrant, Grant, Scope
    <2>2. /\ roles[r].version = 0 /\ ~purged
          /\ \A g \in gs : RequireActorForGrant(a, g)
      BY DEF CreateRoleError, IInv, TypeOK
    <2> HIDE DEF gs
    <2>3. /\ roles' \in [RoleID -> [version: 0..MaxVersion, deleted: BOOLEAN]]
          /\ rolePerms' \in [RoleID -> SUBSET Grant]
          /\ roleVersions' \in [RoleID -> SUBSET Snapshot]
          /\ \A q \in RoleID : roleVersions[q] \subseteq roleVersions'[q]
          /\ \A q \in RoleID : q # r => Live(q)' = Live(q) /\ rolePerms'[q] = rolePerms[q]
          /\ Live(r)' /\ rolePerms'[r] = gs
          /\ CurrentSnapshot'
      BY <2>1, <2>2, InsertKeepsSnapshots
    <2>4. lastEvent' \in Event BY CommittedEvent DEF Logged, Operation
    <2>5. TypeOK' BY <2>3, <2>4 DEF IInv, TypeOK
    <2>6. LastAdministrator'
      <3>1. ~Live(r) BY <2>2 DEF Live
      <3>2. \A s \in Subject : EffectiveGrants(s) \subseteq EffectiveGrants(s)'
        BY <2>3, <3>1 DEF EffectiveGrants, EffectiveIn
      <3> QED BY <3>2 DEF IInv, LastAdministrator, HasAdministrator, HasAdministratorIn, EffectiveGrants, Control
    <2>7. DelegationAcyclic' BY AcyclicNow, AcyclicNext DEF IInv
    <2>8. EdgePerAssignment' BY DEF IInv, EdgePerAssignment
    <2>9. RetiredRolesEmpty' BY <2>3 DEF IInv, RetiredRolesEmpty, RoleSubjects
    <2>10. CoveredByHost'
      <3>1. \A g \in gs : \E q \in RoleID : \E w \in roleVersions[q] :
                w.byHost /\ \E h \in w.grants : Covers(h, g)
        BY <2>1, <2>2, CoveredByBootstrap
      <3> QED BY <2>3, <3>1, AuthorityKept
    <2>11. PurgedIsEmpty' BY <2>2 DEF PurgedIsEmpty
    <2> QED BY <2>3, <2>5, <2>6, <2>7, <2>8, <2>9, <2>10, <2>11 DEF IInv
  <1> QED BY <1>1, <1>2 DEF CreateRole

\* A committed change of role r that keeps an administrator, gives the role
\* only grants of the bootstrap and retires it only when it is empty.
LEMMA BumpStep ==
  ASSUME IInv, ~purged, NEW r \in RoleID, Live(r), NEW gs \in SUBSET Grant, NEW d \in BOOLEAN,
         BumpRoleVersion(r, gs, d), rolePerms' = [rolePerms EXCEPT ![r] = gs],
         UNCHANGED <<subjectRoles, grantEdges, bootstrapped, purged, purgeLedger>>,
         lastEvent' \in Event,
         d => gs = {} /\ RoleSubjects(r) = {},
         \A g \in gs : g \notin rolePerms[r] =>
            \E q \in RoleID : \E w \in roleVersions[q] :
                w.byHost /\ \E h \in w.grants : Covers(h, g),
         bootstrapped => HasAdministrator'
  PROVE  IInv'
  <1>1. /\ roles' \in [RoleID -> [version: 0..MaxVersion, deleted: BOOLEAN]]
        /\ rolePerms' \in [RoleID -> SUBSET Grant]
        /\ roleVersions' \in [RoleID -> SUBSET Snapshot]
        /\ \A q \in RoleID : roleVersions[q] \subseteq roleVersions'[q]
        /\ \A q \in RoleID : q # r => Live(q)' = Live(q)
        /\ ~d => Live(r)'
        /\ CurrentSnapshot'
    BY BumpKeepsSnapshots
  <1>2. TypeOK' BY <1>1 DEF IInv, TypeOK
  <1>3. rolePerms'[r] = gs /\ \A q \in RoleID : q # r => rolePerms'[q] = rolePerms[q]
    BY DEF IInv, TypeOK
  <1>4. LastAdministrator' BY DEF LastAdministrator
  <1>5. DelegationAcyclic' BY AcyclicNow, AcyclicNext DEF IInv
  <1>6. EdgePerAssignment' BY DEF IInv, EdgePerAssignment
  <1>7. RetiredRolesEmpty' BY <1>1, <1>3 DEF IInv, RetiredRolesEmpty, RoleSubjects
  <1>8. CoveredByHost' BY <1>1, <1>3, AuthorityKept
  <1>9. PurgedIsEmpty' BY DEF PurgedIsEmpty
  <1> QED BY <1>1, <1>2, <1>4, <1>5, <1>6, <1>7, <1>8, <1>9 DEF IInv

\* A live role that keeps its grants, or gains some, keeps the administrator.
LEMMA AdministratorKept ==
  ASSUME IInv, bootstrapped, UNCHANGED subjectRoles,
         \A q \in RoleID : rolePerms[q] \subseteq rolePerms'[q],
         \A q \in RoleID : Live(q) /\ rolePerms[q] # {} => Live(q)'
  PROVE  HasAdministrator'
  <1>1. \A s \in Subject : EffectiveGrants(s) \subseteq EffectiveGrants(s)'
    BY DEF EffectiveGrants, EffectiveIn
  <1> QED BY <1>1 DEF IInv, LastAdministrator, HasAdministrator, HasAdministratorIn,
                      EffectiveGrants, Control

\* UpdateRole preserves the invariant.
LEMMA UpdateRoleStep ==
  ASSUME IInv, NEW a \in Subject, NEW r \in RoleID, NEW v \in Version, UpdateRole(a, r, v)
  PROVE  IInv'
  <1>1. CASE RecordDenied("role.update", a, UpdateRoleError(a, r, v))
    <2>1. TypeOK /\ "role.update" \in Logged BY DEF IInv, Logged, Operation
    <2> QED BY <1>1, <2>1, DeniedEvent, UnchangedPolicy
  <1>2. CASE /\ UpdateRoleError(a, r, v) = "none"
             /\ BumpRoleVersion(r, rolePerms[r], FALSE)
             /\ Committed("role.update", a, "success")
             /\ UNCHANGED <<rolePerms, subjectRoles, grantEdges, bootstrapped, purged, purgeLedger>>
    <2>1. ~purged /\ Live(r) BY <1>2 DEF UpdateRoleError, RoleError
    <2>2. /\ rolePerms' = [rolePerms EXCEPT ![r] = rolePerms[r]]
          /\ rolePerms[r] \in SUBSET Grant
      BY <1>2 DEF IInv, TypeOK
    <2>3. lastEvent' \in Event BY <1>2, CommittedEvent DEF Logged, Operation
    <2>4. \A q \in RoleID : Live(q) => Live(q)'
      BY <1>2, <2>1, <2>2, BumpKeepsSnapshots
    <2>5. bootstrapped => HasAdministrator' BY <1>2, <2>4, AdministratorKept
    <2> QED BY <1>2, <2>1, <2>2, <2>3, <2>5, BumpStep
  <1> QED BY <1>1, <1>2 DEF UpdateRole

\* DeleteRole preserves the invariant: the role it retires is empty.
LEMMA DeleteRoleStep ==
  ASSUME IInv, NEW a \in Subject, NEW r \in RoleID, NEW v \in Version, DeleteRole(a, r, v)
  PROVE  IInv'
  <1>1. CASE RecordDenied("role.delete", a, DeleteRoleError(a, r, v))
    <2>1. TypeOK /\ "role.delete" \in Logged BY DEF IInv, Logged, Operation
    <2> QED BY <1>1, <2>1, DeniedEvent, UnchangedPolicy
  <1>2. CASE /\ DeleteRoleError(a, r, v) = "none"
             /\ BumpRoleVersion(r, {}, TRUE)
             /\ Committed("role.delete", a, "success")
             /\ UNCHANGED <<rolePerms, subjectRoles, grantEdges, bootstrapped, purged, purgeLedger>>
    <2>1. ~purged /\ Live(r) /\ rolePerms[r] = {} /\ RoleSubjects(r) = {}
      BY <1>2 DEF DeleteRoleError, UpdateRoleError, RoleError
    <2>2. rolePerms' = [rolePerms EXCEPT ![r] = {}] BY <1>2, <2>1 DEF IInv, TypeOK
    <2>3. lastEvent' \in Event BY <1>2, CommittedEvent DEF Logged, Operation
    <2>4. \A q \in RoleID : q # r => Live(q)' = Live(q)
      BY <1>2, <2>1, <2>2, BumpKeepsSnapshots
    <2>5. bootstrapped => HasAdministrator' BY <1>2, <2>1, <2>4, AdministratorKept
    <2> QED BY <1>2, <2>1, <2>2, <2>3, <2>5, BumpStep
  <1> QED BY <1>1, <1>2 DEF DeleteRole

\* GrantPermission preserves the invariant.
LEMMA GrantPermissionStep ==
  ASSUME IInv, NEW a \in Subject, NEW r \in RoleID, NEW g \in Grant, NEW v \in Version,
         GrantPermission(a, r, g, v)
  PROVE  IInv'
  <1> DEFINE gs == rolePerms[r] \cup {g}
  <1>0. TypeOK /\ "grant.permission" \in Logged BY DEF IInv, Logged, Operation
  <1>1. CASE RecordDenied("grant.permission", a, GrantError(a, r, g, v))
    BY <1>0, <1>1, DeniedEvent, UnchangedPolicy
  <1>2. CASE /\ Committed("grant.permission", a, "noop")
             /\ UNCHANGED <<policy, purged, purgeLedger>>
    BY <1>0, <1>2, CommittedEvent, UnchangedPolicy
  <1>3. CASE /\ GrantError(a, r, g, v) = "none"
             /\ rolePerms' = [rolePerms EXCEPT ![r] = @ \cup {g}]
             /\ BumpRoleVersion(r, gs, FALSE)
             /\ Committed("grant.permission", a, "success")
             /\ UNCHANGED <<subjectRoles, grantEdges, bootstrapped, purged, purgeLedger>>
    <2>1. ~purged /\ Live(r) /\ RequireActorForGrant(a, g) BY <1>3 DEF GrantError, RoleError
    <2>2. rolePerms' = [rolePerms EXCEPT ![r] = gs] /\ gs \in SUBSET Grant
      BY <1>3 DEF IInv, TypeOK
    <2>3. lastEvent' \in Event BY <1>0, <1>3, CommittedEvent
    <2>4. \A q \in RoleID : Live(q) => Live(q)'
      BY <1>3, <2>1, <2>2, BumpKeepsSnapshots
    <2>5. \A q \in RoleID : rolePerms[q] \subseteq rolePerms'[q] BY <2>2 DEF IInv, TypeOK
    <2>6. bootstrapped => HasAdministrator' BY <1>3, <2>4, <2>5, AdministratorKept
    <2>7. \E q \in RoleID : \E w \in roleVersions[q] :
                w.byHost /\ \E h \in w.grants : Covers(h, g)
      BY <2>1, CoveredByBootstrap
    <2>8. \A f \in gs : f \notin rolePerms[r] => f = g OBVIOUS
    <2>9. \A f \in gs : f \notin rolePerms[r] =>
                \E q \in RoleID : \E w \in roleVersions[q] :
                    w.byHost /\ \E h \in w.grants : Covers(h, f)
      BY <2>7, <2>8
    <2>10. /\ BumpRoleVersion(r, gs, FALSE)
           /\ UNCHANGED <<subjectRoles, grantEdges, bootstrapped, purged, purgeLedger>>
      BY <1>3
    <2> HIDE DEF gs
    <2> QED BY <2>1, <2>2, <2>3, <2>6, <2>9, <2>10, BumpStep
  <1> QED BY <1>1, <1>2, <1>3 DEF GrantPermission

\* RevokePermission preserves the invariant: its guard is LastAdministrator of the next state.
LEMMA RevokePermissionStep ==
  ASSUME IInv, NEW a \in Subject, NEW r \in RoleID, NEW g \in Grant, NEW v \in Version,
         RevokePermission(a, r, g, v)
  PROVE  IInv'
  <1> DEFINE gs == rolePerms[r] \ {g}
  <1>0. TypeOK /\ "revoke.permission" \in Logged BY DEF IInv, Logged, Operation
  <1>1. CASE RecordDenied("revoke.permission", a, RevokeError(a, r, g, v))
    BY <1>0, <1>1, DeniedEvent, UnchangedPolicy
  <1>2. CASE /\ Committed("revoke.permission", a, "noop")
             /\ UNCHANGED <<policy, purged, purgeLedger>>
    BY <1>0, <1>2, CommittedEvent, UnchangedPolicy
  <1>3. CASE /\ RevokeError(a, r, g, v) = "none" /\ g \in rolePerms[r]
             /\ rolePerms' = [rolePerms EXCEPT ![r] = @ \ {g}]
             /\ BumpRoleVersion(r, gs, FALSE)
             /\ Committed("revoke.permission", a, "success")
             /\ UNCHANGED <<subjectRoles, grantEdges, bootstrapped, purged, purgeLedger>>
    <2>1. /\ ~purged /\ Live(r)
          /\ HasAdministratorIn(subjectRoles, [rolePerms EXCEPT ![r] = @ \ {g}])
      BY <1>3 DEF RevokeError, GrantError, RoleError
    <2>2. rolePerms' = [rolePerms EXCEPT ![r] = gs] /\ gs \in SUBSET Grant
      BY <1>3 DEF IInv, TypeOK
    <2>3. lastEvent' \in Event BY <1>0, <1>3, CommittedEvent
    <2>4. \A q \in RoleID : Live(q) => Live(q)'
      BY <1>3, <2>1, <2>2, BumpKeepsSnapshots
    <2>5. HasAdministrator'
      <3>1. HasAdministratorIn(subjectRoles, rolePerms') BY <1>3, <2>1
      <3>2. \A s \in Subject : EffectiveIn(subjectRoles, rolePerms', s) \subseteq EffectiveGrants(s)'
        BY <1>3, <2>4 DEF EffectiveGrants, EffectiveIn
      <3> QED BY <3>1, <3>2 DEF HasAdministrator, HasAdministratorIn, EffectiveGrants, Control
    <2>6. \A f \in gs : f \in rolePerms[r] OBVIOUS
    <2>7. /\ BumpRoleVersion(r, gs, FALSE)
          /\ UNCHANGED <<subjectRoles, grantEdges, bootstrapped, purged, purgeLedger>>
      BY <1>3
    <2> HIDE DEF gs
    <2> QED BY <2>1, <2>2, <2>3, <2>5, <2>6, <2>7, BumpStep
  <1> QED BY <1>1, <1>2, <1>3 DEF RevokePermission

\* AssignRole preserves the invariant: no path from grantee to grantor, so no cycle.
LEMMA AssignRoleStep ==
  ASSUME IInv, NEW a \in Subject, NEW s \in Subject, NEW r \in RoleID, NEW v \in Version,
         AssignRole(a, s, r, v)
  PROVE  IInv'
  <1>0. TypeOK /\ "assign.role" \in Logged BY DEF IInv, Logged, Operation
  <1>1. CASE RecordDenied("assign.role", a, AssignError(a, s, r, v))
    BY <1>0, <1>1, DeniedEvent, UnchangedPolicy
  <1>2. CASE Committed("assign.role", a, "noop") /\ UNCHANGED <<policy, purged, purgeLedger>>
    BY <1>0, <1>2, CommittedEvent, UnchangedPolicy
  <1>3. CASE /\ AssignError(a, s, r, v) = "none" /\ subjectRoles[s][r] = Absent
             /\ subjectRoles' = [subjectRoles EXCEPT ![s][r] = a]
             /\ grantEdges' = grantEdges \cup {<<a, s, r>>}
             /\ Committed("assign.role", a, "success")
             /\ UNCHANGED <<roles, rolePerms, roleVersions, bootstrapped, purged, purgeLedger>>
    <2> USE <1>3
    <2>1. ~purged /\ Live(r) /\ (a = s \/ a \notin ReachIn(grantEdges, s))
      BY DEF AssignError, RoleError, HasGrantPath
    <2>2. lastEvent' \in Event BY <1>0, CommittedEvent
    <2>3. /\ subjectRoles' \in [Subject -> [RoleID -> Subject \cup {Host, Absent}]]
          /\ subjectRoles'[s][r] = a
          /\ \A t \in Subject, q \in RoleID :
                t # s \/ q # r => subjectRoles'[t][q] = subjectRoles[t][q]
      BY DEF IInv, TypeOK
    <2>4. TypeOK' BY <2>2, <2>3 DEF IInv, TypeOK
    <2>5. LastAdministrator'
      <3>1. \A t \in Subject : EffectiveGrants(t) \subseteq EffectiveGrants(t)'
        BY <2>3 DEF EffectiveGrants, EffectiveIn, Live
      <3> QED BY <3>1 DEF IInv, LastAdministrator, HasAdministrator, HasAdministratorIn,
                          EffectiveGrants, Control
    <2>6. DelegationAcyclic' BY <2>1, AcyclicNow, AcyclicNext, AcyclicAddEdge DEF IInv, TypeOK
    <2>7. EdgePerAssignment'
      <3> SUFFICES ASSUME NEW b \in Subject, NEW t \in Subject, NEW q \in RoleID
                   PROVE  <<b, t, q>> \in grantEdges' <=> subjectRoles'[t][q] = b
        BY DEF EdgePerAssignment
      <3>1. <<b, t, q>> \in grantEdges <=> subjectRoles[t][q] = b
        BY DEF IInv, EdgePerAssignment
      <3>2. CASE t = s /\ q = r BY <3>1, <3>2, <2>3
      <3>3. CASE t # s \/ q # r BY <3>1, <3>3, <2>3
      <3> QED BY <3>2, <3>3
    <2>8. CurrentSnapshot' BY DEF IInv, CurrentSnapshot
    <2>9. RetiredRolesEmpty'
      BY <2>1, <2>3 DEF IInv, RetiredRolesEmpty, RoleSubjects, Live
    <2>10. CoveredByHost' BY DEF IInv, CoveredByHost
    <2>11. PurgedIsEmpty' BY <2>1 DEF PurgedIsEmpty
    <2> QED BY <2>4, <2>5, <2>6, <2>7, <2>8, <2>9, <2>10, <2>11 DEF IInv
  <1> QED BY <1>1, <1>2, <1>3 DEF AssignRole

\* UnassignRole preserves the invariant.
LEMMA UnassignRoleStep ==
  ASSUME IInv, NEW a \in Subject, NEW s \in Subject, NEW r \in RoleID, NEW v,
         UnassignRole(a, s, r, v)
  PROVE  IInv'
  <1>0. TypeOK /\ "unassign.role" \in Logged BY DEF IInv, Logged, Operation
  <1>1. CASE RecordDenied("unassign.role", a, UnassignError(a, s, r, v))
    BY <1>0, <1>1, DeniedEvent, UnchangedPolicy
  <1>2. CASE Committed("unassign.role", a, "noop") /\ UNCHANGED <<policy, purged, purgeLedger>>
    BY <1>0, <1>2, CommittedEvent, UnchangedPolicy
  <1>3. CASE /\ UnassignError(a, s, r, v) = "none" /\ subjectRoles[s][r] # Absent
             /\ subjectRoles' = [subjectRoles EXCEPT ![s][r] = Absent]
             /\ grantEdges' = grantEdges \ {<<subjectRoles[s][r], s, r>>}
             /\ Committed("unassign.role", a, "success")
             /\ UNCHANGED <<roles, rolePerms, roleVersions, bootstrapped, purged, purgeLedger>>
    <2> USE <1>3
    <2>1. /\ ~purged
          /\ HasAdministratorIn([subjectRoles EXCEPT ![s][r] = Absent], rolePerms)
      BY DEF UnassignError
    <2>2. lastEvent' \in Event BY <1>0, CommittedEvent
    <2>3. /\ subjectRoles' \in [Subject -> [RoleID -> Subject \cup {Host, Absent}]]
          /\ subjectRoles'[s][r] = Absent
          /\ \A t \in Subject, q \in RoleID :
                t # s \/ q # r => subjectRoles'[t][q] = subjectRoles[t][q]
      BY DEF IInv, TypeOK
    <2>4. TypeOK' BY <2>2, <2>3 DEF IInv, TypeOK
    <2>5. LastAdministrator'
      <3>1. HasAdministratorIn(subjectRoles', rolePerms) BY <2>1
      <3>2. \A t \in Subject : EffectiveIn(subjectRoles', rolePerms, t) = EffectiveGrants(t)'
        BY DEF EffectiveGrants, EffectiveIn, Live
      <3> QED BY <3>1, <3>2 DEF LastAdministrator, HasAdministrator, HasAdministratorIn,
                                EffectiveGrants, Control
    <2>6. DelegationAcyclic' BY AcyclicNow, AcyclicNext, AcyclicSubset DEF IInv
    <2>7. EdgePerAssignment'
      <3> SUFFICES ASSUME NEW b \in Subject, NEW t \in Subject, NEW q \in RoleID
                   PROVE  <<b, t, q>> \in grantEdges' <=> subjectRoles'[t][q] = b
        BY DEF EdgePerAssignment
      <3>1. <<b, t, q>> \in grantEdges <=> subjectRoles[t][q] = b
        BY DEF IInv, EdgePerAssignment
      <3>2. CASE t = s /\ q = r BY <3>1, <3>2, <2>3
      <3>3. CASE t # s \/ q # r BY <3>1, <3>3, <2>3
      <3> QED BY <3>2, <3>3
    <2>8. CurrentSnapshot' BY DEF IInv, CurrentSnapshot
    <2>9. RetiredRolesEmpty'
      <3>1. \A q \in RoleID : RoleSubjects(q)' \subseteq RoleSubjects(q)
        BY <2>3 DEF RoleSubjects
      <3> QED BY <3>1 DEF IInv, RetiredRolesEmpty, Live
    <2>10. CoveredByHost' BY DEF IInv, CoveredByHost
    <2>11. PurgedIsEmpty' BY <2>1 DEF PurgedIsEmpty
    <2> QED BY <2>4, <2>5, <2>6, <2>7, <2>8, <2>9, <2>10, <2>11 DEF IInv
  <1> QED BY <1>1, <1>2, <1>3 DEF UnassignRole

\* PurgeTenant empties the tenant.
LEMMA PurgeStep ==
  ASSUME IInv, NEW req \in RequestID, PurgeTenant(req)
  PROVE  IInv'
  <1> USE DEF PurgeTenant
  <1>1. TypeOK'
    <2>1. roles' \in [RoleID -> [version: 0..MaxVersion, deleted: BOOLEAN]] BY DEF NoRole
    <2>2. subjectRoles' \in [Subject -> [RoleID -> Subject \cup {Host, Absent}]] OBVIOUS
    <2>3. lastEvent' \in Event BY DEF NoEvent, Event, Logged, Operation
    <2>4. bootstrapped' \in BOOLEAN /\ purged' \in BOOLEAN OBVIOUS
    <2> QED BY <2>1, <2>2, <2>3, <2>4 DEF IInv, TypeOK
  <1>2. LastAdministrator' /\ PurgedIsEmpty' BY DEF LastAdministrator, PurgedIsEmpty, RoleSubjects
  <1>3. DelegationAcyclic'
    <2>1. {} \in SUBSET grantEdges OBVIOUS
    <2> QED BY <2>1, AcyclicNow, AcyclicNext, AcyclicSubset DEF IInv
  <1>4. EdgePerAssignment' BY DEF EdgePerAssignment
  <1>5. CurrentSnapshot' BY DEF CurrentSnapshot, NoRole
  <1>6. RetiredRolesEmpty' BY DEF RetiredRolesEmpty, RoleSubjects
  <1>7. CoveredByHost' BY DEF CoveredByHost
  <1> QED BY <1>1, <1>2, <1>3, <1>4, <1>5, <1>6, <1>7 DEF IInv

-----------------------------------------------------------------------------
(* The theorems. *)

\* Every step of the kernel preserves the invariant.
LEMMA NextPreserves == IInv /\ [Next]_vars => IInv'
  <1> SUFFICES ASSUME IInv, [Next]_vars PROVE IInv' OBVIOUS
  <1>1. CASE UNCHANGED vars
    <2>1. lastEvent' \in Event BY <1>1 DEF vars, IInv, TypeOK
    <2> QED BY <1>1, <2>1, UnchangedPolicy DEF vars
  <1>2. CASE \E owner \in Subject, r \in RoleID, gs \in SUBSET Offered : BootstrapTenant(owner, r, gs)
    BY <1>2, BootstrapStep
  <1>3. CASE \E a \in Subject : ManagerStep(a)
    <2>1. PICK a \in Subject : ManagerStep(a) BY <1>3
    <2>2. PICK r \in RoleID :
            \/ \E ps \in SUBSET Permission : CreateRole(a, r, ps)
            \/ \E v \in Version : UpdateRole(a, r, v) \/ DeleteRole(a, r, v)
            \/ \E v \in Version, g \in Grant : GrantPermission(a, r, g, v)
            \/ \E v \in Version, g \in Grant : RevokePermission(a, r, g, v)
            \/ \E v \in Version, s \in Subject : AssignRole(a, s, r, v)
            \/ \E v \in Version \cup {0}, s \in Subject : UnassignRole(a, s, r, v)
      BY <2>1 DEF ManagerStep
    <2> QED BY <2>2, CreateRoleStep, UpdateRoleStep, DeleteRoleStep, GrantPermissionStep,
               RevokePermissionStep, AssignRoleStep, UnassignRoleStep
  <1>4. CASE \E a \in Subject, op \in Operation \ {"none", "tenant.bootstrap"} : StoreFails(op, a)
    <2>1. PICK a \in Subject, op \in Logged : StoreFails(op, a) BY <1>4 DEF Logged
    <2> QED BY <2>1, DeniedEvent, UnchangedPolicy DEF StoreFails, IInv
  <1>5. CASE \E req \in RequestID : PurgeTenant(req) BY <1>5, PurgeStep
  <1> QED BY <1>1, <1>2, <1>3, <1>4, <1>5 DEF Next

\* Every invariant of the kernel holds in every reachable state.
THEOREM Invariance == Spec => []IInv
  BY InitEstablishes, NextPreserves, PTL DEF Spec

\* Type correctness of the tenant's state.
THEOREM TypeCorrect == Spec => []TypeOK
  <1>1. IInv => TypeOK BY DEF IInv
  <1> QED BY Invariance, <1>1, PTL

\* A bootstrapped tenant never loses its last administrator
\* (guardLastAdministrator, manager.go:753).
THEOREM AdministratorRemains == Spec => []LastAdministrator
  <1>1. IInv => LastAdministrator BY DEF IInv
  <1> QED BY Invariance, <1>1, PTL

\* Delegation is acyclic (AssignRole's HasGrantPath check, manager.go:622).
THEOREM NoDelegationCycle == Spec => []DelegationAcyclic
  <1>1. IInv => DelegationAcyclic BY DEF IInv
  <1> QED BY Invariance, <1>1, PTL

\* Edges and delegated bindings agree ("One edge exists per active normal
\* assignment", types.go:163).
THEOREM OneEdgePerAssignment == Spec => []EdgePerAssignment
  <1>1. IInv => EdgePerAssignment BY DEF IInv
  <1> QED BY Invariance, <1>1, PTL

\* The current version names the grants a role has now (bumpRoleVersion).
THEOREM VersionNamesGrants == Spec => []CurrentSnapshot
  <1>1. IInv => CurrentSnapshot BY DEF IInv
  <1> QED BY Invariance, <1>1, PTL

\* Nothing recreates the policy of a purged tenant (Store.MutateTenant refuses
\* a tombstoned one).
THEOREM PurgeIsFinal == Spec => []PurgedIsEmpty
  <1>1. IInv => PurgedIsEmpty BY DEF IInv
  <1> QED BY Invariance, <1>1, PTL

\* No chain of grants and assignments produces authority the bootstrap did not
\* give (requireActorForGrant and requireRoleCoverage).
THEOREM NoAmplification == Spec => []AuthorityFromBootstrap
  <1>1. IInv => AuthorityFromBootstrap
    <2> SUFFICES ASSUME IInv, NEW r \in RoleID, NEW g \in rolePerms[r]
                 PROVE  \E q \in RoleID : \E w \in roleVersions[q] :
                            w.byHost /\ \E h \in w.grants : <<h, g>> \in AtLeast
      BY DEF AuthorityFromBootstrap
    <2>1. PICK q \in RoleID : \E w \in roleVersions[q] : w.byHost /\ \E h \in w.grants : Covers(h, g)
      BY DEF IInv, CoveredByHost
    <2>2. PICK w \in roleVersions[q] : w.byHost /\ \E h \in w.grants : Covers(h, g) BY <2>1
    <2>3. PICK h \in w.grants : Covers(h, g) BY <2>2
    <2>4. g \in Grant /\ w \in Snapshot BY DEF IInv, TypeOK
    <2>5. h \in Grant BY <2>4 DEF Snapshot
    <2> QED BY <2>2, <2>3, <2>4, <2>5, CoversAtLeast
  <1> QED BY Invariance, <1>1, PTL

-----------------------------------------------------------------------------
(* What a step may never do. *)

\* AllowedBefore in the terms of the code's own check.
CoveredGain ==
    \A s \in Subject : \A g \in EffectiveGrants(s)' :
        \/ \E h \in EffectiveGrants(s) : Covers(h, g)
        \/ lastEvent'.op = "tenant.bootstrap"
        \/ /\ lastEvent'.actor \in Subject
           /\ RequireActorForGrant(lastEvent'.actor, g)

\* A step after which every subject has at most what it had escalates nobody.
LEMMA NoGain ==
  ASSUME IInv, \A s \in Subject : EffectiveGrants(s)' \subseteq EffectiveGrants(s)
  PROVE  CoveredGain
  <1>1. \A s \in Subject : \A g \in EffectiveGrants(s) : Covers(g, g)
    BY CoversReflexive DEF IInv, TypeOK, EffectiveGrants, EffectiveIn
  <1> QED BY <1>1 DEF CoveredGain

\* Calls that are refused or change nothing, and new or bumped roles that gain
\* no grant, give nobody more.
LEMMA SameBindingsNoGain ==
  ASSUME IInv, UNCHANGED subjectRoles,
         \A q \in RoleID : RoleSubjects(q) # {} => (Live(q)' => Live(q)) /\ rolePerms'[q] \subseteq rolePerms[q]
  PROVE  CoveredGain
  <1>1. \A s \in Subject : EffectiveGrants(s)' \subseteq EffectiveGrants(s)
    BY DEF EffectiveGrants, EffectiveIn, RoleSubjects
  <1> QED BY <1>1, NoGain

\* A call that changes no policy gives nobody more.
LEMMA UnchangedNoGain == ASSUME IInv, UNCHANGED policy PROVE CoveredGain
  BY SameBindingsNoGain DEF policy, Live

\* A new role has no subjects yet (CreateRole).
LEMMA CreateNoGain ==
  ASSUME IInv, NEW a \in Subject, NEW r \in RoleID, NEW ps \in SUBSET Permission,
         CreateRole(a, r, ps)
  PROVE  CoveredGain
  <1>1. CASE UNCHANGED policy BY <1>1, UnchangedNoGain
  <1>2. CASE UNCHANGED subjectRoles /\ InsertRole(r, {TenantGrant(p) : p \in ps}, FALSE)
             /\ ~(roles[r].version > 0)
    <2>1. RoleSubjects(r) = {} BY <1>2 DEF IInv, RetiredRolesEmpty, Live
    <2>2. \A q \in RoleID : q # r => roles'[q] = roles[q] /\ rolePerms'[q] = rolePerms[q]
      BY <1>2 DEF InsertRole, IInv, TypeOK
    <2> QED BY <1>2, <2>1, <2>2, SameBindingsNoGain DEF Live
  <1> QED BY <1>1, <1>2 DEF CreateRole, RecordDenied, CreateRoleError

\* A bump that adds no grant gives nobody more.
LEMMA BumpNoGain ==
  ASSUME IInv, NEW r \in RoleID, Live(r), NEW gs, NEW d, BumpRoleVersion(r, gs, d),
         UNCHANGED subjectRoles, \A q \in RoleID : rolePerms'[q] \subseteq rolePerms[q]
  PROVE  CoveredGain
  <1>1. \A q \in RoleID : q # r => roles'[q] = roles[q]
    BY DEF BumpRoleVersion, IInv, TypeOK
  <1> QED BY <1>1, SameBindingsNoGain DEF Live

\* GrantPermission adds a grant its actor covers.
LEMMA GrantGain ==
  ASSUME IInv, NEW a \in Subject, NEW r \in RoleID, NEW g \in Grant, NEW v,
         GrantPermission(a, r, g, v)
  PROVE  CoveredGain
  <1>1. CASE UNCHANGED policy BY <1>1, UnchangedNoGain
  <1>2. CASE /\ GrantError(a, r, g, v) = "none"
             /\ rolePerms' = [rolePerms EXCEPT ![r] = @ \cup {g}]
             /\ BumpRoleVersion(r, rolePerms[r] \cup {g}, FALSE)
             /\ Committed("grant.permission", a, "success")
             /\ UNCHANGED subjectRoles
    <2>1. Live(r) /\ RequireActorForGrant(a, g) BY <1>2 DEF GrantError, RoleError
    <2>2. lastEvent'.actor = a BY <1>2 DEF Committed
    <2>3. \A q \in RoleID : Live(q)' => Live(q)
      BY <1>2, <2>1 DEF BumpRoleVersion, IInv, TypeOK, Live
    <2>4. \A s \in Subject : \A f \in EffectiveGrants(s)' : f = g \/ f \in EffectiveGrants(s)
      BY <1>2, <2>3 DEF EffectiveGrants, EffectiveIn, IInv, TypeOK
    <2>5. \A s \in Subject : \A f \in EffectiveGrants(s) : Covers(f, f)
      BY CoversReflexive DEF IInv, TypeOK, EffectiveGrants, EffectiveIn
    <2> QED BY <2>1, <2>2, <2>4, <2>5 DEF CoveredGain
  <1> QED BY <1>1, <1>2 DEF GrantPermission, RecordDenied

\* AssignRole gives the grants of a role its actor covers.
LEMMA AssignGain ==
  ASSUME IInv, NEW a \in Subject, NEW s \in Subject, NEW r \in RoleID, NEW v,
         AssignRole(a, s, r, v)
  PROVE  CoveredGain
  <1>1. CASE UNCHANGED policy BY <1>1, UnchangedNoGain
  <1>2. CASE /\ AssignError(a, s, r, v) = "none"
             /\ subjectRoles' = [subjectRoles EXCEPT ![s][r] = a]
             /\ Committed("assign.role", a, "success")
             /\ UNCHANGED <<roles, rolePerms>>
    <2>1. RequireRoleCoverage(a, r) BY <1>2 DEF AssignError
    <2>2. lastEvent'.actor = a BY <1>2 DEF Committed
    <2>3. \A t \in Subject, q \in RoleID :
            q # r => subjectRoles'[t][q] = subjectRoles[t][q]
      BY <1>2 DEF IInv, TypeOK
    <2>4. \A t \in Subject : \A f \in EffectiveGrants(t)' : f \in rolePerms[r] \/ f \in EffectiveGrants(t)
      BY <1>2, <2>3 DEF EffectiveGrants, EffectiveIn, Live
    <2>5. \A t \in Subject : \A f \in EffectiveGrants(t) : Covers(f, f)
      BY CoversReflexive DEF IInv, TypeOK, EffectiveGrants, EffectiveIn
    <2> QED BY <2>1, <2>2, <2>4, <2>5 DEF CoveredGain, RequireRoleCoverage
  <1> QED BY <1>1, <1>2 DEF AssignRole, RecordDenied

\* UnassignRole only takes away.
LEMMA UnassignNoGain ==
  ASSUME IInv, NEW a, NEW s \in Subject, NEW r \in RoleID, NEW v, UnassignRole(a, s, r, v)
  PROVE  CoveredGain
  <1>1. CASE UNCHANGED policy BY <1>1, UnchangedNoGain
  <1>2. CASE /\ subjectRoles' = [subjectRoles EXCEPT ![s][r] = Absent]
             /\ UNCHANGED <<roles, rolePerms>>
    <2>1. \A t \in Subject, q \in RoleID :
            subjectRoles'[t][q] \in {Absent, subjectRoles[t][q]}
      BY <1>2 DEF IInv, TypeOK
    <2>2. \A t \in Subject : EffectiveGrants(t)' \subseteq EffectiveGrants(t)
      BY <1>2, <2>1 DEF EffectiveGrants, EffectiveIn, Live
    <2> QED BY <2>2, NoGain
  <1> QED BY <1>1, <1>2 DEF UnassignRole, RecordDenied

\* No step gives anybody authority its audited actor did not cover.
THEOREM NoStepEscalates == Spec => NoEscalation
  <1>1. IInv /\ [Next]_vars => [CoveredGain]_vars
    <2> SUFFICES ASSUME IInv, Next PROVE CoveredGain BY DEF vars
    <2>1. CASE \E owner \in Subject, r \in RoleID, gs \in SUBSET Offered : BootstrapTenant(owner, r, gs)
      BY <2>1 DEF BootstrapTenant, Committed, CoveredGain
    <2>2. CASE \E a \in Subject : ManagerStep(a)
      <3>1. PICK a \in Subject : ManagerStep(a) BY <2>2
      <3>2. PICK r \in RoleID :
              \/ \E ps \in SUBSET Permission : CreateRole(a, r, ps)
              \/ \E v \in Version : UpdateRole(a, r, v) \/ DeleteRole(a, r, v)
              \/ \E v \in Version, g \in Grant : GrantPermission(a, r, g, v)
              \/ \E v \in Version, g \in Grant : RevokePermission(a, r, g, v)
              \/ \E v \in Version, s \in Subject : AssignRole(a, s, r, v)
              \/ \E v \in Version \cup {0}, s \in Subject : UnassignRole(a, s, r, v)
        BY <3>1 DEF ManagerStep
      <3>3. CASE \E v \in Version : UpdateRole(a, r, v) \/ DeleteRole(a, r, v)
        <4>1. CASE UNCHANGED policy BY <4>1, UnchangedNoGain
        <4>2. CASE UNCHANGED <<rolePerms, subjectRoles>> /\ Live(r)
                   /\ \E gs, d : BumpRoleVersion(r, gs, d)
          BY <4>2, BumpNoGain
        <4> QED BY <3>3, <4>1, <4>2 DEF UpdateRole, DeleteRole, RecordDenied, UpdateRoleError,
                                       DeleteRoleError, RoleError
      <3>4. CASE \E v \in Version, g \in Grant : RevokePermission(a, r, g, v)
        <4>1. PICK v \in Version, g \in Grant : RevokePermission(a, r, g, v) BY <3>4
        <4>2. CASE UNCHANGED policy BY <4>2, UnchangedNoGain
        <4>3. CASE /\ rolePerms' = [rolePerms EXCEPT ![r] = @ \ {g}] /\ Live(r)
                   /\ BumpRoleVersion(r, rolePerms[r] \ {g}, FALSE)
                   /\ UNCHANGED subjectRoles
          <5>1. \A q \in RoleID : rolePerms'[q] \subseteq rolePerms[q] BY <4>3 DEF IInv, TypeOK
          <5> QED BY <4>3, <5>1, BumpNoGain
        <4> QED BY <4>1, <4>2, <4>3 DEF RevokePermission, RecordDenied, RevokeError, GrantError, RoleError
      <3> QED BY <3>2, <3>3, <3>4, CreateNoGain, GrantGain, AssignGain, UnassignNoGain
    <2>3. CASE \E a \in Subject, op \in Operation \ {"none", "tenant.bootstrap"} : StoreFails(op, a)
      BY <2>3, UnchangedNoGain DEF StoreFails, RecordDenied
    <2>4. CASE \E req \in RequestID : PurgeTenant(req)
      BY <2>4 DEF PurgeTenant, CoveredGain, EffectiveGrants, EffectiveIn
    <2> QED BY <2>1, <2>2, <2>3, <2>4 DEF Next
  <1>2. IInv /\ IInv' /\ CoveredGain => AllowedBefore
    <2> SUFFICES ASSUME IInv, IInv', CoveredGain PROVE AllowedBefore OBVIOUS
    <2>1. \A s \in Subject : EffectiveGrants(s) \subseteq Grant /\ EffectiveGrants(s)' \subseteq Grant
      BY DEF IInv, TypeOK, EffectiveGrants, EffectiveIn
    <2> QED BY <2>1, CoversAtLeast DEF CoveredGain, AllowedBefore, RequireActorForGrant
  <1> QED BY <1>1, <1>2, Invariance, PTL DEF Spec, NoEscalation

\* A purge aside, a bump or an insertion keeps what is there: the version of a
\* role only grows, its snapshots stay, and a retired role is not touched.
LEMMA BumpGrows ==
  ASSUME IInv, NEW r \in RoleID, Live(r), NEW gs, NEW d, BumpRoleVersion(r, gs, d)
  PROVE  HistoryGrows
  <1>1. roles[r].version \in Nat /\ ~roles[r].deleted BY DEF IInv, TypeOK, Live
  <1>2. \A q \in RoleID : q # r => roles'[q] = roles[q] /\ roleVersions'[q] = roleVersions[q]
    BY DEF BumpRoleVersion, IInv, TypeOK
  <1>3. roles'[r].version = roles[r].version + 1 /\ roleVersions[r] \subseteq roleVersions'[r]
    BY DEF BumpRoleVersion, IInv, TypeOK
  <1>4. \A q \in RoleID : roles[q].version \in Nat BY DEF IInv, TypeOK
  <1> QED BY <1>1, <1>2, <1>3, <1>4 DEF HistoryGrows

\* A new role takes an identifier that has no row, so nothing is overwritten.
LEMMA InsertGrows ==
  ASSUME IInv, NEW r \in RoleID, ~(roles[r].version > 0), NEW gs, NEW h, InsertRole(r, gs, h)
  PROVE  HistoryGrows
  <1>1. \A q \in RoleID : q # r => roles'[q] = roles[q] /\ roleVersions'[q] = roleVersions[q]
    BY DEF InsertRole, IInv, TypeOK
  <1>2. roles'[r] = [version |-> 1, deleted |-> FALSE] /\ roleVersions[r] \subseteq roleVersions'[r]
    BY DEF InsertRole, IInv, TypeOK
  <1>3. \A q \in RoleID : roles[q].version \in Nat BY DEF IInv, TypeOK
  <1> QED BY <1>1, <1>2, <1>3 DEF HistoryGrows

\* Without a change of the role tables there is nothing to rewrite.
LEMMA SameHistory == ASSUME IInv, UNCHANGED <<roles, roleVersions>> PROVE HistoryGrows
  <1>1. \A q \in RoleID : roles[q].version \in Nat BY DEF IInv, TypeOK
  <1> QED BY <1>1 DEF HistoryGrows

\* Role history is append-only and retirement is final (types.go:192, store.go).
THEOREM HistoryKept == Spec => HistoryImmutable
  <1>1. IInv /\ [Next]_vars => [HistoryGrows]_vars
    <2> SUFFICES ASSUME IInv, Next PROVE HistoryGrows BY DEF vars
    <2>1. CASE \E owner \in Subject, r \in RoleID, gs \in SUBSET Offered : BootstrapTenant(owner, r, gs)
      <3>1. PICK owner \in Subject, r \in RoleID, gs \in SUBSET Offered : BootstrapTenant(owner, r, gs)
        BY <2>1
      <3>2. roles[r].version = 0 /\ InsertRole(r, gs, TRUE) BY <3>1 DEF BootstrapTenant
      <3>3. ~(roles[r].version > 0) BY <3>2
      <3> QED BY <3>2, <3>3, InsertGrows
    <2>2. CASE \E a \in Subject : ManagerStep(a)
      <3>1. PICK a \in Subject, r \in RoleID :
              \/ \E ps \in SUBSET Permission : CreateRole(a, r, ps)
              \/ \E v \in Version : UpdateRole(a, r, v) \/ DeleteRole(a, r, v)
              \/ \E v \in Version, g \in Offered : GrantPermission(a, r, g, v) \/ RevokePermission(a, r, g, v)
              \/ \E v \in Version \cup {0}, s \in Subject : AssignRole(a, s, r, v) \/ UnassignRole(a, s, r, v)
        BY <2>2 DEF ManagerStep
      <3>2. CASE \E ps \in SUBSET Permission : CreateRole(a, r, ps)
        BY <3>2, InsertGrows, SameHistory DEF CreateRole, CreateRoleError, RecordDenied, policy
      <3>3. CASE \E v \in Version : UpdateRole(a, r, v) \/ DeleteRole(a, r, v)
        BY <3>3, BumpGrows, SameHistory
           DEF UpdateRole, DeleteRole, UpdateRoleError, DeleteRoleError, RoleError, RecordDenied, policy
      <3>4. CASE \E v \in Version, g \in Offered : GrantPermission(a, r, g, v) \/ RevokePermission(a, r, g, v)
        BY <3>4, BumpGrows, SameHistory
           DEF GrantPermission, RevokePermission, GrantError, RevokeError, RoleError, RecordDenied, policy
      <3>5. CASE \E v \in Version \cup {0}, s \in Subject : AssignRole(a, s, r, v) \/ UnassignRole(a, s, r, v)
        BY <3>5, SameHistory DEF AssignRole, UnassignRole, RecordDenied, policy
      <3> QED BY <3>1, <3>2, <3>3, <3>4, <3>5
    <2>3. CASE \E a \in Subject, op \in Operation \ {"none", "tenant.bootstrap"} : StoreFails(op, a)
      BY <2>3, SameHistory DEF StoreFails, RecordDenied, policy
    <2>4. CASE \E req \in RequestID : PurgeTenant(req)
      BY <2>4 DEF PurgeTenant, HistoryGrows
    <2> QED BY <2>1, <2>2, <2>3, <2>4 DEF Next
  <1> QED BY <1>1, Invariance, PTL DEF Spec, HistoryImmutable

-----------------------------------------------------------------------------
\* A committed call writes its own success to the tenant's log (the event that
\* MutateTenant appends before it commits), and a call that does not commit
\* leaves the tables alone: short of a purge, whatever changes is on record.
THEOREM PolicyChangesAudited == Spec => AuditedChange
  <1> DEFINE Audited == ~purged' /\ policy' # policy =>
                            lastEvent'.log = "tenant" /\ lastEvent'.outcome = "success"
  <1>a. ASSUME NEW op, NEW a, NEW err, RecordDenied(op, a, err) PROVE Audited
    BY <1>a DEF RecordDenied, policy
  <1>b. ASSUME NEW op, NEW a, Committed(op, a, "success") PROVE Audited
    BY <1>b DEF Committed
  <1>1. Next => Audited
    <2> SUFFICES ASSUME Next PROVE Audited OBVIOUS
    <2>1. CASE \E owner \in Subject, r \in RoleID, gs \in SUBSET Offered : BootstrapTenant(owner, r, gs)
      BY <2>1, <1>b DEF BootstrapTenant
    <2>2. CASE \E a \in Subject : ManagerStep(a)
      <3>1. PICK a \in Subject, r \in RoleID :
              \/ \E ps \in SUBSET Permission : CreateRole(a, r, ps)
              \/ \E v \in Version : UpdateRole(a, r, v) \/ DeleteRole(a, r, v)
              \/ \E v \in Version, g \in Offered : GrantPermission(a, r, g, v) \/ RevokePermission(a, r, g, v)
              \/ \E v \in Version \cup {0}, s \in Subject : AssignRole(a, s, r, v) \/ UnassignRole(a, s, r, v)
        BY <2>2 DEF ManagerStep
      <3>2. CASE \E ps \in SUBSET Permission : CreateRole(a, r, ps)
        BY <3>2, <1>a, <1>b DEF CreateRole
      <3>3. CASE \E v \in Version : UpdateRole(a, r, v) \/ DeleteRole(a, r, v)
        BY <3>3, <1>a, <1>b DEF UpdateRole, DeleteRole
      <3>4. CASE \E v \in Version, g \in Offered : GrantPermission(a, r, g, v) \/ RevokePermission(a, r, g, v)
        BY <3>4, <1>a, <1>b DEF GrantPermission, RevokePermission, policy
      <3>5. CASE \E v \in Version \cup {0}, s \in Subject : AssignRole(a, s, r, v) \/ UnassignRole(a, s, r, v)
        BY <3>5, <1>a, <1>b DEF AssignRole, UnassignRole, policy
      <3> QED BY <3>1, <3>2, <3>3, <3>4, <3>5
    <2>3. CASE \E a \in Subject, op \in Operation \ {"none", "tenant.bootstrap"} : StoreFails(op, a)
      BY <2>3, <1>a DEF StoreFails, policy
    <2>4. CASE \E req \in RequestID : PurgeTenant(req)
      BY <2>4 DEF PurgeTenant
    <2> QED BY <2>1, <2>2, <2>3, <2>4 DEF Next
  <1>2. [Next]_vars => [Audited]_vars BY <1>1
  <1> QED BY <1>2, PTL DEF Spec, AuditedChange
=============================================================================
