---------------------------- MODULE Organization ----------------------------
(***************************************************************************)
(* The standalone application's organization in single mode: how every     *)
(* process resolves it, how operators set it up under an advisory lock, and*)
(* its versioned settings.                                                 *)
(*                                                                         *)
(* The lock belongs to a connection of its own, which may be lost while the*)
(* creation runs on others, and the transaction that activates the tenant  *)
(* may still be decided after its client is gone.  torn remembers that a   *)
(* creation lost its lock before it was decided.  What the bootstrap writes*)
(* is in PolicyKernel, how memberships change in CorePolicy.               *)
(***************************************************************************)
EXTENDS Naturals, FiniteSets

CONSTANTS
    Operator,     \* system administrators, each with a process of its own
    Tenant,       \* tenant identifiers
    Name,         \* names of an organization
    FirstName,    \* AMSONIA_ORGANIZATION_NAME
    None, Error,
    MaxSetups,    \* bounds: calls of SetupOrganization,
    MaxVersion,   \* settings versions,
    MaxFaults     \* failures, lost connections and crashes

ASSUME NameAssumption == FirstName \in Name
ASSUME NoneAssumption == None # Error /\ {None, Error} \cap (Tenant \cup Operator) = {}
ASSUME BoundsAssumption == {MaxSetups, MaxVersion, MaxFaults} \subseteq Nat

VARIABLES
    selected,   \* AMSONIA_ORGANIZATION_ID of the deployment, or None
    state,      \* tenants.state of each tenant
    settings,   \* tenants.name and settings_version
    member,     \* active memberships of operators
    lock,       \* the operator whose connection holds the advisory lock
    call,       \* where each operator's call is, and its tenant
    undecided,  \* activations whose commit the server has not decided
    view,       \* the settings each operator has read
    changes,    \* history: how often the settings of a tenant changed
    torn,       \* history: a creation lost its lock undecided
    setups, faults

config == selected
tenants == <<state, settings, member, changes>>
vars == <<config, tenants, lock, call, undecided, view, torn, setups, faults>>

State == {"none", "pending", "active", "failed"}
At == {"idle", "waiting", "locked", "insert", "bootstrap", "activate", "commit", "cleanup", "rename"}
Idle == [pc |-> "idle", tenant |-> None]

OrganizationTypeOK ==
    /\ selected \in Tenant \cup {None}
    /\ state \in [Tenant -> State]
    /\ settings \in [Tenant -> [name: Name, version: 1..MaxVersion]]
    /\ member \subseteq Operator \X Tenant
    /\ lock \in Operator \cup {None}
    /\ call \in [Operator -> [pc: At, tenant: Tenant \cup {None}]]
    /\ undecided \subseteq Operator \X Tenant
    /\ view \in [Operator -> [tenant: Tenant \cup {None}, version: 0..MaxVersion, changes: Nat]]
    /\ changes \in [Tenant -> Nat]
    /\ torn \in BOOLEAN /\ setups \in 0..MaxSetups /\ faults \in 0..MaxFaults

\* A new database, or one an earlier deployment has left with tenants; the
\* configuration may select a tenant, also one that is not there.
Init ==
    /\ state \in [Tenant -> {"none", "active"}]
    /\ Cardinality({t \in Tenant : state[t] = "active"}) <= 2
    /\ selected \in Tenant \cup {None}
    /\ settings = [t \in Tenant |-> [name |-> FirstName, version |-> 1]]
    /\ member = {}
    /\ lock = None /\ call = [o \in Operator |-> Idle] /\ undecided = {}
    /\ view = [o \in Operator |-> [tenant |-> None, version |-> 0, changes |-> 0]]
    /\ changes = [t \in Tenant |-> 0]
    /\ torn = FALSE /\ setups = 0 /\ faults = 0

Active == {t \in Tenant : state[t] = "active"}

\* Mutant: the first active tenant is taken.
SingleOrganizationIDFirst ==
    IF selected # None THEN IF selected \in Active THEN selected ELSE Error
    ELSE IF Active = {} THEN None ELSE CHOOSE t \in Active : TRUE

\* single_organization_id
SingleOrganizationID ==
    IF selected # None THEN IF selected \in Active THEN selected ELSE Error
    ELSE IF Active = {} THEN None
    ELSE IF Cardinality(Active) > 1 THEN Error ELSE CHOOSE t \in Active : TRUE

-----------------------------------------------------------------------------
(* SetupOrganization                                                       *)

Fault == faults < MaxFaults /\ faults' = faults + 1
Goto(o, pc, t) == call' = [call EXCEPT ![o] = [pc |-> pc, tenant |-> t]]
Mine(o) == <<o, call[o].tenant>>

\* Mutant: the connection is closed on success only.
LeaveLocked(o) ==
    /\ Goto(o, "idle", None)
    /\ lock' = IF lock = o /\ call[o].pc # "cleanup" THEN None ELSE lock

\* The call returns or its process ends: its connection closes.
Leave(o) ==
    /\ Goto(o, "idle", None)
    /\ lock' = IF lock = o THEN None ELSE lock

Connect(o) ==
    /\ call[o].pc = "idle" /\ setups < MaxSetups
    /\ setups' = setups + 1 /\ Goto(o, "waiting", None)
    /\ UNCHANGED <<config, tenants, lock, undecided, view, torn, faults>>

Lock(o) ==
    /\ call[o].pc = "waiting" /\ lock = None
    /\ lock' = o /\ Goto(o, "locked", None)
    /\ UNCHANGED <<config, tenants, undecided, view, torn, setups, faults>>

\* With an organization, the caller's membership decides only the answer.
Resolve(o) ==
    /\ call[o].pc = "locked"
    /\ IF SingleOrganizationID = None
       THEN Goto(o, "insert", None) /\ UNCHANGED lock
       ELSE Leave(o)
    /\ UNCHANGED <<config, tenants, undecided, view, torn, setups, faults>>

\* createTenant: the pending row, the bootstrap, and the transaction that adds
\* the owner and activates the tenant.
InsertTenant(o, t) ==
    /\ call[o].pc = "insert" /\ state[t] = "none"
    /\ \/ Goto(o, "bootstrap", t) /\ UNCHANGED <<lock, faults>>
       \/ Fault /\ Leave(o)
    /\ state' = [state EXCEPT ![t] = "pending"]
    /\ UNCHANGED <<config, settings, member, changes, undecided, view, torn, setups>>

Bootstrap(o) ==
    /\ call[o].pc = "bootstrap"
    /\ \/ Goto(o, "activate", call[o].tenant) /\ UNCHANGED faults
       \/ Fault /\ Goto(o, "cleanup", call[o].tenant)
    /\ UNCHANGED <<config, tenants, lock, undecided, view, torn, setups>>

SendActivate(o) ==
    /\ call[o].pc = "activate" /\ state[call[o].tenant] = "pending"
    /\ \/ /\ Goto(o, "commit", call[o].tenant) /\ undecided' = undecided \cup {Mine(o)}
          /\ UNCHANGED faults
       \/ Fault /\ Goto(o, "cleanup", call[o].tenant) /\ UNCHANGED undecided
    /\ UNCHANGED <<config, tenants, lock, view, torn, setups>>

\* The server decides the transaction, whether or not its client is there.
CommitActivate(o, t) ==
    /\ <<o, t>> \in undecided
    /\ undecided' = undecided \ {<<o, t>>}
    /\ state' = [state EXCEPT ![t] = "active"]
    /\ member' = member \cup {<<o, t>>}
    /\ UNCHANGED <<config, settings, changes, lock, call, view, torn, setups, faults>>

AbortActivate(o, t) ==
    /\ <<o, t>> \in undecided /\ Fault
    /\ undecided' = undecided \ {<<o, t>>}
    /\ UNCHANGED <<config, tenants, lock, call, view, torn, setups>>

\* The client learns the result, or loses the connection before that.
Activated(o) ==
    /\ call[o].pc = "commit"
    /\ \/ Mine(o) \notin undecided /\ call[o].tenant \in Active /\ Leave(o) /\ UNCHANGED faults
       \/ /\ IF Mine(o) \notin undecided /\ call[o].tenant \notin Active
             THEN UNCHANGED faults ELSE Fault
          /\ Goto(o, "cleanup", call[o].tenant) /\ UNCHANGED lock
    /\ UNCHANGED <<config, tenants, undecided, view, torn, setups>>

\* failCreatedTenant: waits for the row an undecided activation has updated, at
\* most 5 seconds; a tenant that became active stays.
FailCreatedTenant(o) ==
    LET t == call[o].tenant
    IN  /\ call[o].pc = "cleanup"
        /\ Leave(o)
        /\ \/ /\ Mine(o) \notin undecided
              /\ state' = [state EXCEPT ![t] = IF @ = "pending" THEN "failed" ELSE @]
              /\ UNCHANGED <<torn, faults>>
           \/ /\ IF Mine(o) \in undecided THEN UNCHANGED faults ELSE Fault
              /\ torn' = (torn \/ Mine(o) \in undecided)
              /\ UNCHANGED state
        /\ UNCHANGED <<config, settings, member, changes, undecided, view, setups>>

Setup(o) ==
    \/ Lock(o) \/ Resolve(o) \/ \E t \in Tenant : InsertTenant(o, t)
    \/ Bootstrap(o) \/ SendActivate(o) \/ Activated(o) \/ FailCreatedTenant(o)

\* The process ends.
Crash(o) ==
    /\ call[o].pc # "idle" /\ Fault /\ Leave(o)
    /\ torn' = (torn \/ Mine(o) \in undecided)
    /\ UNCHANGED <<config, tenants, undecided, view, setups>>

\* The connection that holds the lock is lost; the call goes on.
LoseLock(o) ==
    /\ lock = o /\ Fault /\ lock' = None /\ torn' = TRUE
    /\ UNCHANGED <<config, tenants, call, undecided, view, setups>>

-----------------------------------------------------------------------------
(* Members and settings                                                    *)

ChangeMembership(o, t) ==
    /\ t \in Active
    /\ member' = IF <<o, t>> \in member THEN member \ {<<o, t>>} ELSE member \cup {<<o, t>>}
    /\ UNCHANGED <<config, state, settings, changes, lock, call, undecided, view, torn, setups, faults>>

\* allowOrganization
Allowed(o, t) == SingleOrganizationID = t /\ <<o, t>> \in member

ReadOrganization(o, t) ==
    /\ call[o].pc = "idle" /\ Allowed(o, t)
    /\ view' = [view EXCEPT ![o] = [tenant |-> t, version |-> settings[t].version,
                                    changes |-> changes[t]]]
    /\ UNCHANGED <<config, tenants, lock, call, undecided, torn, setups, faults>>

\* renameOrganization: the checks before the transaction.
BeginRename(o) ==
    /\ call[o].pc = "idle" /\ view[o].tenant # None /\ Allowed(o, view[o].tenant)
    /\ Goto(o, "rename", view[o].tenant)
    /\ UNCHANGED <<config, tenants, lock, undecided, view, torn, setups, faults>>

\* rename_organization, in a serializable transaction.
Refused(o) ==
    LET t == call[o].tenant
    IN  <<o, t>> \notin member \/ t \notin Active \/ settings[t].version # view[o].version

\* Mutant: the version is of the row, not of the name.
RenamedInPlace(t, n) == [settings EXCEPT ![t].name = n]
Renamed(t, n) ==
    IF settings[t].name = n THEN settings
    ELSE [settings EXCEPT ![t] = [name |-> n, version |-> @.version + 1]]

RenameOrganization(o, n) ==
    LET t == call[o].tenant
    IN  /\ call[o].pc = "rename"
        /\ \/ Refused(o) /\ UNCHANGED settings
           \/ /\ ~Refused(o) /\ settings[t].version < MaxVersion
              /\ settings' = Renamed(t, n)
        /\ changes' = [changes EXCEPT ![t] = IF settings' = settings THEN @ ELSE @ + 1]
        /\ Goto(o, "idle", None)
        /\ UNCHANGED <<config, state, member, lock, undecided, view, torn, setups, faults>>

Next ==
    \/ \E o \in Operator : Connect(o) \/ Setup(o) \/ Crash(o) \/ LoseLock(o) \/ BeginRename(o)
    \/ \E o \in Operator, t \in Tenant :
           CommitActivate(o, t) \/ AbortActivate(o, t) \/ ChangeMembership(o, t) \/ ReadOrganization(o, t)
    \/ \E o \in Operator, n \in Name : RenameOrganization(o, n)

\* A call goes on and the server decides every transaction.  pg_advisory_lock
\* serves its waiters in order, and no more than MaxSetups calls compete.
Fairness ==
    /\ \A o \in Operator : WF_vars(Setup(o))
    /\ \A o \in Operator, t \in Tenant : WF_vars(CommitActivate(o, t))

Spec == Init /\ [][Next]_vars /\ Fairness

-----------------------------------------------------------------------------
(* Properties                                                              *)

\* "Idempotent and serializes concurrent setup attempts" (getting-started.md):
\* once processes resolve an organization they never resolve another, and
\* setups that race, fail half-way or are repeated make no second one.  Only a
\* creation that lost its lock undecided can, and then every process refuses.
OrganizationIsFinal ==
    [][\/ SingleOrganizationID' = SingleOrganizationID
       \/ SingleOrganizationID = None /\ SingleOrganizationID' # Error
       \/ torn /\ SingleOrganizationID' = Error]_vars

\* A rename is based on the latest settings, also when it is repeated after a
\* lost answer or races with others: none is overwritten unseen.
NoLostRename ==
    [][\A o \in Operator, t \in Tenant :
           call[o].pc = "rename" /\ settings'[t] # settings[t] /\ call'[o].pc = "idle"
           => view[o].tenant = t /\ view[o].changes = changes[t]]_vars

\* A setup ends, whatever happens to the one that holds the lock.
SetupEnds == \A o \in Operator : call[o].pc = "waiting" ~> call[o].pc = "idle"
=============================================================================
