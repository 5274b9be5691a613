---------------------------- MODULE Maintenance -----------------------------
(***************************************************************************)
(* Maintenance.PurgeTenant: an intent event in the security audit sink, the*)
(* store's purge transaction, and a completion event built from the purge  *)
(* ledger.  Callers run concurrently, may crash anywhere, and call again   *)
(* with the request identifier they used before.  A call of the sink or of *)
(* the store may fail without effect, or take effect and still report a    *)
(* failure (a timeout, a lost connection).                                 *)
(*                                                                         *)
(* Two sinks: one that keeps the contract of SecurityAuditSink, and the    *)
(* service's own RecordSecurityEvent, which appends to audit_events.       *)
(***************************************************************************)
EXTENDS Integers, Sequences, FiniteSets

CONSTANTS
    Caller,        \* callers of PurgeTenant
    RequestOf,     \* the request identifier each caller uses, every time
    Initiator,     \* what AuthorizeMaintenance returns as provenance
    NoOne,         \* no initiator
    ServiceSink,   \* the sink is Service.RecordSecurityEvent
    MaxFaults,     \* bound: failures and crashes
    MaxRows        \* bound: rows of the sink

ASSUME RequestOfAssumption == DOMAIN RequestOf = Caller
ASSUME NoOneAssumption == NoOne \notin Initiator
ASSUME BoundsAssumption == MaxFaults \in Nat /\ MaxRows \in Nat

VARIABLES
    sink,        \* the rows of the sink, in order
    deletions,   \* committed transactions that deleted the tenant's state
    purged,      \* the tombstone in tenant_state
    ledger,      \* purge_ledger: request identifier -> initiator, or NoOne
    call,        \* Caller -> where its call is and what it carries
    faults       \* failures so far

vars == <<sink, deletions, purged, ledger, call, faults>>

Request == {RequestOf[c] : c \in Caller}
Row == [request: Request, phase: {"intent", "completed"}, by: Initiator]

Idle == [pc |-> "idle", by |-> NoOne, outcome |-> "none"]
Returned(outcome) == [pc |-> "idle", by |-> NoOne, outcome |-> outcome]
At(pc, by) == [pc |-> pc, by |-> by, outcome |-> "none"]

MaintenanceTypeOK ==
    /\ \A i \in 1..Len(sink) : sink[i] \in Row
    /\ deletions \in Nat /\ purged \in BOOLEAN
    /\ ledger \in [Request -> Initiator \cup {NoOne}]
    /\ call \in [Caller -> [pc: {"idle", "intent", "purge", "complete"},
                            by: Initiator \cup {NoOne},
                            outcome: {"none", "ok", "not_found", "error"}]]
    /\ faults \in 0..MaxFaults

Init ==
    /\ sink = <<>> /\ deletions = 0 /\ purged = FALSE
    /\ ledger = [q \in Request |-> NoOne]
    /\ call = [c \in Caller |-> Idle]
    /\ faults = 0

-----------------------------------------------------------------------------
(* The sink. *)

Recorded(q, phase) == \E i \in 1..Len(sink) : sink[i].request = q /\ sink[i].phase = phase

\* "Implementations must be durable and deduplicate events by tenant, request
\* ID, operation, and phase": the contract keeps the first of such events.
ContractRecord(row) ==
    IF Recorded(row.request, row.phase) THEN UNCHANGED sink ELSE sink' = Append(sink, row)

\* INSERT INTO audit_events ... ON CONFLICT DO NOTHING: the only unique column
\* of the table is its BIGSERIAL key, so there is never a conflict.
ServiceRecord(row) == Len(sink) < MaxRows /\ sink' = Append(sink, row)

RecordSecurityEvent(row) == IF ServiceSink THEN ServiceRecord(row) ELSE ContractRecord(row)

\* A fault: the call fails here, with or without its effect.
Fault(c) ==
    /\ faults < MaxFaults /\ faults' = faults + 1
    /\ call' = [call EXCEPT ![c] = Returned("error")]

-----------------------------------------------------------------------------
(* PurgeTenant. *)

\* AuthorizeMaintenance lets the caller in.
Start(c, by) ==
    /\ call[c].pc = "idle"
    /\ call' = [call EXCEPT ![c] = At("intent", by)]
    /\ UNCHANGED <<sink, deletions, purged, ledger, faults>>

RecordIntent(c) ==
    LET row == [request |-> RequestOf[c], phase |-> "intent", by |-> call[c].by]
    IN  /\ call[c].pc = "intent"
        /\ \/ /\ RecordSecurityEvent(row)
              /\ call' = [call EXCEPT ![c] = At("purge", @.by)]
              /\ UNCHANGED faults
           \/ Fault(c) /\ (RecordSecurityEvent(row) \/ UNCHANGED sink)
        /\ UNCHANGED <<deletions, purged, ledger>>

\* What the transaction deletes and writes: all of the tenant's tables, the
\* audit events among them, then the ledger and the tombstone.
DeleteTenant(c) ==
    /\ sink' = IF ServiceSink THEN <<>> ELSE sink
    /\ deletions' = deletions + 1
    /\ ledger' = [ledger EXCEPT ![RequestOf[c]] = call[c].by]
    /\ purged' = TRUE

\* Mutants: the tombstone is looked at before the ledger; the retry answers
\* with its own event.
PurgeTxTombstoneFirst(c) ==
    LET q == RequestOf[c]
    IN  /\ call[c].pc = "purge"
        /\ \/ /\ purged
              /\ call' = [call EXCEPT ![c] = Returned("not_found")]
              /\ UNCHANGED <<sink, deletions, purged, ledger, faults>>
           \/ /\ ~purged
              /\ DeleteTenant(c)
              /\ \/ call' = [call EXCEPT ![c] = At("complete", @.by)] /\ UNCHANGED faults
                 \/ Fault(c)

PurgeTxOwnEvent(c) ==
    LET q == RequestOf[c]
    IN  /\ call[c].pc = "purge"
        /\ \/ /\ ledger[q] # NoOne
              /\ call' = [call EXCEPT ![c] = At("complete", @.by)]
              /\ UNCHANGED <<sink, deletions, purged, ledger, faults>>
           \/ /\ ledger[q] = NoOne /\ ~purged
              /\ DeleteTenant(c)
              /\ call' = [call EXCEPT ![c] = At("complete", @.by)]
              /\ UNCHANGED faults

\* The store's transaction: a request of the ledger has its original event, a
\* purged tenant is not found, and otherwise everything is deleted.
PurgeTx(c) ==
    LET q == RequestOf[c]
    IN  /\ call[c].pc = "purge"
        /\ \/ /\ ledger[q] # NoOne
              /\ call' = [call EXCEPT ![c] = At("complete", ledger[q])]
              /\ UNCHANGED <<sink, deletions, purged, ledger, faults>>
           \/ /\ ledger[q] = NoOne /\ purged
              /\ call' = [call EXCEPT ![c] = Returned("not_found")]
              /\ UNCHANGED <<sink, deletions, purged, ledger, faults>>
           \/ /\ ledger[q] = NoOne /\ ~purged
              /\ DeleteTenant(c)
              /\ \/ call' = [call EXCEPT ![c] = At("complete", @.by)] /\ UNCHANGED faults
                 \/ Fault(c)
           \/ Fault(c) /\ UNCHANGED <<sink, deletions, purged, ledger>>

RecordCompletion(c) ==
    LET row == [request |-> RequestOf[c], phase |-> "completed", by |-> call[c].by]
    IN  /\ call[c].pc = "complete"
        /\ \/ /\ RecordSecurityEvent(row)
              /\ call' = [call EXCEPT ![c] = Returned("ok")]
              /\ UNCHANGED faults
           \/ Fault(c) /\ (RecordSecurityEvent(row) \/ UNCHANGED sink)
        /\ UNCHANGED <<deletions, purged, ledger>>

\* The caller's process dies; the next call is a fresh one.
Crash(c) ==
    /\ call[c].pc # "idle"
    /\ faults < MaxFaults /\ faults' = faults + 1
    /\ call' = [call EXCEPT ![c] = Idle]
    /\ UNCHANGED <<sink, deletions, purged, ledger>>

Step(c) == RecordIntent(c) \/ PurgeTx(c) \/ RecordCompletion(c)

Next ==
    \E c \in Caller : Step(c) \/ Crash(c) \/ \E by \in Initiator : Start(c, by)

\* A caller runs its call to the end, and calls again with the same request
\* identifier: that is the operator's part of the protocol, not the code's.
Retries ==
    \A c \in Caller : WF_vars(Step(c)) /\ WF_vars(\E by \in Initiator : Start(c, by))

Spec == Init /\ [][Next]_vars
RetrySpec == Spec /\ Retries

-----------------------------------------------------------------------------
PurgesOf == {[request |-> q, by |-> ledger[q]] : q \in {r \in Request : ledger[r] # NoOne}}
CompletionsOf ==
    {[request |-> sink[i].request, by |-> sink[i].by] : i \in {k \in 1..Len(sink) : sink[k].phase = "completed"}}

Abstract == INSTANCE PurgeProtocol WITH
    intents <- {q \in Request : Recorded(q, "intent")},
    purges <- PurgesOf,
    completions <- CompletionsOf

\* "PurgeTenant deletes one tenant's authorization state after durable intent
\* audit" (maintenance.go:58), once, though callers race, crash and repeat
\* themselves, and completes "using the original canonical event" (:66), also
\* when somebody else retries it: the calls implement PurgeProtocol.
PurgedByProtocol == Abstract!Spec

\* "retries only the missing completion event" (maintenance.go:65): once a purge
\* has committed, a caller that repeats it leaves a completion event in the end.
CompletionFollowsPurge ==
    \A q \in Request : ledger[q] # NoOne ~> Recorded(q, "completed")

\* "Implementations must ... deduplicate events by tenant, request ID, operation,
\* and phase" (store.go:76): of the service's sink.
OneEventPerPhase ==
    \A i, j \in 1..Len(sink) :
        sink[i].request = sink[j].request /\ sink[i].phase = sink[j].phase => i = j
=============================================================================
