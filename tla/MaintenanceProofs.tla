-------------------------- MODULE MaintenanceProofs -------------------------
(***************************************************************************)
(* Maintenance.PurgeTenant implements PurgeProtocol, for every set of      *)
(* callers, however they share request identifiers, and every number of    *)
(* failures, with a sink that keeps the contract of SecurityAuditSink.     *)
(***************************************************************************)
EXTENDS Maintenance, TLAPS

-----------------------------------------------------------------------------
(* The inductive invariant. *)

SinkOK == sink \in Seq(Row)

CallRecord == [pc: {"idle", "intent", "purge", "complete"}, by: Initiator \cup {NoOne},
               outcome: {"none", "ok", "not_found", "error"}]

CallsOK ==
    /\ call \in [Caller -> CallRecord]
    /\ \A c \in Caller : call[c].pc # "idle" => call[c].by \in Initiator

\* The tombstone, the count and the ledger agree: one request at most purged.
LedgerOK ==
    /\ ledger \in [Request -> Initiator \cup {NoOne}]
    /\ purged \in BOOLEAN
    /\ deletions = IF purged THEN 1 ELSE 0
    /\ ~purged => \A q \in Request : ledger[q] = NoOne
    /\ \A q, r \in Request : ledger[q] # NoOne /\ ledger[r] # NoOne => q = r

\* A call that is past its intent finds it on record.
IntentRecorded ==
    \A c \in Caller : call[c].pc \in {"purge", "complete"} => Recorded(RequestOf[c], "intent")

\* A call that is to complete carries the event of the ledger.
CarriesLedger ==
    \A c \in Caller : call[c].pc = "complete" => call[c].by = ledger[RequestOf[c]]

\* So does every completion on record.
CompletionsCanonical ==
    \A i \in 1..Len(sink) :
        sink[i].phase = "completed" => ledger[sink[i].request] = sink[i].by

IInv == SinkOK /\ CallsOK /\ LedgerOK /\ IntentRecorded /\ CarriesLedger /\ CompletionsCanonical

USE RequestOfAssumption, NoOneAssumption, BoundsAssumption

\* The request identifier of a caller is one.
LEMMA RequestOfCaller == ASSUME NEW c \in Caller PROVE RequestOf[c] \in Request
  BY DEF Request

\* Before the first call.
LEMMA InitEstablishes == Init => IInv
  <1> SUFFICES ASSUME Init PROVE IInv OBVIOUS
  <1>1. SinkOK /\ CompletionsCanonical BY DEF Init, SinkOK, CompletionsCanonical
  <1>2. CallsOK BY DEF Init, Idle, CallsOK, CallRecord
  <1>3. purged \in BOOLEAN BY DEF Init
  <1>4. LedgerOK BY <1>3 DEF Init, LedgerOK
  <1>5. IntentRecorded /\ CarriesLedger BY DEF Init, Idle, IntentRecorded, CarriesLedger
  <1> QED BY <1>1, <1>2, <1>4, <1>5 DEF IInv

-----------------------------------------------------------------------------
(* What the contract's sink does. *)

\* An event that is recorded with or without an answer: the rows stay, and the
\* event, or one of the same request and phase, is among them.
LEMMA ContractKeeps ==
  ASSUME SinkOK, NEW row \in Row, ContractRecord(row)
  PROVE  /\ SinkOK'
         /\ \A q, p : Recorded(q, p)' <=> Recorded(q, p) \/ (q = row.request /\ p = row.phase)
         /\ \A i \in 1..Len(sink') : sink'[i] = row \/ (i \in 1..Len(sink) /\ sink'[i] = sink[i])
         /\ \A i \in 1..Len(sink) : i \in 1..Len(sink') /\ sink'[i] = sink[i]
         /\ \E i \in 1..Len(sink') : sink'[i].request = row.request /\ sink'[i].phase = row.phase
  <1>1. CASE Recorded(row.request, row.phase)
    <2>1. sink' = sink BY <1>1 DEF ContractRecord
    <2> QED BY <1>1, <2>1 DEF SinkOK, Recorded
  <1>2. CASE ~Recorded(row.request, row.phase)
    <2>1. sink' = Append(sink, row) BY <1>2 DEF ContractRecord
    <2>2. /\ SinkOK' /\ Len(sink') = Len(sink) + 1
          /\ \A i \in 1..Len(sink) : sink'[i] = sink[i]
          /\ sink'[Len(sink) + 1] = row
      BY <2>1 DEF SinkOK
    <2>3. Len(sink) \in Nat BY DEF SinkOK
    <2>4. Len(sink) + 1 \in 1..Len(sink') BY <2>2, <2>3
    <2>5. \A i \in 1..Len(sink') : i \in 1..Len(sink) \/ i = Len(sink) + 1 BY <2>2, <2>3
    <2>6. \A i \in 1..Len(sink) : i \in 1..Len(sink') BY <2>2, <2>3
    <2> QED BY <2>2, <2>4, <2>5, <2>6 DEF Recorded
  <1> QED BY <1>1, <1>2

-----------------------------------------------------------------------------
(* One lemma per action: the invariant, and what PurgeProtocol sees. *)

\* The call record of one caller changes, the store and the sink do not.
LEMMA OnlyCall ==
  ASSUME IInv, NEW c \in Caller, UNCHANGED <<sink, deletions, purged, ledger>>,
         NEW next \in CallRecord,
         call' = [call EXCEPT ![c] = next],
         next.pc # "idle" => next.by \in Initiator,
         next.pc \in {"purge", "complete"} => Recorded(RequestOf[c], "intent"),
         next.pc = "complete" => next.by = ledger[RequestOf[c]]
  PROVE  IInv'
  <1> USE DEF IInv
  <1>1. SinkOK' /\ CompletionsCanonical' BY DEF SinkOK, CompletionsCanonical
  <1>2. CallsOK' BY DEF CallsOK
  <1>3. LedgerOK' BY DEF LedgerOK
  <1>4. \A q, p : Recorded(q, p)' <=> Recorded(q, p) BY DEF Recorded
  <1>5. IntentRecorded' BY <1>4 DEF IntentRecorded, CallsOK
  <1>6. CarriesLedger' BY DEF CarriesLedger, CallsOK
  <1> QED BY <1>1, <1>2, <1>3, <1>5, <1>6

\* The sink gets an event, the caller's record changes, the store does not.
LEMMA SinkAndCall ==
  ASSUME IInv, NEW c \in Caller, UNCHANGED <<deletions, purged, ledger>>,
         NEW row \in Row, ContractRecord(row),
         NEW next \in CallRecord,
         call' = [call EXCEPT ![c] = next],
         next.pc # "idle" => next.by \in Initiator,
         next.pc = "purge" => Recorded(RequestOf[c], "intent")',
         next.pc # "complete",
         row.phase = "completed" => row.by = ledger[row.request]
  PROVE  IInv'
  <1> USE DEF IInv
  <1>1. SinkOK' BY ContractKeeps
  <1>2. CompletionsCanonical'
    <2> SUFFICES ASSUME NEW i \in 1..Len(sink'), sink'[i].phase = "completed"
                 PROVE  ledger'[sink'[i].request] = sink'[i].by
      BY DEF CompletionsCanonical
    <2>1. CASE sink'[i] = row BY <2>1
    <2>2. CASE i \in 1..Len(sink) /\ sink'[i] = sink[i] BY <2>2 DEF CompletionsCanonical
    <2> QED BY <2>1, <2>2, ContractKeeps
  <1>3. CallsOK' BY DEF CallsOK
  <1>4. LedgerOK' BY DEF LedgerOK
  <1>5. \A q, p : Recorded(q, p) => Recorded(q, p)' BY ContractKeeps
  <1>6. IntentRecorded'
    <2> SUFFICES ASSUME NEW d \in Caller, call'[d].pc \in {"purge", "complete"}
                 PROVE  Recorded(RequestOf[d], "intent")'
      BY DEF IntentRecorded
    <2>1. CASE d = c BY <2>1 DEF CallsOK
    <2>2. CASE d # c BY <2>2, <1>5 DEF IntentRecorded, CallsOK
    <2> QED BY <2>1, <2>2
  <1>7. CarriesLedger' BY DEF CarriesLedger, CallsOK
  <1> QED BY <1>1, <1>2, <1>3, <1>4, <1>6, <1>7

\* Start authorizes a call.
LEMMA StartStep ==
  ASSUME IInv, NEW c \in Caller, NEW by \in Initiator, Start(c, by)
  PROVE  IInv' /\ UNCHANGED Abstract!vars
  <1>1. IInv' BY OnlyCall DEF Start, At, CallRecord
  <1>2. UNCHANGED Abstract!vars
    BY DEF Start, Abstract!vars, PurgesOf, CompletionsOf, Recorded
  <1> QED BY <1>1, <1>2

\* A caller that crashes loses only its own record.
LEMMA CrashStep ==
  ASSUME IInv, NEW c \in Caller, Crash(c)
  PROVE  IInv' /\ UNCHANGED Abstract!vars
  <1>1. IInv' BY OnlyCall DEF Crash, Idle, CallRecord
  <1>2. UNCHANGED Abstract!vars
    BY DEF Crash, Abstract!vars, PurgesOf, CompletionsOf, Recorded
  <1> QED BY <1>1, <1>2

\* The intent event is recorded, or not, and the call goes on, or fails.
LEMMA RecordIntentStep ==
  ASSUME IInv, ~ServiceSink, NEW c \in Caller, RecordIntent(c)
  PROVE  IInv' /\ (Abstract!Intend(RequestOf[c]) \/ UNCHANGED Abstract!vars)
  <1> DEFINE row == [request |-> RequestOf[c], phase |-> "intent", by |-> call[c].by]
  <1>1. call[c].by \in Initiator BY DEF RecordIntent, IInv, CallsOK
  <1>2. row \in Row BY <1>1, RequestOfCaller DEF Row
  <1>3. At("purge", call[c].by) \in CallRecord /\ Returned("error") \in CallRecord
    BY <1>1 DEF At, Returned, CallRecord
  <1>4. CASE Fault(c) /\ UNCHANGED sink
    <2>1. IInv' BY <1>3, <1>4, OnlyCall DEF Fault, Returned, RecordIntent
    <2>2. UNCHANGED Abstract!vars
      BY <1>4 DEF RecordIntent, Abstract!vars, PurgesOf, CompletionsOf, Recorded
    <2> QED BY <2>1, <2>2
  <1>5. CASE RecordSecurityEvent(row)
    <2>1. ContractRecord(row) BY <1>5 DEF RecordSecurityEvent
    <2>2. Recorded(RequestOf[c], "intent")' BY <1>2, <2>1, ContractKeeps DEF IInv
    <2>3. PICK next \in {At("purge", call[c].by), Returned("error")} : call' = [call EXCEPT ![c] = next]
      BY DEF RecordIntent, Fault
    <2>4. next \in CallRecord /\ next.pc # "complete" /\ (next.pc # "idle" => next.by \in Initiator)
      BY <1>1, <1>3, <2>3 DEF At, Returned
    <2>5. row.phase # "completed" OBVIOUS
    <2>6. UNCHANGED <<deletions, purged, ledger>> BY DEF RecordIntent
    <2> HIDE DEF row
    <2>7. IInv' BY <1>2, <2>1, <2>2, <2>3, <2>4, <2>5, <2>6, SinkAndCall
    <2>8. {q \in Request : Recorded(q, "intent")}' = {q \in Request : Recorded(q, "intent")} \cup {RequestOf[c]}
      BY <1>2, <2>1, ContractKeeps, RequestOfCaller DEF IInv, row
    <2>9. CompletionsOf' = CompletionsOf
      <3>1. \A i \in 1..Len(sink') : sink'[i].phase = "completed" => i \in 1..Len(sink) /\ sink'[i] = sink[i]
        BY <1>2, <2>1, <2>5, ContractKeeps DEF IInv
      <3>2. \A i \in 1..Len(sink) : i \in 1..Len(sink') /\ sink'[i] = sink[i]
        BY <1>2, <2>1, ContractKeeps DEF IInv
      <3> QED BY <3>1, <3>2 DEF CompletionsOf
    <2>10. PurgesOf' = PurgesOf BY <2>6 DEF PurgesOf
    <2> QED BY <2>6, <2>7, <2>8, <2>9, <2>10 DEF Abstract!Intend
  <1> QED BY <1>4, <1>5 DEF RecordIntent

\* The completion is recorded, or not: it is that of the ledger.
LEMMA RecordCompletionStep ==
  ASSUME IInv, ~ServiceSink, NEW c \in Caller, RecordCompletion(c)
  PROVE  IInv' /\ (Abstract!Complete \/ UNCHANGED Abstract!vars)
  <1> DEFINE row == [request |-> RequestOf[c], phase |-> "completed", by |-> call[c].by]
  <1>1. call[c].by \in Initiator /\ call[c].by = ledger[RequestOf[c]]
    BY DEF RecordCompletion, IInv, CallsOK, CarriesLedger
  <1>2. row \in Row BY <1>1, RequestOfCaller DEF Row
  <1>3. \A o \in {"ok", "error"} : Returned(o) \in CallRecord /\ Returned(o).pc = "idle"
    BY DEF Returned, CallRecord
  <1>4. UNCHANGED <<deletions, purged, ledger>> BY DEF RecordCompletion
  <1>5. CASE Fault(c) /\ UNCHANGED sink
    <2>1. IInv' BY <1>3, <1>4, <1>5, OnlyCall DEF Fault
    <2>2. UNCHANGED Abstract!vars
      BY <1>4, <1>5 DEF Abstract!vars, PurgesOf, CompletionsOf, Recorded
    <2> QED BY <2>1, <2>2
  <1>6. CASE RecordSecurityEvent(row)
    <2>1. ContractRecord(row) BY <1>6 DEF RecordSecurityEvent
    <2>2. PICK o \in {"ok", "error"} : call' = [call EXCEPT ![c] = Returned(o)]
      BY DEF RecordCompletion, Fault
    <2>3. row.phase = "completed" /\ row.by = ledger[row.request] BY <1>1
    <2>4. IInv' BY <1>2, <1>3, <1>4, <2>1, <2>2, <2>3, SinkAndCall
    <2>5. UNCHANGED {q \in Request : Recorded(q, "intent")}
      BY <1>2, <2>1, ContractKeeps DEF IInv
    <2>6. PurgesOf' = PurgesOf BY <1>4 DEF PurgesOf
    <2>7. PurgesOf = {[request |-> RequestOf[c], by |-> call[c].by]}
      BY <1>1, RequestOfCaller DEF PurgesOf, IInv, LedgerOK
    <2>8. CompletionsOf' = PurgesOf
      <3>1. \A i \in 1..Len(sink') : sink'[i].phase = "completed" =>
                sink'[i].request = RequestOf[c] /\ sink'[i].by = call[c].by
        <4> SUFFICES ASSUME NEW i \in 1..Len(sink'), sink'[i].phase = "completed"
                     PROVE  sink'[i].request = RequestOf[c] /\ sink'[i].by = call[c].by
          OBVIOUS
        <4>1. sink'[i] \in Row BY <1>2, <2>1, ContractKeeps DEF IInv, SinkOK
        <4>2. ledger[sink'[i].request] = sink'[i].by
          BY <1>4, <2>4 DEF IInv, CompletionsCanonical
        <4> QED BY <1>1, <4>1, <4>2, RequestOfCaller DEF IInv, LedgerOK, Row
      <3>2. PICK i \in 1..Len(sink') : sink'[i].request = RequestOf[c] /\ sink'[i].phase = "completed"
        BY <1>2, <2>1, ContractKeeps DEF IInv
      <3> QED BY <2>7, <3>1, <3>2 DEF CompletionsOf
    <2>9. deletions = 1 BY <1>1, RequestOfCaller DEF IInv, LedgerOK
    <2> QED BY <1>4, <2>4, <2>5, <2>6, <2>8, <2>9 DEF Abstract!Complete
  <1> QED BY <1>5, <1>6 DEF RecordCompletion

\* The transaction that deletes the tenant, whether or not its answer arrives.
LEMMA DeleteTenantStep ==
  ASSUME IInv, ~ServiceSink, NEW c \in Caller, call[c].pc = "purge", DeleteTenant(c),
         ledger[RequestOf[c]] = NoOne, ~purged,
         NEW next \in {At("complete", call[c].by), Returned("error")},
         call' = [call EXCEPT ![c] = next]
  PROVE  IInv' /\ Abstract!Purge(RequestOf[c], call[c].by)
  <1> USE DEF IInv
  <1> DEFINE q == RequestOf[c]
  <1>1. call[c].by \in Initiator BY DEF CallsOK
  <1>2. q \in Request BY RequestOfCaller
  <1>3. next \in CallRecord /\ (next.pc # "idle" => next.by = call[c].by)
    BY <1>1 DEF At, Returned, CallRecord
  <1>4. /\ UNCHANGED sink /\ deletions' = deletions + 1 /\ purged' = TRUE
        /\ ledger' = [ledger EXCEPT ![q] = call[c].by]
    BY DEF DeleteTenant
  <1>5. ledger' \in [Request -> Initiator \cup {NoOne}]
        /\ \A r \in Request : ledger'[r] = IF r = q THEN call[c].by ELSE NoOne
    BY <1>1, <1>2, <1>4 DEF LedgerOK
  <1>6. LedgerOK'
    <2>1. deletions = 0 BY DEF LedgerOK
    <2>2. purged' \in BOOLEAN BY <1>4
    <2> QED BY <1>1, <1>2, <1>4, <1>5, <2>1, <2>2 DEF LedgerOK
  <1>7. \A r, p : Recorded(r, p)' <=> Recorded(r, p) BY <1>4 DEF Recorded
  <1>8. \A d \in Caller : call[d].pc # "complete"
    BY RequestOfCaller DEF CarriesLedger, CallsOK, LedgerOK
  <1>9. \A i \in 1..Len(sink) : sink[i].phase # "completed"
    <2> SUFFICES ASSUME NEW i \in 1..Len(sink), sink[i].phase = "completed" PROVE FALSE
      OBVIOUS
    <2>1. sink[i] \in Row BY DEF SinkOK
    <2> QED BY <2>1 DEF CompletionsCanonical, LedgerOK, Row
  <1>10. IInv'
    <2>1. SinkOK' /\ CompletionsCanonical' BY <1>4, <1>9 DEF SinkOK, CompletionsCanonical
    <2>2. CallsOK' BY <1>1, <1>3 DEF CallsOK
    <2>3. IntentRecorded' BY <1>7 DEF IntentRecorded, CallsOK
    <2>4. CarriesLedger'
      <3> SUFFICES ASSUME NEW d \in Caller, call'[d].pc = "complete"
                   PROVE  call'[d].by = ledger'[RequestOf[d]]
        BY DEF CarriesLedger
      <3>1. d = c BY <1>8 DEF CallsOK
      <3> QED BY <1>2, <1>3, <1>5, <3>1 DEF CallsOK
    <2> QED BY <1>6, <2>1, <2>2, <2>3, <2>4
  <1>11. Abstract!Purge(q, call[c].by)
    <2>1. deletions = 0 /\ deletions' = 1 BY <1>4 DEF LedgerOK
    <2>2. Recorded(q, "intent") BY DEF IntentRecorded
    <2>3. UNCHANGED {r \in Request : Recorded(r, "intent")} BY <1>7
    <2>4. PurgesOf' = {[request |-> q, by |-> call[c].by]} BY <1>1, <1>2, <1>5 DEF PurgesOf
    <2>5. CompletionsOf' = CompletionsOf BY <1>4 DEF CompletionsOf
    <2> QED BY <1>2, <2>1, <2>2, <2>3, <2>4, <2>5 DEF Abstract!Purge
  <1> QED BY <1>10, <1>11

\* The store's transaction, in each of its outcomes.
LEMMA PurgeTxStep ==
  ASSUME IInv, ~ServiceSink, NEW c \in Caller, PurgeTx(c)
  PROVE  IInv' /\ (Abstract!Purge(RequestOf[c], call[c].by) \/ UNCHANGED Abstract!vars)
  <1>1. call[c].pc = "purge" /\ Recorded(RequestOf[c], "intent")
    BY DEF PurgeTx, IInv, IntentRecorded
  <1>2. CASE ledger[RequestOf[c]] = NoOne /\ ~purged /\ DeleteTenant(c)
             /\ (call' = [call EXCEPT ![c] = At("complete", @.by)] \/ Fault(c))
    <2>1. PICK next \in {At("complete", call[c].by), Returned("error")} :
            call' = [call EXCEPT ![c] = next]
      BY <1>2 DEF Fault
    <2> QED BY <1>1, <1>2, <2>1, DeleteTenantStep
  <1>3. CASE UNCHANGED <<sink, deletions, purged, ledger>>
    <2>1. PICK next : /\ call' = [call EXCEPT ![c] = next]
                      /\ \/ ledger[RequestOf[c]] # NoOne /\ next = At("complete", ledger[RequestOf[c]])
                         \/ next \in {Returned("not_found"), Returned("error")}
      BY <1>3 DEF PurgeTx, Fault, DeleteTenant, IInv, LedgerOK
    <2>2. next \in CallRecord /\ (next.pc # "idle" => next.by = ledger[RequestOf[c]] /\ next.by \in Initiator)
      BY <2>1, RequestOfCaller DEF At, Returned, CallRecord, IInv, LedgerOK
    <2>3. IInv' BY <1>1, <1>3, <2>1, <2>2, OnlyCall
    <2>4. UNCHANGED Abstract!vars
      BY <1>3 DEF Abstract!vars, PurgesOf, CompletionsOf, Recorded
    <2> QED BY <2>3, <2>4
  <1> QED BY <1>2, <1>3 DEF PurgeTx

\* Every step keeps the invariant and is one of PurgeProtocol, or none.
LEMMA StepRefines ==
  ASSUME IInv, ~ServiceSink, [Next]_vars
  PROVE  IInv' /\ [Abstract!Next]_(Abstract!vars)
  <1>1. CASE UNCHANGED vars
    <2>1. IInv' BY <1>1 DEF vars, IInv, SinkOK, CallsOK, LedgerOK, IntentRecorded, CarriesLedger,
                            CompletionsCanonical, Recorded
    <2>2. UNCHANGED Abstract!vars
      BY <1>1 DEF vars, Abstract!vars, PurgesOf, CompletionsOf, Recorded
    <2> QED BY <2>1, <2>2
  <1>2. ASSUME NEW c \in Caller, Step(c) \/ Crash(c) \/ \E by \in Initiator : Start(c, by)
        PROVE  IInv' /\ [Abstract!Next]_(Abstract!vars)
    <2>1. RequestOf[c] \in Request BY RequestOfCaller
    <2>2. CASE RecordIntent(c) BY <2>1, <2>2, RecordIntentStep DEF Abstract!Next
    <2>3. CASE PurgeTx(c)
      <3>1. call[c].by \in Initiator BY <2>3 DEF PurgeTx, IInv, CallsOK
      <3> QED BY <2>1, <2>3, <3>1, PurgeTxStep DEF Abstract!Next
    <2>4. CASE RecordCompletion(c) BY <2>4, RecordCompletionStep DEF Abstract!Next
    <2>5. CASE Crash(c) BY <2>5, CrashStep
    <2>6. CASE \E by \in Initiator : Start(c, by) BY <2>6, StartStep
    <2> QED BY <1>2, <2>2, <2>3, <2>4, <2>5, <2>6 DEF Step
  <1> QED BY <1>1, <1>2 DEF Next

\* With a sink that keeps the contract, the calls of PurgeTenant implement
\* PurgeProtocol: the tenant's state is deleted at most once, after its intent
\* is on record, and every completion on record is that of the deletion,
\* whoever retries, races or crashes (maintenance.go:58-66).
THEOREM PurgeRefines == ~ServiceSink /\ Spec => PurgedByProtocol
  <1> SUFFICES ASSUME ~ServiceSink PROVE Spec => PurgedByProtocol OBVIOUS
  <1>1. Init => Abstract!Init
    BY DEF Init, Abstract!Init, PurgesOf, CompletionsOf, Recorded
  <1>2. IInv /\ [Next]_vars => IInv' /\ [Abstract!Next]_(Abstract!vars)
    BY StepRefines
  <1> QED BY <1>1, <1>2, InitEstablishes, PTL DEF Spec, PurgedByProtocol, Abstract!Spec
=============================================================================
