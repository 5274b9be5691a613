--------------------------- MODULE PurgeProtocol ----------------------------
(***************************************************************************)
(* What Maintenance.PurgeTenant promises the auditors of a tenant: its     *)
(* state is deleted once, for a request whose intent was recorded before,  *)
(* and the completion that is recorded, however often and by whomever it is*)
(* retried, is that of the deletion.                                       *)
(***************************************************************************)
EXTENDS Naturals

CONSTANTS Request, Initiator

VARIABLES
    intents,       \* requests whose intent is on record
    deletions,     \* how often the tenant's state was deleted
    purges,        \* who purged, for which request
    completions    \* the completions on record

vars == <<intents, deletions, purges, completions>>

Init == intents = {} /\ deletions = 0 /\ purges = {} /\ completions = {}

Intend(q) == intents' = intents \cup {q} /\ UNCHANGED <<deletions, purges, completions>>

Purge(q, by) ==
    /\ deletions = 0 /\ q \in intents
    /\ deletions' = 1
    /\ purges' = {[request |-> q, by |-> by]}
    /\ UNCHANGED <<intents, completions>>

Complete ==
    /\ deletions = 1
    /\ completions' = purges
    /\ UNCHANGED <<intents, deletions, purges>>

Next == Complete \/ \E q \in Request : Intend(q) \/ \E by \in Initiator : Purge(q, by)

Spec == Init /\ [][Next]_vars
=============================================================================
