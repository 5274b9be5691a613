--------------------------- MODULE MCMaintenance ----------------------------
(* Two callers that share a request, and one with a request of its own. *)
EXTENDS Maintenance, TLC

CONSTANTS c1, c2, c3, q1, q2

SharedRequest == (c1 :> q1) @@ (c2 :> q1) @@ (c3 :> q2)
OneRequest == (c1 :> q1)
=============================================================================
