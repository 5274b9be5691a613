----------------------------- MODULE MCSessions -----------------------------
(* A small account for TLC. *)
EXTENDS Sessions, TLC

Symmetry == Permutations(Call)

\* last never enables an action, and action properties are evaluated on every
\* transition; a lock that has run out is only ever compared with the clock.
LockView == IF Locked THEN account ELSE [account EXCEPT !.lockedUntil = 0]
SessionView == <<now, LockView, rows, issued, recoveries, calls, history>>
=============================================================================
