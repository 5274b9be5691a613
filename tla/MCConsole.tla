----------------------------- MODULE MCConsole ------------------------------
(* A browser with two tabs for TLC. *)
EXTENDS Console, TLC
=============================================================================
