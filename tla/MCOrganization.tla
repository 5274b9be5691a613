--------------------------- MODULE MCOrganization ---------------------------
(* A small deployment for TLC. *)
EXTENDS Organization
=============================================================================
