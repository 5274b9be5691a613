---------------------------- MODULE MCMigrations ----------------------------
(* An old and a new release, and a fork of the old one whose second migration *)
(* was edited, on a database that predates checksums.                         *)
EXTENDS Migrations

CONSTANTS old, new, fork, a1, a2, b2, a3

M(name, checksum) == [name |-> name, checksum |-> checksum]
MCRelease == [r \in {old, new, fork} |->
    CASE r = old  -> <<M("base", a1), M("hardening", a2)>>
      [] r = new  -> <<M("base", a1), M("hardening", a2), M("tenants", a3)>>
      [] r = fork -> <<M("base", a1), M("hardening", b2)>>]
MCName == {"base", "hardening", "tenants"}
Untracked == <<M("base", b2)>>
=============================================================================
