------------------------------ MODULE Devices -------------------------------
(***************************************************************************)
(* What the sessions of an account promise its owner.  A device is signed  *)
(* in with the password of the moment and keeps one refresh token, which is*)
(* new whenever it is exchanged; to sign a device out ends it, and no other*)
(* one, however often it has exchanged its token since; a device that was  *)
(* signed out, or whose password was changed, does not come back.          *)
(***************************************************************************)
EXTENDS Naturals

VARIABLES
    password,   \* the password, by the number of changes
    issued,     \* tokens given out so far
    devices,    \* the devices signed in: passwords proved, refresh tokens
    signedOut   \* the devices that somebody has just asked to sign out

vars == <<password, issued, devices, signedOut>>

Init == password = 1 /\ issued = 0 /\ devices = {} /\ signedOut = {}

SignIn ==
    /\ issued' = issued + 1
    /\ devices' = devices \cup {[id |-> issued', under |-> {password}, tokens |-> {issued'}]}
    /\ signedOut' = {}
    /\ UNCHANGED password

Exchange(d) ==
    /\ d.tokens # {}
    /\ issued' = issued + 1
    /\ devices' = (devices \ {d}) \cup {[d EXCEPT !.tokens = {issued'}]}
    /\ signedOut' = {}
    /\ UNCHANGED password

\* The devices D are signed out, those that still are in.
SignOut(D) ==
    /\ devices' = {d \in devices : d.id \notin D}
    /\ signedOut' = D
    /\ UNCHANGED <<password, issued>>

\* Tokens expire, and devices are ended although nobody asked for it.
Fade ==
    /\ devices' \subseteq devices \cup {[d EXCEPT !.tokens = {}] : d \in devices}
    /\ signedOut' = {}
    /\ UNCHANGED <<password, issued>>

ChangePassword ==
    /\ password' = password + 1
    /\ devices' = {} /\ signedOut' = {}
    /\ UNCHANGED issued

Next ==
    \/ SignIn \/ Fade \/ ChangePassword
    \/ \E d \in devices : Exchange(d)
    \/ \E D \in SUBSET (1..issued) : SignOut(D)

Spec == Init /\ [][Next]_vars
=============================================================================
