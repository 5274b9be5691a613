------------------------------ MODULE Sessions ------------------------------
(***************************************************************************)
(* The credentials and sessions of one account: login and its lockout,     *)
(* refresh token rotation and replay, logout, device revocation, password  *)
(* change, member recovery, operator recovery and session pruning.         *)
(*                                                                         *)
(* Every transaction here locks the account's row first, so each is one    *)
(* action.  What runs outside of one is a step of its own: the read and    *)
(* the slow password check of a login, the bearer check of a request, the  *)
(* lookup of a recovery token.  Calls interleave between those steps.      *)
(* Serializable transactions (Refresh, the recoveries) may also abort; an  *)
(* aborted call, like a refused one, changes nothing.                      *)
(*                                                                         *)
(* A password hash is represented by a number that grows with every change *)
(* (hashes are salted, so two are equal only when they are the same one),  *)
(* a random token by the next unused number, a device family by the token  *)
(* that started it.  Left out: e-mail lookup, profile, addresses, agents.  *)
(***************************************************************************)
EXTENDS Naturals, FiniteSets

CONSTANTS
    Call,           \* requests in flight
    RecoveryID,     \* password recoveries
    SystemAdmin,    \* is the account a system administrator
    MaxFailures,    \* wrong passwords that lock the account (5 in the code)
    AccessTTL,      \* lifetimes, in clock ticks (15 min, 30 days, 30 min)
    RefreshTTL,
    RecoveryTTL,
    LockTTL,        \* how long a lock holds (15 min)
    Retention,      \* how long pruning keeps an expired row
    BatchSize,      \* rows one pruning batch deletes from a table
    MaxToken,       \* bounds of the model: token pairs issued,
    MaxCredential,  \* passwords set,
    MaxTime         \* clock ticks

ASSUME AdminAssumption == SystemAdmin \in BOOLEAN
ASSUME TimesAssumption ==
    {MaxFailures, AccessTTL, RefreshTTL, RecoveryTTL, LockTTL, Retention, BatchSize}
        \subseteq Nat \ {0}
ASSUME BoundsAssumption == {MaxToken, MaxTime} \subseteq Nat /\ MaxCredential \in Nat \ {0}

VARIABLES
    now,
    account,      \* the account row: credential, failed count, lock (0: none)
    access,       \* token -> access_sessions row
    refresh,      \* token -> refresh_sessions row
    issued,       \* token pairs issued so far
    recoveries,   \* member_password_recoveries rows
    calls,        \* what each request in flight has read
    issuedUnder,  \* history: the credential each pair's holder proved at login
    exchanged,    \* history: refresh tokens rotated since the password was set
    wrong,        \* history: wrong passwords since the account was locked or cleared
    last          \* history: the call that made this step

rows == <<access, refresh>>
history == <<issuedUnder, exchanged, wrong>>
vars == <<now, account, rows, issued, recoveries, calls, history, last>>

Token == 1..MaxToken
Credential == 1..MaxCredential
Time == 0..(MaxTime + AccessTTL + RefreshTTL + RecoveryTTL + LockTTL)

Account == [credential: Credential, failed: 0..(MaxFailures - 1), lockedUntil: Time]
AccessRow == [stored: BOOLEAN, family: Token \cup {0}, revoked: BOOLEAN, expires: Time]
RefreshRow == [stored: BOOLEAN, family: Token \cup {0}, revoked: BOOLEAN, expires: Time,
               rotatedTo: Token \cup {0}]
Recovery == [state: {"none", "open", "consumed", "revoked", "pruned"}, expires: Time,
             credential: Credential \cup {0}]

Idle == [op |-> "idle"]
Pending == {Idle}
    \cup [op: {"login"}, credential: Credential, correct: BOOLEAN, at: Time]
    \cup [op: {"bearer"}, token: Token]
    \cup [op: {"recovery"}, id: RecoveryID]

NoAccess == [stored |-> FALSE, family |-> 0, revoked |-> FALSE, expires |-> 0]
NoRefresh == [stored |-> FALSE, family |-> 0, revoked |-> FALSE, expires |-> 0, rotatedTo |-> 0]
NoRecovery == [state |-> "none", expires |-> 0, credential |-> 0]
Call_(op, token, id) == [op |-> op, token |-> token, id |-> id]

TypeOK ==
    /\ now \in 0..MaxTime
    /\ account \in Account
    /\ access \in [Token -> AccessRow]
    /\ refresh \in [Token -> RefreshRow]
    /\ issued \in 0..MaxToken
    /\ recoveries \in [RecoveryID -> Recovery]
    /\ calls \in [Call -> Pending]
    /\ issuedUnder \in [Token -> Credential \cup {0}]
    /\ exchanged \in SUBSET Token
    /\ wrong \in Nat

Init ==
    /\ now = 0
    /\ account = [credential |-> 1, failed |-> 0, lockedUntil |-> 0]
    /\ access = [t \in Token |-> NoAccess]
    /\ refresh = [t \in Token |-> NoRefresh]
    /\ issued = 0
    /\ recoveries = [r \in RecoveryID |-> NoRecovery]
    /\ calls = [c \in Call |-> Idle]
    /\ issuedUnder = [t \in Token |-> 0]
    /\ exchanged = {}
    /\ wrong = 0
    /\ last = Call_("none", 0, "none")

-----------------------------------------------------------------------------
(* Rows. *)

Locked == account.lockedUntil > now
LiveAccess(t) == access[t].stored /\ ~access[t].revoked /\ access[t].expires > now
Families == {access[t].family : t \in {u \in Token : access[u].stored}}
    \cup {refresh[t].family : t \in {u \in Token : refresh[u].stored}}

\* revoked_at = COALESCE(revoked_at, now) on the rows of the families F.
RevokeFamilies(F) ==
    /\ access' = [t \in Token |-> IF access[t].stored /\ access[t].family \in F
                                  THEN [access[t] EXCEPT !.revoked = TRUE] ELSE access[t]]
    /\ refresh' = [t \in Token |-> IF refresh[t].stored /\ refresh[t].family \in F
                                   THEN [refresh[t] EXCEPT !.revoked = TRUE] ELSE refresh[t]]

\* A new pair in family f (the pair's own number starts a family), on top of
\* the refresh rows as the transaction left them, for somebody who proved to
\* know the password behind the hash proved.
InsertPair(t, f, refreshRows, proved) ==
    /\ t <= MaxToken
    /\ issued' = t
    /\ access' = [access EXCEPT ![t] = [stored |-> TRUE, family |-> f, revoked |-> FALSE,
                                        expires |-> now + AccessTTL]]
    /\ refresh' = [refreshRows EXCEPT ![t] = [stored |-> TRUE, family |-> f, revoked |-> FALSE,
                                              expires |-> now + RefreshTTL, rotatedTo |-> 0]]
    /\ issuedUnder' = [issuedUnder EXCEPT ![t] = proved]

\* Mutant: one wrong password too many.
FailedPasswordLate(at) ==
    LET lock == account.failed + 1 > MaxFailures
        until == IF lock THEN at + LockTTL ELSE account.lockedUntil
    IN  /\ account' = [account EXCEPT !.failed = IF lock THEN 0 ELSE @ + 1,
                                      !.lockedUntil = until]
        /\ wrong' = IF until > now THEN 0 ELSE wrong + 1

\* The failed count and lock written after a wrong password, from the stored
\* count; at is when the caller looked at the clock.
FailedPassword(at) ==
    LET lock == account.failed + 1 >= MaxFailures
        until == IF lock THEN at + LockTTL ELSE account.lockedUntil
    IN  /\ account' = [account EXCEPT !.failed = IF lock THEN 0 ELSE @ + 1,
                                      !.lockedUntil = until]
        /\ wrong' = IF until > now THEN 0 ELSE wrong + 1

ClearFailures(credential) ==
    /\ account' = [credential |-> credential, failed |-> 0, lockedUntil |-> 0]
    /\ wrong' = 0

\* Mutant: the lineage of rotations is kept.
RevokeSessionsOnly(open) ==
    /\ access' = [t \in Token |-> [access[t] EXCEPT !.revoked = access[t].stored]]
    /\ refresh' = [t \in Token |-> [refresh[t] EXCEPT !.revoked = refresh[t].stored]]
    /\ recoveries' = [r \in RecoveryID |-> IF open[r].state = "open"
                                           THEN [open[r] EXCEPT !.state = "revoked"] ELSE open[r]]

\* revokeCredentialSessions: every session, the lineage a replay is detected
\* by, and every open recovery.
RevokeCredentialSessions(open) ==
    /\ access' = [t \in Token |-> IF access[t].stored THEN [access[t] EXCEPT !.revoked = TRUE]
                                  ELSE access[t]]
    /\ refresh' = [t \in Token |-> IF refresh[t].stored
                                   THEN [refresh[t] EXCEPT !.revoked = TRUE, !.rotatedTo = 0]
                                   ELSE refresh[t]]
    /\ recoveries' = [r \in RecoveryID |-> IF open[r].state = "open"
                                           THEN [open[r] EXCEPT !.state = "revoked"] ELSE open[r]]

\* Setting a password, with the recoveries as the transaction left them.
SetPassword(open) ==
    /\ account.credential < MaxCredential
    /\ ClearFailures(account.credential + 1)
    /\ RevokeCredentialSessions(open)
    /\ exchanged' = {}
    /\ UNCHANGED <<now, issued, issuedUnder>>

-----------------------------------------------------------------------------
(* Login. *)

\* The lookup; the password check that follows takes its time.
LoginRead(c, correct) ==
    /\ calls[c] = Idle /\ ~Locked
    /\ calls' = [calls EXCEPT ![c] = [op |-> "login", credential |-> account.credential,
                                      correct |-> correct, at |-> now]]
    /\ last' = Call_("login", 0, "none")
    /\ UNCHANGED <<now, account, rows, issued, recoveries, history>>

LoginFails(c) ==
    /\ calls[c].op = "login" /\ ~calls[c].correct
    /\ FailedPassword(calls[c].at)
    /\ calls' = [calls EXCEPT ![c] = Idle]
    /\ last' = Call_("login_failed", 0, "none")
    /\ UNCHANGED <<now, rows, issued, recoveries, issuedUnder, exchanged>>

\* Mutant: the hash that the lookup read is trusted.
MayIssueAnyHash(c) == ~Locked

\* issueSession reads hash and lock again under the account's lock.
MayIssue(c) == calls[c].credential = account.credential /\ ~Locked

IssueSession(c) ==
    /\ calls[c].op = "login" /\ calls[c].correct /\ MayIssue(c)
    /\ InsertPair(issued + 1, issued + 1, refresh, calls[c].credential)
    /\ ClearFailures(account.credential)
    /\ calls' = [calls EXCEPT ![c] = Idle]
    /\ last' = Call_("issue", issued + 1, "none")
    /\ UNCHANGED <<now, recoveries, exchanged>>

-----------------------------------------------------------------------------
(* Refresh. *)

\* Mutant: access ends, but other devices can still exchange their tokens.
RefreshReplayedAccess(t) ==
    /\ refresh[t].stored /\ refresh[t].rotatedTo # 0
    /\ access' = [u \in Token |-> [access[u] EXCEPT !.revoked = @ \/ access[u].stored]]
    /\ refresh' = [refresh EXCEPT ![t].revoked = TRUE]
    /\ last' = Call_("refresh", t, "none")
    /\ UNCHANGED <<now, account, issued, recoveries, calls, issuedUnder, exchanged, wrong>>

\* A token that was rotated before ends every session of the account.
RefreshReplayed(t) ==
    /\ refresh[t].stored /\ refresh[t].rotatedTo # 0
    /\ RevokeFamilies(Families)
    /\ last' = Call_("refresh", t, "none")
    /\ UNCHANGED <<now, account, issued, recoveries, calls, issuedUnder, exchanged, wrong>>

RefreshExpired(t) ==
    /\ refresh[t].stored /\ refresh[t].rotatedTo = 0 /\ ~refresh[t].revoked
    /\ ~(refresh[t].expires > now)
    /\ refresh' = [refresh EXCEPT ![t].revoked = TRUE]
    /\ last' = Call_("refresh", t, "none")
    /\ UNCHANGED <<now, account, access, issued, recoveries, calls, history>>

RefreshRotates(t) ==
    /\ refresh[t].stored /\ refresh[t].rotatedTo = 0 /\ ~refresh[t].revoked
    /\ refresh[t].expires > now
    /\ InsertPair(issued + 1, refresh[t].family,
                  [refresh EXCEPT ![t].revoked = TRUE, ![t].rotatedTo = issued + 1], issuedUnder[t])
    /\ exchanged' = exchanged \cup {t}
    /\ last' = Call_("refresh", t, "none")
    /\ UNCHANGED <<now, account, recoveries, calls, wrong>>

\* A token without a row, and a revoked one that was not rotated, are refused.
Refresh(t) == RefreshReplayed(t) \/ RefreshExpired(t) \/ RefreshRotates(t)

-----------------------------------------------------------------------------
(* Ending sessions. *)

\* The device of a token that has a row, live or not.
AccessDevice(t) == {access[u].family : u \in {v \in Token : v = t /\ access[v].stored}}
RefreshDevice(t) == {refresh[u].family : u \in {v \in Token : v = t /\ refresh[v].stored}}

\* Mutant: the rows of the tokens presented, which a rotation has replaced.
LogoutPresented(a, r) ==
    LET F == AccessDevice(a) \cup RefreshDevice(r)
    IN  /\ F # {}
        /\ access' = [t \in Token |-> [access[t] EXCEPT !.revoked = @ \/ (t = a /\ access[t].stored)]]
        /\ refresh' = [t \in Token |-> [refresh[t] EXCEPT !.revoked = @ \/ (t = r /\ refresh[t].stored)]]
        /\ last' = Call_("logout", a, r)
        /\ UNCHANGED <<now, account, issued, recoveries, calls, issuedUnder, exchanged, wrong>>

\* logoutSessions: the families of the access and the refresh token presented,
\* either of which may be missing (0), live or not.
Logout(a, r) ==
    LET F == AccessDevice(a) \cup RefreshDevice(r)
    IN  /\ F # {}
        /\ RevokeFamilies(F)
        /\ last' = Call_("logout", a, r)
        /\ UNCHANGED <<now, account, issued, recoveries, calls, issuedUnder, exchanged, wrong>>

\* Authenticate: from here on the request acts for the account.
Authenticate(c, t) ==
    /\ calls[c] = Idle /\ LiveAccess(t)
    /\ calls' = [calls EXCEPT ![c] = [op |-> "bearer", token |-> t]]
    /\ last' = Call_("authenticate", t, "none")
    /\ UNCHANGED <<now, account, rows, issued, recoveries, history>>

RevokeSession(c, f) ==
    /\ calls[c].op = "bearer" /\ f \in Families
    /\ RevokeFamilies({f})
    /\ calls' = [calls EXCEPT ![c] = Idle]
    /\ last' = Call_("revoke", calls[c].token, f)
    /\ UNCHANGED <<now, account, issued, recoveries, issuedUnder, exchanged, wrong>>

\* Mutant: the bearer was checked once, before the lock.
RevokeOtherSessionsStale(c) ==
    /\ calls[c].op = "bearer"
    /\ RevokeFamilies(Families \ {access[calls[c].token].family})
    /\ calls' = [calls EXCEPT ![c] = Idle]
    /\ last' = Call_("revoke_others", calls[c].token, "none")
    /\ UNCHANGED <<now, account, issued, recoveries, issuedUnder, exchanged, wrong>>

\* revokeOtherSessions looks at the bearer's row again under the account's lock.
RevokeOtherSessions(c) ==
    /\ calls[c].op = "bearer" /\ LiveAccess(calls[c].token)
    /\ RevokeFamilies(Families \ {access[calls[c].token].family})
    /\ calls' = [calls EXCEPT ![c] = Idle]
    /\ last' = Call_("revoke_others", calls[c].token, "none")
    /\ UNCHANGED <<now, account, issued, recoveries, issuedUnder, exchanged, wrong>>

-----------------------------------------------------------------------------
(* Passwords. *)

\* The current password is checked under the account's lock.
ChangePassword(c, correct) ==
    /\ calls[c].op = "bearer" /\ ~Locked
    /\ \/ /\ correct
          /\ SetPassword(recoveries)
          /\ last' = Call_("change", calls[c].token, "none")
       \/ /\ ~correct
          /\ FailedPassword(now)
          /\ last' = Call_("login_failed", 0, "none")
          /\ UNCHANGED <<now, rows, issued, recoveries, issuedUnder, exchanged>>
    /\ calls' = [calls EXCEPT ![c] = Idle]

\* AcceptInvitation checks the password of an account that exists and never
\* replaces it; only a wrong one leaves a trace here.
AcceptInvitationFails ==
    /\ ~Locked
    /\ FailedPassword(now)
    /\ last' = Call_("login_failed", 0, "none")
    /\ UNCHANGED <<now, rows, issued, recoveries, calls, issuedUnder, exchanged>>

\* An administrator confirms a recovery of somebody else with the password of
\* this account.
ConfirmRecovery(c, correct) ==
    /\ SystemAdmin /\ calls[c].op = "bearer" /\ ~Locked
    /\ IF correct THEN ClearFailures(account.credential) ELSE FailedPassword(now)
    /\ calls' = [calls EXCEPT ![c] = Idle]
    /\ last' = Call_(IF correct THEN "confirm" ELSE "login_failed", 0, "none")
    /\ UNCHANGED <<now, rows, issued, recoveries, issuedUnder, exchanged>>

\* CreatePasswordRecovery by an administrator, of this member: one link is open.
CreatePasswordRecovery(r) ==
    /\ ~SystemAdmin /\ recoveries[r].state = "none"
    /\ recoveries' = [q \in RecoveryID |->
            IF q = r THEN [state |-> "open", expires |-> now + RecoveryTTL,
                           credential |-> account.credential]
            ELSE IF recoveries[q].state = "open" THEN [recoveries[q] EXCEPT !.state = "revoked"]
            ELSE recoveries[q]]
    /\ last' = Call_("create_recovery", 0, r)
    /\ UNCHANGED <<now, account, rows, issued, calls, history>>

OpenRecovery(r) == recoveries[r].state = "open" /\ recoveries[r].expires > now

\* recoveryTarget: the lookup before the new password is hashed.
RecoveryTarget(c, r) ==
    /\ calls[c] = Idle /\ OpenRecovery(r)
    /\ calls' = [calls EXCEPT ![c] = [op |-> "recovery", id |-> r]]
    /\ last' = Call_("recovery_target", 0, r)
    /\ UNCHANGED <<now, account, rows, issued, recoveries, history>>

\* Mutant: what recoveryTarget found is trusted.
CompletePasswordRecoveryStale(c) ==
    /\ calls[c].op = "recovery"
    /\ SetPassword([recoveries EXCEPT ![calls[c].id].state = "consumed"])
    /\ calls' = [calls EXCEPT ![c] = Idle]
    /\ last' = Call_("recover", 0, calls[c].id)

\* The recovery is consumed only if it is still open.
CompletePasswordRecovery(c) ==
    /\ calls[c].op = "recovery" /\ OpenRecovery(calls[c].id)
    /\ SetPassword([recoveries EXCEPT ![calls[c].id].state = "consumed"])
    /\ calls' = [calls EXCEPT ![c] = Idle]
    /\ last' = Call_("recover", 0, calls[c].id)

\* Operator tooling: ProvisionMember resets a member and refuses an
\* administrator, RecoverAdministrator the other way round.
ProvisionMember ==
    /\ ~SystemAdmin
    /\ SetPassword(recoveries)
    /\ last' = Call_("operator", 0, "none")
    /\ UNCHANGED calls

RecoverAdministrator ==
    /\ SystemAdmin
    /\ SetPassword(recoveries)
    /\ last' = Call_("operator", 0, "none")
    /\ UNCHANGED calls

-----------------------------------------------------------------------------
(* The operator's pruning, the clock and calls that end without effect. *)

\* Mutant: revoked refresh rows go at once.
PruneRevoked ==
    \E R \in SUBSET {t \in Token : refresh[t].stored /\ refresh[t].revoked} \ {{}} :
        /\ refresh' = [t \in Token |-> [refresh[t] EXCEPT !.stored = @ /\ t \notin R]]
        /\ last' = Call_("prune", 0, "none")
        /\ UNCHANGED <<now, account, access, issued, recoveries, calls, history>>

\* The cutoff, and what one batch may take of the rows S.
OutOfRetention(expires) == expires + Retention < now
Batch(S) == {B \in SUBSET S : Cardinality(B) <= BatchSize}

\* Access rows A, refresh rows R and recoveries Q are deleted.  (What a deleted
\* refresh row said is kept beside stored = FALSE, for ReplayDetectable.)
Delete(A, R, Q) ==
    /\ access' = [t \in Token |-> IF t \in A THEN NoAccess ELSE access[t]]
    /\ refresh' = [t \in Token |-> IF t \in R THEN [refresh[t] EXCEPT !.stored = FALSE] ELSE refresh[t]]
    /\ recoveries' = [r \in RecoveryID |-> IF r \in Q THEN [recoveries[r] EXCEPT !.state = "pruned"]
                                           ELSE recoveries[r]]

\* Rows that expired before the cutoff; a row somebody holds a lock on is
\* skipped, so any of them may stay.
Prune ==
    \E A \in Batch({t \in Token : access[t].stored /\ OutOfRetention(access[t].expires)}),
       R \in Batch({t \in Token : refresh[t].stored /\ OutOfRetention(refresh[t].expires)}),
       Q \in Batch({r \in RecoveryID : /\ recoveries[r].state \notin {"none", "pruned"}
                                       /\ OutOfRetention(recoveries[r].expires)}) :
        /\ A \cup R # {} \/ Q # {}
        /\ Delete(A, R, Q)
        /\ last' = Call_("prune", 0, "none")
        /\ UNCHANGED <<now, account, issued, calls, history>>

\* A password check takes less than the 15 minutes a lock holds.
Tick ==
    /\ now < MaxTime
    /\ \A c \in Call : calls[c].op = "login" => now + 1 < calls[c].at + LockTTL
    /\ now' = now + 1
    /\ last' = Call_("tick", 0, "none")
    /\ UNCHANGED <<account, rows, issued, recoveries, calls, history>>

\* A request in flight is refused, fails, aborts or loses its client.
Abandon(c) ==
    /\ calls[c] # Idle
    /\ calls' = [calls EXCEPT ![c] = Idle]
    /\ last' = Call_("abandon", 0, "none")
    /\ UNCHANGED <<now, account, rows, issued, recoveries, history>>

Request(c) ==
    \/ \E correct \in BOOLEAN : LoginRead(c, correct) \/ ChangePassword(c, correct)
                                \/ ConfirmRecovery(c, correct)
    \/ LoginFails(c) \/ IssueSession(c)
    \/ \E t \in Token : Authenticate(c, t) \/ RevokeSession(c, t)
    \/ RevokeOtherSessions(c)
    \/ \E r \in RecoveryID : RecoveryTarget(c, r)
    \/ CompletePasswordRecovery(c)
    \/ Abandon(c)

Next ==
    \/ \E c \in Call : Request(c)
    \/ \E t \in Token : Refresh(t)
    \/ \E a, r \in 0..issued : Logout(a, r)
    \/ \E r \in RecoveryID : CreatePasswordRecovery(r)
    \/ AcceptInvitationFails
    \/ ProvisionMember
    \/ RecoverAdministrator
    \/ Prune
    \/ Tick

Spec == Init /\ [][Next]_vars

-----------------------------------------------------------------------------
(* Safety. *)

\* The devices signed in, as the rows show them: families with a row that is
\* neither revoked nor deleted, the passwords their holders proved, and the
\* refresh tokens that can still be exchanged.
LiveRefresh(t) == refresh[t].stored /\ ~refresh[t].revoked
LiveRow(t) == LiveRefresh(t) \/ (access[t].stored /\ ~access[t].revoked)
FamilyOf(t) == IF refresh[t].stored THEN refresh[t].family ELSE access[t].family
SignedIn ==
    LET live == {t \in 1..issued : LiveRow(t)}
    IN  {[id |-> f, under |-> {issuedUnder[t] : t \in {u \in live : FamilyOf(u) = f}},
          tokens |-> {t \in live : LiveRefresh(t) /\ FamilyOf(t) = f}] :
            f \in {FamilyOf(t) : t \in live}}

\* The devices the call that made the last step asked to sign out: those of the
\* tokens a logout presents, the one chosen, all but the bearer's own.
SignedOut ==
    CASE last.op = "logout" -> AccessDevice(last.token) \cup RefreshDevice(last.id)
      [] last.op = "revoke" -> {last.id}
      [] last.op = "revoke_others" -> Families \ AccessDevice(last.token)
      [] OTHER -> {}

Abstract == INSTANCE Devices
    WITH password <- account.credential, devices <- SignedIn, signedOut <- SignedOut

\* The sessions implement Devices, whatever a login's slow check, rotations,
\* sign-outs, recoveries, password changes and pruning do to each other: a
\* family is opened only with the password of that moment (issueSession's
\* second read of the hash), has one refresh token that was never exchanged
\* before, and once ended is never usable again.  A sign-out with a token that
\* was exchanged meanwhile ends the token's successor as well (service.go:543),
\* and touches no other device.
DevicesSignedIn == Abstract!Spec

\* The account is locked before MaxFailures wrong passwords pass, however the
\* attempts interleave ("Concurrent failed attempts therefore cannot overwrite
\* one another and weaken the lockout threshold", service.go:255).
LockoutThreshold == wrong < MaxFailures

\* "Even revoked records stay until expiry plus retention, preserving the
\* refresh replay detection window" (session_retention.go:12): the row of a
\* rotated token still says so until then, short of a password change.
ReplayDetectable ==
    \A t \in exchanged :
        now <= refresh[t].expires + Retention => refresh[t].stored /\ refresh[t].rotatedTo # 0

-----------------------------------------------------------------------------
(* What a step may never do. *)

\* Reuse of a rotated refresh token ends every session of the account, also
\* those of other devices and after a logout of its family (service.go:337):
\* no access token is accepted and no refresh token exchanged any more.  An
\* expired token counts, too, as long as its row is kept to know it by.
ReplayEndsSessions ==
    [][\A t \in exchanged :
            /\ last'.op = "refresh" /\ last'.token = t
            /\ now <= refresh[t].expires + Retention
            => \A u \in Token : /\ access'[u].revoked \/ ~access'[u].stored
                                /\ refresh'[u].revoked \/ ~refresh'[u].stored]_vars

\* "A pre-change rotated token must not revoke sessions using the new password"
\* (accounts.go:93): refreshing with a token of an earlier password touches no
\* session of the current one, and neither does revoke-others with a bearer
\* that was authenticated before the password was changed (accounts.go:180).
OldLineageHarmless ==
    [][\A t \in Token :
            /\ last'.op \in {"refresh", "revoke_others"} /\ last'.token = t
            /\ issuedUnder[t] # account.credential
            => \A u \in Token : issuedUnder[u] = account.credential =>
                    access'[u] = access[u] /\ refresh'[u] = refresh[u]]_vars

\* A recovery link sets the password at most once and never over a password
\* that was set after the link was issued.
RecoveryAppliesOnce ==
    [][last'.op = "recover" => recoveries[last'.id].credential = account.credential]_vars
=============================================================================
