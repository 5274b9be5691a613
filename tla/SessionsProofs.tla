--------------------------- MODULE SessionsProofs ---------------------------
(***************************************************************************)
(* Theorems about Sessions, for any number of requests in flight and of    *)
(* recovery links, any lifetimes and limits, and every bound on tokens,    *)
(* passwords and time: every safety property of the two Sessions runs,     *)
(* Devices included.                                                       *)
(***************************************************************************)
EXTENDS Sessions, TLAPS

\* The numbers the model is given, one by one.
LEMMA Numbers ==
  /\ MaxFailures \in Nat \ {0} /\ AccessTTL \in Nat \ {0} /\ RefreshTTL \in Nat \ {0}
  /\ RecoveryTTL \in Nat \ {0} /\ LockTTL \in Nat \ {0} /\ Retention \in Nat \ {0}
  /\ MaxToken \in Nat /\ MaxTime \in Nat /\ MaxCredential \in Nat \ {0}
  BY TimesAssumption, BoundsAssumption

USE Numbers

-----------------------------------------------------------------------------
(* Types. *)

\* Whatever starts now ends at a time of the model.
LEMMA TimesOK ==
  ASSUME NEW n \in 0..MaxTime
  PROVE  /\ n + AccessTTL \in Time /\ n + RefreshTTL \in Time
         /\ n + RecoveryTTL \in Time /\ n + LockTTL \in Time /\ n \in Time /\ 0 \in Time
  BY DEF Time

\* The null rows are rows.
LEMMA NullRows == NoAccess \in AccessRow /\ NoRefresh \in RefreshRow /\ NoRecovery \in Recovery
  BY TimesOK DEF NoAccess, NoRefresh, NoRecovery, AccessRow, RefreshRow, Recovery, Time

\* The types hold at first.
LEMMA InitTypes == Init => TypeOK
  <1> SUFFICES ASSUME Init PROVE TypeOK OBVIOUS
  <1>1. account \in Account
    BY TimesOK DEF Init, Account, Credential, Time
  <1> QED BY <1>1, NullRows DEF Init, TypeOK, Pending

\* A row that is marked revoked, or loses its lineage or its place, is a row.
LEMMA RevokedAccess == ASSUME NEW a \in AccessRow PROVE [a EXCEPT !.revoked = TRUE] \in AccessRow
  BY DEF AccessRow

\* The same of a refresh row, which may also leave the table.
LEMMA RevokedRefresh ==
  ASSUME NEW a \in RefreshRow, NEW n \in Token \cup {0}, NEW b \in BOOLEAN
  PROVE  /\ [a EXCEPT !.revoked = TRUE] \in RefreshRow
         /\ [a EXCEPT !.revoked = TRUE, !.rotatedTo = n] \in RefreshRow
         /\ [a EXCEPT !.stored = b] \in RefreshRow
  BY DEF RefreshRow

\* A recovery that is used, revoked or pruned is a recovery.
LEMMA MovedRecovery ==
  ASSUME NEW q \in Recovery, NEW st \in {"consumed", "revoked", "pruned"}
  PROVE  [q EXCEPT !.state = st] \in Recovery
  BY DEF Recovery

\* RevokeFamilies only marks rows.
LEMMA RevokeFamiliesTypes ==
  ASSUME TypeOK, NEW F, RevokeFamilies(F)
  PROVE  access' \in [Token -> AccessRow] /\ refresh' \in [Token -> RefreshRow]
  <1>1. access' \in [Token -> AccessRow] BY RevokedAccess DEF TypeOK, RevokeFamilies
  <1>2. refresh' \in [Token -> RefreshRow] BY RevokedRefresh DEF TypeOK, RevokeFamilies
  <1> QED BY <1>1, <1>2

\* A pair is inserted with the lifetimes of its kind.
LEMMA InsertPairTypes ==
  ASSUME TypeOK, NEW f \in Token, NEW rr \in [Token -> RefreshRow], NEW proved \in Credential \cup {0},
         InsertPair(issued + 1, f, rr, proved)
  PROVE  /\ issued + 1 \in Token /\ issued' \in 0..MaxToken
         /\ access' \in [Token -> AccessRow] /\ refresh' \in [Token -> RefreshRow]
         /\ issuedUnder' \in [Token -> Credential \cup {0}]
  <1>1. issued + 1 \in Token BY DEF TypeOK, InsertPair, Token
  <1>2. access' \in [Token -> AccessRow] BY <1>1, TimesOK DEF TypeOK, InsertPair, AccessRow
  <1>3. refresh' \in [Token -> RefreshRow] BY <1>1, TimesOK DEF TypeOK, InsertPair, RefreshRow
  <1>4. issuedUnder' \in [Token -> Credential \cup {0}] BY <1>1 DEF TypeOK, InsertPair
  <1>5. issued' \in 0..MaxToken BY <1>1 DEF InsertPair, Token
  <1> QED BY <1>1, <1>2, <1>3, <1>4, <1>5

\* A wrong password is counted, and locks at the limit.
LEMMA FailedPasswordTypes ==
  ASSUME TypeOK, NEW at \in 0..MaxTime, FailedPassword(at)
  PROVE  account' \in Account /\ wrong' \in Nat /\ account'.credential = account.credential
  <1>1. at + LockTTL \in Time BY TimesOK
  <1>2. account.failed \in 0..(MaxFailures - 1) /\ MaxFailures \in Nat BY DEF TypeOK, Account
  <1>3. account' \in Account /\ account'.credential = account.credential
    <2> DEFINE lock == account.failed + 1 >= MaxFailures
    <2>1. PICK n, until : account' = [account EXCEPT !.failed = n, !.lockedUntil = until]
                          /\ n = (IF lock THEN 0 ELSE account.failed + 1)
                          /\ until = (IF lock THEN at + LockTTL ELSE account.lockedUntil)
      BY DEF FailedPassword
    <2>2. n \in 0..(MaxFailures - 1) BY <1>2, <2>1
    <2>3. until \in Time BY <1>1, <2>1 DEF TypeOK, Account
    <2> QED BY <2>1, <2>2, <2>3 DEF TypeOK, Account
  <1>4. wrong' \in Nat BY DEF TypeOK, FailedPassword
  <1> QED BY <1>3, <1>4

\* The right password clears the count and the lock.
LEMMA ClearFailuresTypes ==
  ASSUME TypeOK, NEW p \in Credential, ClearFailures(p)
  PROVE  account' \in Account /\ wrong' \in Nat /\ account'.credential = p
  BY TimesOK DEF ClearFailures, Account, Time

\* Setting a password leaves rows that say they are revoked.
LEMMA SetPasswordTypes ==
  ASSUME TypeOK, NEW open \in [RecoveryID -> Recovery], SetPassword(open), calls' \in [Call -> Pending]
  PROVE  TypeOK'
  <1>1. account.credential + 1 \in Credential BY DEF SetPassword, TypeOK, Account, Credential
  <1>2. account' \in Account /\ wrong' \in Nat BY <1>1, ClearFailuresTypes DEF SetPassword
  <1>3. access' \in [Token -> AccessRow]
    BY RevokedAccess DEF TypeOK, SetPassword, RevokeCredentialSessions
  <1>4. refresh' \in [Token -> RefreshRow]
    BY RevokedRefresh DEF TypeOK, SetPassword, RevokeCredentialSessions
  <1>5. recoveries' \in [RecoveryID -> Recovery]
    BY MovedRecovery DEF SetPassword, RevokeCredentialSessions
  <1>6. exchanged' \in SUBSET Token BY DEF SetPassword
  <1> QED BY <1>2, <1>3, <1>4, <1>5, <1>6 DEF TypeOK, SetPassword

\* What a request in flight carries depends on what it is about.
LEMMA PendingCases ==
  ASSUME NEW p \in Pending
  PROVE  /\ p.op \in {"idle", "login", "bearer", "recovery"}
         /\ p.op = "idle" <=> p = Idle
         /\ p.op = "login" => p.credential \in Credential /\ p.correct \in BOOLEAN /\ p.at \in Time
         /\ p.op = "bearer" => p.token \in Token
         /\ p.op = "recovery" => p.id \in RecoveryID
  BY DEF Pending, Idle

\* What the first step of a request reads is something a request can carry.
LEMMA PendingMade ==
  /\ Idle \in Pending
  /\ \A k \in Credential, b \in BOOLEAN, n \in Time :
        [op |-> "login", credential |-> k, correct |-> b, at |-> n] \in Pending
  /\ \A t \in Token : [op |-> "bearer", token |-> t] \in Pending
  /\ \A r \in RecoveryID : [op |-> "recovery", id |-> r] \in Pending
  BY DEF Pending, Idle

\* The calls of one request in flight change.
LEMMA CallTypes ==
  ASSUME TypeOK, NEW c \in Call, NEW p \in Pending, calls' = [calls EXCEPT ![c] = p]
  PROVE  calls' \in [Call -> Pending]
  BY DEF TypeOK

\* A login was read at a time that has come.
LoginsPast == \A c \in Call : calls[c].op = "login" => calls[c].at <= now /\ now < calls[c].at + LockTTL

\* The steps of one request keep the types.
LEMMA RequestTypes ==
  ASSUME TypeOK, LoginsPast, NEW c \in Call, Request(c)
  PROVE  TypeOK'
  <1>0. calls[c] \in Pending /\ Idle \in Pending BY PendingMade DEF TypeOK
  <1>1. ASSUME NEW correct \in BOOLEAN, LoginRead(c, correct) PROVE TypeOK'
    <2>1. now \in Time /\ account.credential \in Credential BY TimesOK DEF TypeOK, Account
    <2>2. calls' \in [Call -> Pending] BY <1>1, <2>1, PendingMade, CallTypes DEF LoginRead
    <2> QED BY <1>1, <2>2 DEF LoginRead, TypeOK, rows, history
  <1>2. CASE LoginFails(c)
    <2>1. calls[c].at \in 0..MaxTime
      BY <1>0, <1>2, PendingCases DEF LoginsPast, LoginFails, TypeOK, Time
    <2>2. calls' \in [Call -> Pending] BY <1>0, <1>2, CallTypes DEF LoginFails
    <2>3. account' \in Account /\ wrong' \in Nat BY <1>2, <2>1, FailedPasswordTypes DEF LoginFails
    <2> QED BY <1>2, <2>2, <2>3 DEF LoginFails, TypeOK, rows
  <1>3. CASE IssueSession(c)
    <2>1. calls[c].credential \in Credential /\ account.credential \in Credential
      BY <1>0, <1>3, PendingCases DEF IssueSession, TypeOK, Account
    <2>2. issued + 1 \in Token BY <1>3 DEF IssueSession, InsertPair, TypeOK, Token
    <2>3. /\ issued' \in 0..MaxToken
          /\ access' \in [Token -> AccessRow] /\ refresh' \in [Token -> RefreshRow]
          /\ issuedUnder' \in [Token -> Credential \cup {0}]
      BY <1>3, <2>1, <2>2, InsertPairTypes DEF IssueSession, TypeOK
    <2>4. account' \in Account /\ wrong' \in Nat BY <1>3, <2>1, ClearFailuresTypes DEF IssueSession
    <2>5. calls' \in [Call -> Pending] BY <1>0, <1>3, CallTypes DEF IssueSession
    <2> QED BY <1>3, <2>3, <2>4, <2>5 DEF IssueSession, TypeOK
  <1>4. ASSUME NEW t \in Token, Authenticate(c, t) PROVE TypeOK'
    <2>1. calls' \in [Call -> Pending] BY <1>4, PendingMade, CallTypes DEF Authenticate
    <2> QED BY <1>4, <2>1 DEF Authenticate, TypeOK, rows, history
  <1>5. ASSUME NEW t \in Token, RevokeSession(c, t) PROVE TypeOK'
    <2>1. calls' \in [Call -> Pending] BY <1>0, <1>5, CallTypes DEF RevokeSession
    <2>2. access' \in [Token -> AccessRow] /\ refresh' \in [Token -> RefreshRow]
      BY <1>5, RevokeFamiliesTypes DEF RevokeSession
    <2> QED BY <1>5, <2>1, <2>2 DEF RevokeSession, TypeOK
  <1>6. CASE RevokeOtherSessions(c)
    <2>1. calls' \in [Call -> Pending] BY <1>0, <1>6, CallTypes DEF RevokeOtherSessions
    <2>2. access' \in [Token -> AccessRow] /\ refresh' \in [Token -> RefreshRow]
      BY <1>6, RevokeFamiliesTypes DEF RevokeOtherSessions
    <2> QED BY <1>6, <2>1, <2>2 DEF RevokeOtherSessions, TypeOK
  <1>7. ASSUME NEW correct \in BOOLEAN, ChangePassword(c, correct) PROVE TypeOK'
    <2>1. calls' \in [Call -> Pending] BY <1>0, <1>7, CallTypes DEF ChangePassword
    <2>2. CASE SetPassword(recoveries) BY <2>1, <2>2, SetPasswordTypes DEF TypeOK
    <2>3. CASE FailedPassword(now) /\ UNCHANGED <<now, rows, issued, recoveries, issuedUnder, exchanged>>
      <3>1. account' \in Account /\ wrong' \in Nat BY <2>3, FailedPasswordTypes DEF TypeOK
      <3> QED BY <2>1, <2>3, <3>1 DEF TypeOK, rows
    <2> QED BY <1>7, <2>2, <2>3 DEF ChangePassword
  <1>8. ASSUME NEW correct \in BOOLEAN, ConfirmRecovery(c, correct) PROVE TypeOK'
    <2>1. calls' \in [Call -> Pending] BY <1>0, <1>8, CallTypes DEF ConfirmRecovery
    <2>2. account.credential \in Credential BY DEF TypeOK, Account
    <2>3. account' \in Account /\ wrong' \in Nat
      BY <1>8, <2>2, FailedPasswordTypes, ClearFailuresTypes DEF ConfirmRecovery, TypeOK
    <2> QED BY <1>8, <2>1, <2>3 DEF ConfirmRecovery, TypeOK, rows
  <1>9. ASSUME NEW r \in RecoveryID, RecoveryTarget(c, r) PROVE TypeOK'
    <2>1. calls' \in [Call -> Pending] BY <1>9, PendingMade, CallTypes DEF RecoveryTarget
    <2> QED BY <1>9, <2>1 DEF RecoveryTarget, TypeOK, rows, history
  <1>10. CASE CompletePasswordRecovery(c)
    <2>1. calls' \in [Call -> Pending] BY <1>0, <1>10, CallTypes DEF CompletePasswordRecovery
    <2>2. calls[c].id \in RecoveryID BY <1>0, <1>10, PendingCases DEF CompletePasswordRecovery
    <2>3. [recoveries EXCEPT ![calls[c].id].state = "consumed"] \in [RecoveryID -> Recovery]
      BY <2>2, MovedRecovery DEF TypeOK
    <2> QED BY <1>10, <2>1, <2>3, SetPasswordTypes DEF CompletePasswordRecovery
  <1>11. CASE Abandon(c)
    <2>1. calls' \in [Call -> Pending] BY <1>0, <1>11, CallTypes DEF Abandon
    <2> QED BY <1>11, <2>1 DEF Abandon, TypeOK, rows, history
  <1> QED BY <1>1, <1>2, <1>3, <1>4, <1>5, <1>6, <1>7, <1>8, <1>9, <1>10, <1>11 DEF Request

\* Tokens are used in order; the two rows of a pair are of one device, which an
\* earlier pair, or this one, started.
IssuedRows ==
    \A t \in Token :
        /\ t > issued => access[t] = NoAccess /\ refresh[t] = NoRefresh
        /\ t <= issued => /\ refresh[t].family \in 1..issued
                          /\ access[t].stored => access[t].family = refresh[t].family

\* A stored row has been issued and is of a device.
LEMMA StoredIssued ==
  ASSUME TypeOK, IssuedRows, NEW t \in Token, refresh[t].stored \/ access[t].stored
  PROVE  t \in 1..issued /\ refresh[t].family \in 1..issued /\ refresh[t].family \in Token
  <1>1. t <= issued BY DEF IssuedRows, TypeOK, Token, NoAccess, NoRefresh
  <1> QED BY <1>1 DEF IssuedRows, TypeOK, Token

\* What Prune deletes of the refresh rows is out of retention.
LEMMA PrunedRows ==
  ASSUME Prune
  PROVE  /\ \E A, R, Q : Delete(A, R, Q) /\ \A t \in R : refresh[t].expires + Retention < now
         /\ last' = Call_("prune", 0, "none")
         /\ UNCHANGED <<now, account, issued, calls, history>>
  BY DEF Prune, Batch, OutOfRetention

\* The other steps keep the types, too.
LEMMA NextTypes ==
  ASSUME TypeOK, LoginsPast, IssuedRows, [Next]_vars
  PROVE  TypeOK'
  <1>1. CASE UNCHANGED vars BY <1>1 DEF vars, rows, history, TypeOK
  <1>2. CASE \E c \in Call : Request(c) BY <1>2, RequestTypes
  <1>3. ASSUME NEW t \in Token, Refresh(t) PROVE TypeOK'
    <2>1. CASE RefreshReplayed(t)
      BY <2>1, RevokeFamiliesTypes DEF RefreshReplayed, TypeOK
    <2>2. CASE RefreshExpired(t)
      <3>1. refresh' \in [Token -> RefreshRow]
        BY <2>2, RevokedRefresh DEF RefreshExpired, TypeOK
      <3> QED BY <2>2, <3>1 DEF RefreshExpired, TypeOK, history
    <2>3. CASE RefreshRotates(t)
      <3>1. issued + 1 \in Token BY <2>3 DEF RefreshRotates, InsertPair, TypeOK, Token
      <3> DEFINE rr == [refresh EXCEPT ![t].revoked = TRUE, ![t].rotatedTo = issued + 1]
      <3>2. rr \in [Token -> RefreshRow] BY <3>1 DEF TypeOK, RefreshRow
      <3>3. refresh[t].family \in Token BY <2>3, StoredIssued DEF RefreshRotates
      <3>4. issuedUnder[t] \in Credential \cup {0} BY DEF TypeOK
      <3>5. InsertPair(issued + 1, refresh[t].family, rr, issuedUnder[t]) BY <2>3 DEF RefreshRotates
      <3>6. /\ issued' \in 0..MaxToken
            /\ access' \in [Token -> AccessRow] /\ refresh' \in [Token -> RefreshRow]
            /\ issuedUnder' \in [Token -> Credential \cup {0}]
        BY <3>2, <3>3, <3>4, <3>5, InsertPairTypes
      <3> QED BY <2>3, <3>6 DEF RefreshRotates, TypeOK
    <2> QED BY <1>3, <2>1, <2>2, <2>3 DEF Refresh
  <1>4. ASSUME NEW a, NEW r, Logout(a, r) PROVE TypeOK'
    <2>1. access' \in [Token -> AccessRow] /\ refresh' \in [Token -> RefreshRow]
      BY <1>4, RevokeFamiliesTypes DEF Logout
    <2> QED BY <1>4, <2>1 DEF Logout, TypeOK
  <1>5. ASSUME NEW r \in RecoveryID, CreatePasswordRecovery(r) PROVE TypeOK'
    <2>1. now + RecoveryTTL \in Time /\ account.credential \in Credential
      BY TimesOK DEF TypeOK, Account
    <2>2. [state |-> "open", expires |-> now + RecoveryTTL, credential |-> account.credential] \in Recovery
      BY <2>1 DEF Recovery
    <2>3. recoveries' \in [RecoveryID -> Recovery]
      BY <1>5, <2>2, MovedRecovery DEF CreatePasswordRecovery, TypeOK
    <2> QED BY <1>5, <2>3 DEF CreatePasswordRecovery, TypeOK, rows, history
  <1>6. CASE AcceptInvitationFails
    <2>1. account' \in Account /\ wrong' \in Nat
      BY <1>6, FailedPasswordTypes DEF AcceptInvitationFails, TypeOK
    <2> QED BY <1>6, <2>1 DEF AcceptInvitationFails, TypeOK, rows
  <1>7. CASE ProvisionMember \/ RecoverAdministrator
    <2>1. SetPassword(recoveries) /\ calls' \in [Call -> Pending] /\ recoveries \in [RecoveryID -> Recovery]
      BY <1>7 DEF ProvisionMember, RecoverAdministrator, TypeOK
    <2> QED BY <2>1, SetPasswordTypes
  <1>8. CASE Prune
    <2>0. PICK A, R, Q : Delete(A, R, Q) BY <1>8, PrunedRows
    <2>1. access' \in [Token -> AccessRow] BY <2>0, NullRows DEF Delete, TypeOK
    <2>2. refresh' \in [Token -> RefreshRow] BY <2>0, RevokedRefresh DEF Delete, TypeOK
    <2>3. recoveries' \in [RecoveryID -> Recovery] BY <2>0, MovedRecovery DEF Delete, TypeOK
    <2>4. UNCHANGED <<now, account, issued, calls, issuedUnder, exchanged, wrong>>
      BY <1>8, PrunedRows DEF history
    <2> QED BY <2>1, <2>2, <2>3, <2>4 DEF TypeOK
  <1>10. CASE Tick BY <1>10 DEF Tick, TypeOK, rows, history
  <1> QED BY <1>1, <1>2, <1>3, <1>4, <1>5, <1>6, <1>7, <1>8, <1>10 DEF Next

-----------------------------------------------------------------------------
(* The inductive invariant. *)

\* The stored count is never behind the wrong passwords that passed.
CountOK == wrong <= account.failed

\* Only rows of the current password can be used, or replayed.
OldRows ==
    \A t \in Token : issuedUnder[t] # account.credential =>
        /\ refresh[t].stored => refresh[t].revoked /\ refresh[t].rotatedTo = 0
        /\ access[t].stored => access[t].revoked

\* A device has one refresh token that can be exchanged.
OneRefresh ==
    \A t, u \in Token :
        LiveRefresh(t) /\ LiveRefresh(u) /\ refresh[t].family = refresh[u].family => t = u

\* A token was issued before it was exchanged.
ExchangedIssued == exchanged \subseteq 1..issued

\* An open recovery link is of the current password.
OpenRecoveryCurrent ==
    \A r \in RecoveryID : recoveries[r].state = "open" => recoveries[r].credential = account.credential

RowsInv == IssuedRows /\ OldRows /\ OneRefresh /\ ExchangedIssued /\ ReplayDetectable
IInv == TypeOK /\ LoginsPast /\ CountOK /\ RowsInv /\ OpenRecoveryCurrent

-----------------------------------------------------------------------------
(* What the steps do to the rows: all but two kinds only take rows away. *)

\* Rows are revoked or deleted, none comes back or changes its device; a
\* refresh row that is deleted is out of retention.
Faded ==
    /\ UNCHANGED <<issued, issuedUnder, exchanged>>
    /\ account'.credential = account.credential
    /\ now <= now'
    /\ \A t \in Token :
        /\ refresh'[t].family = refresh[t].family
        /\ refresh'[t].expires = refresh[t].expires
        /\ refresh'[t].rotatedTo = refresh[t].rotatedTo
        /\ refresh'[t].stored => refresh[t].stored
        /\ refresh[t].stored => refresh'[t].stored \/ refresh[t].expires + Retention < now
        /\ refresh[t].revoked => refresh'[t].revoked
        /\ access'[t].stored => /\ access[t].stored /\ access'[t].family = access[t].family
                                /\ access[t].revoked => access'[t].revoked
        /\ t > issued => access'[t] = access[t] /\ refresh'[t] = refresh[t]

\* A step that leaves the rows alone.
LEMMA FadedSame ==
  ASSUME TypeOK, UNCHANGED <<rows, issued, issuedUnder, exchanged>>, now <= now',
         account'.credential = account.credential
  PROVE  Faded
  BY DEF Faded, rows

\* Families are revoked.
LEMMA FadedFamilies ==
  ASSUME TypeOK, IssuedRows, NEW F, RevokeFamilies(F),
         UNCHANGED <<now, account, issued, issuedUnder, exchanged>>
  PROVE  Faded
  <1>1. now <= now' BY DEF TypeOK
  <1>2. ASSUME NEW t \in Token
        PROVE  /\ refresh'[t].family = refresh[t].family
               /\ refresh'[t].expires = refresh[t].expires
               /\ refresh'[t].rotatedTo = refresh[t].rotatedTo
               /\ refresh'[t].stored = refresh[t].stored
               /\ refresh[t].revoked => refresh'[t].revoked
               /\ access'[t].stored = access[t].stored /\ access'[t].family = access[t].family
               /\ access[t].revoked => access'[t].revoked
    <2>1. access[t] \in AccessRow /\ refresh[t] \in RefreshRow BY DEF TypeOK
    <2>2. refresh'[t] \in {refresh[t], [refresh[t] EXCEPT !.revoked = TRUE]} BY DEF RevokeFamilies
    <2>3. access'[t] \in {access[t], [access[t] EXCEPT !.revoked = TRUE]} BY DEF RevokeFamilies
    <2> QED BY <2>1, <2>2, <2>3 DEF AccessRow, RefreshRow
  <1>3. ASSUME NEW t \in Token, t > issued PROVE access'[t] = access[t] /\ refresh'[t] = refresh[t]
    <2>1. ~access[t].stored /\ ~refresh[t].stored BY <1>3 DEF IssuedRows, NoAccess, NoRefresh
    <2> QED BY <2>1 DEF RevokeFamilies
  <1> QED BY <1>1, <1>2, <1>3 DEF Faded

\* A refresh token is found expired.
LEMMA FadedExpired ==
  ASSUME TypeOK, IssuedRows, NEW t \in Token, RefreshExpired(t)
  PROVE  Faded
  <1>1. now <= now' BY DEF TypeOK, RefreshExpired
  <1>2. t \in 1..issued BY StoredIssued DEF RefreshExpired
  <1>3. ASSUME NEW u \in Token
        PROVE  /\ refresh'[u].family = refresh[u].family
               /\ refresh'[u].expires = refresh[u].expires
               /\ refresh'[u].rotatedTo = refresh[u].rotatedTo
               /\ refresh'[u].stored = refresh[u].stored
               /\ refresh[u].revoked => refresh'[u].revoked
               /\ u # t => refresh'[u] = refresh[u]
    <2>1. refresh[u] \in RefreshRow BY DEF TypeOK
    <2>2. refresh'[u] = IF u = t THEN [refresh[u] EXCEPT !.revoked = TRUE] ELSE refresh[u]
      BY DEF RefreshExpired, TypeOK
    <2> QED BY <2>1, <2>2 DEF RefreshRow
  <1>4. ASSUME NEW u \in Token, u > issued PROVE u # t BY <1>2, <1>4 DEF TypeOK
  <1> QED BY <1>1, <1>3, <1>4 DEF Faded, RefreshExpired, history

\* Rows are pruned.
LEMMA FadedPruned ==
  ASSUME TypeOK, IssuedRows, Prune
  PROVE  Faded
  <1>0. PICK A, R, Q : Delete(A, R, Q) /\ \A t \in R : refresh[t].expires + Retention < now
    BY PrunedRows
  <1>1. UNCHANGED <<now, account, issued, issuedUnder, exchanged>> BY PrunedRows DEF history
  <1>2. now <= now' BY <1>1 DEF TypeOK
  <1>3. ASSUME NEW t \in Token
        PROVE  /\ refresh'[t].family = refresh[t].family
               /\ refresh'[t].expires = refresh[t].expires
               /\ refresh'[t].rotatedTo = refresh[t].rotatedTo
               /\ refresh'[t].revoked = refresh[t].revoked
               /\ refresh'[t].stored => refresh[t].stored
               /\ refresh[t].stored => refresh'[t].stored \/ refresh[t].expires + Retention < now
               /\ ~refresh[t].stored => refresh'[t] = refresh[t]
    <2>1. refresh[t] \in RefreshRow BY DEF TypeOK
    <2>2. refresh'[t] = IF t \in R THEN [refresh[t] EXCEPT !.stored = FALSE] ELSE refresh[t]
      BY <1>0 DEF Delete
    <2> QED BY <1>0, <2>1, <2>2 DEF RefreshRow
  <1>4. ASSUME NEW t \in Token
        PROVE  /\ access'[t].stored => access'[t] = access[t]
               /\ t > issued => access'[t] = access[t] /\ refresh'[t] = refresh[t]
    <2>1. access'[t] = access[t] \/ access'[t] = NoAccess BY <1>0 DEF Delete
    <2>2. t > issued => access[t] = NoAccess /\ ~refresh[t].stored BY DEF IssuedRows, NoRefresh
    <2> QED BY <1>3, <2>1, <2>2 DEF NoAccess
  <1> QED BY <1>1, <1>2, <1>3, <1>4 DEF Faded

\* Every step only takes rows away, or issues a pair, or sets a password.
LEMMA StepEffects ==
  ASSUME IInv, [Next]_vars
  PROVE  \/ Faded
         \/ \E c \in Call : IssueSession(c)
         \/ \E t \in Token : RefreshRotates(t)
         \/ \E open : SetPassword(open)
  <1> USE DEF IInv, RowsInv
  <1>0. now <= now BY DEF TypeOK
  <1>1. CASE UNCHANGED vars BY <1>0, <1>1, FadedSame DEF vars, rows, history
  <1>2. ASSUME NEW c \in Call, Request(c), ~IssueSession(c), \A open : ~SetPassword(open) PROVE Faded
    <2>1. ASSUME NEW correct \in BOOLEAN, LoginRead(c, correct) PROVE Faded
      BY <1>0, <2>1, FadedSame DEF LoginRead, history
    <2>2. ASSUME NEW correct \in BOOLEAN, ChangePassword(c, correct) PROVE Faded
      <3>1. FailedPassword(now) /\ UNCHANGED <<now, rows, issued, recoveries, issuedUnder, exchanged>>
        BY <1>2, <2>2 DEF ChangePassword
      <3>2. account'.credential = account.credential BY <3>1, FailedPasswordTypes DEF TypeOK
      <3> QED BY <1>0, <3>1, <3>2, FadedSame
    <2>3. ASSUME NEW correct \in BOOLEAN, ConfirmRecovery(c, correct) PROVE Faded
      <3>1. account.credential \in Credential BY DEF TypeOK, Account
      <3>2. account'.credential = account.credential
        BY <2>3, <3>1, FailedPasswordTypes, ClearFailuresTypes DEF TypeOK, ConfirmRecovery
      <3> QED BY <1>0, <2>3, <3>2, FadedSame DEF ConfirmRecovery
    <2>4. CASE LoginFails(c)
      <3>1. calls[c].at \in 0..MaxTime
        BY <2>4, PendingCases DEF LoginsPast, LoginFails, TypeOK, Time
      <3>2. account'.credential = account.credential BY <2>4, <3>1, FailedPasswordTypes DEF LoginFails
      <3> QED BY <1>0, <2>4, <3>2, FadedSame DEF LoginFails
    <2>5. ASSUME NEW t \in Token, Authenticate(c, t) PROVE Faded
      BY <1>0, <2>5, FadedSame DEF Authenticate, history
    <2>6. ASSUME NEW t \in Token, RevokeSession(c, t) PROVE Faded
      BY <2>6, FadedFamilies DEF RevokeSession
    <2>7. CASE RevokeOtherSessions(c) BY <2>7, FadedFamilies DEF RevokeOtherSessions
    <2>8. ASSUME NEW r \in RecoveryID, RecoveryTarget(c, r) PROVE Faded
      BY <1>0, <2>8, FadedSame DEF RecoveryTarget, history
    <2>9. CASE Abandon(c) BY <1>0, <2>9, FadedSame DEF Abandon, history
    <2>10. ~CompletePasswordRecovery(c) BY <1>2 DEF CompletePasswordRecovery
    <2> QED BY <1>2, <2>1, <2>2, <2>3, <2>4, <2>5, <2>6, <2>7, <2>8, <2>9, <2>10 DEF Request
  <1>3. ASSUME NEW t \in Token, Refresh(t), ~RefreshRotates(t) PROVE Faded
    BY <1>3, FadedFamilies, FadedExpired DEF Refresh, RefreshReplayed
  <1>4. ASSUME NEW a, NEW r, Logout(a, r) PROVE Faded BY <1>4, FadedFamilies DEF Logout
  <1>5. ASSUME NEW r \in RecoveryID, CreatePasswordRecovery(r) PROVE Faded
    BY <1>0, <1>5, FadedSame DEF CreatePasswordRecovery, history
  <1>6. CASE AcceptInvitationFails
    <2>1. account'.credential = account.credential
      BY <1>6, FailedPasswordTypes DEF AcceptInvitationFails, TypeOK
    <2> QED BY <1>0, <1>6, <2>1, FadedSame DEF AcceptInvitationFails
  <1>7. CASE ProvisionMember \/ RecoverAdministrator
    BY <1>7 DEF ProvisionMember, RecoverAdministrator
  <1>8. CASE Prune BY <1>8, FadedPruned
  <1>9. CASE Tick
    <2>1. now <= now' BY <1>9 DEF Tick, TypeOK
    <2> QED BY <1>9, <2>1, FadedSame DEF Tick, history
  <1> QED BY <1>1, <1>2, <1>3, <1>4, <1>5, <1>6, <1>7, <1>8, <1>9 DEF Next

-----------------------------------------------------------------------------
(* The invariant is inductive. *)

\* The invariant holds at first.
LEMMA InitIInv == Init => IInv
  <1> SUFFICES ASSUME Init PROVE IInv OBVIOUS
  <1>1. TypeOK BY InitTypes
  <1>2. LoginsPast BY DEF Init, LoginsPast, Idle
  <1>3. CountOK BY DEF Init, CountOK
  <1>4. IssuedRows BY DEF Init, IssuedRows, Token
  <1>5. OldRows /\ OneRefresh BY DEF Init, OldRows, OneRefresh, LiveRefresh, NoAccess, NoRefresh
  <1>6. ExchangedIssued /\ ReplayDetectable BY DEF Init, ExchangedIssued, ReplayDetectable
  <1>7. OpenRecoveryCurrent BY DEF Init, OpenRecoveryCurrent, NoRecovery
  <1> QED BY <1>1, <1>2, <1>3, <1>4, <1>5, <1>6, <1>7 DEF IInv, RowsInv

\* Taking rows away keeps what the rows say.
LEMMA FadedRowsInv ==
  ASSUME TypeOK, TypeOK', RowsInv, Faded
  PROVE  RowsInv'
  <1> USE DEF RowsInv
  <1>1. IssuedRows' BY DEF IssuedRows, Faded
  <1>2. OldRows' BY DEF OldRows, Faded
  <1>3. \A t \in Token : LiveRefresh(t)' => LiveRefresh(t) BY DEF LiveRefresh, Faded
  <1>4. OneRefresh' BY <1>3 DEF OneRefresh, Faded
  <1>5. ExchangedIssued' BY DEF ExchangedIssued, Faded
  <1>6. ReplayDetectable'
    <2> SUFFICES ASSUME NEW t \in exchanged, now' <= refresh'[t].expires + Retention
                 PROVE  refresh'[t].stored /\ refresh'[t].rotatedTo # 0
      BY DEF ReplayDetectable, Faded
    <2>1. t \in Token /\ now \in Nat /\ now' \in Nat BY DEF TypeOK
    <2>2. refresh[t].expires \in Nat BY <2>1 DEF TypeOK, RefreshRow, Time
    <2>3. now <= refresh[t].expires + Retention BY <2>1, <2>2 DEF Faded
    <2>4. refresh[t].stored /\ refresh[t].rotatedTo # 0 BY <2>3 DEF ReplayDetectable
    <2>5. ~(refresh[t].expires + Retention < now) BY <2>1, <2>2, <2>3
    <2> QED BY <2>1, <2>4, <2>5 DEF Faded
  <1> QED BY <1>1, <1>2, <1>4, <1>5, <1>6

\* The rows after a pair was issued: the new pair's, and the others as rr has
\* them.
LEMMA InsertedRows ==
  ASSUME TypeOK, NEW f, NEW rr \in [Token -> RefreshRow], NEW proved,
         InsertPair(issued + 1, f, rr, proved)
  PROVE  /\ issued + 1 \in Token /\ issued' = issued + 1
         /\ access'[issued + 1] = [stored |-> TRUE, family |-> f, revoked |-> FALSE,
                                   expires |-> now + AccessTTL]
         /\ refresh'[issued + 1] = [stored |-> TRUE, family |-> f, revoked |-> FALSE,
                                    expires |-> now + RefreshTTL, rotatedTo |-> 0]
         /\ issuedUnder'[issued + 1] = proved
         /\ \A u \in Token : u # issued + 1 => /\ access'[u] = access[u] /\ refresh'[u] = rr[u]
                                               /\ issuedUnder'[u] = issuedUnder[u]
  <1>1. issued + 1 \in Token BY DEF InsertPair, TypeOK, Token
  <1> QED BY <1>1 DEF InsertPair, TypeOK

\* A login starts a device of its own.
LEMMA IssueRowsInv ==
  ASSUME TypeOK, TypeOK', RowsInv, NEW c \in Call, IssueSession(c)
  PROVE  RowsInv'
  <1> USE DEF RowsInv
  <1> DEFINE n == issued + 1
  <1>0. /\ n \in Token /\ issued' = n /\ issued \in Nat /\ Token \subseteq Nat
        /\ access'[n].stored /\ access'[n].family = n
        /\ refresh'[n].stored /\ refresh'[n].family = n
        /\ issuedUnder'[n] = account.credential /\ account'.credential = account.credential
        /\ \A u \in Token : u # n => /\ access'[u] = access[u] /\ refresh'[u] = refresh[u]
                                     /\ issuedUnder'[u] = issuedUnder[u]
        /\ UNCHANGED <<now, exchanged>>
    <2>1. refresh \in [Token -> RefreshRow] BY DEF TypeOK
    <2>2. InsertPair(n, n, refresh, account.credential) BY DEF IssueSession, MayIssue
    <2>3. account'.credential = account.credential /\ UNCHANGED <<now, exchanged>>
      BY DEF IssueSession, ClearFailures
    <2>4. issued \in Nat /\ Token \subseteq Nat BY DEF TypeOK, Token
    <2> HIDE DEF n
    <2>5. /\ n \in Token /\ issued' = n
          /\ access'[n] = [stored |-> TRUE, family |-> n, revoked |-> FALSE, expires |-> now + AccessTTL]
          /\ refresh'[n] = [stored |-> TRUE, family |-> n, revoked |-> FALSE,
                            expires |-> now + RefreshTTL, rotatedTo |-> 0]
          /\ issuedUnder'[n] = account.credential
          /\ \A u \in Token : u # n => /\ access'[u] = access[u] /\ refresh'[u] = refresh[u]
                                       /\ issuedUnder'[u] = issuedUnder[u]
      BY <2>1, <2>2, InsertedRows DEF n
    <2> QED BY <2>3, <2>4, <2>5
  <1> HIDE DEF n
  <1>1. n = issued + 1 BY DEF n
  <1>2. IssuedRows'
    <2> SUFFICES ASSUME NEW t \in Token
                 PROVE  /\ t > n => access'[t] = NoAccess /\ refresh'[t] = NoRefresh
                        /\ t <= n => /\ refresh'[t].family \in 1..n
                                     /\ access'[t].stored => access'[t].family = refresh'[t].family
      BY <1>0 DEF IssuedRows
    <2>1. CASE t = n BY <1>0, <1>1, <2>1
    <2>2. CASE t # n BY <1>0, <1>1, <2>2 DEF IssuedRows
    <2> QED BY <2>1, <2>2
  <1>3. OldRows' BY <1>0 DEF OldRows
  <1>4. OneRefresh'
    <2>1. ASSUME NEW u \in Token, u # n, LiveRefresh(u)' PROVE refresh'[u].family # n /\ LiveRefresh(u)
      <3>1. LiveRefresh(u) BY <1>0, <2>1 DEF LiveRefresh
      <3>2. refresh[u].family \in 1..issued BY <3>1, StoredIssued DEF LiveRefresh
      <3> QED BY <1>0, <1>1, <2>1, <3>1, <3>2
    <2> QED BY <1>0, <2>1 DEF OneRefresh
  <1>5. ExchangedIssued' BY <1>0, <1>1 DEF ExchangedIssued
  <1>6. \A t \in exchanged : t \in Token /\ t # n BY <1>0, <1>1 DEF ExchangedIssued, TypeOK
  <1>7. ReplayDetectable' BY <1>0, <1>6 DEF ReplayDetectable
  <1> QED BY <1>2, <1>3, <1>4, <1>5, <1>7

\* A rotation hands a device's place on to the new pair.
LEMMA RotateRowsInv ==
  ASSUME TypeOK, TypeOK', RowsInv, NEW t \in Token, RefreshRotates(t)
  PROVE  RowsInv'
  <1> USE DEF RowsInv
  <1> DEFINE n == issued + 1
             f == refresh[t].family
  <1>0. t \in 1..issued /\ f \in 1..issued BY StoredIssued DEF RefreshRotates
  <1>1. n = issued + 1 /\ n \in Nat /\ issued \in Nat /\ t # n /\ Token \subseteq Nat
    BY <1>0 DEF TypeOK, Token
  <1>2. /\ n \in Token /\ issued' = n
        /\ access'[n].stored /\ access'[n].family = f
        /\ refresh'[n].stored /\ refresh'[n].family = f
        /\ issuedUnder'[n] = issuedUnder[t] /\ account'.credential = account.credential
        /\ refresh'[t] = [refresh[t] EXCEPT !.revoked = TRUE, !.rotatedTo = n]
        /\ access'[t] = access[t] /\ issuedUnder'[t] = issuedUnder[t]
        /\ \A u \in Token : u # n => access'[u] = access[u] /\ issuedUnder'[u] = issuedUnder[u]
        /\ \A u \in Token : u # n /\ u # t => refresh'[u] = refresh[u]
        /\ exchanged' = exchanged \cup {t} /\ UNCHANGED now
    <2> DEFINE rr == [refresh EXCEPT ![t].revoked = TRUE, ![t].rotatedTo = n]
    <2>1. InsertPair(n, f, rr, issuedUnder[t]) BY DEF RefreshRotates
    <2>2. n \in Token BY <2>1 DEF InsertPair, TypeOK, Token
    <2> HIDE DEF n
    <2>3. rr \in [Token -> RefreshRow] BY <2>2, RevokedRefresh DEF TypeOK
    <2>4. rr[t] = [refresh[t] EXCEPT !.revoked = TRUE, !.rotatedTo = n]
          /\ \A u \in Token : u # t => rr[u] = refresh[u]
      BY DEF TypeOK
    <2>5. account' = account /\ exchanged' = exchanged \cup {t} /\ UNCHANGED now BY DEF RefreshRotates
    <2> HIDE DEF rr, f
    <2>6. /\ issued' = n
          /\ access'[n] = [stored |-> TRUE, family |-> f, revoked |-> FALSE, expires |-> now + AccessTTL]
          /\ refresh'[n] = [stored |-> TRUE, family |-> f, revoked |-> FALSE,
                            expires |-> now + RefreshTTL, rotatedTo |-> 0]
          /\ issuedUnder'[n] = issuedUnder[t]
          /\ \A u \in Token : u # n => /\ access'[u] = access[u] /\ refresh'[u] = rr[u]
                                       /\ issuedUnder'[u] = issuedUnder[u]
      BY <2>1, <2>3, InsertedRows DEF n
    <2> QED BY <1>1, <2>2, <2>4, <2>5, <2>6
  <1>3. /\ refresh'[t].family = f /\ refresh'[t].stored /\ refresh'[t].revoked
        /\ refresh'[t].rotatedTo = n /\ n # 0
    BY <1>1, <1>2 DEF TypeOK, RefreshRow, RefreshRotates
  <1>4. issuedUnder[t] = account.credential BY DEF OldRows, RefreshRotates
  <1> HIDE DEF n, f
  <1>5. IssuedRows'
    <2> SUFFICES ASSUME NEW u \in Token
                 PROVE  /\ u > n => access'[u] = NoAccess /\ refresh'[u] = NoRefresh
                        /\ u <= n => /\ refresh'[u].family \in 1..n
                                     /\ access'[u].stored => access'[u].family = refresh'[u].family
      BY <1>2 DEF IssuedRows
    <2>1. CASE u = n BY <1>0, <1>1, <1>2, <2>1
    <2>2. CASE u = t
      <3>1. access[t].stored => access[t].family = f BY <1>0, <1>1 DEF IssuedRows, f
      <3>2. refresh'[u].family = f /\ access'[u] = access[t] BY <1>2, <1>3, <2>2
      <3>3. f \in 1..n /\ ~(u > n) BY <1>0, <1>1, <2>2
      <3> QED BY <3>1, <3>2, <3>3
    <2>3. CASE u # n /\ u # t BY <1>1, <1>2, <2>3 DEF IssuedRows
    <2> QED BY <2>1, <2>2, <2>3
  <1>6. OldRows'
    <2> SUFFICES ASSUME NEW u \in Token, issuedUnder'[u] # account'.credential
                 PROVE  /\ refresh'[u].stored => refresh'[u].revoked /\ refresh'[u].rotatedTo = 0
                        /\ access'[u].stored => access'[u].revoked
      BY DEF OldRows
    <2>1. u # n /\ u # t BY <1>2, <1>4
    <2> QED BY <1>2, <2>1 DEF OldRows
  <1>7. OneRefresh'
    <2>1. LiveRefresh(t) /\ ~LiveRefresh(t)' BY <1>3 DEF LiveRefresh, RefreshRotates
    <2>2. ASSUME NEW u \in Token, u # n, LiveRefresh(u)'
          PROVE  LiveRefresh(u) /\ refresh'[u].family = refresh[u].family /\ refresh'[u].family # f
      <3>1. u # t BY <2>1, <2>2
      <3>2. LiveRefresh(u) /\ refresh'[u] = refresh[u] BY <1>2, <2>2, <3>1 DEF LiveRefresh
      <3> QED BY <2>1, <3>1, <3>2 DEF OneRefresh, f
    <2> QED BY <1>2, <2>2 DEF OneRefresh
  <1>8. ExchangedIssued' BY <1>0, <1>1, <1>2 DEF ExchangedIssued
  <1>9. \A u \in exchanged : u \in Token /\ u # n BY <1>1 DEF ExchangedIssued, TypeOK
  <1>10. ReplayDetectable' BY <1>2, <1>3, <1>9 DEF ReplayDetectable
  <1> QED BY <1>5, <1>6, <1>7, <1>8, <1>10

\* A new password leaves only revoked rows without a lineage.
LEMMA PasswordRowsInv ==
  ASSUME TypeOK, TypeOK', RowsInv, NEW open, SetPassword(open)
  PROVE  RowsInv'
  <1> USE DEF RowsInv
  <1>1. ASSUME NEW t \in Token
        PROVE  /\ refresh'[t].family = refresh[t].family
               /\ refresh'[t].stored => refresh'[t].revoked /\ refresh'[t].rotatedTo = 0
               /\ access'[t].stored = access[t].stored /\ access'[t].family = access[t].family
               /\ access'[t].stored => access'[t].revoked
               /\ ~access[t].stored => access'[t] = access[t]
               /\ ~refresh[t].stored => refresh'[t] = refresh[t]
    <2>1. access[t] \in AccessRow /\ refresh[t] \in RefreshRow BY DEF TypeOK
    <2>2. refresh'[t] = IF refresh[t].stored THEN [refresh[t] EXCEPT !.revoked = TRUE, !.rotatedTo = 0]
                        ELSE refresh[t]
      BY DEF SetPassword, RevokeCredentialSessions
    <2>3. access'[t] = IF access[t].stored THEN [access[t] EXCEPT !.revoked = TRUE] ELSE access[t]
      BY DEF SetPassword, RevokeCredentialSessions
    <2> QED BY <2>1, <2>2, <2>3 DEF AccessRow, RefreshRow
  <1>2. issued' = issued /\ exchanged' = {} BY DEF SetPassword
  <1>3. IssuedRows' BY <1>1, <1>2 DEF IssuedRows, NoAccess, NoRefresh
  <1>4. OldRows' BY <1>1 DEF OldRows
  <1>5. OneRefresh' BY <1>1 DEF OneRefresh, LiveRefresh
  <1>6. ExchangedIssued' /\ ReplayDetectable' BY <1>2 DEF ExchangedIssued, ReplayDetectable
  <1> QED BY <1>3, <1>4, <1>5, <1>6

\* The rows keep saying what the invariant says of them.
LEMMA NextRowsInv ==
  ASSUME IInv, TypeOK', [Next]_vars
  PROVE  RowsInv'
  <1>1. TypeOK /\ RowsInv BY DEF IInv
  <1> QED BY <1>1, StepEffects, FadedRowsInv, IssueRowsInv, RotateRowsInv, PasswordRowsInv

\* A login in flight stays one of the past when the clock stands still.
LEMMA LoginsKept ==
  ASSUME LoginsPast, now' = now, NEW c \in Call, NEW p, p.op # "login",
         calls' = [calls EXCEPT ![c] = p] \/ calls' = calls, calls \in [Call -> Pending]
  PROVE  LoginsPast'
  BY DEF LoginsPast

\* The kinds of requests differ.
LEMMA OtherOps ==
  /\ Idle.op # "login"
  /\ \A t : [op |-> "bearer", token |-> t].op # "login"
  /\ \A r : [op |-> "recovery", id |-> r].op # "login"
  BY DEF Idle

\* Only logins that are read, and the clock, make the logins of the past.
LEMMA NextLogins ==
  ASSUME IInv, [Next]_vars
  PROVE  LoginsPast'
  <1> USE DEF IInv
  <1>0. calls \in [Call -> Pending] /\ now \in Nat BY DEF TypeOK
  <1>1. CASE UNCHANGED vars BY <1>1 DEF vars, LoginsPast
  <1>2. ASSUME NEW c \in Call, Request(c) PROVE LoginsPast'
    <2>1. ASSUME NEW correct \in BOOLEAN, LoginRead(c, correct) PROVE LoginsPast'
      <3>1. now' = now BY <2>1 DEF LoginRead
      <3>2. calls'[c].at = now BY <1>0, <2>1 DEF LoginRead
      <3>3. \A d \in Call : d # c => calls'[d] = calls[d] BY <1>0, <2>1 DEF LoginRead
      <3> QED BY <1>0, <3>1, <3>2, <3>3 DEF LoginsPast
    <2>2. ASSUME NEW t \in Token, Authenticate(c, t) PROVE LoginsPast'
      BY <1>0, <2>2, LoginsKept, OtherOps DEF Authenticate
    <2>3. ASSUME NEW r \in RecoveryID, RecoveryTarget(c, r) PROVE LoginsPast'
      BY <1>0, <2>3, LoginsKept, OtherOps DEF RecoveryTarget
    <2>4. CASE calls' = [calls EXCEPT ![c] = Idle] /\ now' = now
      BY <1>0, <2>4, LoginsKept, OtherOps
    <2>5. ASSUME NEW correct \in BOOLEAN, ChangePassword(c, correct)
          PROVE  calls' = [calls EXCEPT ![c] = Idle] /\ now' = now
      BY <2>5 DEF ChangePassword, SetPassword
    <2>6. ASSUME NEW correct \in BOOLEAN, ConfirmRecovery(c, correct)
          PROVE  calls' = [calls EXCEPT ![c] = Idle] /\ now' = now
      BY <2>6 DEF ConfirmRecovery
    <2>7. ASSUME NEW t \in Token, RevokeSession(c, t)
          PROVE  calls' = [calls EXCEPT ![c] = Idle] /\ now' = now
      BY <2>7 DEF RevokeSession
    <2>8. ASSUME \/ LoginFails(c) \/ IssueSession(c) \/ RevokeOtherSessions(c)
                 \/ CompletePasswordRecovery(c) \/ Abandon(c)
          PROVE  calls' = [calls EXCEPT ![c] = Idle] /\ now' = now
      BY <2>8 DEF LoginFails, IssueSession, RevokeOtherSessions, CompletePasswordRecovery, SetPassword, Abandon
    <2> QED BY <1>2, <2>1, <2>2, <2>3, <2>4, <2>5, <2>6, <2>7, <2>8 DEF Request
  <1>3. CASE calls' = calls /\ now' = now BY <1>3 DEF LoginsPast
  <1>4. ASSUME NEW t \in Token, Refresh(t) PROVE calls' = calls /\ now' = now
    BY <1>4 DEF Refresh, RefreshReplayed, RefreshExpired, RefreshRotates
  <1>5. ASSUME NEW a, NEW r, Logout(a, r) PROVE calls' = calls /\ now' = now BY <1>5 DEF Logout
  <1>6. ASSUME NEW r \in RecoveryID, CreatePasswordRecovery(r) PROVE calls' = calls /\ now' = now
    BY <1>6 DEF CreatePasswordRecovery
  <1>7. ASSUME AcceptInvitationFails \/ ProvisionMember \/ RecoverAdministrator
        PROVE  calls' = calls /\ now' = now
    BY <1>7 DEF AcceptInvitationFails, ProvisionMember, RecoverAdministrator, SetPassword
  <1>8. ASSUME Prune PROVE calls' = calls /\ now' = now BY <1>8, PrunedRows
  <1>9. CASE Tick
    <2> SUFFICES ASSUME NEW c \in Call, calls[c].op = "login"
                 PROVE  calls[c].at <= now + 1 /\ now + 1 < calls[c].at + LockTTL
      BY <1>9 DEF Tick, LoginsPast
    <2>1. calls[c].at \in Nat BY <1>0, PendingCases DEF Time
    <2>2. calls[c].at <= now BY DEF LoginsPast
    <2> QED BY <1>0, <1>9, <2>1, <2>2 DEF Tick
  <1> QED BY <1>1, <1>2, <1>3, <1>4, <1>5, <1>6, <1>7, <1>8, <1>9 DEF Next

\* A wrong password is counted in the account: a lock set by a login that is
\* not older than LockTTL holds.
LEMMA FailedCount ==
  ASSUME TypeOK, CountOK, NEW at \in 0..MaxTime, now < at + LockTTL, FailedPassword(at)
  PROVE  CountOK'
  <1> DEFINE lock == account.failed + 1 >= MaxFailures
             until == IF lock THEN at + LockTTL ELSE account.lockedUntil
             n == IF lock THEN 0 ELSE account.failed + 1
  <1>1. account' = [account EXCEPT !.failed = n, !.lockedUntil = until] /\ wrong' = IF until > now THEN 0 ELSE wrong + 1
    BY DEF FailedPassword
  <1>2. account'.failed = n
    <2> HIDE DEF n, until
    <2> QED BY <1>1 DEF TypeOK, Account
  <1>3. account.failed \in Nat /\ now \in Nat /\ wrong \in Nat /\ wrong <= account.failed
    BY DEF TypeOK, Account, CountOK
  <1> QED BY <1>1, <1>2, <1>3 DEF CountOK

\* The count keeps up with the wrong passwords.
LEMMA NextCount ==
  ASSUME IInv, [Next]_vars
  PROVE  CountOK'
  <1> USE DEF IInv
  <1>0. now \in 0..MaxTime /\ now < now + LockTTL BY DEF TypeOK
  <1>1. CASE account' = account /\ wrong' = wrong BY <1>1 DEF CountOK
  <1>2. ASSUME NEW p, ClearFailures(p) PROVE CountOK' BY <1>2 DEF ClearFailures, CountOK
  <1>3. ASSUME FailedPassword(now) PROVE CountOK' BY <1>0, <1>3, FailedCount
  <1>4. ASSUME NEW c \in Call, Request(c) PROVE CountOK'
    <2>1. ASSUME NEW correct \in BOOLEAN, LoginRead(c, correct) \/ ChangePassword(c, correct)
                                          \/ ConfirmRecovery(c, correct)
          PROVE  CountOK'
      BY <1>1, <1>2, <1>3, <2>1 DEF LoginRead, ChangePassword, SetPassword, ConfirmRecovery, history
    <2>2. CASE LoginFails(c)
      <3>1. calls[c].at \in 0..MaxTime /\ now < calls[c].at + LockTTL
        BY <2>2, PendingCases DEF LoginsPast, LoginFails, TypeOK, Time
      <3> QED BY <2>2, <3>1, FailedCount DEF LoginFails
    <2>3. CASE IssueSession(c) \/ RevokeOtherSessions(c) \/ CompletePasswordRecovery(c) \/ Abandon(c)
      BY <1>1, <1>2, <2>3 DEF IssueSession, RevokeOtherSessions, CompletePasswordRecovery, SetPassword,
                              Abandon, history
    <2>4. ASSUME NEW t \in Token, Authenticate(c, t) \/ RevokeSession(c, t) PROVE CountOK'
      BY <1>1, <2>4 DEF Authenticate, RevokeSession, history
    <2>5. ASSUME NEW r \in RecoveryID, RecoveryTarget(c, r) PROVE CountOK'
      BY <1>1, <2>5 DEF RecoveryTarget, history
    <2> QED BY <1>4, <2>1, <2>2, <2>3, <2>4, <2>5 DEF Request
  <1>5. ASSUME NEW t \in Token, Refresh(t) PROVE CountOK'
    BY <1>1, <1>5 DEF Refresh, RefreshReplayed, RefreshExpired, RefreshRotates, history
  <1>6. ASSUME NEW a, NEW r, Logout(a, r) PROVE CountOK' BY <1>1, <1>6 DEF Logout
  <1>7. ASSUME NEW r \in RecoveryID, CreatePasswordRecovery(r) PROVE CountOK'
    BY <1>1, <1>7 DEF CreatePasswordRecovery, history
  <1>8. CASE AcceptInvitationFails \/ ProvisionMember \/ RecoverAdministrator
    BY <1>2, <1>3, <1>8 DEF AcceptInvitationFails, ProvisionMember, RecoverAdministrator, SetPassword
  <1>9. CASE Prune \/ Tick \/ UNCHANGED vars BY <1>1, <1>9, PrunedRows DEF Tick, vars, history
  <1> QED BY <1>4, <1>5, <1>6, <1>7, <1>8, <1>9 DEF Next

\* A new password leaves no recovery open.
LEMMA PasswordRecoveries ==
  ASSUME NEW open \in [RecoveryID -> Recovery], SetPassword(open)
  PROVE  OpenRecoveryCurrent'
  <1> SUFFICES ASSUME NEW r \in RecoveryID PROVE recoveries'[r].state # "open"
    BY DEF OpenRecoveryCurrent
  <1>1. recoveries'[r] = IF open[r].state = "open" THEN [open[r] EXCEPT !.state = "revoked"] ELSE open[r]
    BY DEF SetPassword, RevokeCredentialSessions
  <1>2. open[r] \in Recovery OBVIOUS
  <1> QED BY <1>1, <1>2 DEF Recovery

\* An open recovery is of the current password.
LEMMA NextRecoveries ==
  ASSUME IInv, [Next]_vars
  PROVE  OpenRecoveryCurrent'
  <1> USE DEF IInv
  <1>0. recoveries \in [RecoveryID -> Recovery] /\ account.credential \in Credential /\ account \in Account
    BY DEF TypeOK, Account
  <1>1. ASSUME recoveries' = recoveries, account'.credential = account.credential PROVE OpenRecoveryCurrent'
    BY <1>1 DEF OpenRecoveryCurrent
  <1>2. ASSUME SetPassword(recoveries) PROVE OpenRecoveryCurrent' BY <1>0, <1>2, PasswordRecoveries
  <1>3. ASSUME NEW at \in 0..MaxTime, FailedPassword(at) PROVE account'.credential = account.credential
    BY <1>3, FailedPasswordTypes
  <1>4. ASSUME ClearFailures(account.credential) PROVE account'.credential = account.credential
    BY <1>4 DEF ClearFailures
  <1>5. now \in 0..MaxTime BY DEF TypeOK
  <1>6. ASSUME NEW c \in Call, Request(c) PROVE OpenRecoveryCurrent'
    <2>1. ASSUME NEW correct \in BOOLEAN, LoginRead(c, correct) \/ ConfirmRecovery(c, correct)
          PROVE  OpenRecoveryCurrent'
      BY <1>1, <1>3, <1>4, <1>5, <2>1 DEF LoginRead, ConfirmRecovery
    <2>2. ASSUME NEW correct \in BOOLEAN, ChangePassword(c, correct) PROVE OpenRecoveryCurrent'
      BY <1>1, <1>2, <1>3, <1>5, <2>2 DEF ChangePassword
    <2>3. CASE LoginFails(c)
      <3>1. calls[c].at \in 0..MaxTime
        BY <2>3, PendingCases DEF LoginsPast, LoginFails, TypeOK, Time
      <3> QED BY <1>1, <1>3, <2>3, <3>1 DEF LoginFails
    <2>4. CASE IssueSession(c) \/ RevokeOtherSessions(c) \/ Abandon(c)
      BY <1>1, <1>4, <2>4 DEF IssueSession, RevokeOtherSessions, Abandon
    <2>5. ASSUME NEW t \in Token, Authenticate(c, t) \/ RevokeSession(c, t) PROVE OpenRecoveryCurrent'
      BY <1>1, <2>5 DEF Authenticate, RevokeSession
    <2>6. ASSUME NEW r \in RecoveryID, RecoveryTarget(c, r) PROVE OpenRecoveryCurrent'
      BY <1>1, <2>6 DEF RecoveryTarget
    <2>7. CASE CompletePasswordRecovery(c)
      <3>1. calls[c].id \in RecoveryID BY <2>7, PendingCases DEF CompletePasswordRecovery, TypeOK
      <3>2. [recoveries EXCEPT ![calls[c].id].state = "consumed"] \in [RecoveryID -> Recovery]
        BY <1>0, <3>1, MovedRecovery
      <3> QED BY <2>7, <3>2, PasswordRecoveries DEF CompletePasswordRecovery
    <2> QED BY <1>6, <2>1, <2>2, <2>3, <2>4, <2>5, <2>6, <2>7 DEF Request
  <1>7. ASSUME NEW t \in Token, Refresh(t) PROVE OpenRecoveryCurrent'
    BY <1>1, <1>7 DEF Refresh, RefreshReplayed, RefreshExpired, RefreshRotates
  <1>8. ASSUME NEW a, NEW r, Logout(a, r) PROVE OpenRecoveryCurrent' BY <1>1, <1>8 DEF Logout
  <1>9. ASSUME NEW r \in RecoveryID, CreatePasswordRecovery(r) PROVE OpenRecoveryCurrent'
    <2> SUFFICES ASSUME NEW q \in RecoveryID, recoveries'[q].state = "open"
                 PROVE  recoveries'[q].credential = account.credential
      BY <1>9 DEF OpenRecoveryCurrent, CreatePasswordRecovery
    <2>1. recoveries'[q] = IF q = r THEN [state |-> "open", expires |-> now + RecoveryTTL,
                                          credential |-> account.credential]
                           ELSE IF recoveries[q].state = "open"
                                THEN [recoveries[q] EXCEPT !.state = "revoked"]
                                ELSE recoveries[q]
      BY <1>9 DEF CreatePasswordRecovery
    <2>2. recoveries[q] \in Recovery BY <1>0
    <2> QED BY <2>1, <2>2 DEF Recovery
  <1>10. CASE AcceptInvitationFails \/ ProvisionMember \/ RecoverAdministrator
    BY <1>1, <1>2, <1>3, <1>5, <1>10 DEF AcceptInvitationFails, ProvisionMember, RecoverAdministrator
  <1>11. CASE Prune
    <2>1. PICK A, R, Q : Delete(A, R, Q) BY <1>11, PrunedRows
    <2>2. account' = account BY <1>11, PrunedRows
    <2> SUFFICES ASSUME NEW r \in RecoveryID, recoveries'[r].state = "open"
                 PROVE  recoveries'[r].credential = account.credential
      BY <2>2 DEF OpenRecoveryCurrent
    <2>3. recoveries'[r] = IF r \in Q THEN [recoveries[r] EXCEPT !.state = "pruned"] ELSE recoveries[r]
      BY <2>1 DEF Delete
    <2>4. recoveries[r] \in Recovery BY <1>0
    <2> QED BY <2>3, <2>4 DEF Recovery, OpenRecoveryCurrent
  <1>12. CASE Tick \/ UNCHANGED vars BY <1>1, <1>12 DEF Tick, vars
  <1> QED BY <1>6, <1>7, <1>8, <1>9, <1>10, <1>11, <1>12 DEF Next

\* The invariant is inductive.
LEMMA NextIInv == IInv /\ [Next]_vars => IInv'
  <1> SUFFICES ASSUME IInv, [Next]_vars PROVE IInv' OBVIOUS
  <1>1. TypeOK' BY NextTypes DEF IInv, RowsInv
  <1> QED BY <1>1, NextLogins, NextCount, NextRowsInv, NextRecoveries DEF IInv

\* The invariant holds of every behaviour of the sessions.
THEOREM SessionsInvariant == Spec => []IInv
  BY InitIInv, NextIInv, PTL DEF Spec

\* Every variable keeps its type: the failed count stays below the limit, and
\* no token is issued, or password set, beyond what there is.
THEOREM TypeCorrect == Spec => []TypeOK
  <1>1. IInv => TypeOK BY DEF IInv
  <1> QED BY <1>1, SessionsInvariant, PTL

\* The account is locked before MaxFailures wrong passwords have passed.
THEOREM LockoutThresholdHolds == Spec => []LockoutThreshold
  <1>1. IInv => LockoutThreshold BY DEF IInv, CountOK, TypeOK, Account, LockoutThreshold
  <1> QED BY <1>1, SessionsInvariant, PTL

\* The row of a rotated token says so until it is out of retention.
THEOREM ReplayDetectableHolds == Spec => []ReplayDetectable
  <1>1. IInv => ReplayDetectable BY DEF IInv, RowsInv
  <1> QED BY <1>1, SessionsInvariant, PTL

-----------------------------------------------------------------------------
(* What a step may never do. *)

\* The call a step records tells which action it was.
LEMMA CallsTell ==
  ASSUME Next
  PROVE  /\ last'.op = "refresh" => last'.token \in Token /\ Refresh(last'.token)
         /\ last'.op = "logout" => Logout(last'.token, last'.id)
         /\ last'.op = "revoke" => \E c \in Call, f \in Token : RevokeSession(c, f) /\ last'.id = f
         /\ last'.op = "revoke_others" => \E c \in Call : RevokeOtherSessions(c) /\ last'.token = calls[c].token
         /\ last'.op = "recover" => \E c \in Call : CompletePasswordRecovery(c) /\ last'.id = calls[c].id
  <1> USE DEF Call_
  <1>1. ASSUME NEW c \in Call, Request(c)
        PROVE  /\ last'.op \notin {"refresh", "logout"}
               /\ last'.op = "revoke" => \E f \in Token : RevokeSession(c, f) /\ last'.id = f
               /\ last'.op = "revoke_others" => RevokeOtherSessions(c) /\ last'.token = calls[c].token
               /\ last'.op = "recover" => CompletePasswordRecovery(c) /\ last'.id = calls[c].id
    <2>1. ASSUME NEW correct \in BOOLEAN, LoginRead(c, correct) \/ ChangePassword(c, correct)
                                          \/ ConfirmRecovery(c, correct)
          PROVE  last'.op \in {"login", "change", "login_failed", "confirm"}
      BY <2>1 DEF LoginRead, ChangePassword, ConfirmRecovery
    <2>2. ASSUME LoginFails(c) \/ IssueSession(c) \/ Abandon(c)
          PROVE  last'.op \in {"login_failed", "issue", "abandon"}
      BY <2>2 DEF LoginFails, IssueSession, Abandon
    <2>3. ASSUME NEW t \in Token, Authenticate(c, t) PROVE last'.op = "authenticate"
      BY <2>3 DEF Authenticate
    <2>4. ASSUME NEW r \in RecoveryID, RecoveryTarget(c, r) PROVE last'.op = "recovery_target"
      BY <2>4 DEF RecoveryTarget
    <2>5. ASSUME RevokeOtherSessions(c) PROVE last'.op = "revoke_others" /\ last'.token = calls[c].token
      BY <2>5 DEF RevokeOtherSessions
    <2>6. ASSUME CompletePasswordRecovery(c) PROVE last'.op = "recover" /\ last'.id = calls[c].id
      BY <2>6 DEF CompletePasswordRecovery
    <2>7. ASSUME NEW f \in Token, RevokeSession(c, f) PROVE last'.op = "revoke" /\ last'.id = f
      BY <2>7 DEF RevokeSession
    <2> QED BY <1>1, <2>1, <2>2, <2>3, <2>4, <2>5, <2>6, <2>7 DEF Request
  <1>2. ASSUME NEW t \in Token, Refresh(t) PROVE last'.op = "refresh" /\ last'.token = t
    BY <1>2 DEF Refresh, RefreshReplayed, RefreshExpired, RefreshRotates
  <1>3. ASSUME NEW a, NEW r, Logout(a, r) PROVE last'.op = "logout" /\ last'.token = a /\ last'.id = r
    BY <1>3 DEF Logout
  <1>4. ASSUME NEW r \in RecoveryID, CreatePasswordRecovery(r) PROVE last'.op = "create_recovery"
    BY <1>4 DEF CreatePasswordRecovery
  <1>5. ASSUME AcceptInvitationFails \/ ProvisionMember \/ RecoverAdministrator \/ Prune \/ Tick
        PROVE  last'.op \in {"login_failed", "operator", "prune", "tick"}
    BY <1>5, PrunedRows DEF AcceptInvitationFails, ProvisionMember, RecoverAdministrator, Tick
  <1> QED BY <1>1, <1>2, <1>3, <1>4, <1>5 DEF Next

\* Reuse of a rotated token ends every session of the account: neither access
\* nor refresh rows stay usable, as long as the rotated row may be kept.
THEOREM ReplayEndsSessionsHolds == Spec => ReplayEndsSessions
  <1> DEFINE Ended == \A t \in exchanged :
                 /\ last'.op = "refresh" /\ last'.token = t
                 /\ now <= refresh[t].expires + Retention
                 => \A u \in Token : /\ access'[u].revoked \/ ~access'[u].stored
                                     /\ refresh'[u].revoked \/ ~refresh'[u].stored
  <1>1. IInv /\ Next => Ended
    <2> SUFFICES ASSUME IInv, Next, NEW t \in exchanged, last'.op = "refresh", last'.token = t,
                        now <= refresh[t].expires + Retention, NEW u \in Token
                 PROVE  /\ access'[u].revoked \/ ~access'[u].stored
                        /\ refresh'[u].revoked \/ ~refresh'[u].stored
      OBVIOUS
    <2> USE DEF IInv, RowsInv
    <2>1. t \in Token /\ Refresh(t) BY CallsTell
    <2>2. refresh[t].stored /\ refresh[t].rotatedTo # 0 BY DEF ReplayDetectable
    <2>3. RevokeFamilies(Families) BY <2>1, <2>2 DEF Refresh, RefreshReplayed, RefreshExpired, RefreshRotates
    <2>4. access[u] \in AccessRow /\ refresh[u] \in RefreshRow BY DEF TypeOK
    <2>5. /\ access[u].stored => access[u].family \in Families
          /\ refresh[u].stored => refresh[u].family \in Families
      BY DEF Families
    <2>6. access'[u] = IF access[u].stored THEN [access[u] EXCEPT !.revoked = TRUE] ELSE access[u]
      BY <2>3, <2>5 DEF RevokeFamilies
    <2>7. refresh'[u] = IF refresh[u].stored THEN [refresh[u] EXCEPT !.revoked = TRUE] ELSE refresh[u]
      BY <2>3, <2>5 DEF RevokeFamilies
    <2>8. access'[u].revoked \/ ~access'[u].stored BY <2>4, <2>6 DEF AccessRow
    <2>9. refresh'[u].revoked \/ ~refresh'[u].stored BY <2>4, <2>7 DEF RefreshRow
    <2> QED BY <2>8, <2>9
  <1>2. IInv /\ [Next]_vars => [Ended]_vars BY <1>1
  <1>3. Spec => [][Ended]_vars BY <1>2, SessionsInvariant, PTL DEF Spec
  <1> QED BY <1>3 DEF ReplayEndsSessions

\* A token or bearer of an earlier password ends no session of the current one.
THEOREM OldLineageHarmlessHolds == Spec => OldLineageHarmless
  <1> DEFINE Harmless == \A t \in Token :
                 /\ last'.op \in {"refresh", "revoke_others"} /\ last'.token = t
                 /\ issuedUnder[t] # account.credential
                 => \A u \in Token : issuedUnder[u] = account.credential =>
                        access'[u] = access[u] /\ refresh'[u] = refresh[u]
  <1>1. IInv /\ Next => Harmless
    <2> SUFFICES ASSUME IInv, Next, NEW t \in Token, last'.op \in {"refresh", "revoke_others"},
                        last'.token = t, issuedUnder[t] # account.credential
                 PROVE  FALSE
      OBVIOUS
    <2> USE DEF IInv, RowsInv
    <2>1. ~Refresh(t) BY DEF OldRows, Refresh, RefreshReplayed, RefreshExpired, RefreshRotates
    <2>2. PICK c \in Call : RevokeOtherSessions(c) /\ t = calls[c].token BY <2>1, CallsTell
    <2> QED BY <2>2 DEF RevokeOtherSessions, LiveAccess, OldRows
  <1>2. IInv /\ [Next]_vars => [Harmless]_vars BY <1>1
  <1>3. Spec => [][Harmless]_vars BY <1>2, SessionsInvariant, PTL DEF Spec
  <1> QED BY <1>3 DEF OldLineageHarmless

\* A recovery link sets the password it was issued for, and that once.
THEOREM RecoveryAppliesOnceHolds == Spec => RecoveryAppliesOnce
  <1> DEFINE Once == last'.op = "recover" => recoveries[last'.id].credential = account.credential
  <1>1. IInv /\ Next => Once
    <2> SUFFICES ASSUME IInv, Next, last'.op = "recover"
                 PROVE  recoveries[last'.id].credential = account.credential
      OBVIOUS
    <2> USE DEF IInv
    <2>1. PICK c \in Call : CompletePasswordRecovery(c) /\ last'.id = calls[c].id BY CallsTell
    <2>2. calls[c].id \in RecoveryID BY <2>1, PendingCases DEF CompletePasswordRecovery, TypeOK
    <2> QED BY <2>1, <2>2 DEF CompletePasswordRecovery, OpenRecovery, OpenRecoveryCurrent
  <1>2. IInv /\ [Next]_vars => [Once]_vars BY <1>1
  <1>3. Spec => [][Once]_vars BY <1>2, SessionsInvariant, PTL DEF Spec
  <1> QED BY <1>3 DEF RecoveryAppliesOnce

-----------------------------------------------------------------------------
(* The sessions implement Devices. *)

\* The devices signed in, by the invariant: families with a live row, all under
\* the current password, with at most one refresh token.
LiveFamilies == {refresh[t].family : t \in {u \in 1..issued : LiveRow(u)}}
TokensOf(f) == {t \in 1..issued : LiveRefresh(t) /\ refresh[t].family = f}
Device(f) == [id |-> f, under |-> {account.credential}, tokens |-> TokensOf(f)]

\* A live row is of the current password and knows its device.
LEMMA LiveRows ==
  ASSUME IInv, NEW t \in 1..issued
  PROVE  /\ t \in Token
         /\ LiveRow(t) => issuedUnder[t] = account.credential /\ FamilyOf(t) = refresh[t].family
  <1> USE DEF IInv, RowsInv
  <1>1. t \in Token /\ t <= issued BY DEF TypeOK, Token
  <1>2. LiveRow(t) => issuedUnder[t] = account.credential
    BY <1>1 DEF LiveRow, LiveRefresh, OldRows
  <1>3. LiveRow(t) => FamilyOf(t) = refresh[t].family
    BY <1>1 DEF LiveRow, LiveRefresh, FamilyOf, IssuedRows
  <1> QED BY <1>1, <1>2, <1>3

\* SignedIn is the set of those devices.
LEMMA SignedInIs ==
  ASSUME IInv
  PROVE  SignedIn = {Device(f) : f \in LiveFamilies}
  <1> DEFINE live == {t \in 1..issued : LiveRow(t)}
             under(f) == {issuedUnder[t] : t \in {u \in live : FamilyOf(u) = f}}
             tokens(f) == {t \in live : LiveRefresh(t) /\ FamilyOf(t) = f}
             families == {FamilyOf(t) : t \in live}
  <1>0. \A t \in live : issuedUnder[t] = account.credential /\ FamilyOf(t) = refresh[t].family
    BY LiveRows
  <1>1. families = LiveFamilies BY <1>0 DEF LiveFamilies
  <1>2. ASSUME NEW f \in LiveFamilies PROVE under(f) = {account.credential}
    BY <1>0 DEF LiveFamilies
  <1>3. ASSUME NEW f PROVE tokens(f) = TokensOf(f)
    <2>1. \A t \in 1..issued : LiveRefresh(t) => t \in live BY DEF LiveRow
    <2> QED BY <1>0, <2>1 DEF TokensOf
  <1>4. SignedIn = {[id |-> f, under |-> under(f), tokens |-> tokens(f)] : f \in families}
    BY DEF SignedIn
  <1> HIDE DEF under, tokens, families
  <1>5. \A f \in LiveFamilies : [id |-> f, under |-> under(f), tokens |-> tokens(f)] = Device(f)
    BY <1>2, <1>3 DEF Device
  <1>6. {[id |-> f, under |-> under(f), tokens |-> tokens(f)] : f \in LiveFamilies}
            = {Device(f) : f \in LiveFamilies}
    BY <1>5
  <1> QED BY <1>1, <1>4, <1>6

\* The same after a step.
LEMMA SignedInNext == IInv' => SignedIn' = {Device(f)' : f \in LiveFamilies'}
  <1>1. IInv => SignedIn = {Device(f) : f \in LiveFamilies} BY SignedInIs
  <1>2. (IInv => SignedIn = {Device(f) : f \in LiveFamilies})' BY <1>1, PTL
  <1> QED BY <1>2

\* Taking rows away signs devices out, or leaves them without a refresh token.
LEMMA FadedFades ==
  ASSUME IInv, IInv', Faded, SignedOut' = {}
  PROVE  Abstract!Fade
  <1>0. 1..issued \subseteq Token /\ issued' = issued /\ account'.credential = account.credential
    BY LiveRows DEF Faded
  <1>1. \A t \in 1..issued : /\ LiveRefresh(t)' => LiveRefresh(t)
                             /\ LiveRow(t)' => LiveRow(t)
                             /\ refresh'[t].family = refresh[t].family
    BY <1>0 DEF Faded, LiveRow, LiveRefresh
  <1>2. LiveFamilies' \subseteq LiveFamilies BY <1>0, <1>1 DEF LiveFamilies
  <1>3. ASSUME NEW f PROVE TokensOf(f)' = TokensOf(f) \/ TokensOf(f)' = {}
    <2>1. TokensOf(f)' \subseteq TokensOf(f) BY <1>0, <1>1 DEF TokensOf
    <2>2. \A t, u \in TokensOf(f) : t = u BY <1>0 DEF TokensOf, IInv, RowsInv, OneRefresh
    <2> QED BY <2>1, <2>2
  <1>4. ASSUME NEW f \in LiveFamilies'
        PROVE  Device(f)' \in SignedIn \cup {[d EXCEPT !.tokens = {}] : d \in SignedIn}
    <2>1. Device(f) \in SignedIn BY <1>2, SignedInIs
    <2>2. Device(f)' = Device(f) \/ Device(f)' = [Device(f) EXCEPT !.tokens = {}]
      BY <1>0, <1>3 DEF Device
    <2> QED BY <2>1, <2>2
  <1>5. SignedIn' = {Device(f)' : f \in LiveFamilies'} BY SignedInNext
  <1>6. SignedIn' \subseteq SignedIn \cup {[d EXCEPT !.tokens = {}] : d \in SignedIn} BY <1>4, <1>5
  <1> QED BY <1>0, <1>6 DEF Abstract!Fade

\* A login signs a device in.
LEMMA IssueSignsIn ==
  ASSUME IInv, IInv', NEW c \in Call, IssueSession(c), SignedOut' = {}
  PROVE  Abstract!SignIn
  <1>n. PICK n : n = issued + 1 OBVIOUS
  <1>0. /\ n \in Token /\ issued' = n /\ issued \in Nat
        /\ refresh'[n].stored /\ refresh'[n].family = n /\ ~refresh'[n].revoked
        /\ account'.credential = account.credential
        /\ \A u \in Token : u # n => access'[u] = access[u] /\ refresh'[u] = refresh[u]
    <2>1. refresh \in [Token -> RefreshRow] /\ TypeOK BY DEF IInv, TypeOK
    <2>2. InsertPair(n, n, refresh, account.credential) BY <1>n DEF IssueSession, MayIssue
    <2>3. account'.credential = account.credential BY DEF IssueSession, ClearFailures
    <2>4. issued \in Nat BY DEF IInv, TypeOK
    <2>5. /\ n \in Token /\ issued' = n
          /\ refresh'[n] = [stored |-> TRUE, family |-> n, revoked |-> FALSE,
                            expires |-> now + RefreshTTL, rotatedTo |-> 0]
          /\ \A u \in Token : u # n => access'[u] = access[u] /\ refresh'[u] = refresh[u]
      BY <2>1, <2>2, InsertedRows, <1>n
    <2> QED BY <2>3, <2>4, <2>5
  <1>1. 1..n = (1..issued) \cup {n} /\ n \notin 1..issued BY <1>n, <1>0
  <1>2. \A t \in 1..issued : t \in Token /\ refresh[t].family \in 1..issued
    BY LiveRows DEF IInv, RowsInv, IssuedRows, TypeOK
  <1>3. LiveRefresh(n)' /\ LiveRow(n)' BY <1>0 DEF LiveRow, LiveRefresh
  <1>4. \A t \in 1..issued : /\ LiveRefresh(t)' = LiveRefresh(t) /\ LiveRow(t)' = LiveRow(t)
                             /\ refresh'[t].family = refresh[t].family
    BY <1>0, <1>1, <1>2 DEF LiveRow, LiveRefresh
  <1>5. LiveFamilies' = LiveFamilies \cup {n} BY <1>0, <1>1, <1>3, <1>4 DEF LiveFamilies
  <1>6. \A f \in LiveFamilies : f \in 1..issued BY <1>2 DEF LiveFamilies
  <1>7. ASSUME NEW f \in LiveFamilies PROVE Device(f)' = Device(f)
    <2>1. f # n BY <1>1, <1>6
    <2>2. TokensOf(f)' = TokensOf(f) BY <1>0, <1>1, <1>4, <2>1 DEF TokensOf
    <2> QED BY <1>0, <2>2 DEF Device
  <1>8. Device(n)' = [id |-> n, under |-> {account.credential}, tokens |-> {n}]
    <2>1. TokensOf(n)' = {n} BY <1>0, <1>1, <1>2, <1>3, <1>4 DEF TokensOf
    <2> QED BY <1>0, <2>1 DEF Device
  <1>9. SignedIn' = {Device(f)' : f \in LiveFamilies'} /\ SignedIn = {Device(f) : f \in LiveFamilies}
    BY SignedInIs, SignedInNext
  <1>10. SignedIn' = SignedIn \cup {[id |-> n, under |-> {account.credential}, tokens |-> {n}]}
    BY <1>5, <1>7, <1>8, <1>9
  <1> QED BY <1>n, <1>0, <1>10 DEF Abstract!SignIn

\* A rotation exchanges the refresh token of a device.
LEMMA RotateExchanges ==
  ASSUME IInv, IInv', NEW t \in Token, RefreshRotates(t), SignedOut' = {}
  PROVE  \E d \in SignedIn : Abstract!Exchange(d)
  <1> USE DEF IInv, RowsInv
  <1>n. PICK n : n = issued + 1 OBVIOUS
  <1>g. PICK g : g = refresh[t].family OBVIOUS
  <1>0. t \in 1..issued /\ g \in 1..issued BY <1>g, StoredIssued DEF RefreshRotates
  <1>1. 1..n = (1..issued) \cup {n} /\ n \notin 1..issued /\ issued \in Nat BY <1>n DEF TypeOK
  <1>2. /\ n \in Token /\ issued' = n
        /\ refresh'[n].stored /\ refresh'[n].family = g /\ ~refresh'[n].revoked
        /\ account'.credential = account.credential
        /\ refresh'[t] = [refresh[t] EXCEPT !.revoked = TRUE, !.rotatedTo = n]
        /\ \A u \in 1..issued : access'[u] = access[u]
        /\ \A u \in 1..issued : u # t => refresh'[u] = refresh[u]
    <2> DEFINE rr == [refresh EXCEPT ![t].revoked = TRUE, ![t].rotatedTo = n]
    <2>1. InsertPair(n, g, rr, issuedUnder[t]) BY <1>n, <1>g DEF RefreshRotates
    <2>2. n \in Token BY <1>n, <2>1 DEF InsertPair, TypeOK, Token
    <2>3. rr \in [Token -> RefreshRow] BY <2>2, RevokedRefresh DEF TypeOK
    <2>4. rr[t] = [refresh[t] EXCEPT !.revoked = TRUE, !.rotatedTo = n]
          /\ \A u \in Token : u # t => rr[u] = refresh[u]
      BY DEF TypeOK
    <2>5. account' = account BY DEF RefreshRotates
    <2> HIDE DEF rr
    <2>6. /\ issued' = n
          /\ refresh'[n] = [stored |-> TRUE, family |-> g, revoked |-> FALSE,
                            expires |-> now + RefreshTTL, rotatedTo |-> 0]
          /\ \A u \in Token : u # n => access'[u] = access[u] /\ refresh'[u] = rr[u]
      BY <2>1, <2>3, InsertedRows, <1>n
    <2>7. \A u \in 1..issued : u \in Token /\ u # n BY <1>1, LiveRows
    <2> QED BY <1>0, <2>2, <2>4, <2>5, <2>6, <2>7
  <1>3. refresh'[t].family = g /\ ~LiveRefresh(t)' /\ LiveRefresh(t)
    BY <1>g, <1>2 DEF TypeOK, RefreshRow, LiveRefresh, RefreshRotates
  <1>4. LiveRow(t) /\ g \in LiveFamilies BY <1>g, <1>0, <1>3 DEF LiveFamilies, LiveRow
  <1>5. \A u \in 1..issued : u # t => /\ LiveRefresh(u)' = LiveRefresh(u) /\ LiveRow(u)' = LiveRow(u)
                                      /\ refresh'[u].family = refresh[u].family
    BY <1>2 DEF LiveRow, LiveRefresh
  <1>6. LiveRefresh(n)' /\ LiveRow(n)' BY <1>2 DEF LiveRow, LiveRefresh
  <1>7. LiveFamilies' = LiveFamilies
    <2>0. ASSUME NEW u \in 1..n, LiveRow(u)' PROVE refresh'[u].family \in LiveFamilies
      <3>1. CASE u = n \/ u = t BY <1>2, <1>3, <1>4, <3>1
      <3>2. CASE u # n /\ u # t BY <1>1, <1>5, <2>0, <3>2 DEF LiveFamilies
      <3> QED BY <3>1, <3>2
    <2>1. LiveFamilies' \subseteq LiveFamilies BY <1>2, <2>0 DEF LiveFamilies
    <2>2. ASSUME NEW u \in 1..issued, LiveRow(u) PROVE refresh[u].family \in LiveFamilies'
      <3>1. CASE u = t BY <1>g, <1>1, <1>2, <1>6, <3>1 DEF LiveFamilies
      <3>2. CASE u # t BY <1>1, <1>2, <1>5, <2>2, <3>2 DEF LiveFamilies
      <3> QED BY <3>1, <3>2
    <2> QED BY <2>1, <2>2 DEF LiveFamilies
  <1>8. TokensOf(g) = {t}
    <2>1. \A u \in 1..issued : u \in Token BY LiveRows
    <2> QED BY <1>g, <1>0, <1>3, <2>1 DEF TokensOf, OneRefresh
  <1>9. TokensOf(g)' = {n}
    <2>1. \A u \in TokensOf(g) : u = t BY <1>8
    <2>2. \A u \in 1..issued : ~(LiveRefresh(u)' /\ refresh'[u].family = g)
      BY <1>3, <1>5, <2>1 DEF TokensOf
    <2> QED BY <1>1, <1>2, <1>6, <2>2 DEF TokensOf
  <1>10. ASSUME NEW f, f # g PROVE TokensOf(f)' = TokensOf(f)
    <2>1. \A u \in 1..issued : (LiveRefresh(u)' /\ refresh'[u].family = f)
                                 <=> (LiveRefresh(u) /\ refresh[u].family = f)
      BY <1>g, <1>3, <1>5, <1>10
    <2> QED BY <1>1, <1>2, <1>10, <2>1 DEF TokensOf
  <1>11. SignedIn' = {Device(f)' : f \in LiveFamilies'} /\ SignedIn = {Device(f) : f \in LiveFamilies}
    BY SignedInIs, SignedInNext
  <1>12. Device(g)' = [Device(g) EXCEPT !.tokens = {n}] /\ Device(g).tokens # {}
    BY <1>2, <1>8, <1>9 DEF Device
  <1>13. \A f \in LiveFamilies : f # g => Device(f)' = Device(f) /\ Device(f) # Device(g)
    BY <1>2, <1>10 DEF Device
  <1>14. SignedIn' = (SignedIn \ {Device(g)}) \cup {[Device(g) EXCEPT !.tokens = {n}]}
    BY <1>4, <1>7, <1>11, <1>12, <1>13
  <1>15. Device(g) \in SignedIn BY <1>4, <1>11
  <1> QED BY <1>n, <1>2, <1>12, <1>14, <1>15 DEF Abstract!Exchange

\* A new password signs every device out.
LEMMA PasswordSignsOut ==
  ASSUME IInv, IInv', NEW open, SetPassword(open), SignedOut' = {}
  PROVE  Abstract!ChangePassword
  <1>1. account'.credential = account.credential + 1 /\ issued' = issued
    BY DEF SetPassword, ClearFailures
  <1>2. ASSUME NEW t \in 1..issued PROVE ~LiveRow(t)'
    <2>1. t \in Token BY LiveRows
    <2>2. access[t] \in AccessRow /\ refresh[t] \in RefreshRow BY <2>1 DEF IInv, TypeOK
    <2>3. refresh'[t] = IF refresh[t].stored THEN [refresh[t] EXCEPT !.revoked = TRUE, !.rotatedTo = 0]
                        ELSE refresh[t]
      BY <2>1 DEF SetPassword, RevokeCredentialSessions
    <2>4. access'[t] = IF access[t].stored THEN [access[t] EXCEPT !.revoked = TRUE] ELSE access[t]
      BY <2>1 DEF SetPassword, RevokeCredentialSessions
    <2> QED BY <2>2, <2>3, <2>4 DEF AccessRow, RefreshRow, LiveRow, LiveRefresh
  <1>3. LiveFamilies' = {} BY <1>1, <1>2 DEF LiveFamilies
  <1>4. SignedIn' = {} BY <1>3, SignedInNext
  <1> QED BY <1>1, <1>4 DEF Abstract!ChangePassword

\* Revoking families leaves each row with its device.
LEMMA RevokedDevices ==
  ASSUME TypeOK, NEW F, RevokeFamilies(F)
  PROVE  /\ Families' = Families
         /\ \A t : AccessDevice(t)' = AccessDevice(t) /\ RefreshDevice(t)' = RefreshDevice(t)
  <1>1. \A t \in Token : /\ access'[t].stored = access[t].stored /\ access'[t].family = access[t].family
                         /\ refresh'[t].stored = refresh[t].stored /\ refresh'[t].family = refresh[t].family
    <2> SUFFICES ASSUME NEW t \in Token
                 PROVE  /\ access'[t].stored = access[t].stored /\ access'[t].family = access[t].family
                        /\ refresh'[t].stored = refresh[t].stored /\ refresh'[t].family = refresh[t].family
      OBVIOUS
    <2>1. access[t] \in AccessRow /\ refresh[t] \in RefreshRow BY DEF TypeOK
    <2> QED BY <2>1 DEF RevokeFamilies, AccessRow, RefreshRow
  <1> QED BY <1>1 DEF Families, AccessDevice, RefreshDevice

\* The devices that have rows were issued.
LEMMA FamiliesIssued ==
  ASSUME IInv
  PROVE  /\ Families \subseteq 1..issued
         /\ \A t : AccessDevice(t) \subseteq Families /\ RefreshDevice(t) \subseteq Families
  <1> USE DEF IInv, RowsInv
  <1>1. ASSUME NEW t \in Token, access[t].stored PROVE access[t].family \in 1..issued
    BY <1>1, StoredIssued DEF IssuedRows
  <1>2. ASSUME NEW t \in Token, refresh[t].stored PROVE refresh[t].family \in 1..issued
    BY <1>2, StoredIssued
  <1> QED BY <1>1, <1>2 DEF Families, AccessDevice, RefreshDevice

\* Revoking families signs out their devices, and no other.
LEMMA FamiliesSignOut ==
  ASSUME IInv, IInv', NEW F, RevokeFamilies(F), UNCHANGED <<account, issued>>, SignedOut' = F
  PROVE  Abstract!SignOut(F)
  <1>1. ASSUME NEW t \in 1..issued
        PROVE  /\ refresh'[t].family = refresh[t].family
               /\ LiveRow(t)' <=> LiveRow(t) /\ refresh[t].family \notin F
               /\ LiveRefresh(t)' <=> LiveRefresh(t) /\ refresh[t].family \notin F
    <2>1. t \in Token BY LiveRows
    <2>2. access[t] \in AccessRow /\ refresh[t] \in RefreshRow BY <2>1 DEF IInv, TypeOK
    <2>3. access[t].stored => access[t].family = refresh[t].family BY <2>1 DEF IInv, RowsInv, IssuedRows
    <2>4. access'[t] = IF access[t].stored /\ access[t].family \in F
                       THEN [access[t] EXCEPT !.revoked = TRUE] ELSE access[t]
      BY <2>1 DEF RevokeFamilies
    <2>5. refresh'[t] = IF refresh[t].stored /\ refresh[t].family \in F
                        THEN [refresh[t] EXCEPT !.revoked = TRUE] ELSE refresh[t]
      BY <2>1 DEF RevokeFamilies
    <2>6. /\ refresh'[t].family = refresh[t].family
          /\ LiveRefresh(t)' <=> LiveRefresh(t) /\ refresh[t].family \notin F
      BY <2>2, <2>5 DEF RefreshRow, LiveRefresh
    <2>7. (access'[t].stored /\ ~access'[t].revoked)
             <=> access[t].stored /\ ~access[t].revoked /\ refresh[t].family \notin F
      BY <2>2, <2>3, <2>4 DEF AccessRow
    <2> QED BY <2>6, <2>7 DEF LiveRow
  <1>2. LiveFamilies' = LiveFamilies \ F BY <1>1 DEF LiveFamilies
  <1>3. ASSUME NEW f \in LiveFamilies \ F PROVE Device(f)' = Device(f)
    <2>1. TokensOf(f)' = TokensOf(f) BY <1>1, <1>3 DEF TokensOf
    <2> QED BY <2>1 DEF Device
  <1>4. SignedIn' = {Device(f)' : f \in LiveFamilies'} /\ SignedIn = {Device(f) : f \in LiveFamilies}
    BY SignedInIs, SignedInNext
  <1>5. SignedIn' = {Device(f) : f \in LiveFamilies \ F} BY <1>2, <1>3, <1>4
  <1>6. \A f : Device(f).id = f BY DEF Device
  <1>7. SignedIn' = {d \in SignedIn : d.id \notin F} BY <1>4, <1>5, <1>6
  <1> QED BY <1>7 DEF Abstract!SignOut

\* A call that is to sign devices out signs out just those: also the successor
\* of a token that was exchanged meanwhile.
LEMMA SignOutSteps ==
  ASSUME IInv, IInv', Next, last'.op \in {"logout", "revoke", "revoke_others"}
  PROVE  Abstract!Next
  <1>0. TypeOK BY DEF IInv
  <1>1. ASSUME NEW F \in SUBSET Families, RevokeFamilies(F), UNCHANGED <<account, issued>>, SignedOut' = F
        PROVE  Abstract!Next
    <2>1. F \in SUBSET (1..issued) BY FamiliesIssued
    <2> QED BY <1>1, <2>1, FamiliesSignOut DEF Abstract!Next
  <1>2. CASE last'.op = "logout"
    <2>a. PICK a, b : a = last'.token /\ b = last'.id OBVIOUS
    <2> DEFINE F == AccessDevice(a) \cup RefreshDevice(b)
    <2>1. RevokeFamilies(F) /\ UNCHANGED <<account, issued>> BY <1>2, <2>a, CallsTell DEF Logout
    <2>2. F \in SUBSET Families BY FamiliesIssued
    <2>3. SignedOut' = AccessDevice(a)' \cup RefreshDevice(b)'
      BY <1>2, <2>a DEF SignedOut, AccessDevice, RefreshDevice
    <2>4. SignedOut' = F BY <1>0, <2>1, <2>3, RevokedDevices
    <2> HIDE DEF F
    <2> QED BY <1>1, <2>1, <2>2, <2>4
  <1>3. CASE last'.op = "revoke"
    <2>1. PICK c \in Call, f \in Token : RevokeSession(c, f) /\ last'.id = f BY <1>3, CallsTell
    <2>2. RevokeFamilies({f}) /\ UNCHANGED <<account, issued>> /\ f \in Families BY <2>1 DEF RevokeSession
    <2>3. SignedOut' = {f} BY <1>3, <2>1 DEF SignedOut
    <2> QED BY <1>1, <2>2, <2>3
  <1>4. CASE last'.op = "revoke_others"
    <2>1. PICK c \in Call : RevokeOtherSessions(c) /\ last'.token = calls[c].token BY <1>4, CallsTell
    <2>t. PICK t : t = calls[c].token OBVIOUS
    <2>2. t \in Token BY <1>0, <2>1, <2>t, PendingCases DEF RevokeOtherSessions, TypeOK
    <2>3. access[t].stored BY <2>1, <2>t DEF RevokeOtherSessions, LiveAccess
    <2> DEFINE F == Families \ {access[t].family}
    <2>4. RevokeFamilies(F) /\ UNCHANGED <<account, issued>> BY <2>1, <2>t DEF RevokeOtherSessions
    <2>5. AccessDevice(t) = {access[t].family} BY <2>2, <2>3 DEF AccessDevice
    <2>6. SignedOut' = Families' \ AccessDevice(t)' BY <1>4, <2>1, <2>t DEF SignedOut, AccessDevice
    <2>7. Families' = Families /\ AccessDevice(t)' = AccessDevice(t) BY <1>0, <2>4, RevokedDevices
    <2>8. SignedOut' = F BY <2>5, <2>6, <2>7
    <2>9. F \in SUBSET Families OBVIOUS
    <2> HIDE DEF F
    <2> QED BY <1>1, <2>4, <2>8, <2>9
  <1> QED BY <1>2, <1>3, <1>4

\* The sessions of an account implement Devices: a device is signed in with the
\* password of the moment, has one refresh token that was never exchanged, ends
\* when somebody signs it out, and does not come back once it is signed out.
THEOREM SessionsRefineDevices == Spec => DevicesSignedIn
  <1>1. Init => Abstract!Init
    BY DEF Init, Abstract!Init, SignedIn, SignedOut, Call_
  <1>2. IInv /\ IInv' /\ [Next]_vars => [Abstract!Next]_(Abstract!vars)
    <2>0. CASE UNCHANGED vars
      BY <2>0 DEF vars, rows, history, Abstract!vars, SignedIn, SignedOut, LiveRow, LiveRefresh, FamilyOf,
                  Families, AccessDevice, RefreshDevice
    <2> SUFFICES ASSUME IInv, IInv', Next PROVE Abstract!Next BY <2>0
    <2>1. CASE last'.op \in {"logout", "revoke", "revoke_others"} BY <2>1, SignOutSteps
    <2>2. CASE last'.op \notin {"logout", "revoke", "revoke_others"}
      <3> SignedOut' = {} BY <2>2 DEF SignedOut
      <3>1. CASE Faded BY <3>1, FadedFades DEF Abstract!Next
      <3>2. ASSUME NEW c \in Call, IssueSession(c) PROVE Abstract!Next
        BY <3>2, IssueSignsIn DEF Abstract!Next
      <3>3. ASSUME NEW t \in Token, RefreshRotates(t) PROVE Abstract!Next
        BY <3>3, RotateExchanges DEF Abstract!Next
      <3>4. ASSUME NEW open, SetPassword(open) PROVE Abstract!Next
        BY <3>4, PasswordSignsOut DEF Abstract!Next
      <3> QED BY <3>1, <3>2, <3>3, <3>4, StepEffects
    <2> QED BY <2>1, <2>2
  <1> QED BY <1>1, <1>2, SessionsInvariant, PTL DEF Spec, DevicesSignedIn, Abstract!Spec
=============================================================================
