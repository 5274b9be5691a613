------------------------------ MODULE Console -------------------------------
(***************************************************************************)
(* The session client of the web console (web/src/api.ts) with the browser *)
(* and the session handlers of the API it talks to.  Tabs share the refresh*)
(* cookie; each keeps its access token, the account it acts for and an     *)
(* epoch that sign-in and sign-out advance.  Calls that change the cookie  *)
(* wait for a lock, of the tab or, with Web Locks, of all tabs.  Calls of a*)
(* tab interleave at their awaits; what runs between two awaits is one     *)
(* step.  Answers may be late or lost, and a tab may be reloaded.          *)
(*                                                                         *)
(* A pair is an access and a refresh token issued together.  What the      *)
(* server stores is in Sessions; here an access token is accepted or not,  *)
(* and a refresh token live, spent by a rotation, or dead.  The order in   *)
(* which waiting calls get the lock is left open.                          *)
(***************************************************************************)
EXTENDS Naturals, FiniteSets

CONSTANTS
    Tab, Account, None,
    Open,         \* calls at a time in a tab
    WebLocks,     \* navigator.locks exists
    MaxCalls,     \* bounds: requests, password changes and restores,
    MaxSigns,     \* sign-ins and sign-outs,
    MaxFaults     \* lost answers and reloads

ASSUME LocksAssumption == WebLocks \in BOOLEAN
ASSUME BoundsAssumption == {Open, MaxCalls, MaxSigns, MaxFaults} \subseteq Nat

VARIABLES
    pairs,      \* pair -> account, device family, state of both tokens
    issued,     \* pairs issued
    cookie,     \* pair whose refresh token the browser holds, or 0
    tab,        \* authEpoch, access token and activeAccountID of each tab
    job,        \* the calls of each tab
    renewal,    \* refreshInFlight of each tab and epoch
    strays,     \* refresh tokens in requests nobody waits for
    replayed,   \* history: a spent refresh token was presented,
    lost,       \* the answer to a renewal was lost,
    overtaken,  \* a restore ended after its token had been replaced
    calls, signs, faults

server == <<pairs, issued, replayed>>
history == <<lost, overtaken>>
counters == <<calls, signs, faults>>
vars == <<server, cookie, tab, job, renewal, strays, history, counters>>

Slot == 1..Open
\* Bound that the others imply: a call renews at most once, and a sign-in
\* issues one pair.
Pair == 1..(1 + MaxCalls + MaxSigns)
Epoch == 0..(2 * MaxSigns + MaxCalls)
NoPair == [account |-> None, family |-> 0, access |-> FALSE, refresh |-> "dead"]
Idle == [op |-> "idle", pc |-> "idle", again |-> FALSE, epoch |-> 0, token |-> 0, active |-> None,
         bearer |-> 0, cookie |-> 0, answer |-> None]
NoRenewal == [pc |-> "none", optional |-> FALSE, cookie |-> 0, answer |-> 0]

\* What a call is answered: an account (2xx) or Denied (401).
Denied == "denied"
Queueing == {"password", "login", "logout"}

\* Somebody can sign in, and no account is mistaken for an answer.
ASSUME AccountAssumption ==
    /\ Account # {} /\ None \notin Account /\ Denied \notin Account /\ None # Denied

\* One tab signed in, the others new; which tab and account is immaterial.
Init ==
    LET a == CHOOSE a \in Account : TRUE
        b == CHOOSE b \in Tab : TRUE
    IN  /\ pairs = [p \in Pair |-> IF p = 1 THEN [account |-> a, family |-> 1, access |-> TRUE,
                                                  refresh |-> "live"] ELSE NoPair]
        /\ issued = 1 /\ cookie = 1
        /\ tab = [c \in Tab |-> [epoch |-> 0, token |-> IF c = b THEN 1 ELSE 0,
                                 active |-> IF c = b THEN a ELSE None]]
        /\ job = [c \in Tab |-> [s \in Slot |-> Idle]]
        /\ renewal = [c \in Tab |-> [e \in Epoch |-> NoRenewal]]
        /\ strays = {} /\ replayed = FALSE /\ lost = FALSE /\ overtaken = FALSE
        /\ calls = 0 /\ signs = 0 /\ faults = 0

-----------------------------------------------------------------------------
(* The server                                                              *)

\* A pair of the account a, in a new family when f is 0.
Issue(a, f, rest) ==
    /\ issued + 1 \in Pair
    /\ issued' = issued + 1
    /\ pairs' = [rest EXCEPT ![issued + 1] =
                    [account |-> a, family |-> IF f = 0 THEN issued + 1 ELSE f,
                     access |-> TRUE, refresh |-> "live"]]

\* A spent token stays known as spent, unless the password changed.
Ended(P, spent) == [p \in Pair |-> IF p \in P
                                   THEN [pairs[p] EXCEPT !.access = FALSE,
                                                         !.refresh = IF @ = "spent" THEN spent ELSE "dead"]
                                   ELSE pairs[p]]
OfAccount(a) == {p \in Pair : pairs[p].account = a}

\* rotateSession and Service.Refresh of the cookie p; the answer is n.
Rotate(p, n) ==
    \/ /\ p = 0 \/ (p # 0 /\ pairs[p].refresh = "dead")
       /\ n = 0 /\ UNCHANGED server
    \/ /\ p # 0 /\ pairs[p].refresh = "live"
       /\ Issue(pairs[p].account, pairs[p].family, [pairs EXCEPT ![p].refresh = "spent"])
       /\ n = issued + 1 /\ UNCHANGED replayed
    \/ /\ p # 0 /\ pairs[p].refresh = "spent"
       /\ pairs' = Ended(OfAccount(pairs[p].account), "spent")
       /\ replayed' = TRUE
       /\ n = 0 /\ UNCHANGED issued

\* An access token that is in use expires.
Expire(p) ==
    /\ pairs[p].access
    /\ \E b \in Tab : tab[b].token = p \/ \E s \in Slot : job[b][s].bearer = p
    /\ pairs' = [pairs EXCEPT ![p].access = FALSE]
    /\ UNCHANGED <<issued, replayed, cookie, tab, job, renewal, strays, history, counters>>

-----------------------------------------------------------------------------
(* withAuthLock                                                            *)

\* Mutant: a password change keeps the lock for its renewal and its retry.
HoldsThroughout(b) ==
    \/ \E s \in Slot : job[b][s].op \in Queueing /\ job[b][s].pc \notin {"queued", "idle"}
    \/ \E e \in Epoch : renewal[b][e].pc \in {"sent", "answered"}

\* A call or a renewal of the tab is in the critical section.
Holds(b) ==
    \/ \E s \in Slot : job[b][s].op \in Queueing /\ job[b][s].pc \in {"sent", "answered"}
    \/ \E e \in Epoch : renewal[b][e].pc \in {"sent", "answered"}

\* Mutant: the queue of the page only.
LockFreeInPage(b) == ~Holds(b)

LockFree(b) == ~Holds(b) /\ (WebLocks => \A c \in Tab : ~Holds(c))

-----------------------------------------------------------------------------
(* The state of a tab                                                      *)

\* acceptSession, setToken("") and expireSession, on the record t of a tab.
Accepted(t, n, epoch) ==
    IF epoch # t.epoch THEN t ELSE [t EXCEPT !.token = n, !.active = pairs[n].account]
Cleared(t) == [t EXCEPT !.epoch = @ + 1, !.token = 0, !.active = None]
Expired(t, epoch) == IF epoch # t.epoch THEN t ELSE Cleared(t)

\* The end of restoreSession.
Restored(t, a, epoch) == IF epoch # t.epoch THEN t ELSE [t EXCEPT !.active = a]

Free(b, s) == job[b][s] = Idle /\ \A r \in 1..(s - 1) : job[b][r] # Idle
SetJob(b, s, j) == job' = [job EXCEPT ![b][s] = j]
Done(b, s) == SetJob(b, s, Idle)
SetTab(b, t) == tab' = [tab EXCEPT ![b] = t]

\* Mutant: whoever is signed in now may go on.
MayGoOnAny(j, t) == j.epoch = t.epoch

\* The call still belongs to the session, and the account, it began in.
MayGoOn(j, t) == j.epoch = t.epoch /\ (j.active # None => j.active = t.active)

Sent(j, t) == [j EXCEPT !.pc = "sent", !.bearer = t.token, !.answer = None]
\* request's send: a password change waits for the lock first.
Send(j, t) == IF j.op = "password" THEN [j EXCEPT !.pc = "queued"] ELSE Sent(j, t)

Queued(optional) == [pc |-> "queued", optional |-> optional, cookie |-> 0, answer |-> 0]
\* refreshAccess joins the renewal of the epoch or starts it.
Renew(b, e, optional) ==
    renewal' = [renewal EXCEPT ![b][e] =
                  IF @.pc = "none" THEN Queued(optional) ELSE @]

-----------------------------------------------------------------------------
(* Requests                                                                *)

\* A request or a password change of the console, or restoreSession: at
\* start-up, on a retry and after a visit to an invitation or recovery link.
Call(b, s, op) ==
    /\ Free(b, s) /\ calls < MaxCalls
    /\ calls' = calls + 1
    /\ op # "restore" => tab[b].active # None
    /\ LET t == tab[b]
           j == [Idle EXCEPT !.op = op, !.epoch = t.epoch, !.token = t.token, !.active = t.active]
       IN  IF op = "restore" /\ t.token = 0
           THEN SetJob(b, s, [j EXCEPT !.pc = "renewing"]) /\ Renew(b, t.epoch, TRUE)
           ELSE SetJob(b, s, Send(j, t)) /\ UNCHANGED renewal
    /\ UNCHANGED <<server, cookie, tab, strays, history, signs, faults>>

\* The password change gets the lock.
PasswordStarts(b, s) ==
    LET j == job[b][s]
    IN  /\ j.op = "password" /\ j.pc = "queued" /\ LockFree(b)
        /\ SetJob(b, s, IF MayGoOn(j, tab[b]) THEN Sent(j, tab[b]) ELSE Idle)
        /\ UNCHANGED <<server, cookie, tab, renewal, strays, history, counters>>

\* Authenticate, and a changed password ends every session.
Handle(b, s) ==
    LET j == job[b][s]
        accepted == j.bearer # 0 /\ pairs[j.bearer].access
    IN  /\ j.op \in {"request", "password", "restore"} /\ j.pc = "sent"
        /\ SetJob(b, s, [j EXCEPT !.pc = "answered",
                                  !.answer = IF accepted THEN pairs[j.bearer].account ELSE Denied])
        /\ pairs' = IF accepted /\ j.op = "password"
                    THEN Ended(OfAccount(pairs[j.bearer].account), "dead") ELSE pairs
        /\ UNCHANGED <<issued, replayed, cookie, tab, renewal, strays, history, counters>>

\* The cookie after the headers of the answer to j.
CookieAfter(j) ==
    CASE j.op = "login" -> j.token
      [] j.op = "logout" \/ (j.op = "password" /\ j.answer \in Account) -> 0
      [] OTHER -> cookie

\* No answer, one that breaks off after its headers, or an error other than 401.
CallFails(b, s) ==
    LET j == job[b][s]
    IN  /\ j.op # "idle" /\ j.pc \in {"sent", "answered"}
        /\ faults < MaxFaults /\ faults' = faults + 1
        /\ cookie' \in {cookie} \cup IF j.pc = "answered" THEN {CookieAfter(j)} ELSE {}
        /\ Done(b, s)
        /\ UNCHANGED <<server, tab, renewal, strays, history, calls, signs>>

Succeed(b, s) ==
    LET j == job[b][s]
        t == tab[b]
    IN  /\ j.pc = "answered" /\ j.answer \in Account
        /\ Done(b, s)
        /\ cookie' = CookieAfter(j)
        /\ SetTab(b, CASE j.op = "restore" -> Restored(t, j.answer, j.epoch)
                       [] j.op = "password" -> Expired(t, j.epoch)
                       [] OTHER -> t)
        /\ overtaken' = (overtaken \/ (j.op = "restore" /\ j.epoch = t.epoch /\ j.bearer # t.token))
        /\ UNCHANGED <<server, renewal, strays, lost, counters>>

\* The first 401: the call waits for the renewal of its epoch, or goes again
\* at once when another call has replaced the token meanwhile.
Denial(b, s) ==
    LET j == job[b][s]
        t == tab[b]
    IN  /\ j.pc = "answered" /\ j.answer = Denied /\ ~j.again
        /\ \/ j.epoch # t.epoch /\ Done(b, s) /\ UNCHANGED renewal
           \/ /\ j.epoch = t.epoch /\ t.token \in {0, j.token}
              /\ SetJob(b, s, [j EXCEPT !.pc = "renewing"])
              /\ Renew(b, t.epoch, FALSE)
           \/ /\ j.epoch = t.epoch /\ t.token \notin {0, j.token}
              /\ SetJob(b, s, IF MayGoOn(j, t) THEN Send([j EXCEPT !.again = TRUE], t) ELSE Idle)
              /\ UNCHANGED renewal
        /\ UNCHANGED <<server, cookie, tab, strays, history, counters>>

\* The 401 of a retry ends the session.
SecondDenial(b, s) ==
    LET j == job[b][s]
    IN  /\ j.pc = "answered" /\ j.answer = Denied /\ j.again
        /\ Done(b, s)
        /\ SetTab(b, Expired(tab[b], j.epoch))
        /\ UNCHANGED <<server, cookie, renewal, strays, history, counters>>

\* A call goes on after the renewal it waited for.
Resume(b, s) ==
    LET j == job[b][s]
        t == tab[b]
        restoring == j.op = "restore" /\ j.token = 0
    IN  /\ j.pc = "renewed"
        /\ IF restoring
           THEN Done(b, s) /\ SetTab(b, Restored(t, j.answer, j.epoch))
           ELSE IF j.answer = None
           THEN Done(b, s) /\ SetTab(b, Expired(t, j.epoch))
           ELSE /\ SetJob(b, s, IF MayGoOn(j, t) THEN Send([j EXCEPT !.again = TRUE], t) ELSE Idle)
                /\ UNCHANGED tab
        /\ overtaken' = (overtaken \/ (restoring /\ j.epoch = t.epoch /\ j.bearer # t.token))
        /\ UNCHANGED <<server, cookie, renewal, strays, lost, counters>>

-----------------------------------------------------------------------------
(* refreshAccess                                                           *)

\* The calls of the tab that wait for the renewal of epoch e.
Waiting(b, e) == {s \in Slot : job[b][s].pc = "renewing" /\ job[b][s].epoch = e}
\* They are given the session n, 0 for none, or an exception.
Settled(b, e, n) ==
    [job EXCEPT ![b] = [s \in Slot |->
        IF s \notin Waiting(b, e) THEN job[b][s]
        ELSE [job[b][s] EXCEPT !.pc = "renewed", !.bearer = n,
                               !.answer = IF n = 0 THEN None ELSE pairs[n].account]]]
Thrown(b, e) == [job EXCEPT ![b] = [s \in Slot |-> IF s \in Waiting(b, e) THEN Idle ELSE job[b][s]]]
EndRenewal(b, e) == renewal' = [renewal EXCEPT ![b][e] = NoRenewal]

RenewalStarts(b, e) ==
    /\ renewal[b][e].pc = "queued" /\ LockFree(b)
    /\ IF e # tab[b].epoch
       THEN EndRenewal(b, e) /\ job' = Thrown(b, e)
       ELSE renewal' = [renewal EXCEPT ![b][e].pc = "sent", ![b][e].cookie = cookie] /\ UNCHANGED job
    /\ UNCHANGED <<server, cookie, tab, strays, history, counters>>

RenewalHandled(b, e) ==
    /\ renewal[b][e].pc = "sent"
    /\ \E n \in {0, issued + 1} :
          /\ Rotate(renewal[b][e].cookie, n)
          /\ renewal' = [renewal EXCEPT ![b][e].pc = "answered", ![b][e].answer = n]
    /\ UNCHANGED <<cookie, tab, job, strays, history, counters>>

\* The page gets a session: the browser sets the cookie, whatever the page does.
RenewalAccepted(b, e) ==
    LET n == renewal[b][e].answer
    IN  /\ renewal[b][e].pc = "answered" /\ n # 0
        /\ cookie' = n
        /\ SetTab(b, Accepted(tab[b], n, e))
        /\ job' = IF e # tab[b].epoch THEN Thrown(b, e) ELSE Settled(b, e, n)
        /\ EndRenewal(b, e)
        /\ UNCHANGED <<server, strays, history, counters>>

\* 204 for the optional renewal, else 401.
RenewalDenied(b, e) ==
    /\ renewal[b][e].pc = "answered" /\ renewal[b][e].answer = 0
    /\ cookie' = 0
    /\ IF renewal[b][e].optional
       THEN job' = Settled(b, e, 0) /\ UNCHANGED tab
       ELSE job' = Thrown(b, e) /\ SetTab(b, Expired(tab[b], e))
    /\ EndRenewal(b, e)
    /\ UNCHANGED <<server, strays, history, counters>>

\* The request or its answer is lost, or the server failed: the credentials
\* are kept.  The browser may have seen the new cookie.
RenewalLost(b, e) ==
    LET r == renewal[b][e]
    IN  /\ r.pc \in {"sent", "answered"}
        /\ faults < MaxFaults /\ faults' = faults + 1
        /\ lost' = TRUE
        /\ strays' = IF r.pc = "sent" THEN strays \cup {r.cookie} ELSE strays
        /\ cookie' \in {cookie} \cup IF r.pc = "answered" THEN {r.answer} ELSE {}
        /\ job' = Thrown(b, e)
        /\ EndRenewal(b, e)
        /\ UNCHANGED <<server, tab, overtaken, calls, signs>>

\* The server gets to a request nobody waits for any more.
StrayHandled(p) ==
    /\ p \in strays /\ strays' = strays \ {p}
    /\ \E n \in {0, issued + 1} : Rotate(p, n)
    /\ UNCHANGED <<cookie, tab, job, renewal, history, counters>>

-----------------------------------------------------------------------------
(* Sign-in and sign-out                                                    *)

\* api.login, also on an invitation page, and api.logout.
Sign(b, s, op, a) ==
    /\ Free(b, s) /\ signs < MaxSigns
    /\ signs' = signs + 1
    /\ op = "logout" => tab[b].active # None
    /\ tab' = [tab EXCEPT ![b].epoch = @ + 1]
    /\ SetJob(b, s, [Idle EXCEPT !.op = op, !.pc = "queued", !.epoch = tab[b].epoch + 1,
                                 !.token = tab[b].token, !.active = a])
    /\ UNCHANGED <<server, cookie, renewal, strays, history, calls, faults>>

SignStarts(b, s) ==
    /\ job[b][s].op \in {"login", "logout"} /\ job[b][s].pc = "queued" /\ LockFree(b)
    /\ SetJob(b, s, [job[b][s] EXCEPT !.pc = "sent", !.cookie = cookie])
    /\ UNCHANGED <<server, cookie, tab, renewal, strays, history, counters>>

\* A sign-in issues a pair; a sign-out ends the families of both its tokens.
LoginHandled(b, s) ==
    /\ job[b][s].op = "login" /\ job[b][s].pc = "sent"
    /\ Issue(job[b][s].active, 0, pairs)
    /\ SetJob(b, s, [job[b][s] EXCEPT !.pc = "answered", !.token = issued + 1])
    /\ UNCHANGED <<replayed, cookie, tab, renewal, strays, history, counters>>

LogoutHandled(b, s) ==
    LET j == job[b][s]
        F == {pairs[p].family : p \in {j.token, j.cookie} \ {0}}
    IN  /\ j.op = "logout" /\ j.pc = "sent"
        /\ pairs' = Ended({p \in Pair : pairs[p].family \in F}, "spent")
        /\ SetJob(b, s, [j EXCEPT !.pc = "answered"])
        /\ UNCHANGED <<issued, replayed, cookie, tab, renewal, strays, history, counters>>

SignedIn(b, s) ==
    LET j == job[b][s]
    IN  /\ j.op = "login" /\ j.pc = "answered"
        /\ cookie' = CookieAfter(j)
        /\ SetTab(b, Accepted(tab[b], j.token, j.epoch))
        /\ Done(b, s)
        /\ UNCHANGED <<server, renewal, strays, history, counters>>

SignedOut(b, s) ==
    LET j == job[b][s]
    IN  /\ j.op = "logout" /\ j.pc = "answered"
        /\ cookie' = CookieAfter(j)
        /\ SetTab(b, Expired(tab[b], j.epoch))
        /\ Done(b, s)
        /\ UNCHANGED <<server, renewal, strays, history, counters>>

\* The page is loaded again: sessionStorage survives, its calls do not.
Reload(b) ==
    LET open == {e \in Epoch : renewal[b][e].pc \in {"sent", "answered"}}
    IN  /\ faults < MaxFaults /\ faults' = faults + 1
        /\ SetTab(b, [tab[b] EXCEPT !.epoch = 0, !.active = None])
        /\ job' = [job EXCEPT ![b] = [s \in Slot |-> Idle]]
        /\ renewal' = [renewal EXCEPT ![b] = [e \in Epoch |-> NoRenewal]]
        /\ strays' = strays \cup {renewal[b][e].cookie : e \in {e \in open : renewal[b][e].pc = "sent"}}
        /\ lost' = (lost \/ open # {})
        /\ UNCHANGED <<server, cookie, overtaken, calls, signs>>

-----------------------------------------------------------------------------
Progress(b) ==
    \/ \E s \in Slot :
          \/ PasswordStarts(b, s) \/ Handle(b, s) \/ Succeed(b, s) \/ Denial(b, s)
          \/ SecondDenial(b, s) \/ Resume(b, s)
          \/ SignStarts(b, s) \/ LoginHandled(b, s) \/ LogoutHandled(b, s)
          \/ SignedIn(b, s) \/ SignedOut(b, s)
    \/ \E e \in Epoch :
          RenewalStarts(b, e) \/ RenewalHandled(b, e) \/ RenewalAccepted(b, e) \/ RenewalDenied(b, e)

Next ==
    \/ \E b \in Tab, s \in Slot :
          \/ \E op \in {"request", "password", "restore"} : Call(b, s, op)
          \/ \E a \in Account : Sign(b, s, "login", a)
          \/ Sign(b, s, "logout", None)
          \/ CallFails(b, s)
    \/ \E b \in Tab : Progress(b) \/ Reload(b)
    \/ \E b \in Tab, e \in Epoch : RenewalLost(b, e)
    \/ \E p \in Pair : Expire(p)
    \/ \E p \in Pair \cup {0} : StrayHandled(p)

\* Every request is answered or fails, and a free lock is granted.
Spec == Init /\ [][Next]_vars /\ \A b \in Tab : WF_vars(Progress(b))

-----------------------------------------------------------------------------
(* Properties                                                              *)

\* With Web Locks, no tab presents a refresh token that another rotation has
\* spent, and so signs the account out everywhere, unless the answer to a
\* rotation was lost (withAuthLock; docs/core-administration.md:95).
NoFalseReplay == WebLocks /\ replayed => lost

\* A tab that holds an access token acts for the account the token belongs to:
\* it has switched account context when the shared cookie has changed hands.
ContextFollowsToken ==
    \A b \in Tab : tab[b].active # None /\ tab[b].token # 0
                        => pairs[tab[b].token].account = tab[b].active

\* A request that goes a second time, after a renewal of its own or another
\* call's, goes as the account it first went as, as long as no restore has
\* ended after its token was replaced (ContextFollowsToken).
NoCrossAccountReplay ==
    ~overtaken =>
        \A b \in Tab, s \in Slot :
            LET j == job[b][s]
            IN  j.op \in {"request", "password"} /\ j.again /\ j.pc \in {"sent", "answered"}
                    => pairs[j.bearer].account = pairs[j.token].account

\* No call waits for ever: the calls of all tabs come to an end, whoever holds
\* the lock while others, and the renewals they wait for, queue behind it.
CallsEnd == []<>(\A b \in Tab, s \in Slot : job[b][s] = Idle)
=============================================================================
