---------------------------- MODULE ConsoleProofs ----------------------------
(***************************************************************************)
(* Tabs that share a cookie under Web Locks never replay a spent refresh   *)
(* token unless an answer was lost, and a request that is sent again goes  *)
(* as the account it was made for: for any number of tabs, calls, accounts *)
(* and faults.                                                             *)
(***************************************************************************)
EXTENDS Console, TLAPS

-----------------------------------------------------------------------------
(* The inductive invariant. *)

\* Rows that name tokens of the first n pairs.
PairRow == [account: Account \cup {None}, family: Nat, access: BOOLEAN, refresh: {"live", "spent", "dead"}]
TabRow(n) == [epoch: Nat, token: 0..n, active: Account \cup {None}]
JobRow(n) ==
    [op: {"idle", "request", "password", "restore", "login", "logout"},
     pc: {"idle", "queued", "sent", "answered", "renewing", "renewed"},
     again: BOOLEAN, epoch: Nat, token: 0..n, active: Account \cup {None},
     bearer: 0..n, cookie: 0..n, answer: Account \cup {None, Denied}]
RenewalRow(n) == [pc: {"none", "queued", "sent", "answered"}, optional: BOOLEAN, cookie: 0..n, answer: 0..n]

\* Every token that somebody holds was issued.
Types ==
    /\ issued \in Pair /\ pairs \in [Pair -> PairRow]
    /\ cookie \in 0..issued /\ strays \subseteq 0..issued
    /\ tab \in [Tab -> TabRow(issued)]
    /\ job \in [Tab -> [Slot -> JobRow(issued)]]
    /\ renewal \in [Tab -> [Epoch -> RenewalRow(issued)]]
    /\ replayed \in BOOLEAN /\ lost \in BOOLEAN /\ overtaken \in BOOLEAN

\* What a call can be at: a renewal gives no refusal, and sign-in and sign-out
\* are not renewed.
ShapeOK(j) ==
    /\ j.op \in {"login", "logout"} => j.pc \in {"queued", "sent", "answered"} /\ j.answer = None
    /\ j.op = "idle" => j.pc = "idle"
    /\ j.op = "login" /\ j.pc = "answered" => j.token # 0
    /\ j.pc = "renewed" => j.answer # Denied

Shape == \A b \in Tab, s \in Slot : ShapeOK(job[b][s])

\* In the critical section.
Critical(j) == j.op \in Queueing /\ j.pc \in {"sent", "answered"}
Renewing(r) == r.pc \in {"sent", "answered"}

\* Web Locks let one call or renewal of all tabs in at a time.
Exclusive ==
    WebLocks =>
        /\ \A b, c \in Tab, s, t \in Slot : Critical(job[b][s]) /\ Critical(job[c][t]) => b = c /\ s = t
        /\ \A b, c \in Tab, e, f \in Epoch : Renewing(renewal[b][e]) /\ Renewing(renewal[c][f]) => b = c /\ e = f
        /\ \A b, c \in Tab, s \in Slot, e \in Epoch : ~(Critical(job[b][s]) /\ Renewing(renewal[c][e]))

Unspent(P, p) == p = 0 \/ P[p].refresh # "spent"
AnsweredLogin(j) == j.op = "login" /\ j.pc = "answered"
Granted(r) == r.pc = "answered" /\ r.answer # 0

\* As long as no answer is lost, the cookie and the tokens on their way to it
\* are not spent, but for the one that a renewal is about to replace.
CookieFresh ==
    WebLocks /\ ~lost =>
        /\ strays = {}
        /\ \A b \in Tab, e \in Epoch :
              /\ renewal[b][e].pc = "sent" => renewal[b][e].cookie = cookie
              /\ Granted(renewal[b][e]) => Unspent(pairs, renewal[b][e].answer)
        /\ \A b \in Tab, s \in Slot :
              AnsweredLogin(job[b][s]) => Unspent(pairs, job[b][s].token)
        /\ (\E b \in Tab, e \in Epoch : Granted(renewal[b][e])) \/ Unspent(pairs, cookie)

\* Who is active in the tab t has its token, of the pairs P.
TabOK(t, P) == t.active # None => t.token # 0 /\ P[t.token].account = t.active

\* A call keeps the account it was made for, and an answer is that of the
\* bearer's account.
JobOK(j, P) ==
    /\ j.op \in {"request", "password"} =>
          /\ j.active # None /\ j.token # 0 /\ P[j.token].account = j.active
          /\ j.pc \in {"sent", "answered"} => j.bearer # 0 /\ P[j.bearer].account = j.active
    /\ j.op = "restore" /\ j.pc \in {"answered", "renewed"} /\ j.answer \in Account
          => j.bearer # 0 /\ P[j.bearer].account = j.answer

Context ==
    ~overtaken => /\ \A b \in Tab : TabOK(tab[b], pairs)
                  /\ \A b \in Tab, s \in Slot : JobOK(job[b][s], pairs)

IInv == Types /\ Shape /\ Exclusive /\ CookieFresh /\ NoFalseReplay /\ Context

-----------------------------------------------------------------------------
(* Tokens that were issued stay so, and their accounts stay the same. *)

\* What no step of the server undoes.
ServerStep ==
    /\ issued' \in Pair /\ issued <= issued' /\ pairs' \in [Pair -> PairRow] /\ replayed' \in BOOLEAN
    /\ \A q \in 1..issued : pairs'[q].account = pairs[q].account

\* Only the refresh token p may become spent.
SpendsOnly(p) == \A q \in 1..issued : pairs'[q].refresh = "spent" => pairs[q].refresh = "spent" \/ q = p

\* The bounds of the instance make the tokens natural numbers from 1 on.
LEMMA PairFacts ==
    /\ Pair \subseteq Nat \ {0} /\ 1 \in Pair
    /\ \A n \in Pair : 1..n \subseteq Pair
    /\ \A n \in Nat, m \in Pair : n <= m /\ n # 0 => n \in Pair
BY BoundsAssumption DEF Pair

\* A row that names tokens of the first n pairs names tokens of the first m.
LEMMA RowsGrow ==
    ASSUME NEW n \in Nat, NEW m \in Nat, n <= m
    PROVE  TabRow(n) \subseteq TabRow(m) /\ JobRow(n) \subseteq JobRow(m) /\ RenewalRow(n) \subseteq RenewalRow(m)
<1>1. 0..n \subseteq 0..m OBVIOUS
<1>2. TabRow(n) \subseteq TabRow(m) BY <1>1, Zenon DEF TabRow
<1>3. JobRow(n) \subseteq JobRow(m) BY <1>1 DEF JobRow
<1>4. RenewalRow(n) \subseteq RenewalRow(m) BY <1>1 DEF RenewalRow
<1> QED BY <1>2, <1>3, <1>4

\* Issue adds one live pair of the account.
LEMMA IssueAdds ==
    ASSUME Types, NEW a \in Account \cup {None}, NEW f \in Nat, NEW rest \in [Pair -> PairRow], Issue(a, f, rest)
    PROVE  /\ issued' \in Pair /\ issued' = issued + 1 /\ pairs' \in [Pair -> PairRow]
           /\ pairs'[issued'].account = a /\ pairs'[issued'].refresh = "live"
           /\ \A q \in 1..issued : q \in Pair /\ pairs'[q] = rest[q]
<1>0. issued \in Nat /\ issued + 1 \in Pair /\ \A q \in 1..issued : q \in Pair /\ q # issued + 1
    BY PairFacts DEF Types, Issue
<1>1. [account |-> a, family |-> IF f = 0 THEN issued + 1 ELSE f, access |-> TRUE, refresh |-> "live"] \in PairRow
    BY <1>0 DEF PairRow
<1> QED BY <1>0, <1>1 DEF Issue

\* Ending pairs keeps their accounts and spends none.
LEMMA EndedPairs ==
    ASSUME Types, NEW P, NEW x \in {"spent", "dead"}
    PROVE  /\ Ended(P, x) \in [Pair -> PairRow]
           /\ \A q \in Pair : Ended(P, x)[q].account = pairs[q].account
           /\ \A q \in Pair : Ended(P, x)[q].refresh = "spent" => pairs[q].refresh = "spent"
<1>1. ASSUME NEW q \in Pair
      PROVE  /\ Ended(P, x)[q] \in PairRow /\ Ended(P, x)[q].account = pairs[q].account
             /\ Ended(P, x)[q].refresh = "spent" => pairs[q].refresh = "spent"
    BY <1>1 DEF Ended, Types, PairRow
<1>2. Ended(P, x) = [q \in Pair |-> Ended(P, x)[q]] BY DEF Ended
<1> QED BY <1>1, <1>2

\* Service.Refresh spends the token it was given, and only that, when it grants
\* a session; it reports a replay when that token was spent before.
LEMMA RotateServer ==
    ASSUME Types, NEW p \in 0..issued, NEW n, Rotate(p, n)
    PROVE  /\ ServerStep /\ n \in 0..issued' /\ SpendsOnly(p)
           /\ n = 0 => SpendsOnly(0)
           /\ n # 0 => pairs'[n].refresh = "live"
           /\ replayed' => replayed \/ ~Unspent(pairs, p)
<1>0. issued \in Pair /\ issued \in Nat /\ (p # 0 => p \in Pair /\ pairs[p] \in PairRow) /\ 1..issued \subseteq Pair
    BY PairFacts DEF Types
<1>1. CASE /\ p = 0 \/ (p # 0 /\ pairs[p].refresh = "dead")
           /\ n = 0 /\ UNCHANGED server
    BY <1>0, <1>1 DEF Types, ServerStep, SpendsOnly, server
<1>2. CASE /\ p # 0 /\ pairs[p].refresh = "live"
           /\ Issue(pairs[p].account, pairs[p].family, [pairs EXCEPT ![p].refresh = "spent"])
           /\ n = issued + 1 /\ UNCHANGED replayed
    <2> DEFINE rest == [pairs EXCEPT ![p].refresh = "spent"]
    <2>1. rest \in [Pair -> PairRow] /\ pairs[p].account \in Account \cup {None} /\ pairs[p].family \in Nat
        BY <1>0, <1>2 DEF Types, PairRow
    <2>2. \A q \in Pair : rest[q].account = pairs[q].account /\ (q # p => rest[q] = pairs[q])
        BY <1>0, <1>2 DEF Types, PairRow
    <2> HIDE DEF rest
    <2>3. Issue(pairs[p].account, pairs[p].family, rest) BY <1>2 DEF rest
    <2>4. /\ issued' \in Pair /\ issued' = issued + 1 /\ pairs' \in [Pair -> PairRow]
          /\ pairs'[issued'].refresh = "live"
          /\ \A q \in 1..issued : q \in Pair /\ pairs'[q] = rest[q]
        BY <2>1, <2>3, IssueAdds
    <2>5. ServerStep BY <1>0, <1>2, <2>2, <2>4 DEF ServerStep, Types
    <2>6. SpendsOnly(p) BY <1>0, <2>2, <2>4 DEF SpendsOnly
    <2> QED BY <1>0, <1>2, <2>4, <2>5, <2>6
<1>3. CASE /\ p # 0 /\ pairs[p].refresh = "spent"
           /\ pairs' = Ended(OfAccount(pairs[p].account), "spent")
           /\ replayed' = TRUE
           /\ n = 0 /\ UNCHANGED issued
    <2> DEFINE E == Ended(OfAccount(pairs[p].account), "spent")
    <2>1. /\ E \in [Pair -> PairRow] /\ \A q \in Pair : E[q].account = pairs[q].account
          /\ \A q \in Pair : E[q].refresh = "spent" => pairs[q].refresh = "spent"
        BY EndedPairs
    <2>2. pairs' = E BY <1>3
    <2> HIDE DEF E
    <2>3. ServerStep BY <1>0, <1>3, <2>1, <2>2 DEF ServerStep
    <2>4. SpendsOnly(0) /\ SpendsOnly(p) BY <1>0, <2>1, <2>2 DEF SpendsOnly
    <2> QED BY <1>0, <1>3, <2>3, <2>4 DEF Unspent
<1> QED BY <1>1, <1>2, <1>3 DEF Rotate

-----------------------------------------------------------------------------
(* The rows after a step. *)

\* A step that leaves the server alone is a step of the server.
LEMMA ServerRests ==
    ASSUME Types, UNCHANGED server
    PROVE  ServerStep /\ \A p : SpendsOnly(p)
BY PairFacts DEF ServerStep, SpendsOnly, Types, server

\* What was issued is a natural number, before and after.
LEMMA IssuedFacts ==
    ASSUME Types, ServerStep
    PROVE  issued \in Nat /\ issued' \in Nat /\ issued <= issued' /\ 0..issued \subseteq 0..issued'
BY PairFacts DEF Types, ServerStep

\* Rows that a step leaves alone name tokens that are still issued.
LEMMA RowsKept ==
    ASSUME Types, ServerStep
    PROVE  /\ tab \in [Tab -> TabRow(issued')]
           /\ job \in [Tab -> [Slot -> JobRow(issued')]]
           /\ renewal \in [Tab -> [Epoch -> RenewalRow(issued')]]
<1>0. issued \in Nat /\ issued' \in Nat /\ issued <= issued' BY IssuedFacts
<1> PICK m \in Nat : m = issued' BY <1>0
<1>1. TabRow(issued) \subseteq TabRow(m) /\ JobRow(issued) \subseteq JobRow(m) /\ RenewalRow(issued) \subseteq RenewalRow(m)
    BY <1>0, RowsGrow
<1>2. tab \in [Tab -> TabRow(m)] BY <1>1 DEF Types
<1>3. job \in [Tab -> [Slot -> JobRow(m)]] BY <1>1 DEF Types
<1>4. renewal \in [Tab -> [Epoch -> RenewalRow(m)]] BY <1>1 DEF Types
<1> QED BY <1>2, <1>3, <1>4

\* SetJob changes one call.
LEMMA OneJob ==
    ASSUME Types, ServerStep, NEW b \in Tab, NEW s \in Slot, NEW j \in JobRow(issued'), SetJob(b, s, j)
    PROVE  /\ job' \in [Tab -> [Slot -> JobRow(issued')]]
           /\ job'[b][s] = j
           /\ \A c \in Tab, t \in Slot : c # b \/ t # s => job'[c][t] = job[c][t]
BY RowsKept DEF SetJob

\* SetTab changes one tab.
LEMMA OneTab ==
    ASSUME Types, ServerStep, NEW b \in Tab, NEW t \in TabRow(issued'), SetTab(b, t)
    PROVE  /\ tab' \in [Tab -> TabRow(issued')]
           /\ tab'[b] = t
           /\ \A c \in Tab : c # b => tab'[c] = tab[c]
BY RowsKept DEF SetTab

\* A step on the renewal of an epoch changes that one.
LEMMA OneRenewal ==
    ASSUME Types, ServerStep, NEW b \in Tab, NEW e \in Epoch, NEW r \in RenewalRow(issued'),
           renewal' = [renewal EXCEPT ![b][e] = r]
    PROVE  /\ renewal' \in [Tab -> [Epoch -> RenewalRow(issued')]]
           /\ renewal'[b][e] = r
           /\ \A c \in Tab, f \in Epoch : c # b \/ f # e => renewal'[c][f] = renewal[c][f]
BY RowsKept DEF RenewalRow

\* The rows of nobody.
LEMMA EmptyRows ==
    ASSUME NEW n \in Nat
    PROVE  Idle \in JobRow(n) /\ NoRenewal \in RenewalRow(n)
BY AccountAssumption DEF Idle, NoRenewal, JobRow, RenewalRow

\* refreshAccess changes at most the renewal it asks for, which then waits.
LEMMA RenewQueues ==
    ASSUME Types, ServerStep, NEW b \in Tab, NEW e, NEW o \in BOOLEAN, Renew(b, e, o)
    PROVE  /\ renewal' \in [Tab -> [Epoch -> RenewalRow(issued')]]
           /\ \A c \in Tab, f \in Epoch :
                 \/ renewal'[c][f] = renewal[c][f]
                 \/ ~Renewing(renewal[c][f]) /\ ~Renewing(renewal'[c][f])
<1> DEFINE q == Queued(o)
<1>1. issued' \in Nat BY IssuedFacts
<1> PICK m \in Nat : m = issued' BY <1>1
<1>2. q \in RenewalRow(m) /\ q.pc = "queued"
    <2>1. Queued(TRUE) \in RenewalRow(m) /\ Queued(TRUE).pc = "queued" BY DEF Queued, RenewalRow
    <2>2. Queued(FALSE) \in RenewalRow(m) /\ Queued(FALSE).pc = "queued" BY DEF Queued, RenewalRow
    <2> QED BY <2>1, <2>2
<1>3. renewal \in [Tab -> [Epoch -> RenewalRow(m)]] BY RowsKept
<1>4. renewal' = [renewal EXCEPT ![b][e] = IF @.pc = "none" THEN q ELSE @] BY DEF Renew
<1> HIDE DEF q
<1>5. renewal' \in [Tab -> [Epoch -> RenewalRow(m)]] BY <1>2, <1>3, <1>4
<1>6. ASSUME NEW c \in Tab, NEW f \in Epoch
      PROVE  \/ renewal'[c][f] = renewal[c][f]
             \/ renewal[c][f].pc = "none" /\ renewal'[c][f] = q
    BY <1>3, <1>4, <1>6
<1> QED BY <1>2, <1>5, <1>6 DEF Renewing

\* A call that waited for a renewal and was given the session n.
Renewed(j, n) ==
    [j EXCEPT !.pc = "renewed", !.bearer = n, !.answer = IF n = 0 THEN None ELSE pairs[n].account]

\* The calls that waited for a renewal have their answer, the others go on.
LEMMA SettledRows ==
    ASSUME Types, NEW b \in Tab, NEW e, NEW n \in 0..issued
    PROVE  /\ Settled(b, e, n) \in [Tab -> [Slot -> JobRow(issued)]]
           /\ \A c \in Tab, t \in Slot :
                 \/ Settled(b, e, n)[c][t] = job[c][t]
                 \/ /\ job[c][t].pc = "renewing" /\ c = b
                    /\ Settled(b, e, n)[c][t] = Renewed(job[c][t], n)
<1> DEFINE a == IF n = 0 THEN None ELSE pairs[n].account
           New(t) == IF t \notin Waiting(b, e) THEN job[b][t]
                     ELSE [job[b][t] EXCEPT !.pc = "renewed", !.bearer = n, !.answer = a]
<1>1. a \in Account \cup {None} BY PairFacts DEF Types, PairRow
<1> HIDE DEF a
<1>2. ASSUME NEW t \in Slot PROVE New(t) \in JobRow(issued)
    <2>1. job[b][t] \in JobRow(issued) BY <1>2 DEF Types
    <2>2. CASE t \notin Waiting(b, e) BY <2>1, <2>2
    <2>3. CASE t \in Waiting(b, e) BY <1>1, <2>1, <2>3 DEF JobRow
    <2> QED BY <2>2, <2>3
<1>3. Settled(b, e, n) = [job EXCEPT ![b] = [t \in Slot |-> New(t)]] BY DEF Settled, a
<1>4. ASSUME NEW t \in Slot
      PROVE  \/ New(t) = job[b][t]
             \/ /\ job[b][t].pc = "renewing"
                /\ New(t) = [job[b][t] EXCEPT !.pc = "renewed", !.bearer = n, !.answer = a]
    BY <1>4 DEF Waiting
<1> HIDE DEF New
<1>5. Settled(b, e, n) \in [Tab -> [Slot -> JobRow(issued)]] BY <1>2, <1>3 DEF Types
<1>6. \A t \in Slot : Settled(b, e, n)[b][t] = New(t) BY <1>3 DEF Types
<1>7. \A c \in Tab : c # b => Settled(b, e, n)[c] = job[c] BY <1>3 DEF Types
<1>8. \A t \in Slot : Settled(b, e, n)[b][t] \in {job[b][t], Renewed(job[b][t], n)} /\
                       (Settled(b, e, n)[b][t] = job[b][t] \/ job[b][t].pc = "renewing")
    BY <1>4, <1>6 DEF a, Renewed
<1> QED BY <1>5, <1>7, <1>8

\* The calls that waited for a renewal have failed, the others go on.
LEMMA ThrownRows ==
    ASSUME Types, NEW b \in Tab, NEW e
    PROVE  /\ Thrown(b, e) \in [Tab -> [Slot -> JobRow(issued)]]
           /\ \A c \in Tab, t \in Slot : Thrown(b, e)[c][t] \in {job[c][t], Idle}
<1>1. Idle \in JobRow(issued) BY EmptyRows, PairFacts DEF Types
<1> QED BY <1>1 DEF Thrown, Types

\* What changes with one row, whatever the row.
LEMMA OneRow ==
    ASSUME Types
    PROVE  /\ \A b \in Tab, s \in Slot : \A j :
                 SetJob(b, s, j) => /\ job'[b][s] = j
                                    /\ \A c \in Tab, t \in Slot : c # b \/ t # s => job'[c][t] = job[c][t]
           /\ \A b \in Tab : \A t :
                 SetTab(b, t) => tab'[b] = t /\ \A c \in Tab : c # b => tab'[c] = tab[c]
BY DEF Types, SetJob, SetTab

SetRenewal(b, e, r) == renewal' = [renewal EXCEPT ![b][e] = r]

\* The same of a renewal.
LEMMA OneRenewalRow ==
    ASSUME Types, NEW b \in Tab, NEW e \in Epoch, NEW r, SetRenewal(b, e, r)
    PROVE  /\ renewal'[b][e] = r
           /\ \A c \in Tab, f \in Epoch : c # b \/ f # e => renewal'[c][f] = renewal[c][f]
BY DEF Types, SetRenewal

\* The rows of the tables, one by one.
LEMMA RowTypes ==
    ASSUME Types
    PROVE  /\ \A b \in Tab : tab[b] \in TabRow(issued)
           /\ \A b \in Tab, s \in Slot : job[b][s] \in JobRow(issued)
           /\ \A b \in Tab, e \in Epoch : renewal[b][e] \in RenewalRow(issued)
           /\ \A p \in 1..issued : p \in Pair /\ pairs[p] \in PairRow /\ pairs[p].account \in Account \cup {None}
           /\ issued \in Nat
BY PairFacts DEF Types, PairRow

\* The operators on calls return calls.
LEMMA JobOperators ==
    ASSUME Types, NEW j \in JobRow(issued), NEW t \in TabRow(issued)
    PROVE  /\ Sent(j, t) \in JobRow(issued) /\ Send(j, t) \in JobRow(issued)
           /\ Send([j EXCEPT !.again = TRUE], t) \in JobRow(issued)
<1>1. Sent(j, t) \in JobRow(issued) BY DEF Sent, JobRow, TabRow
<1>2. Send(j, t) \in JobRow(issued) BY <1>1 DEF Send, JobRow
<1>3. [j EXCEPT !.again = TRUE] \in JobRow(issued) BY DEF JobRow
<1>4. Send([j EXCEPT !.again = TRUE], t) \in JobRow(issued)
    <2> PICK k \in JobRow(issued) : k = [j EXCEPT !.again = TRUE] BY <1>3
    <2>1. Sent(k, t) \in JobRow(issued) BY DEF Sent, JobRow, TabRow
    <2>2. [k EXCEPT !.pc = "queued"] \in JobRow(issued) BY DEF JobRow
    <2>3. Send(k, t) \in JobRow(issued) BY <2>1, <2>2 DEF Send
    <2> QED BY <2>3
<1> QED BY <1>1, <1>2, <1>4

\* The operators on tabs return tabs.
LEMMA TabOperators ==
    ASSUME Types, NEW t \in TabRow(issued)
    PROVE  /\ \A n \in 1..issued, e \in Nat : Accepted(t, n, e) \in TabRow(issued)
           /\ \A e \in Nat : Expired(t, e) \in TabRow(issued)
           /\ \A a \in Account \cup {None}, e \in Nat : Restored(t, a, e) \in TabRow(issued)
<1>5. ASSUME NEW n \in 1..issued, NEW e \in Nat PROVE Accepted(t, n, e) \in TabRow(issued)
    <2>1. pairs[n].account \in Account \cup {None} BY <1>5, RowTypes
    <2>2. n \in 0..issued BY <1>5, RowTypes
    <2>3. [t EXCEPT !.token = n, !.active = pairs[n].account] \in TabRow(issued) BY <2>1, <2>2 DEF TabRow
    <2> QED BY <2>3 DEF Accepted
<1>6. ASSUME NEW e \in Nat PROVE Expired(t, e) \in TabRow(issued)
    <2>1. t.epoch + 1 \in Nat /\ 0 \in 0..issued BY RowTypes DEF TabRow
    <2>2. [t EXCEPT !.epoch = t.epoch + 1, !.token = 0, !.active = None] \in TabRow(issued) BY <2>1 DEF TabRow
    <2> QED BY <2>2 DEF Expired, Cleared
<1>7. ASSUME NEW a \in Account \cup {None}, NEW e \in Nat PROVE Restored(t, a, e) \in TabRow(issued)
    BY <1>7 DEF Restored, TabRow
<1> QED BY <1>5, <1>6, <1>7

\* The cookie after an answer is one that was issued.
LEMMA CookieType ==
    ASSUME Types, NEW j \in JobRow(issued)
    PROVE  CookieAfter(j) \in 0..issued
BY RowTypes DEF CookieAfter, JobRow, Types

\* What is left of the types when the tables have theirs.
LEMMA TypesFrom ==
    ASSUME Types, ServerStep,
           cookie' \in 0..issued', strays' \subseteq 0..issued',
           tab' = tab \/ tab' \in [Tab -> TabRow(issued')],
           job' = job \/ job' \in [Tab -> [Slot -> JobRow(issued')]],
           renewal' = renewal \/ renewal' \in [Tab -> [Epoch -> RenewalRow(issued')]],
           lost' \in BOOLEAN, overtaken' \in BOOLEAN
    PROVE  Types'
<1>1. /\ tab' \in [Tab -> TabRow(issued')]
      /\ job' \in [Tab -> [Slot -> JobRow(issued')]]
      /\ renewal' \in [Tab -> [Epoch -> RenewalRow(issued')]]
    BY RowsKept
<1> QED BY <1>1 DEF Types, ServerStep

-----------------------------------------------------------------------------
(* Every step keeps the types. *)

\* The calls of the page: what they send and how they end.
LEMMA CallTypes ==
    ASSUME Types, NEW b \in Tab, NEW s \in Slot, NEW op \in {"request", "password", "restore"}, Call(b, s, op)
    PROVE  Types' /\ ServerStep
<1> DEFINE t == tab[b]
           j == [Idle EXCEPT !.op = op, !.epoch = t.epoch, !.token = t.token, !.active = t.active]
<1>1. ServerStep /\ issued' = issued BY ServerRests DEF Call, server
<1>2. t \in TabRow(issued) /\ Idle \in JobRow(issued) BY RowTypes, EmptyRows
<1>3. j \in JobRow(issued) /\ [j EXCEPT !.pc = "renewing"] \in JobRow(issued)
    BY <1>2 DEF JobRow, TabRow
<1>4. CASE op = "restore" /\ t.token = 0
    <2>1. SetJob(b, s, [j EXCEPT !.pc = "renewing"]) /\ Renew(b, t.epoch, TRUE) BY <1>4 DEF Call
    <2> HIDE DEF j, t
    <2>2. job' \in [Tab -> [Slot -> JobRow(issued')]] BY <1>1, <1>3, <2>1, OneJob
    <2>3. renewal' \in [Tab -> [Epoch -> RenewalRow(issued')]] BY <1>1, <2>1, RenewQueues
    <2> QED BY <1>1, <2>2, <2>3, TypesFrom DEF Call, Types, history
<1>5. CASE ~(op = "restore" /\ t.token = 0)
    <2>1. SetJob(b, s, Send(j, t)) /\ UNCHANGED renewal BY <1>5 DEF Call
    <2> HIDE DEF j, t
    <2>2. Send(j, t) \in JobRow(issued) BY <1>2, <1>3, JobOperators, TabOperators
    <2>3. job' \in [Tab -> [Slot -> JobRow(issued')]] BY <1>1, <2>1, <2>2, OneJob
    <2> QED BY <1>1, <2>1, <2>3, TypesFrom DEF Call, Types, history
<1> QED BY <1>4, <1>5

\* A password change that got the lock is sent, or dropped.
LEMMA PasswordStartsTypes ==
    ASSUME Types, NEW b \in Tab, NEW s \in Slot, PasswordStarts(b, s)
    PROVE  Types' /\ ServerStep
<1>1. ServerStep /\ issued' = issued BY ServerRests DEF PasswordStarts, server
<1> PICK k : k = IF MayGoOn(job[b][s], tab[b]) THEN Sent(job[b][s], tab[b]) ELSE Idle OBVIOUS
<1>2. k \in JobRow(issued) BY RowTypes, JobOperators, TabOperators, EmptyRows
<1>3. SetJob(b, s, k) BY DEF PasswordStarts
<1>4. job' \in [Tab -> [Slot -> JobRow(issued')]] BY <1>1, <1>2, <1>3, OneJob
<1> QED BY <1>1, <1>4, TypesFrom DEF PasswordStarts, Types, history

\* An answered call; a changed password spends no refresh token.
LEMMA HandleTypes ==
    ASSUME Types, NEW b \in Tab, NEW s \in Slot, Handle(b, s)
    PROVE  Types' /\ ServerStep /\ SpendsOnly(0)
<1> DEFINE j == job[b][s]
           accepted == j.bearer # 0 /\ pairs[j.bearer].access
           a == IF accepted THEN pairs[j.bearer].account ELSE Denied
           E == Ended(OfAccount(pairs[j.bearer].account), "dead")
<1>1. j \in JobRow(issued) BY RowTypes
<1>2. a \in Account \cup {None, Denied} BY <1>1, RowTypes DEF JobRow
<1>3. /\ E \in [Pair -> PairRow] /\ \A q \in Pair : E[q].account = pairs[q].account
      /\ \A q \in Pair : E[q].refresh = "spent" => pairs[q].refresh = "spent"
    BY EndedPairs
<1>4. SetJob(b, s, [j EXCEPT !.pc = "answered", !.answer = a]) /\ pairs' \in {pairs, E} BY DEF Handle
<1> HIDE DEF j, a, E
<1>5. ServerStep /\ SpendsOnly(0) /\ issued' = issued
    <2>1. UNCHANGED <<issued, replayed>> BY DEF Handle
    <2> QED BY <1>3, <1>4, <2>1, RowTypes DEF ServerStep, SpendsOnly, Types
<1>6. [j EXCEPT !.pc = "answered", !.answer = a] \in JobRow(issued) BY <1>1, <1>2 DEF JobRow
<1>7. job' \in [Tab -> [Slot -> JobRow(issued')]] BY <1>4, <1>5, <1>6, OneJob
<1> QED BY <1>5, <1>7, TypesFrom DEF Handle, Types, history

\* A call that fails may leave the cookie of its answer.
LEMMA CallFailsTypes ==
    ASSUME Types, NEW b \in Tab, NEW s \in Slot, CallFails(b, s)
    PROVE  Types' /\ ServerStep
<1>1. ServerStep /\ issued' = issued BY ServerRests DEF CallFails, server
<1>2. CookieAfter(job[b][s]) \in 0..issued BY RowTypes, CookieType
<1>3. cookie' \in 0..issued' BY <1>1, <1>2 DEF CallFails, Types
<1>4. job' \in [Tab -> [Slot -> JobRow(issued')]] BY <1>1, EmptyRows, RowTypes, OneJob DEF CallFails, Done
<1> QED BY <1>1, <1>3, <1>4, TypesFrom DEF CallFails, Types, history

\* A call that succeeds changes its tab by what it was.
LEMMA SucceedTypes ==
    ASSUME Types, NEW b \in Tab, NEW s \in Slot, Succeed(b, s)
    PROVE  Types' /\ ServerStep
<1> DEFINE j == job[b][s]
           t == tab[b]
           u == CASE j.op = "restore" -> Restored(t, j.answer, j.epoch)
                  [] j.op = "password" -> Expired(t, j.epoch)
                  [] OTHER -> t
<1>1. ServerStep /\ issued' = issued BY ServerRests DEF Succeed, server
<1>2. j \in JobRow(issued) /\ t \in TabRow(issued) /\ j.answer \in Account /\ j.epoch \in Nat
    BY RowTypes DEF Succeed, JobRow
<1>3. cookie' \in 0..issued' BY <1>1, <1>2, CookieType DEF Succeed
<1>4. Restored(t, j.answer, j.epoch) \in TabRow(issued) /\ Expired(t, j.epoch) \in TabRow(issued)
    <2> HIDE DEF j, t
    <2> QED BY <1>2, JobOperators, TabOperators
<1>5. u \in TabRow(issued) BY <1>2, <1>4
<1>6. SetTab(b, u) BY DEF Succeed
<1> HIDE DEF u
<1>7. tab' \in [Tab -> TabRow(issued')] BY <1>1, <1>5, <1>6, OneTab
<1>8. job' \in [Tab -> [Slot -> JobRow(issued')]] BY <1>1, EmptyRows, RowTypes, OneJob DEF Succeed, Done
<1>9. overtaken' \in BOOLEAN /\ strays' = strays /\ lost' = lost /\ renewal' = renewal BY DEF Succeed
<1> QED BY <1>1, <1>3, <1>7, <1>8, <1>9, TypesFrom DEF Types

\* The first refusal of a call.
LEMMA DenialTypes ==
    ASSUME Types, NEW b \in Tab, NEW s \in Slot, Denial(b, s)
    PROVE  Types' /\ ServerStep
<1> DEFINE j == job[b][s]
           t == tab[b]
<1>1. ServerStep /\ issued' = issued BY ServerRests DEF Denial, server
<1>2. j \in JobRow(issued) /\ t \in TabRow(issued) /\ Idle \in JobRow(issued) BY RowTypes, EmptyRows
<1>3. Send([j EXCEPT !.again = TRUE], t) \in JobRow(issued)
    <2> HIDE DEF j, t
    <2> QED BY <1>2, JobOperators, TabOperators
<1>4. [j EXCEPT !.pc = "renewing"] \in JobRow(issued) BY <1>2 DEF JobRow
<1>5. \/ SetJob(b, s, Idle)
      \/ SetJob(b, s, [j EXCEPT !.pc = "renewing"])
      \/ SetJob(b, s, Send([j EXCEPT !.again = TRUE], t))
    BY DEF Denial, Done
<1>6. renewal' = renewal \/ Renew(b, t.epoch, FALSE) BY DEF Denial
<1> HIDE DEF j, t
<1>7. job' \in [Tab -> [Slot -> JobRow(issued')]] BY <1>1, <1>2, <1>3, <1>4, <1>5, OneJob
<1>8. renewal' = renewal \/ renewal' \in [Tab -> [Epoch -> RenewalRow(issued')]] BY <1>1, <1>6, RenewQueues
<1> QED BY <1>1, <1>7, <1>8, TypesFrom DEF Denial, Types, history

\* The refusal of a retry.
LEMMA SecondDenialTypes ==
    ASSUME Types, NEW b \in Tab, NEW s \in Slot, SecondDenial(b, s)
    PROVE  Types' /\ ServerStep
<1>1. ServerStep /\ issued' = issued BY ServerRests DEF SecondDenial, server
<1>2. job[b][s].epoch \in Nat BY RowTypes DEF JobRow
<1>3. Expired(tab[b], job[b][s].epoch) \in TabRow(issued) BY <1>2, RowTypes, JobOperators, TabOperators
<1>4. tab' \in [Tab -> TabRow(issued')] BY <1>1, <1>3, OneTab DEF SecondDenial
<1>5. job' \in [Tab -> [Slot -> JobRow(issued')]] BY <1>1, EmptyRows, RowTypes, OneJob DEF SecondDenial, Done
<1> QED BY <1>1, <1>4, <1>5, TypesFrom DEF SecondDenial, Types, history

\* A call after its renewal.
LEMMA ResumeTypes ==
    ASSUME Types, NEW b \in Tab, NEW s \in Slot, Shape, Resume(b, s)
    PROVE  Types' /\ ServerStep
<1> DEFINE j == job[b][s]
           t == tab[b]
<1>1. ServerStep /\ issued' = issued BY ServerRests DEF Resume, server
<1>2. /\ j \in JobRow(issued) /\ t \in TabRow(issued) /\ Idle \in JobRow(issued)
      /\ j.epoch \in Nat /\ j.answer \in Account \cup {None}
    BY RowTypes, EmptyRows DEF JobRow, Shape, ShapeOK, Resume
<1>3. \/ SetJob(b, s, Idle)
      \/ SetJob(b, s, Send([j EXCEPT !.again = TRUE], t))
    BY DEF Resume, Done
<1>4. tab' = tab \/ SetTab(b, Restored(t, j.answer, j.epoch)) \/ SetTab(b, Expired(t, j.epoch))
    BY DEF Resume
<1> HIDE DEF j, t
<1>5. /\ Send([j EXCEPT !.again = TRUE], t) \in JobRow(issued)
      /\ Restored(t, j.answer, j.epoch) \in TabRow(issued) /\ Expired(t, j.epoch) \in TabRow(issued)
    BY <1>2, JobOperators, TabOperators
<1>6. job' \in [Tab -> [Slot -> JobRow(issued')]] BY <1>1, <1>2, <1>3, <1>5, OneJob
<1>7. tab' = tab \/ tab' \in [Tab -> TabRow(issued')] BY <1>1, <1>4, <1>5, OneTab
<1>8. overtaken' \in BOOLEAN /\ strays' = strays /\ lost' = lost /\ renewal' = renewal /\ cookie' = cookie
    BY DEF Resume
<1> QED BY <1>1, <1>6, <1>7, <1>8, TypesFrom DEF Types

\* The steps of a renewal, and of a request that nobody waits for.
LEMMA RenewalStartsTypes ==
    ASSUME Types, NEW b \in Tab, NEW e \in Epoch, RenewalStarts(b, e)
    PROVE  Types' /\ ServerStep
<1> DEFINE r == [renewal[b][e] EXCEPT !.pc = "sent", !.cookie = cookie]
<1>1. ServerStep /\ issued' = issued BY ServerRests DEF RenewalStarts, server
<1>2. r \in RenewalRow(issued) /\ NoRenewal \in RenewalRow(issued)
    <2>1. renewal[b][e] \in RenewalRow(issued) /\ cookie \in 0..issued BY RowTypes DEF Types
    <2>2. r \in RenewalRow(issued) BY <2>1 DEF RenewalRow
    <2> QED BY <2>2, RowTypes, EmptyRows
<1>3. renewal' = [renewal EXCEPT ![b][e] = r] \/ renewal' = [renewal EXCEPT ![b][e] = NoRenewal]
    BY DEF RenewalStarts, EndRenewal, Types
<1>4. job' = job \/ job' = Thrown(b, e) BY DEF RenewalStarts
<1> HIDE DEF r
<1>5. renewal' \in [Tab -> [Epoch -> RenewalRow(issued')]] BY <1>1, <1>2, <1>3, OneRenewal
<1>6. job' = job \/ job' \in [Tab -> [Slot -> JobRow(issued')]] BY <1>1, <1>4, ThrownRows
<1> QED BY <1>1, <1>5, <1>6, TypesFrom DEF RenewalStarts, Types, history

\* The server's step of a renewal.
LEMMA RenewalHandledTypes ==
    ASSUME Types, NEW b \in Tab, NEW e \in Epoch, RenewalHandled(b, e)
    PROVE  Types' /\ ServerStep
<1> PICK n : /\ Rotate(renewal[b][e].cookie, n)
             /\ renewal' = [renewal EXCEPT ![b][e].pc = "answered", ![b][e].answer = n]
    BY DEF RenewalHandled
<1>1. renewal[b][e] \in RenewalRow(issued) /\ renewal[b][e].cookie \in 0..issued BY RowTypes DEF RenewalRow
<1>2. ServerStep /\ n \in 0..issued' BY <1>1, RotateServer
<1> DEFINE r == [renewal[b][e] EXCEPT !.pc = "answered", !.answer = n]
<1>3. r \in RenewalRow(issued')
    <2>1. renewal[b][e] \in RenewalRow(issued') BY <1>2, RowsKept
    <2> PICK m : m = issued' OBVIOUS
    <2>2. n \in 0..m /\ renewal[b][e] \in RenewalRow(m) BY <1>2, <2>1
    <2>3. r \in RenewalRow(m) BY <2>2 DEF RenewalRow
    <2> QED BY <2>3
<1>4. renewal' = [renewal EXCEPT ![b][e] = r] BY DEF Types
<1> HIDE DEF r
<1>5. renewal' \in [Tab -> [Epoch -> RenewalRow(issued')]] BY <1>2, <1>3, <1>4, OneRenewal
<1>6. cookie' \in 0..issued' /\ strays' \subseteq 0..issued' /\ tab' = tab /\ job' = job /\ lost' = lost /\ overtaken' = overtaken
    BY <1>2, IssuedFacts DEF RenewalHandled, Types, history
<1> QED BY <1>2, <1>5, <1>6, TypesFrom DEF Types

\* A granted renewal.
LEMMA RenewalAcceptedTypes ==
    ASSUME Types, NEW b \in Tab, NEW e \in Epoch, RenewalAccepted(b, e)
    PROVE  Types' /\ ServerStep
<1> DEFINE n == renewal[b][e].answer
<1>1. ServerStep /\ issued' = issued BY ServerRests DEF RenewalAccepted, server
<1>2. n \in 0..issued /\ n \in 1..issued /\ NoRenewal \in RenewalRow(issued) /\ e \in Nat
    <2>1. renewal[b][e] \in RenewalRow(issued) /\ n # 0 BY RowTypes DEF RenewalAccepted
    <2>2. n \in 0..issued BY <2>1 DEF RenewalRow
    <2>3. e \in Nat BY BoundsAssumption DEF Epoch
    <2> QED BY <2>1, <2>2, <2>3, RowTypes, EmptyRows
<1>3. Accepted(tab[b], n, e) \in TabRow(issued) BY <1>2, RowTypes, JobOperators, TabOperators
<1>4. tab' \in [Tab -> TabRow(issued')] BY <1>1, <1>3, OneTab DEF RenewalAccepted
<1>5. job' \in {Thrown(b, e), Settled(b, e, n)} BY DEF RenewalAccepted
<1>6. cookie' = n /\ UNCHANGED <<strays, history>> BY DEF RenewalAccepted
<1>7. renewal' \in [Tab -> [Epoch -> RenewalRow(issued')]]
    BY <1>1, <1>2, OneRenewal DEF RenewalAccepted, EndRenewal
<1> HIDE DEF n
<1>8. job' \in [Tab -> [Slot -> JobRow(issued')]] 
    <2>1. Thrown(b, e) \in [Tab -> [Slot -> JobRow(issued)]] BY ThrownRows
    <2>2. Settled(b, e, n) \in [Tab -> [Slot -> JobRow(issued)]] BY <1>2, SettledRows
    <2> QED BY <1>1, <1>5, <2>1, <2>2
<1> QED BY <1>1, <1>2, <1>4, <1>6, <1>7, <1>8, TypesFrom DEF Types, history

\* A refused renewal.
LEMMA RenewalDeniedTypes ==
    ASSUME Types, NEW b \in Tab, NEW e \in Epoch, RenewalDenied(b, e)
    PROVE  Types' /\ ServerStep
<1>1. ServerStep /\ issued' = issued BY ServerRests DEF RenewalDenied, server
<1>2. 0 \in 0..issued /\ NoRenewal \in RenewalRow(issued) /\ e \in Nat
    BY RowTypes, EmptyRows, BoundsAssumption DEF Epoch
<1>3. tab' = tab \/ SetTab(b, Expired(tab[b], e)) BY DEF RenewalDenied
<1>4. tab' = tab \/ tab' \in [Tab -> TabRow(issued')] BY <1>1, <1>2, <1>3, OneTab, RowTypes, JobOperators, TabOperators
<1>5. job' \in {Thrown(b, e), Settled(b, e, 0)} BY DEF RenewalDenied
<1>6. job' \in [Tab -> [Slot -> JobRow(issued')]] 
    <2>1. Thrown(b, e) \in [Tab -> [Slot -> JobRow(issued)]] BY ThrownRows
    <2>2. Settled(b, e, 0) \in [Tab -> [Slot -> JobRow(issued)]] BY <1>2, SettledRows
    <2> QED BY <1>1, <1>5, <2>1, <2>2
<1>7. renewal' \in [Tab -> [Epoch -> RenewalRow(issued')]]
    BY <1>1, <1>2, OneRenewal DEF RenewalDenied, EndRenewal
<1>8. cookie' = 0 /\ UNCHANGED <<strays, history>> BY DEF RenewalDenied
<1> QED BY <1>1, <1>2, <1>4, <1>6, <1>7, <1>8, TypesFrom DEF Types, history

\* A lost renewal leaves its cookie with the stray requests.
LEMMA RenewalLostTypes ==
    ASSUME Types, NEW b \in Tab, NEW e \in Epoch, RenewalLost(b, e)
    PROVE  Types' /\ ServerStep
<1>1. ServerStep /\ issued' = issued BY ServerRests DEF RenewalLost, server
<1>2. NoRenewal \in RenewalRow(issued) /\ renewal[b][e].answer \in 0..issued /\ renewal[b][e].cookie \in 0..issued
    BY RowTypes, EmptyRows DEF RenewalRow
<1>3. cookie' \in 0..issued' /\ strays' \subseteq 0..issued' BY <1>1, <1>2 DEF RenewalLost, Types
<1>4. job' \in [Tab -> [Slot -> JobRow(issued')]] BY <1>1, ThrownRows DEF RenewalLost
<1>5. renewal' \in [Tab -> [Epoch -> RenewalRow(issued')]] BY <1>1, <1>2, OneRenewal DEF RenewalLost, EndRenewal
<1> QED BY <1>1, <1>3, <1>4, <1>5, TypesFrom DEF RenewalLost, Types

\* The server's step of a stray request.
LEMMA StrayHandledTypes ==
    ASSUME Types, NEW p \in Pair \cup {0}, StrayHandled(p)
    PROVE  Types' /\ ServerStep
<1>1. p \in 0..issued BY DEF StrayHandled, Types
<1>2. ServerStep BY <1>1, RotateServer DEF StrayHandled
<1>3. cookie' \in 0..issued' /\ strays' \subseteq 0..issued' BY <1>2, IssuedFacts DEF StrayHandled, Types
<1> QED BY <1>2, <1>3, TypesFrom DEF StrayHandled, Types, history

\* Sign-in, sign-out, reload and expiry.
LEMMA SignTypes ==
    ASSUME Types, NEW b \in Tab, NEW s \in Slot, NEW op \in {"login", "logout"}, NEW a \in Account \cup {None},
           Sign(b, s, op, a)
    PROVE  Types' /\ ServerStep
<1> DEFINE t == tab[b]
           j == [Idle EXCEPT !.op = op, !.pc = "queued", !.epoch = t.epoch + 1, !.token = t.token, !.active = a]
<1>1. ServerStep /\ issued' = issued BY ServerRests DEF Sign, server
<1>2. t \in TabRow(issued) /\ t.epoch + 1 \in Nat /\ Idle \in JobRow(issued) BY RowTypes, EmptyRows DEF TabRow
<1>3. j \in JobRow(issued) BY <1>2 DEF JobRow, TabRow
<1>4. [t EXCEPT !.epoch = t.epoch + 1] \in TabRow(issued) BY <1>2 DEF TabRow
<1>5. SetTab(b, [t EXCEPT !.epoch = t.epoch + 1]) /\ SetJob(b, s, j) BY DEF Sign, SetTab, Types
<1> HIDE DEF j, t
<1>6. tab' \in [Tab -> TabRow(issued')] BY <1>1, <1>4, <1>5, OneTab
<1>7. job' \in [Tab -> [Slot -> JobRow(issued')]] BY <1>1, <1>3, <1>5, OneJob
<1> QED BY <1>1, <1>6, <1>7, TypesFrom DEF Sign, Types, history

\* A sign-in or a sign-out that got the lock.
LEMMA SignStartsTypes ==
    ASSUME Types, NEW b \in Tab, NEW s \in Slot, SignStarts(b, s)
    PROVE  Types' /\ ServerStep
<1>1. ServerStep /\ issued' = issued BY ServerRests DEF SignStarts, server
<1>2. job[b][s] \in JobRow(issued) /\ cookie \in 0..issued BY RowTypes DEF Types
<1>3. [job[b][s] EXCEPT !.pc = "sent", !.cookie = cookie] \in JobRow(issued) BY <1>2 DEF JobRow
<1>4. job' \in [Tab -> [Slot -> JobRow(issued')]] BY <1>1, <1>3, OneJob DEF SignStarts
<1> QED BY <1>1, <1>4, TypesFrom DEF SignStarts, Types, history

\* A sign-in issues a live pair and spends none.
LEMMA LoginHandledTypes ==
    ASSUME Types, NEW b \in Tab, NEW s \in Slot, LoginHandled(b, s)
    PROVE  /\ Types' /\ ServerStep /\ SpendsOnly(0)
           /\ pairs'[issued + 1].refresh = "live" /\ issued' = issued + 1
<1>1. job[b][s] \in JobRow(issued) /\ job[b][s].active \in Account \cup {None} BY RowTypes DEF JobRow
<1>2. /\ issued' \in Pair /\ issued' = issued + 1 /\ pairs' \in [Pair -> PairRow]
      /\ pairs'[issued'].refresh = "live"
      /\ \A q \in 1..issued : q \in Pair /\ pairs'[q] = pairs[q]
    <2>1. Issue(job[b][s].active, 0, pairs) /\ pairs \in [Pair -> PairRow] BY DEF LoginHandled, Types
    <2> QED BY <1>1, <2>1, IssueAdds
<1>3. ServerStep /\ SpendsOnly(0)
    <2>1. replayed' = replayed BY DEF LoginHandled
    <2> QED BY <1>2, <2>1, RowTypes DEF ServerStep, SpendsOnly, Types
<1> DEFINE j == [job[b][s] EXCEPT !.pc = "answered", !.token = issued + 1]
<1>4. j \in JobRow(issued')
    <2>1. job[b][s] \in JobRow(issued') BY <1>3, RowsKept
    <2> PICK m : m = issued' OBVIOUS
    <2>2. m \in Nat /\ issued + 1 \in 0..m /\ job[b][s] \in JobRow(m) BY <1>2, <2>1, RowTypes
    <2>3. j \in JobRow(m) BY <2>2 DEF JobRow
    <2> QED BY <2>3
<1>5. SetJob(b, s, j) BY DEF LoginHandled
<1> HIDE DEF j
<1>6. job' \in [Tab -> [Slot -> JobRow(issued')]] BY <1>3, <1>4, <1>5, OneJob
<1>7. cookie' \in 0..issued' /\ strays' \subseteq 0..issued' /\ tab' = tab /\ renewal' = renewal /\ lost' = lost /\ overtaken' = overtaken
    BY <1>3, IssuedFacts DEF LoginHandled, Types, history
<1>8. Types' BY <1>3, <1>6, <1>7, TypesFrom DEF Types
<1> QED BY <1>2, <1>3, <1>8

\* A sign-out ends families and spends no refresh token.
LEMMA LogoutHandledTypes ==
    ASSUME Types, NEW b \in Tab, NEW s \in Slot, LogoutHandled(b, s)
    PROVE  Types' /\ ServerStep /\ SpendsOnly(0)
<1> DEFINE j == job[b][s]
           F == {pairs[p].family : p \in {j.token, j.cookie} \ {0}}
           E == Ended({p \in Pair : pairs[p].family \in F}, "spent")
<1>1. /\ E \in [Pair -> PairRow] /\ \A q \in Pair : E[q].account = pairs[q].account
      /\ \A q \in Pair : E[q].refresh = "spent" => pairs[q].refresh = "spent"
    BY EndedPairs
<1>2. pairs' = E /\ SetJob(b, s, [j EXCEPT !.pc = "answered"]) /\ UNCHANGED <<issued, replayed>>
    BY DEF LogoutHandled
<1>3. j \in JobRow(issued) BY RowTypes
<1> HIDE DEF E, j
<1>4. ServerStep /\ SpendsOnly(0) BY <1>1, <1>2, RowTypes DEF ServerStep, SpendsOnly, Types
<1>5. [j EXCEPT !.pc = "answered"] \in JobRow(issued) BY <1>3 DEF JobRow
<1>6. job' \in [Tab -> [Slot -> JobRow(issued')]] BY <1>2, <1>4, <1>5, OneJob
<1> QED BY <1>2, <1>4, <1>6, TypesFrom DEF LogoutHandled, Types, history

\* An answered sign-in.
LEMMA SignedInTypes ==
    ASSUME Types, Shape, NEW b \in Tab, NEW s \in Slot, SignedIn(b, s)
    PROVE  Types' /\ ServerStep
<1> DEFINE j == job[b][s]
<1>1. ServerStep /\ issued' = issued BY ServerRests DEF SignedIn, server
<1>2. j \in JobRow(issued) /\ j.epoch \in Nat /\ j.token \in 1..issued
    BY RowTypes DEF JobRow, Shape, ShapeOK, SignedIn
<1>3. Accepted(tab[b], j.token, j.epoch) \in TabRow(issued) BY <1>2, RowTypes, TabOperators
<1>4. tab' \in [Tab -> TabRow(issued')] BY <1>1, <1>3, OneTab DEF SignedIn
<1>5. job' \in [Tab -> [Slot -> JobRow(issued')]] BY <1>1, EmptyRows, RowTypes, OneJob DEF SignedIn, Done
<1>6. cookie' \in 0..issued' BY <1>1, <1>2, CookieType DEF SignedIn
<1> QED BY <1>1, <1>4, <1>5, <1>6, TypesFrom DEF SignedIn, Types, history

\* An answered sign-out.
LEMMA SignedOutTypes ==
    ASSUME Types, NEW b \in Tab, NEW s \in Slot, SignedOut(b, s)
    PROVE  Types' /\ ServerStep
<1> DEFINE j == job[b][s]
<1>1. ServerStep /\ issued' = issued BY ServerRests DEF SignedOut, server
<1>2. j \in JobRow(issued) /\ j.epoch \in Nat BY RowTypes DEF JobRow
<1>3. Expired(tab[b], j.epoch) \in TabRow(issued) BY <1>2, RowTypes, TabOperators
<1>4. tab' \in [Tab -> TabRow(issued')] BY <1>1, <1>3, OneTab DEF SignedOut
<1>5. job' \in [Tab -> [Slot -> JobRow(issued')]] BY <1>1, EmptyRows, RowTypes, OneJob DEF SignedOut, Done
<1>6. cookie' \in 0..issued' BY <1>1, <1>2, CookieType DEF SignedOut
<1> QED BY <1>1, <1>4, <1>5, <1>6, TypesFrom DEF SignedOut, Types, history

\* A reload drops the calls and renewals of a tab.
LEMMA ReloadTypes ==
    ASSUME Types, NEW b \in Tab, Reload(b)
    PROVE  Types' /\ ServerStep
<1>1. ServerStep /\ issued' = issued BY ServerRests DEF Reload, server
<1>2. tab[b] \in TabRow(issued) /\ Idle \in JobRow(issued) /\ NoRenewal \in RenewalRow(issued) BY RowTypes, EmptyRows
<1>3. [tab[b] EXCEPT !.epoch = 0, !.active = None] \in TabRow(issued) BY <1>2 DEF TabRow
<1>4. tab' \in [Tab -> TabRow(issued')] BY <1>1, <1>3, OneTab DEF Reload
<1>5. job' \in [Tab -> [Slot -> JobRow(issued')]] BY <1>1, <1>2 DEF Reload, Types
<1>6. renewal' \in [Tab -> [Epoch -> RenewalRow(issued')]] BY <1>1, <1>2 DEF Reload, Types
<1>7. \A e \in Epoch : renewal[b][e].cookie \in 0..issued BY RowTypes DEF RenewalRow
<1>8. strays' \subseteq 0..issued' BY <1>1, <1>7 DEF Reload, Types
<1>9. lost' \in BOOLEAN /\ cookie' = cookie /\ overtaken' = overtaken BY DEF Reload
<1> QED BY <1>1, <1>4, <1>5, <1>6, <1>8, <1>9, TypesFrom DEF Types

\* An access token that expires takes no refresh token with it.
LEMMA ExpireTypes ==
    ASSUME Types, NEW p \in Pair, Expire(p)
    PROVE  Types' /\ ServerStep /\ SpendsOnly(0)
<1>1. UNCHANGED <<issued, replayed, cookie, tab, job, renewal, strays, lost, overtaken>>
    BY DEF Expire, history
<1>2. /\ pairs' \in [Pair -> PairRow]
      /\ \A q \in Pair : pairs'[q].account = pairs[q].account /\ pairs'[q].refresh = pairs[q].refresh
    BY DEF Expire, Types, PairRow
<1>3. ServerStep /\ SpendsOnly(0) BY <1>1, <1>2, RowTypes DEF ServerStep, SpendsOnly, Types
<1> QED BY <1>1, <1>3, TypesFrom DEF Types

-----------------------------------------------------------------------------
(* The lock. *)

\* Nobody enters the critical section: it stays exclusive.
LEMMA ExclusiveKept ==
    ASSUME Exclusive,
           \A c \in Tab, t \in Slot : Critical(job'[c][t]) => Critical(job[c][t]),
           \A c \in Tab, f \in Epoch : Renewing(renewal'[c][f]) => Renewing(renewal[c][f])
    PROVE  Exclusive'
BY DEF Exclusive, Critical, Renewing

\* A call that finds the lock free finds nobody in the critical section.
LEMMA LockFreeMeans ==
    ASSUME NEW b \in Tab, LockFree(b), WebLocks
    PROVE  /\ \A c \in Tab, t \in Slot : ~Critical(job[c][t])
           /\ \A c \in Tab, f \in Epoch : ~Renewing(renewal[c][f])
BY DEF LockFree, Holds, Critical, Renewing

\* One call enters when the lock is free: it is alone.
LEMMA CallEnters ==
    ASSUME NEW b \in Tab, NEW s \in Slot, LockFree(b), UNCHANGED renewal,
           \A c \in Tab, t \in Slot : c # b \/ t # s => job'[c][t] = job[c][t]
    PROVE  Exclusive'
<1>1. WebLocks => /\ \A c \in Tab, t \in Slot : Critical(job'[c][t]) => c = b /\ t = s
                  /\ \A c \in Tab, f \in Epoch : ~Renewing(renewal'[c][f])
    BY LockFreeMeans
<1> QED BY <1>1 DEF Exclusive, Critical, Renewing

\* One renewal enters when the lock is free: it is alone.
LEMMA RenewalEnters ==
    ASSUME NEW b \in Tab, NEW e \in Epoch, LockFree(b),
           \A c \in Tab, t \in Slot : Critical(job'[c][t]) => Critical(job[c][t]),
           \A c \in Tab, f \in Epoch : c # b \/ f # e => renewal'[c][f] = renewal[c][f]
    PROVE  Exclusive'
<1>1. WebLocks => /\ \A c \in Tab, t \in Slot : ~Critical(job'[c][t])
                  /\ \A c \in Tab, f \in Epoch : Renewing(renewal'[c][f]) => c = b /\ f = e
    BY LockFreeMeans
<1> QED BY <1>1 DEF Exclusive, Critical, Renewing

-----------------------------------------------------------------------------
(* The cookie. *)

\* What is not spent stays so in a step that spends nothing.
LEMMA UnspentKept ==
    ASSUME Types, ServerStep, SpendsOnly(0), NEW p \in 0..issued, Unspent(pairs, p)
    PROVE  Unspent(pairs', p)
BY RowTypes DEF SpendsOnly, Unspent

\* The renewals after a step that neither grants a session nor ends a grant,
\* and present the cookie when they present anything.
Steady ==
    \A c \in Tab, f \in Epoch :
        \/ renewal'[c][f] = renewal[c][f]
        \/ /\ ~Granted(renewal[c][f]) /\ ~Granted(renewal'[c][f])
           /\ renewal'[c][f].pc = "sent" => renewal'[c][f].cookie = cookie

\* The sign-ins that a step answers are answered with a fresh pair.
LoginsFresh ==
    \A c \in Tab, t \in Slot :
        AnsweredLogin(job'[c][t]) => job'[c][t] = job[c][t] \/ Unspent(pairs', job'[c][t].token)

\* A step that leaves the cookie alone and spends nothing keeps it fresh.
LEMMA CookieKept ==
    ASSUME Types, CookieFresh, ServerStep, SpendsOnly(0), Steady, LoginsFresh,
           cookie' = cookie, strays' \subseteq strays, lost => lost'
    PROVE  CookieFresh'
<1> SUFFICES ASSUME WebLocks, ~lost' PROVE CookieFresh'
    BY DEF CookieFresh
<1>1. /\ strays = {}
      /\ \A b \in Tab, e \in Epoch :
              /\ renewal[b][e].pc = "sent" => renewal[b][e].cookie = cookie
              /\ Granted(renewal[b][e]) => Unspent(pairs, renewal[b][e].answer)
      /\ \A b \in Tab, s \in Slot : AnsweredLogin(job[b][s]) => Unspent(pairs, job[b][s].token)
      /\ (\E b \in Tab, e \in Epoch : Granted(renewal[b][e])) \/ Unspent(pairs, cookie)
    BY DEF CookieFresh
<1>2. \A b \in Tab, e \in Epoch : renewal[b][e].answer \in 0..issued BY RowTypes DEF RenewalRow
<1>3. \A b \in Tab, s \in Slot : job[b][s].token \in 0..issued BY RowTypes DEF JobRow
<1>4. strays' = {} BY <1>1
<1>5. ASSUME NEW b \in Tab, NEW e \in Epoch
      PROVE  /\ renewal'[b][e].pc = "sent" => renewal'[b][e].cookie = cookie'
             /\ Granted(renewal'[b][e]) => Unspent(pairs', renewal'[b][e].answer)
    BY <1>1, <1>2, <1>5, UnspentKept DEF Steady
<1>6. ASSUME NEW b \in Tab, NEW s \in Slot
      PROVE  AnsweredLogin(job'[b][s]) => Unspent(pairs', job'[b][s].token)
    BY <1>1, <1>3, <1>6, UnspentKept DEF LoginsFresh
<1>7. (\E b \in Tab, e \in Epoch : Granted(renewal'[b][e])) \/ Unspent(pairs', cookie')
    <2>1. CASE Unspent(pairs, cookie) BY <2>1, UnspentKept DEF Types
    <2>2. CASE \E b \in Tab, e \in Epoch : Granted(renewal[b][e]) BY <2>2 DEF Steady
    <2> QED BY <1>1, <2>1, <2>2
<1> QED BY <1>4, <1>5, <1>6, <1>7 DEF CookieFresh, Granted, AnsweredLogin, Unspent

\* A step that replaces the cookie by one that is not spent, while no renewal
\* is under way, keeps it fresh.
LEMMA CookieReplaced ==
    ASSUME Types, CookieFresh, UNCHANGED server, LoginsFresh,
           WebLocks /\ ~lost' => /\ Unspent(pairs, cookie')
                                 /\ \A c \in Tab, f \in Epoch : ~Renewing(renewal'[c][f]),
           strays' = strays, lost' = lost
    PROVE  CookieFresh'
<1> SUFFICES ASSUME WebLocks, ~lost' PROVE CookieFresh'
    BY DEF CookieFresh
<1>1. strays = {} /\ \A b \in Tab, s \in Slot : AnsweredLogin(job[b][s]) => Unspent(pairs, job[b][s].token)
    BY DEF CookieFresh
<1>2. pairs' = pairs BY DEF server
<1>3. \A b \in Tab, s \in Slot : AnsweredLogin(job'[b][s]) => Unspent(pairs', job'[b][s].token)
    BY <1>1, <1>2 DEF LoginsFresh
<1>4. \A c \in Tab, f \in Epoch : renewal'[c][f].pc # "sent" /\ ~Granted(renewal'[c][f])
    BY DEF Renewing, Granted
<1>5. Unspent(pairs', cookie') BY <1>2
<1> QED BY <1>1, <1>3, <1>4, <1>5 DEF CookieFresh, Granted, AnsweredLogin, Unspent

-----------------------------------------------------------------------------
(* What the cookie and the lock need of each step. *)

Safe == Types /\ Shape /\ Exclusive /\ CookieFresh /\ NoFalseReplay

\* The renewals outside of the critical section may change, and stay outside.
Calm ==
    \A c \in Tab, f \in Epoch :
        renewal'[c][f] = renewal[c][f] \/ (~Renewing(renewal[c][f]) /\ ~Renewing(renewal'[c][f]))

\* A step of one call that does not enter the critical section and leaves the
\* cookie alone.
LEMMA CallStep ==
    ASSUME Safe, Types', ServerStep, SpendsOnly(0), Calm,
           NEW b \in Tab, NEW s \in Slot, NEW j, SetJob(b, s, j),
           ShapeOK(j), Critical(j) => Critical(job[b][s]), AnsweredLogin(j) => Unspent(pairs', j.token),
           UNCHANGED <<cookie, strays, lost, replayed>>
    PROVE  Safe'
<1>1. job'[b][s] = j /\ \A c \in Tab, t \in Slot : c # b \/ t # s => job'[c][t] = job[c][t]
    BY OneRow DEF Safe
<1>2. Shape' BY <1>1 DEF Shape, ShapeOK, Safe
<1>3. Exclusive'
    <2>1. \A c \in Tab, t \in Slot : Critical(job'[c][t]) => Critical(job[c][t]) BY <1>1
    <2>2. \A c \in Tab, f \in Epoch : Renewing(renewal'[c][f]) => Renewing(renewal[c][f]) BY DEF Calm
    <2> QED BY <2>1, <2>2, ExclusiveKept DEF Safe
<1>4. CookieFresh'
    <2>1. Steady BY DEF Steady, Calm, Granted, Renewing
    <2>2. LoginsFresh BY <1>1 DEF LoginsFresh
    <2> QED BY <2>1, <2>2, CookieKept DEF Safe
<1>5. NoFalseReplay' BY DEF NoFalseReplay, Safe
<1> QED BY <1>2, <1>3, <1>4, <1>5 DEF Safe

\* The cookie that a call leaves at the end of its critical section is fresh.
LEMMA CookieAfterFresh ==
    ASSUME Safe, NEW b \in Tab, NEW s \in Slot, Critical(job[b][s]), job[b][s].pc = "answered", WebLocks, ~lost
    PROVE  /\ Unspent(pairs, CookieAfter(job[b][s]))
           /\ \A c \in Tab, f \in Epoch : ~Renewing(renewal[c][f])
<1>1. \A c \in Tab, f \in Epoch : ~Renewing(renewal[c][f]) BY DEF Safe, Exclusive
<1>2. Unspent(pairs, cookie) BY <1>1 DEF Safe, CookieFresh, Granted, Renewing
<1>3. AnsweredLogin(job[b][s]) => Unspent(pairs, job[b][s].token) BY DEF Safe, CookieFresh
<1> QED BY <1>1, <1>2, <1>3 DEF CookieAfter, Unspent, AnsweredLogin, Critical, Queueing

\* A call ends; when it was in the critical section its answer may have
\* replaced the cookie.
LEMMA CallLeaves ==
    ASSUME Safe, Types', UNCHANGED <<server, renewal, strays, lost>>, NEW b \in Tab, NEW s \in Slot, Done(b, s),
           cookie' = cookie \/ (cookie' = CookieAfter(job[b][s]) /\ job[b][s].pc = "answered")
    PROVE  Safe'
<1>1. job'[b][s] = Idle /\ \A c \in Tab, t \in Slot : c # b \/ t # s => job'[c][t] = job[c][t]
    BY OneRow DEF Safe, Done
<1>2. ~Critical(Idle) /\ ~AnsweredLogin(Idle) /\ ShapeOK(Idle)
    BY AccountAssumption DEF Critical, Idle, Queueing, AnsweredLogin, ShapeOK
<1>3. ServerStep /\ SpendsOnly(0) BY ServerRests DEF Safe
<1>4. Calm BY DEF Calm
<1>5. CASE cookie' = cookie
    BY <1>2, <1>3, <1>4, <1>5, CallStep DEF Done, server
<1>6. CASE cookie' = CookieAfter(job[b][s]) /\ job[b][s].pc = "answered" /\ ~Critical(job[b][s])
    <2>1. cookie' = cookie BY <1>6 DEF CookieAfter, Critical, Queueing
    <2> QED BY <1>2, <1>3, <1>4, <2>1, CallStep DEF Done, server
<1>7. CASE cookie' = CookieAfter(job[b][s]) /\ job[b][s].pc = "answered" /\ Critical(job[b][s])
    <2>1. Shape' BY <1>1, <1>2 DEF Shape, ShapeOK, Safe
    <2>2. \A c \in Tab, t \in Slot : Critical(job'[c][t]) => Critical(job[c][t]) BY <1>1, <1>2
    <2>3. Exclusive' BY <2>2, ExclusiveKept DEF Safe
    <2>4. LoginsFresh BY <1>1, <1>2 DEF LoginsFresh
    <2>5. WebLocks /\ ~lost' => /\ Unspent(pairs, cookie')
                                /\ \A c \in Tab, f \in Epoch : ~Renewing(renewal'[c][f])
        BY <1>7, CookieAfterFresh
    <2>6. CookieFresh' BY <2>4, <2>5, CookieReplaced DEF Safe
    <2>7. NoFalseReplay' BY DEF NoFalseReplay, Safe, server
    <2> QED BY <2>1, <2>3, <2>6, <2>7 DEF Safe
<1> QED BY <1>5, <1>6, <1>7

\* What a call that is sent, or sent again, needs not the lock for.
LEMMA SendShapes ==
    ASSUME NEW n, NEW j \in JobRow(n), NEW t \in TabRow(n), ShapeOK(j), j.op \in {"request", "password", "restore"}
    PROVE  /\ ShapeOK(Send(j, t)) /\ ~Critical(Send(j, t)) /\ ~AnsweredLogin(Send(j, t))
           /\ ShapeOK(Sent(j, t)) /\ ~AnsweredLogin(Sent(j, t))
           /\ ShapeOK([j EXCEPT !.pc = "renewing"]) /\ ~Critical([j EXCEPT !.pc = "renewing"])
           /\ ~AnsweredLogin([j EXCEPT !.pc = "renewing"])
BY DEF ShapeOK, Send, Sent, Critical, Queueing, AnsweredLogin, JobRow

\* The steps of a call, each by the lemma that fits what it does.
LEMMA CallSafe ==
    ASSUME Safe, NEW b \in Tab, NEW s \in Slot, NEW op \in {"request", "password", "restore"}, Call(b, s, op)
    PROVE  Safe'
<1> DEFINE t == tab[b]
           j == [Idle EXCEPT !.op = op, !.epoch = t.epoch, !.token = t.token, !.active = t.active]
<1>1. Types' /\ ServerStep BY CallTypes DEF Safe
<1>2. SpendsOnly(0) BY ServerRests DEF Safe, Call
<1>3. t \in TabRow(issued) /\ Idle \in JobRow(issued) BY RowTypes, EmptyRows DEF Safe
<1>4. j \in JobRow(issued) /\ j.op = op /\ ShapeOK(j)
    <2>1. j \in JobRow(issued) /\ j.op = op BY <1>3 DEF JobRow, TabRow
    <2>2. j.pc = "idle" BY <1>3 DEF Idle
    <2> HIDE DEF j
    <2> QED BY <2>1, <2>2 DEF ShapeOK
<1>5. UNCHANGED <<cookie, strays, lost, replayed>> BY DEF Call, server, history
<1>6. \/ SetJob(b, s, [j EXCEPT !.pc = "renewing"]) /\ Renew(b, t.epoch, TRUE)
      \/ SetJob(b, s, Send(j, t)) /\ UNCHANGED renewal
    BY DEF Call
<1> HIDE DEF j, t
<1>7. Calm BY <1>1, <1>6, RenewQueues DEF Calm, Safe
<1>8. /\ ShapeOK(Send(j, t)) /\ ~Critical(Send(j, t)) /\ ~AnsweredLogin(Send(j, t))
      /\ ShapeOK([j EXCEPT !.pc = "renewing"]) /\ ~Critical([j EXCEPT !.pc = "renewing"])
      /\ ~AnsweredLogin([j EXCEPT !.pc = "renewing"])
    BY <1>3, <1>4, SendShapes
<1> QED BY <1>1, <1>2, <1>5, <1>6, <1>7, <1>8, CallStep

\* The lock is free when a password change is sent.
LEMMA PasswordStartsSafe ==
    ASSUME Safe, NEW b \in Tab, NEW s \in Slot, PasswordStarts(b, s)
    PROVE  Safe'
<1>1. Types' /\ ServerStep BY PasswordStartsTypes DEF Safe
<1> PICK k : k = IF MayGoOn(job[b][s], tab[b]) THEN Sent(job[b][s], tab[b]) ELSE Idle OBVIOUS
<1>2. SetJob(b, s, k) /\ LockFree(b) /\ UNCHANGED renewal BY DEF PasswordStarts
<1>3. job'[b][s] = k /\ \A c \in Tab, t \in Slot : c # b \/ t # s => job'[c][t] = job[c][t]
    BY <1>2, OneRow DEF Safe
<1>4. ShapeOK(k) /\ ~AnsweredLogin(k)
    <2>1. ShapeOK(Idle) /\ ~AnsweredLogin(Idle) BY AccountAssumption DEF ShapeOK, AnsweredLogin, Idle
    <2>2. job[b][s] \in JobRow(issued) /\ tab[b] \in TabRow(issued) /\ ShapeOK(job[b][s]) /\ job[b][s].op = "password"
        BY RowTypes DEF Safe, Shape, PasswordStarts
    <2> QED BY <2>1, <2>2, SendShapes
<1>5. Shape' BY <1>3, <1>4 DEF Shape, ShapeOK, Safe
<1>6. Exclusive' BY <1>2, <1>3, CallEnters
<1>7. CookieFresh'
    <2>1. Steady BY <1>2 DEF Steady
    <2>2. LoginsFresh BY <1>3, <1>4 DEF LoginsFresh
    <2>3. SpendsOnly(0) BY ServerRests DEF Safe, PasswordStarts
    <2>4. UNCHANGED <<cookie, strays, lost>> BY DEF PasswordStarts, history
    <2> QED BY <1>1, <2>1, <2>2, <2>3, <2>4, CookieKept DEF Safe
<1>8. NoFalseReplay' BY DEF NoFalseReplay, Safe, PasswordStarts, server, history
<1> QED BY <1>1, <1>5, <1>6, <1>7, <1>8 DEF Safe

\* An answered call stays in the critical section if it was in it.
LEMMA HandleSafe ==
    ASSUME Safe, NEW b \in Tab, NEW s \in Slot, Handle(b, s)
    PROVE  Safe'
<1>1. Types' /\ ServerStep /\ SpendsOnly(0) BY HandleTypes DEF Safe
<1> PICK j : j = job[b][s] OBVIOUS
<1> PICK a : SetJob(b, s, [j EXCEPT !.pc = "answered", !.answer = a]) BY DEF Handle
<1>2. j \in JobRow(issued) /\ j.op \in {"request", "password", "restore"} /\ j.pc = "sent"
    BY RowTypes DEF Safe, Handle
<1> DEFINE k == [j EXCEPT !.pc = "answered", !.answer = a]
<1>3. k.op = j.op /\ k.pc = "answered" BY <1>2 DEF JobRow
<1>4. SetJob(b, s, k) OBVIOUS
<1> HIDE DEF k
<1>5. ShapeOK(k) /\ (Critical(k) => Critical(j)) /\ ~AnsweredLogin(k)
    BY <1>2, <1>3 DEF ShapeOK, Critical, AnsweredLogin
<1>6. Calm /\ UNCHANGED <<cookie, strays, lost, replayed>> BY DEF Calm, Handle, history
<1> QED BY <1>1, <1>4, <1>5, <1>6, CallStep

\* A failed call leaves the section, with the cookie before or after its answer.
LEMMA CallFailsSafe ==
    ASSUME Safe, NEW b \in Tab, NEW s \in Slot, CallFails(b, s)
    PROVE  Safe'
<1>1. Types' BY CallFailsTypes DEF Safe
<1>2. cookie' = cookie \/ (cookie' = CookieAfter(job[b][s]) /\ job[b][s].pc = "answered") BY DEF CallFails
<1>3. Done(b, s) /\ UNCHANGED <<server, renewal, strays, lost>> BY DEF CallFails, history
<1> QED BY <1>1, <1>2, <1>3, CallLeaves

\* A call that succeeds leaves the section, with the cookie of its answer.
LEMMA SucceedSafe ==
    ASSUME Safe, NEW b \in Tab, NEW s \in Slot, Succeed(b, s)
    PROVE  Safe'
<1>1. Types' BY SucceedTypes DEF Safe
<1>2. cookie' = CookieAfter(job[b][s]) /\ job[b][s].pc = "answered" BY DEF Succeed
<1>3. Done(b, s) /\ UNCHANGED <<server, renewal, strays, lost>> BY DEF Succeed
<1> QED BY <1>1, <1>2, <1>3, CallLeaves

\* A call is sent again, or left, or waits for a renewal.
LEMMA Retry ==
    ASSUME Safe, Types', ServerStep, SpendsOnly(0), Calm, UNCHANGED <<cookie, strays, lost, replayed>>,
           NEW b \in Tab, NEW s \in Slot, job[b][s].op \in {"request", "password", "restore"},
           \/ SetJob(b, s, Idle)
           \/ SetJob(b, s, [job[b][s] EXCEPT !.pc = "renewing"])
           \/ SetJob(b, s, Send([job[b][s] EXCEPT !.again = TRUE], tab[b]))
    PROVE  Safe'
<1>1. ShapeOK(Idle) /\ ~AnsweredLogin(Idle) /\ ~Critical(Idle)
    BY AccountAssumption DEF ShapeOK, AnsweredLogin, Idle, Critical, Queueing
<1>2. job[b][s] \in JobRow(issued) /\ tab[b] \in TabRow(issued) /\ ShapeOK(job[b][s])
    BY RowTypes DEF Safe, Shape
<1>3. CASE SetJob(b, s, Idle) BY <1>1, <1>3, CallStep
<1>4. CASE SetJob(b, s, [job[b][s] EXCEPT !.pc = "renewing"])
    <2> PICK k : k = [job[b][s] EXCEPT !.pc = "renewing"] OBVIOUS
    <2>1. ShapeOK(k) /\ ~Critical(k) /\ ~AnsweredLogin(k) BY <1>2, SendShapes
    <2> QED BY <1>4, <2>1, CallStep
<1>5. CASE SetJob(b, s, Send([job[b][s] EXCEPT !.again = TRUE], tab[b]))
    <2> PICK j : j = [job[b][s] EXCEPT !.again = TRUE] OBVIOUS
    <2>1. j \in JobRow(issued) /\ j.op = job[b][s].op /\ ShapeOK(j)
        BY <1>2 DEF JobRow, ShapeOK
    <2> PICK k : k = Send(j, tab[b]) OBVIOUS
    <2>2. ShapeOK(k) /\ ~Critical(k) /\ ~AnsweredLogin(k) BY <1>2, <2>1, SendShapes
    <2> QED BY <1>5, <2>2, CallStep
<1> QED BY <1>3, <1>4, <1>5

\* Only calls that carry an access token are refused or renewed.
LEMMA Refusable ==
    ASSUME Safe, NEW b \in Tab, NEW s \in Slot,
           (job[b][s].pc = "answered" /\ job[b][s].answer = Denied) \/ job[b][s].pc = "renewed"
    PROVE  job[b][s].op \in {"request", "password", "restore"}
<1>1. job[b][s] \in JobRow(issued) /\ ShapeOK(job[b][s]) BY RowTypes DEF Safe, Shape
<1> QED BY <1>1, AccountAssumption DEF JobRow, ShapeOK

\* A refused call leaves the section, and queues anew if it goes again.
LEMMA DenialSafe ==
    ASSUME Safe, NEW b \in Tab, NEW s \in Slot, Denial(b, s)
    PROVE  Safe'
<1>1. Types' /\ ServerStep BY DenialTypes DEF Safe
<1>2. SpendsOnly(0) BY ServerRests DEF Safe, Denial
<1>3. renewal' = renewal \/ Renew(b, tab[b].epoch, FALSE) BY DEF Denial
<1>4. Calm BY <1>1, <1>3, RenewQueues DEF Calm, Safe
<1>5. \/ SetJob(b, s, Idle)
      \/ SetJob(b, s, [job[b][s] EXCEPT !.pc = "renewing"])
      \/ SetJob(b, s, Send([job[b][s] EXCEPT !.again = TRUE], tab[b]))
    BY DEF Denial, Done
<1>6. job[b][s].op \in {"request", "password", "restore"} BY Refusable DEF Denial
<1>7. UNCHANGED <<cookie, strays, lost, replayed>> BY DEF Denial, server, history
<1> QED BY <1>1, <1>2, <1>4, <1>5, <1>6, <1>7, Retry

\* A call refused twice leaves the section.
LEMMA SecondDenialSafe ==
    ASSUME Safe, NEW b \in Tab, NEW s \in Slot, SecondDenial(b, s)
    PROVE  Safe'
<1>1. Types' BY SecondDenialTypes DEF Safe
<1>2. Done(b, s) /\ UNCHANGED <<server, renewal, strays, lost, cookie>> BY DEF SecondDenial, history
<1> QED BY <1>1, <1>2, CallLeaves

\* A call that goes on after its renewal waits for the lock like a new one.
LEMMA ResumeSafe ==
    ASSUME Safe, NEW b \in Tab, NEW s \in Slot, Resume(b, s)
    PROVE  Safe'
<1>1. Types' /\ ServerStep BY ResumeTypes DEF Safe
<1>2. SpendsOnly(0) BY ServerRests DEF Safe, Resume
<1>3. Calm BY DEF Calm, Resume
<1>4. SetJob(b, s, Idle) \/ SetJob(b, s, Send([job[b][s] EXCEPT !.again = TRUE], tab[b]))
    BY DEF Resume, Done
<1>5. job[b][s].op \in {"request", "password", "restore"} BY Refusable DEF Resume
<1>6. UNCHANGED <<cookie, strays, lost, replayed>> BY DEF Resume, server
<1> QED BY <1>1, <1>2, <1>3, <1>4, <1>5, <1>6, Retry

\* The steps of a sign-in and a sign-out.
LEMMA SignSafe ==
    ASSUME Safe, NEW b \in Tab, NEW s \in Slot, NEW op \in {"login", "logout"}, NEW a \in Account \cup {None},
           Sign(b, s, op, a)
    PROVE  Safe'
<1> DEFINE j == [Idle EXCEPT !.op = op, !.pc = "queued", !.epoch = tab[b].epoch + 1,
                             !.token = tab[b].token, !.active = a]
<1>1. Types' /\ ServerStep BY SignTypes DEF Safe
<1>2. SpendsOnly(0) BY ServerRests DEF Safe, Sign
<1>3. j.pc = "queued" /\ j.answer = None BY DEF Idle
<1>4. SetJob(b, s, j) BY DEF Sign
<1>5. Calm /\ UNCHANGED <<cookie, strays, lost, replayed>> BY DEF Calm, Sign, server, history
<1> HIDE DEF j
<1>6. ShapeOK(j) /\ ~Critical(j) /\ ~AnsweredLogin(j)
    <2>1. j.op \in {"login", "logout"} BY DEF j, Idle
    <2> QED BY <1>3, <2>1 DEF ShapeOK, Critical, AnsweredLogin
<1> QED BY <1>1, <1>2, <1>4, <1>5, <1>6, CallStep

\* The lock is free when a sign-in or a sign-out is sent.
LEMMA SignStartsSafe ==
    ASSUME Safe, NEW b \in Tab, NEW s \in Slot, SignStarts(b, s)
    PROVE  Safe'
<1>1. Types' /\ ServerStep BY SignStartsTypes DEF Safe
<1> PICK k : k = [job[b][s] EXCEPT !.pc = "sent", !.cookie = cookie] OBVIOUS
<1>2. SetJob(b, s, k) /\ LockFree(b) /\ UNCHANGED renewal BY DEF SignStarts
<1>3. job'[b][s] = k /\ \A c \in Tab, t \in Slot : c # b \/ t # s => job'[c][t] = job[c][t]
    BY <1>2, OneRow DEF Safe
<1>4. ShapeOK(k) /\ ~AnsweredLogin(k)
    <2>1. job[b][s] \in JobRow(issued) /\ ShapeOK(job[b][s]) /\ job[b][s].op \in {"login", "logout"}
        BY RowTypes DEF Safe, Shape, SignStarts
    <2>2. k.pc = "sent" /\ k.op = job[b][s].op /\ k.answer = job[b][s].answer BY <2>1 DEF JobRow
    <2> QED BY <2>1, <2>2 DEF ShapeOK, AnsweredLogin
<1>5. Shape'
    <2>1. \A c \in Tab, t \in Slot : ShapeOK(job'[c][t]) BY <1>3, <1>4 DEF Shape, Safe
    <2> QED BY <2>1 DEF Shape, ShapeOK
<1>6. Exclusive' BY <1>2, <1>3, CallEnters
<1>7. CookieFresh'
    <2>1. Steady BY <1>2 DEF Steady
    <2>2. LoginsFresh BY <1>3, <1>4 DEF LoginsFresh
    <2>3. SpendsOnly(0) BY ServerRests DEF Safe, SignStarts
    <2>4. UNCHANGED <<cookie, strays, lost>> BY DEF SignStarts, history
    <2> QED BY <1>1, <2>1, <2>2, <2>3, <2>4, CookieKept DEF Safe
<1>8. NoFalseReplay' BY DEF NoFalseReplay, Safe, SignStarts, server, history
<1> QED BY <1>1, <1>5, <1>6, <1>7, <1>8 DEF Safe

\* What a sign-in is answered is not spent.
LEMMA LoginHandledSafe ==
    ASSUME Safe, NEW b \in Tab, NEW s \in Slot, LoginHandled(b, s)
    PROVE  Safe'
<1>1. /\ Types' /\ ServerStep /\ SpendsOnly(0)
      /\ pairs'[issued + 1].refresh = "live" /\ issued' = issued + 1
    BY LoginHandledTypes DEF Safe
<1> PICK k : k = [job[b][s] EXCEPT !.pc = "answered", !.token = issued + 1] OBVIOUS
<1>2. SetJob(b, s, k) BY DEF LoginHandled
<1>3. job[b][s] \in JobRow(issued) /\ ShapeOK(job[b][s]) /\ job[b][s].op = "login" /\ job[b][s].pc = "sent" /\ issued \in Nat
    BY RowTypes DEF Safe, Shape, LoginHandled
<1>4. k.pc = "answered" /\ k.op = "login" /\ k.answer = job[b][s].answer /\ k.token = issued + 1 BY <1>3 DEF JobRow
<1>5. ShapeOK(k) /\ Critical(job[b][s])
    <2>1. k.token # 0 BY <1>3, <1>4
    <2>2. k.answer = None BY <1>3, <1>4 DEF ShapeOK
    <2> QED BY <1>3, <1>4, <2>1, <2>2 DEF ShapeOK, Critical, Queueing
<1>6. Unspent(pairs', k.token) BY <1>1, <1>4 DEF Unspent
<1>7. Calm /\ UNCHANGED <<cookie, strays, lost, replayed>> BY DEF Calm, LoginHandled, history
<1> QED BY <1>1, <1>2, <1>5, <1>6, <1>7, CallStep

\* A sign-out spends nothing.
LEMMA LogoutHandledSafe ==
    ASSUME Safe, NEW b \in Tab, NEW s \in Slot, LogoutHandled(b, s)
    PROVE  Safe'
<1>1. Types' /\ ServerStep /\ SpendsOnly(0) BY LogoutHandledTypes DEF Safe
<1> PICK k : k = [job[b][s] EXCEPT !.pc = "answered"] OBVIOUS
<1>2. SetJob(b, s, k) BY DEF LogoutHandled
<1>3. job[b][s] \in JobRow(issued) /\ ShapeOK(job[b][s]) /\ job[b][s].op = "logout" /\ job[b][s].pc = "sent"
    BY RowTypes DEF Safe, Shape, LogoutHandled
<1>4. k.pc = "answered" /\ k.op = "logout" /\ k.answer = job[b][s].answer BY <1>3 DEF JobRow
<1>5. ShapeOK(k) /\ Critical(job[b][s]) /\ ~AnsweredLogin(k)
    BY <1>3, <1>4 DEF ShapeOK, Critical, Queueing, AnsweredLogin
<1>6. Calm /\ UNCHANGED <<cookie, strays, lost, replayed>> BY DEF Calm, LogoutHandled, history
<1> QED BY <1>1, <1>2, <1>5, <1>6, CallStep

\* The cookie of a sign-in is fresh.
LEMMA SignedInSafe ==
    ASSUME Safe, NEW b \in Tab, NEW s \in Slot, SignedIn(b, s)
    PROVE  Safe'
<1>1. Types' BY SignedInTypes DEF Safe
<1>2. cookie' = CookieAfter(job[b][s]) /\ job[b][s].pc = "answered" BY DEF SignedIn
<1>3. Done(b, s) /\ UNCHANGED <<server, renewal, strays, lost>> BY DEF SignedIn, history
<1> QED BY <1>1, <1>2, <1>3, CallLeaves

\* A sign-out clears the cookie.
LEMMA SignedOutSafe ==
    ASSUME Safe, NEW b \in Tab, NEW s \in Slot, SignedOut(b, s)
    PROVE  Safe'
<1>1. Types' BY SignedOutTypes DEF Safe
<1>2. cookie' = CookieAfter(job[b][s]) /\ job[b][s].pc = "answered" BY DEF SignedOut
<1>3. Done(b, s) /\ UNCHANGED <<server, renewal, strays, lost>> BY DEF SignedOut, history
<1> QED BY <1>1, <1>2, <1>3, CallLeaves

\* The calls that a renewal has settled or thrown are not in the critical
\* section, and no sign-in is among them.
Released ==
    \A c \in Tab, t \in Slot :
        \/ job'[c][t] = job[c][t]
        \/ ShapeOK(job'[c][t]) /\ ~Critical(job'[c][t]) /\ ~AnsweredLogin(job'[c][t])

\* Calls whose renewal failed are over.
LEMMA ThrownReleases ==
    ASSUME Types, NEW b \in Tab, NEW e, job' = Thrown(b, e)
    PROVE  Released
<1>1. ShapeOK(Idle) /\ ~AnsweredLogin(Idle) /\ ~Critical(Idle)
    BY AccountAssumption DEF ShapeOK, AnsweredLogin, Idle, Critical, Queueing
<1>2. \A c \in Tab, t \in Slot : job'[c][t] \in {job[c][t], Idle} BY ThrownRows
<1> QED BY <1>1, <1>2 DEF Released

\* Calls whose renewal was settled have left the critical section before.
LEMMA SettledReleases ==
    ASSUME Types, Shape, NEW b \in Tab, NEW e, NEW n \in 0..issued, job' = Settled(b, e, n)
    PROVE  Released
<1>1. ASSUME NEW c \in Tab, NEW t \in Slot, job[c][t].pc = "renewing"
      PROVE  LET k == Renewed(job[c][t], n) IN ShapeOK(k) /\ ~Critical(k) /\ ~AnsweredLogin(k)
    <2> PICK k : k = Renewed(job[c][t], n) OBVIOUS
    <2>1. job[c][t] \in JobRow(issued) /\ ShapeOK(job[c][t]) BY RowTypes DEF Shape
    <2> PICK a : a = IF n = 0 THEN None ELSE pairs[n].account OBVIOUS
    <2>2. a # Denied BY RowTypes, AccountAssumption
    <2>3. k = [job[c][t] EXCEPT !.pc = "renewed", !.bearer = n, !.answer = a] BY DEF Renewed
    <2>4. k.pc = "renewed" /\ k.op = job[c][t].op /\ k.answer = a BY <2>1, <2>3 DEF JobRow
    <2>5. k.op \notin {"login", "logout", "idle"} BY <1>1, <2>1, <2>4 DEF ShapeOK
    <2>6. ShapeOK(k) /\ ~Critical(k) /\ ~AnsweredLogin(k)
        BY <2>2, <2>4, <2>5 DEF ShapeOK, Critical, AnsweredLogin
    <2> QED BY <2>6
<1>2. ASSUME NEW c \in Tab, NEW t \in Slot
      PROVE  \/ job'[c][t] = job[c][t]
             \/ job[c][t].pc = "renewing" /\ job'[c][t] = Renewed(job[c][t], n)
    BY <1>2, SettledRows
<1> QED BY <1>1, <1>2 DEF Released

\* What releasing calls keeps.
LEMMA ReleasedKeeps ==
    ASSUME Shape, Released
    PROVE  /\ Shape' /\ LoginsFresh
           /\ \A c \in Tab, t \in Slot : Critical(job'[c][t]) => Critical(job[c][t])
<1>1. Shape' BY DEF Shape, ShapeOK, Released
<1> QED BY <1>1 DEF Released, LoginsFresh

\* The steps of a renewal.  It presents the cookie of the moment it gets the
\* lock.
LEMMA RenewalStartsSafe ==
    ASSUME Safe, NEW b \in Tab, NEW e \in Epoch, RenewalStarts(b, e)
    PROVE  Safe'
<1>1. Types' /\ ServerStep BY RenewalStartsTypes DEF Safe
<1>2. SpendsOnly(0) BY ServerRests DEF Safe, RenewalStarts
<1>3. job' = job \/ job' = Thrown(b, e) BY DEF RenewalStarts
<1>4. Released BY <1>3, ThrownReleases DEF Released, Safe
<1>5. Shape' /\ LoginsFresh /\ \A c \in Tab, t \in Slot : Critical(job'[c][t]) => Critical(job[c][t])
    BY <1>4, ReleasedKeeps DEF Safe
<1> PICK r : r = [renewal[b][e] EXCEPT !.pc = "sent", !.cookie = cookie] OBVIOUS
<1>6. SetRenewal(b, e, r) \/ SetRenewal(b, e, NoRenewal)
    BY DEF RenewalStarts, EndRenewal, Types, Safe, SetRenewal
<1>7. r.pc = "sent" /\ r.cookie = cookie
    <2>1. renewal[b][e] \in RenewalRow(issued) BY RowTypes DEF Safe
    <2> QED BY <2>1 DEF RenewalRow
<1>8. /\ renewal'[b][e] \in {r, NoRenewal}
      /\ \A c \in Tab, f \in Epoch : c # b \/ f # e => renewal'[c][f] = renewal[c][f]
    BY <1>6, OneRenewalRow DEF Safe
<1>9. Exclusive'
    <2>1. LockFree(b) BY DEF RenewalStarts
    <2> QED BY <1>5, <1>8, <2>1, RenewalEnters
<1>10. Steady
    <2>1. ~Granted(renewal[b][e]) BY DEF RenewalStarts, Granted
    <2>2. ~Granted(NoRenewal) /\ NoRenewal.pc # "sent" /\ ~Granted(r) BY <1>7 DEF Granted, NoRenewal
    <2> QED BY <1>7, <1>8, <2>1, <2>2 DEF Steady
<1>11. CookieFresh'
    <2>1. UNCHANGED <<cookie, strays, lost>> BY DEF RenewalStarts, history
    <2> QED BY <1>1, <1>2, <1>5, <1>10, <2>1, CookieKept DEF Safe
<1>12. NoFalseReplay' BY DEF NoFalseReplay, Safe, RenewalStarts, server, history
<1> QED BY <1>1, <1>5, <1>9, <1>11, <1>12 DEF Safe

\* The cookie that a renewal presents is not spent, so the server grants or
\* refuses it and reports no replay; what it grants is fresh.
LEMMA RenewalHandledSafe ==
    ASSUME Safe, NEW b \in Tab, NEW e \in Epoch, RenewalHandled(b, e)
    PROVE  Safe'
<1>1. Types' /\ ServerStep BY RenewalHandledTypes DEF Safe
<1>0. PICK n : /\ Rotate(renewal[b][e].cookie, n)
               /\ renewal' = [renewal EXCEPT ![b][e].pc = "answered", ![b][e].answer = n]
    BY DEF RenewalHandled
<1> DEFINE r == [renewal[b][e] EXCEPT !.pc = "answered", !.answer = n]
<1>2. renewal[b][e] \in RenewalRow(issued) /\ renewal[b][e].pc = "sent" /\ renewal[b][e].cookie \in 0..issued
    BY RowTypes DEF RenewalRow, Safe, RenewalHandled
<1>3. r.pc = "answered" /\ r.answer = n BY <1>2 DEF RenewalRow
<1>4. renewal'[b][e] = r /\ \A c \in Tab, f \in Epoch : c # b \/ f # e => renewal'[c][f] = renewal[c][f]
    <2>1. SetRenewal(b, e, r) BY <1>0 DEF Types, Safe, SetRenewal
    <2> HIDE DEF r
    <2> QED BY <2>1, OneRenewalRow DEF Safe
<1>5. UNCHANGED <<cookie, tab, job, strays, lost>> BY DEF RenewalHandled, history
<1>6. Shape' BY <1>5 DEF Shape, ShapeOK, Safe
<1>7. Exclusive'
    <2>1. \A c \in Tab, f \in Epoch : Renewing(renewal'[c][f]) => Renewing(renewal[c][f])
        BY <1>2, <1>4 DEF Renewing
    <2> QED BY <1>5, <2>1, ExclusiveKept DEF Safe
<1>8. /\ n \in 0..issued' /\ (n = 0 => SpendsOnly(0)) /\ (n # 0 => pairs'[n].refresh = "live")
      /\ replayed' => replayed \/ ~Unspent(pairs, renewal[b][e].cookie)
    BY <1>0, <1>2, RotateServer DEF Safe
<1> HIDE DEF r
<1>9. ASSUME WebLocks, ~lost
      PROVE  /\ renewal[b][e].cookie = cookie /\ Unspent(pairs, cookie) /\ strays = {}
             /\ \A c \in Tab, t \in Slot : ~AnsweredLogin(job[c][t])
             /\ \A c \in Tab, f \in Epoch : c # b \/ f # e => ~Renewing(renewal[c][f])
    <2>1. Renewing(renewal[b][e]) /\ ~Granted(renewal[b][e]) BY <1>2 DEF Renewing, Granted
    <2>2. \A c \in Tab, f \in Epoch : c # b \/ f # e => ~Renewing(renewal[c][f])
        BY <1>9, <2>1 DEF Safe, Exclusive
    <2>3. \A c \in Tab, f \in Epoch : ~Granted(renewal[c][f]) BY <2>1, <2>2 DEF Granted, Renewing
    <2>4. \A c \in Tab, t \in Slot : ~Critical(job[c][t]) BY <1>9, <2>1 DEF Safe, Exclusive
    <2>5. \A c \in Tab, t \in Slot : ~AnsweredLogin(job[c][t]) BY <2>4 DEF AnsweredLogin, Critical, Queueing
    <2>6. renewal[b][e].cookie = cookie /\ strays = {} BY <1>2, <1>9 DEF Safe, CookieFresh
    <2>7. Unspent(pairs, cookie) BY <1>9, <2>3 DEF Safe, CookieFresh
    <2> QED BY <2>2, <2>5, <2>6, <2>7
<1>10. CookieFresh'
    <2> SUFFICES ASSUME WebLocks, ~lost' PROVE CookieFresh'
        BY DEF CookieFresh
    <2>1. /\ Unspent(pairs, cookie) /\ strays' = {}
          /\ \A c \in Tab, t \in Slot : ~AnsweredLogin(job'[c][t])
          /\ \A c \in Tab, f \in Epoch : c # b \/ f # e => ~Renewing(renewal'[c][f])
        BY <1>4, <1>5, <1>9
    <2>2. \A c \in Tab, f \in Epoch : renewal'[c][f].pc # "sent" BY <1>3, <1>4, <2>1 DEF Renewing
    <2>3. \A c \in Tab, f \in Epoch : Granted(renewal'[c][f]) => Unspent(pairs', renewal'[c][f].answer)
        <3>1. SUFFICES ASSUME NEW c \in Tab, NEW f \in Epoch, Granted(renewal'[c][f])
                       PROVE  Unspent(pairs', renewal'[c][f].answer)
            OBVIOUS
        <3>2. Renewing(renewal'[c][f]) BY <3>1 DEF Granted, Renewing
        <3>3. c = b /\ f = e BY <2>1, <3>2
        <3>4. n # 0 /\ renewal'[c][f].answer = n BY <1>3, <1>4, <3>1, <3>3 DEF Granted
        <3> QED BY <1>8, <3>4 DEF Unspent
    <2>4. (\E c \in Tab, f \in Epoch : Granted(renewal'[c][f])) \/ Unspent(pairs', cookie')
        <3>1. CASE n # 0
            <4>1. Granted(renewal'[b][e]) BY <1>3, <1>4, <3>1 DEF Granted
            <4> QED BY <4>1
        <3>2. CASE n = 0
            <4>1. Unspent(pairs', cookie) BY <1>1, <1>8, <2>1, <3>2, UnspentKept DEF Safe, Types
            <4> QED BY <1>5, <4>1
        <3> QED BY <3>1, <3>2
    <2> QED BY <2>1, <2>2, <2>3, <2>4 DEF CookieFresh, Granted, AnsweredLogin, Unspent
<1>11. NoFalseReplay'
    <2> SUFFICES ASSUME WebLocks, replayed', ~lost' PROVE FALSE
        BY DEF NoFalseReplay
    <2>1. ~lost /\ Unspent(pairs, renewal[b][e].cookie) BY <1>5, <1>9
    <2>2. replayed BY <1>8, <2>1
    <2> QED BY <2>1, <2>2 DEF Safe, NoFalseReplay
<1> QED BY <1>1, <1>6, <1>7, <1>10, <1>11 DEF Safe

\* A renewal that ends leaves the critical section empty, with the cookie it
\* was granted or none.
LEMMA RenewalEnds ==
    ASSUME Safe, Types', Released, NEW b \in Tab, NEW e \in Epoch, Renewing(renewal[b][e]), EndRenewal(b, e),
           WebLocks /\ ~lost => Unspent(pairs, cookie'),
           UNCHANGED <<server, strays, lost>>
    PROVE  Safe'
<1>1. renewal'[b][e] = NoRenewal /\ \A c \in Tab, f \in Epoch : c # b \/ f # e => renewal'[c][f] = renewal[c][f]
    <2>1. SetRenewal(b, e, NoRenewal) BY DEF EndRenewal, SetRenewal
    <2> QED BY <2>1, OneRenewalRow DEF Safe
<1>2. ~Renewing(NoRenewal) BY DEF Renewing, NoRenewal
<1>3. Shape' /\ LoginsFresh /\ \A c \in Tab, t \in Slot : Critical(job'[c][t]) => Critical(job[c][t])
    BY ReleasedKeeps DEF Safe
<1>4. Exclusive'
    <2>1. \A c \in Tab, f \in Epoch : Renewing(renewal'[c][f]) => Renewing(renewal[c][f]) BY <1>1, <1>2
    <2> QED BY <1>3, <2>1, ExclusiveKept DEF Safe
<1>5. WebLocks => \A c \in Tab, f \in Epoch : ~Renewing(renewal'[c][f])
    <2>1. ASSUME WebLocks, NEW c \in Tab, NEW f \in Epoch, Renewing(renewal'[c][f]) PROVE FALSE
        <3>1. c # b \/ f # e BY <1>1, <1>2, <2>1
        <3>2. Renewing(renewal[c][f]) BY <1>1, <2>1, <3>1
        <3> QED BY <2>1, <3>1, <3>2 DEF Safe, Exclusive
    <2> QED BY <2>1
<1>6. CookieFresh' BY <1>3, <1>5, CookieReplaced DEF Safe
<1>7. NoFalseReplay' BY DEF NoFalseReplay, Safe, server
<1> QED BY <1>3, <1>4, <1>6, <1>7 DEF Safe

\* The cookie of a granted renewal replaces the one it spent.
LEMMA RenewalAcceptedSafe ==
    ASSUME Safe, NEW b \in Tab, NEW e \in Epoch, RenewalAccepted(b, e)
    PROVE  Safe'
<1> PICK n : n = renewal[b][e].answer OBVIOUS
<1>1. Types' BY RenewalAcceptedTypes DEF Safe
<1>2. /\ renewal[b][e].pc = "answered" /\ n # 0 /\ cookie' = n /\ EndRenewal(b, e)
      /\ UNCHANGED <<server, strays, lost>>
    BY DEF RenewalAccepted, history
<1>3. n \in 0..issued BY RowTypes DEF RenewalRow, Safe
<1>4. job' = Thrown(b, e) \/ job' = Settled(b, e, n) BY DEF RenewalAccepted
<1>5. Released BY <1>3, <1>4, ThrownReleases, SettledReleases DEF Safe
<1>6. Renewing(renewal[b][e]) /\ Granted(renewal[b][e]) BY <1>2 DEF Renewing, Granted
<1>7. WebLocks /\ ~lost => Unspent(pairs, cookie') BY <1>2, <1>6 DEF Safe, CookieFresh
<1> QED BY <1>1, <1>2, <1>5, <1>6, <1>7, RenewalEnds

\* A refused renewal clears the cookie.
LEMMA RenewalDeniedSafe ==
    ASSUME Safe, NEW b \in Tab, NEW e \in Epoch, RenewalDenied(b, e)
    PROVE  Safe'
<1>1. Types' BY RenewalDeniedTypes DEF Safe
<1>2. /\ renewal[b][e].pc = "answered" /\ cookie' = 0 /\ EndRenewal(b, e)
      /\ UNCHANGED <<server, strays, lost>>
    BY DEF RenewalDenied, history
<1>3. job' = Thrown(b, e) \/ job' = Settled(b, e, 0) BY DEF RenewalDenied
<1>4. 0 \in 0..issued BY RowTypes DEF Safe
<1>5. Released BY <1>3, <1>4, ThrownReleases, SettledReleases DEF Safe
<1>6. Renewing(renewal[b][e]) /\ Unspent(pairs, cookie') BY <1>2 DEF Renewing, Unspent
<1> QED BY <1>1, <1>2, <1>5, <1>6, RenewalEnds

\* After a lost answer the cookie is not spoken for.
LEMMA LostSafe ==
    ASSUME Safe, Types', Shape', Exclusive', lost'
    PROVE  Safe'
BY DEF Safe, CookieFresh, NoFalseReplay

\* A lost renewal is remembered as lost.
LEMMA RenewalLostSafe ==
    ASSUME Safe, NEW b \in Tab, NEW e \in Epoch, RenewalLost(b, e)
    PROVE  Safe'
<1>1. Types' BY RenewalLostTypes DEF Safe
<1>2. job' = Thrown(b, e) /\ lost' BY DEF RenewalLost
<1>3. SetRenewal(b, e, NoRenewal) BY DEF RenewalLost, EndRenewal, SetRenewal
<1>4. renewal'[b][e] = NoRenewal /\ \A c \in Tab, f \in Epoch : c # b \/ f # e => renewal'[c][f] = renewal[c][f]
    BY <1>3, OneRenewalRow DEF Safe
<1>5. Released BY <1>2, ThrownReleases DEF Safe
<1>6. Shape' /\ \A c \in Tab, t \in Slot : Critical(job'[c][t]) => Critical(job[c][t])
    BY <1>5, ReleasedKeeps DEF Safe
<1>7. \A c \in Tab, f \in Epoch : Renewing(renewal'[c][f]) => Renewing(renewal[c][f])
    BY <1>4 DEF Renewing, NoRenewal
<1>8. Exclusive' BY <1>6, <1>7, ExclusiveKept DEF Safe
<1> QED BY <1>1, <1>2, <1>6, <1>8, LostSafe

\* Only a lost answer leaves a request that nobody waits for.
LEMMA StrayHandledSafe ==
    ASSUME Safe, NEW p \in Pair \cup {0}, StrayHandled(p)
    PROVE  Safe'
<1>1. Types' BY StrayHandledTypes DEF Safe
<1>2. UNCHANGED <<job, renewal, lost>> /\ strays # {} BY DEF StrayHandled, history
<1>3. Shape' BY <1>2 DEF Shape, ShapeOK, Safe
<1>4. Exclusive' BY <1>2, ExclusiveKept DEF Safe
<1>5. CASE WebLocks
    <2>1. lost' BY <1>2, <1>5 DEF Safe, CookieFresh
    <2> QED BY <1>1, <1>3, <1>4, <2>1, LostSafe
<1>6. CASE ~WebLocks
    BY <1>1, <1>3, <1>4, <1>6 DEF Safe, CookieFresh, NoFalseReplay
<1> QED BY <1>5, <1>6

\* A reload that interrupts no renewal loses none.
LEMMA ReloadSafe ==
    ASSUME Safe, NEW b \in Tab, Reload(b)
    PROVE  Safe'
<1>1. Types' /\ ServerStep BY ReloadTypes DEF Safe
<1>2. SpendsOnly(0) BY ServerRests DEF Safe, Reload
<1>3. ShapeOK(Idle) /\ ~AnsweredLogin(Idle) /\ ~Critical(Idle)
    BY AccountAssumption DEF ShapeOK, AnsweredLogin, Idle, Critical, Queueing
<1>4. \A c \in Tab, t \in Slot : job'[c][t] \in {job[c][t], Idle} BY DEF Reload, Safe, Types
<1>5. Released BY <1>3, <1>4 DEF Released
<1>6. Shape' /\ LoginsFresh /\ \A c \in Tab, t \in Slot : Critical(job'[c][t]) => Critical(job[c][t])
    BY <1>5, ReleasedKeeps DEF Safe
<1>7. /\ \A f \in Epoch : renewal'[b][f] = NoRenewal
      /\ \A c \in Tab, f \in Epoch : c # b => renewal'[c][f] = renewal[c][f]
    BY DEF Reload, Safe, Types
<1>8. \A c \in Tab, f \in Epoch : Renewing(renewal'[c][f]) => Renewing(renewal[c][f])
    BY <1>7 DEF Renewing, NoRenewal
<1>9. Exclusive' BY <1>6, <1>8, ExclusiveKept DEF Safe
<1>10. CASE \E e \in Epoch : Renewing(renewal[b][e])
    <2>1. lost' BY <1>10 DEF Reload, Renewing
    <2> QED BY <1>1, <1>6, <1>9, <2>1, LostSafe
<1>11. CASE \A e \in Epoch : ~Renewing(renewal[b][e])
    <2>1. strays' = strays BY <1>11 DEF Reload, Renewing
    <2>2. cookie' = cookie /\ UNCHANGED server /\ (lost => lost') /\ (lost' => lost)
        BY <1>11 DEF Reload, Renewing
    <2>3. Steady BY <1>7, <1>11 DEF Steady, Granted, Renewing, NoRenewal
    <2>4. CookieFresh' BY <1>1, <1>2, <1>6, <2>1, <2>2, <2>3, CookieKept DEF Safe
    <2>5. NoFalseReplay' BY <2>2 DEF NoFalseReplay, Safe, server
    <2> QED BY <1>1, <1>6, <1>9, <2>4, <2>5 DEF Safe
<1> QED BY <1>10, <1>11

\* Expiry of an access token concerns no cookie.
LEMMA ExpireSafe ==
    ASSUME Safe, NEW p \in Pair, Expire(p)
    PROVE  Safe'
<1>1. Types' /\ ServerStep /\ SpendsOnly(0) BY ExpireTypes DEF Safe
<1>2. UNCHANGED <<job, renewal, cookie, strays, lost, replayed>> BY DEF Expire, history
<1>3. Shape' BY <1>2 DEF Shape, ShapeOK, Safe
<1>4. Exclusive' BY <1>2, ExclusiveKept DEF Safe
<1>5. CookieFresh'
    <2>1. Steady /\ LoginsFresh BY <1>2 DEF Steady, LoginsFresh
    <2> QED BY <1>1, <1>2, <2>1, CookieKept DEF Safe
<1>6. NoFalseReplay' BY <1>2 DEF NoFalseReplay, Safe
<1> QED BY <1>1, <1>3, <1>4, <1>5, <1>6 DEF Safe

\* Every step keeps the cookie fresh and the lock exclusive.
LEMMA SafeNext ==
    ASSUME Safe, Next
    PROVE  Safe'
<1>1. ASSUME NEW b \in Tab, NEW s \in Slot, NEW op \in {"request", "password", "restore"}, Call(b, s, op)
      PROVE  Safe'
    BY <1>1, CallSafe
<1>2. ASSUME NEW b \in Tab, NEW s \in Slot, NEW a \in Account, Sign(b, s, "login", a) PROVE Safe'
    BY <1>2, SignSafe
<1>3. ASSUME NEW b \in Tab, NEW s \in Slot, Sign(b, s, "logout", None) PROVE Safe'
    BY <1>3, SignSafe
<1>4. ASSUME NEW b \in Tab, NEW s \in Slot, CallFails(b, s) PROVE Safe'
    BY <1>4, CallFailsSafe
<1>5. ASSUME NEW b \in Tab, NEW s \in Slot,
             \/ PasswordStarts(b, s) \/ Handle(b, s) \/ Succeed(b, s) \/ Denial(b, s)
             \/ SecondDenial(b, s) \/ Resume(b, s)
      PROVE  Safe'
    BY <1>5, PasswordStartsSafe, HandleSafe, SucceedSafe, DenialSafe, SecondDenialSafe, ResumeSafe
<1>6. ASSUME NEW b \in Tab, NEW s \in Slot,
             \/ SignStarts(b, s) \/ LoginHandled(b, s) \/ LogoutHandled(b, s)
             \/ SignedIn(b, s) \/ SignedOut(b, s)
      PROVE  Safe'
    BY <1>6, SignStartsSafe, LoginHandledSafe, LogoutHandledSafe, SignedInSafe, SignedOutSafe
<1>7. ASSUME NEW b \in Tab, NEW e \in Epoch,
             \/ RenewalStarts(b, e) \/ RenewalHandled(b, e) \/ RenewalAccepted(b, e) \/ RenewalDenied(b, e)
             \/ RenewalLost(b, e)
      PROVE  Safe'
    BY <1>7, RenewalStartsSafe, RenewalHandledSafe, RenewalAcceptedSafe, RenewalDeniedSafe, RenewalLostSafe
<1>8. ASSUME NEW b \in Tab, Reload(b) PROVE Safe'
    BY <1>8, ReloadSafe
<1>9. ASSUME NEW p \in Pair, Expire(p) PROVE Safe'
    BY <1>9, ExpireSafe
<1>10. ASSUME NEW p \in Pair \cup {0}, StrayHandled(p) PROVE Safe'
    BY <1>10, StrayHandledSafe
<1> QED BY <1>1, <1>2, <1>3, <1>4, <1>5, <1>6, <1>7, <1>8, <1>9, <1>10 DEF Next, Progress

-----------------------------------------------------------------------------
(* The account a tab and its calls act for. *)

\* Rows that a step leaves alone keep their account, and the others need to
\* have theirs.
LEMMA ContextKept ==
    ASSUME Types, Context, ServerStep, overtaken => overtaken',
           ~overtaken' => \A b \in Tab : tab'[b] = tab[b] \/ TabOK(tab'[b], pairs'),
           ~overtaken' => \A b \in Tab, s \in Slot : job'[b][s] = job[b][s] \/ JobOK(job'[b][s], pairs')
    PROVE  Context'
<1> SUFFICES ASSUME ~overtaken' PROVE Context'
    BY DEF Context
<1>1. \A q \in 1..issued : pairs'[q].account = pairs[q].account BY DEF ServerStep
<1>2. ASSUME NEW b \in Tab PROVE TabOK(tab'[b], pairs')
    <2>1. tab[b].token \in 0..issued BY RowTypes DEF TabRow
    <2>2. TabOK(tab[b], pairs) BY <1>2 DEF Context
    <2>3. TabOK(tab[b], pairs') BY <1>1, <2>1, <2>2, RowTypes DEF TabOK
    <2> QED BY <1>2, <2>3
<1>3. ASSUME NEW b \in Tab, NEW s \in Slot PROVE JobOK(job'[b][s], pairs')
    <2>1. job[b][s].token \in 0..issued /\ job[b][s].bearer \in 0..issued BY RowTypes DEF JobRow
    <2>2. JobOK(job[b][s], pairs) BY <1>3 DEF Context
    <2>3. JobOK(job[b][s], pairs') BY <1>1, <2>1, <2>2, RowTypes DEF JobOK
    <2> QED BY <1>3, <2>3
<1> QED BY <1>2, <1>3 DEF Context, TabOK, JobOK

\* What needs no account.
LEMMA NoAccount ==
    ASSUME NEW P
    PROVE  /\ JobOK(Idle, P)
           /\ \A j : j.op \in {"login", "logout"} => JobOK(j, P)
           /\ \A t : t.active = None => TabOK(t, P)
BY DEF JobOK, Idle, TabOK

\* Operators on a tab that leave it with the account of its token.
LEMMA TabAccounts ==
    ASSUME Types, NEW t \in TabRow(issued), TabOK(t, pairs), NEW e
    PROVE  /\ TabOK(Expired(t, e), pairs)
           /\ \A n \in 1..issued : TabOK(Accepted(t, n, e), pairs)
           /\ \A a : (a \in Account /\ e = t.epoch => t.token # 0 /\ pairs[t.token].account = a) /\ a \in Account \cup {None}
                        => TabOK(Restored(t, a, e), pairs)
<1>1. TabOK(Expired(t, e), pairs)
    <2>1. Cleared(t).active = None BY DEF Cleared, TabRow
    <2> QED BY <2>1 DEF Expired, TabOK
<1>2. ASSUME NEW n \in 1..issued PROVE TabOK(Accepted(t, n, e), pairs)
    <2> PICK a : a = pairs[n].account OBVIOUS
    <2> DEFINE u == [t EXCEPT !.token = n, !.active = a]
    <2>1. u.token = n /\ u.active = a BY DEF TabRow
    <2>2. Accepted(t, n, e) \in {t, u} BY DEF Accepted
    <2> HIDE DEF u
    <2>3. n # 0 BY <1>2, RowTypes
    <2>4. TabOK(u, pairs) BY <2>1, <2>3 DEF TabOK
    <2> QED BY <2>2, <2>4
<1>3. ASSUME NEW a \in Account \cup {None}, a \in Account /\ e = t.epoch => t.token # 0 /\ pairs[t.token].account = a
      PROVE  TabOK(Restored(t, a, e), pairs)
    <2> DEFINE u == [t EXCEPT !.active = a]
    <2>1. u.token = t.token /\ u.active = a BY DEF TabRow
    <2>2. Restored(t, a, e) = IF e # t.epoch THEN t ELSE u BY DEF Restored
    <2> HIDE DEF u
    <2>3. e = t.epoch => TabOK(u, pairs) BY <1>3, <2>1 DEF TabOK
    <2> QED BY <2>2, <2>3
<1> QED BY <1>1, <1>2, <1>3

\* A call that is sent, or sent again, by a tab it may go on in goes as the
\* account it was made for.
LEMMA SendAccounts ==
    ASSUME Types, NEW j \in JobRow(issued), NEW t \in TabRow(issued), TabOK(t, pairs), JobOK(j, pairs),
           MayGoOn(j, t)
    PROVE  JobOK(Sent(j, t), pairs) /\ JobOK(Send([j EXCEPT !.again = TRUE], t), pairs)
<1>1. j.op \in {"request", "password"} => t.token # 0 /\ pairs[t.token].account = j.active
    BY DEF JobOK, TabOK, MayGoOn
<1>2. ASSUME NEW k \in JobRow(issued), k.op = j.op, k.token = j.token, k.active = j.active
      PROVE  JobOK(Sent(k, t), pairs) /\ JobOK([k EXCEPT !.pc = "queued"], pairs)
    <2> DEFINE u == Sent(k, t)
               v == [k EXCEPT !.pc = "queued"]
    <2>1. /\ u.op = j.op /\ u.token = j.token /\ u.active = j.active /\ u.pc = "sent" /\ u.bearer = t.token
          /\ v.op = j.op /\ v.token = j.token /\ v.active = j.active /\ v.pc = "queued"
        BY <1>2 DEF Sent, JobRow
    <2> HIDE DEF u, v
    <2>2. JobOK(u, pairs) /\ JobOK(v, pairs) BY <1>1, <2>1 DEF JobOK
    <2> QED BY <2>2 DEF u, v
<1>3. JobOK(Sent(j, t), pairs) BY <1>2
<1>4. JobOK(Send([j EXCEPT !.again = TRUE], t), pairs)
    <2> PICK k : k = [j EXCEPT !.again = TRUE] OBVIOUS
    <2>1. k \in JobRow(issued) /\ k.op = j.op /\ k.token = j.token /\ k.active = j.active BY DEF JobRow
    <2>2. JobOK(Send(k, t), pairs) BY <1>2, <2>1 DEF Send
    <2> QED BY <2>2
<1> QED BY <1>3, <1>4

\* A step of one call, and perhaps of its tab, that leaves the pairs alone.
LEMMA ContextOfCall ==
    ASSUME Types, Context, UNCHANGED server, overtaken => overtaken',
           NEW b \in Tab, NEW s \in Slot, NEW j, SetJob(b, s, j), ~overtaken' => JobOK(j, pairs),
           NEW t, SetTab(b, t), ~overtaken' => TabOK(t, pairs)
    PROVE  Context'
<1>1. ServerStep /\ pairs' = pairs BY ServerRests DEF server
<1>2. job'[b][s] = j /\ \A c \in Tab, r \in Slot : c # b \/ r # s => job'[c][r] = job[c][r] BY OneRow
<1>3. tab'[b] = t /\ \A c \in Tab : c # b => tab'[c] = tab[c] BY OneRow
<1>4. ~overtaken' => \A c \in Tab : tab'[c] = tab[c] \/ TabOK(tab'[c], pairs') BY <1>1, <1>3
<1>5. ~overtaken' => \A c \in Tab, r \in Slot : job'[c][r] = job[c][r] \/ JobOK(job'[c][r], pairs') BY <1>1, <1>2
<1> QED BY <1>1, <1>4, <1>5, ContextKept

\* A tab that stays the same.
LEMMA SameTab ==
    ASSUME Types, NEW b \in Tab, UNCHANGED tab
    PROVE  SetTab(b, tab[b])
BY DEF Types, SetTab

\* The rows of a tab and a call have their accounts.
LEMMA RowAccounts ==
    ASSUME Types, Context, ~overtaken, NEW b \in Tab
    PROVE  /\ tab[b] \in TabRow(issued) /\ TabOK(tab[b], pairs)
           /\ \A s \in Slot : job[b][s] \in JobRow(issued) /\ JobOK(job[b][s], pairs)
BY RowTypes DEF Context

\* The steps of a call.
LEMMA CallContext ==
    ASSUME Types, Context, NEW b \in Tab, NEW s \in Slot, NEW op \in {"request", "password", "restore"}, Call(b, s, op)
    PROVE  Context'
<1> DEFINE t == tab[b]
           j == [Idle EXCEPT !.op = op, !.epoch = t.epoch, !.token = t.token, !.active = t.active]
<1>1. SetTab(b, t) /\ UNCHANGED <<server, overtaken>> BY SameTab DEF Call, history
<1>2. \/ SetJob(b, s, [j EXCEPT !.pc = "renewing"]) /\ op = "restore"
      \/ SetJob(b, s, Send(j, t))
    BY DEF Call
<1>3. op # "restore" => t.active # None BY DEF Call
<1>4. j \in JobRow(issued) /\ j.op = op /\ j.token = t.token /\ j.active = t.active /\ t \in TabRow(issued)
    <2>1. t \in TabRow(issued) /\ Idle \in JobRow(issued) BY RowTypes, EmptyRows
    <2> QED BY <2>1 DEF JobRow, TabRow
<1>5. ASSUME ~overtaken
      PROVE  TabOK(t, pairs) /\ JobOK(Send(j, t), pairs) /\ (op = "restore" => JobOK([j EXCEPT !.pc = "renewing"], pairs))
    <2>1. TabOK(t, pairs) BY <1>5, RowAccounts
    <2> HIDE DEF j, t
    <2> DEFINE u == Sent(j, t)
               v == [j EXCEPT !.pc = "queued"]
               w == [j EXCEPT !.pc = "renewing"]
    <2>2. /\ u.op = op /\ u.token = j.token /\ u.active = j.active /\ u.pc = "sent" /\ u.bearer = t.token
          /\ v.op = op /\ v.token = j.token /\ v.active = j.active /\ v.pc = "queued"
          /\ w.op = op /\ w.pc = "renewing"
        BY <1>4 DEF Sent, JobRow
    <2>3. Send(j, t) \in {u, v} BY DEF Send
    <2> HIDE DEF u, v, w
    <2>4. JobOK(u, pairs) /\ JobOK(v, pairs) BY <1>3, <1>4, <2>1, <2>2 DEF JobOK, TabOK
    <2>5. op = "restore" => JobOK(w, pairs) BY <2>2 DEF JobOK
    <2>6. JobOK(Send(j, t), pairs) BY <2>3, <2>4
    <2> QED BY <2>1, <2>5, <2>6 DEF w
<1> HIDE DEF j, t
<1> QED BY <1>1, <1>2, <1>5, ContextOfCall

\* A password change is sent as the account it was made for, or dropped.
LEMMA PasswordStartsContext ==
    ASSUME Types, Context, NEW b \in Tab, NEW s \in Slot, PasswordStarts(b, s)
    PROVE  Context'
<1> PICK k : k = IF MayGoOn(job[b][s], tab[b]) THEN Sent(job[b][s], tab[b]) ELSE Idle OBVIOUS
<1>1. SetTab(b, tab[b]) /\ SetJob(b, s, k) /\ UNCHANGED <<server, overtaken>>
    BY SameTab DEF PasswordStarts, history
<1>2. ASSUME ~overtaken PROVE TabOK(tab[b], pairs) /\ JobOK(k, pairs)
    <2>1. /\ tab[b] \in TabRow(issued) /\ TabOK(tab[b], pairs)
          /\ job[b][s] \in JobRow(issued) /\ JobOK(job[b][s], pairs)
        BY <1>2, RowAccounts
    <2>2. MayGoOn(job[b][s], tab[b]) => JobOK(Sent(job[b][s], tab[b]), pairs) BY <2>1, SendAccounts
    <2> QED BY <2>1, <2>2, NoAccount
<1> QED BY <1>1, <1>2, ContextOfCall

\* The answer is for the account of the bearer.
LEMMA HandleContext ==
    ASSUME Types, Context, NEW b \in Tab, NEW s \in Slot, Handle(b, s)
    PROVE  Context'
<1> DEFINE j == job[b][s]
           accepted == j.bearer # 0 /\ pairs[j.bearer].access
           a == IF accepted THEN pairs[j.bearer].account ELSE Denied
           k == [j EXCEPT !.pc = "answered", !.answer = a]
<1>1. ServerStep BY HandleTypes
<1>2. SetJob(b, s, k) /\ UNCHANGED <<tab, overtaken>> /\ j.pc = "sent" BY DEF Handle, history
<1>3. j \in JobRow(issued) BY RowTypes
<1>4. a \in Account => j.bearer # 0 /\ pairs[j.bearer].account = a BY AccountAssumption
<1> HIDE DEF a
<1>5. k.op = j.op /\ k.pc = "answered" /\ k.bearer = j.bearer /\ k.token = j.token /\ k.active = j.active /\ k.answer = a
    BY <1>3 DEF JobRow
<1>6. j.bearer \in 0..issued /\ j.token \in 0..issued BY <1>3 DEF JobRow
<1> HIDE DEF j, k
<1>7. \A q \in 1..issued : pairs'[q].account = pairs[q].account BY <1>1 DEF ServerStep
<1>8. ASSUME ~overtaken PROVE JobOK(k, pairs')
    <2>1. JobOK(j, pairs) BY <1>8, RowAccounts DEF j
    <2>2. JobOK(k, pairs) BY <1>2, <1>4, <1>5, <2>1 DEF JobOK
    <2> QED BY <1>5, <1>6, <1>7, <2>2, RowTypes DEF JobOK
<1>9. job'[b][s] = k /\ \A c \in Tab, r \in Slot : c # b \/ r # s => job'[c][r] = job[c][r] BY <1>2, OneRow
<1>10. ~overtaken' => \A c \in Tab, r \in Slot : job'[c][r] = job[c][r] \/ JobOK(job'[c][r], pairs')
    BY <1>2, <1>8, <1>9
<1> QED BY <1>1, <1>2, <1>10, ContextKept

\* A failed call acts for nobody any more.
LEMMA CallFailsContext ==
    ASSUME Types, Context, NEW b \in Tab, NEW s \in Slot, CallFails(b, s)
    PROVE  Context'
<1>1. SetTab(b, tab[b]) /\ SetJob(b, s, Idle) /\ UNCHANGED <<server, overtaken>>
    BY SameTab DEF CallFails, history, Done
<1> QED BY <1>1, RowAccounts, NoAccount, ContextOfCall

\* A restore that ends with the tab's token names that token's account.
LEMMA SucceedContext ==
    ASSUME Types, Context, NEW b \in Tab, NEW s \in Slot, Succeed(b, s)
    PROVE  Context'
<1> DEFINE j == job[b][s]
           t == tab[b]
           u == CASE j.op = "restore" -> Restored(t, j.answer, j.epoch)
                  [] j.op = "password" -> Expired(t, j.epoch)
                  [] OTHER -> t
<1>1. SetTab(b, u) /\ SetJob(b, s, Idle) /\ UNCHANGED server /\ j.pc = "answered" /\ j.answer \in Account
    BY DEF Succeed, Done
<1>2. overtaken' = (overtaken \/ (j.op = "restore" /\ j.epoch = t.epoch /\ j.bearer # t.token))
    BY DEF Succeed
<1>3. ASSUME ~overtaken' PROVE TabOK(u, pairs)
    <2>1. ~overtaken /\ (j.op = "restore" /\ j.epoch = t.epoch => j.bearer = t.token) BY <1>2, <1>3
    <2>2. t \in TabRow(issued) /\ TabOK(t, pairs) /\ JobOK(j, pairs) BY <2>1, RowAccounts
    <2> HIDE DEF j, t
    <2>3. j.op = "restore" /\ j.epoch = t.epoch => t.token # 0 /\ pairs[t.token].account = j.answer
        BY <1>1, <2>1, <2>2 DEF JobOK
    <2>4. j.op = "restore" => TabOK(Restored(t, j.answer, j.epoch), pairs) BY <1>1, <2>2, <2>3, TabAccounts
    <2>5. TabOK(Expired(t, j.epoch), pairs) BY <2>2, TabAccounts
    <2> QED BY <2>2, <2>4, <2>5
<1>4. overtaken => overtaken' BY <1>2
<1> HIDE DEF u
<1> QED BY <1>1, <1>3, <1>4, NoAccount, ContextOfCall

\* A call is sent again, or left, or waits for a renewal, in the tab it is in.
LEMMA RetryAccounts ==
    ASSUME Types, NEW b \in Tab, NEW s \in Slot, JobOK(job[b][s], pairs), TabOK(tab[b], pairs)
    PROVE  /\ JobOK([job[b][s] EXCEPT !.pc = "renewing"], pairs)
           /\ MayGoOn(job[b][s], tab[b]) => JobOK(Send([job[b][s] EXCEPT !.again = TRUE], tab[b]), pairs)
<1>1. tab[b] \in TabRow(issued) /\ job[b][s] \in JobRow(issued) BY RowTypes
<1>2. MayGoOn(job[b][s], tab[b]) => JobOK(Send([job[b][s] EXCEPT !.again = TRUE], tab[b]), pairs)
    BY <1>1, SendAccounts
<1>3. JobOK([job[b][s] EXCEPT !.pc = "renewing"], pairs)
    <2> DEFINE w == [job[b][s] EXCEPT !.pc = "renewing"]
    <2>1. /\ w.op = job[b][s].op /\ w.token = job[b][s].token /\ w.active = job[b][s].active
          /\ w.pc = "renewing"
        BY <1>1 DEF JobRow
    <2> HIDE DEF w
    <2>2. JobOK(w, pairs) BY <2>1 DEF JobOK
    <2> QED BY <2>2 DEF w
<1> QED BY <1>2, <1>3

\* A refused call goes again only as the account it was made for.
LEMMA DenialContext ==
    ASSUME Types, Context, NEW b \in Tab, NEW s \in Slot, Denial(b, s)
    PROVE  Context'
<1> PICK v : v = [job[b][s] EXCEPT !.pc = "renewing"] OBVIOUS
<1> PICK w : w = Send([job[b][s] EXCEPT !.again = TRUE], tab[b]) OBVIOUS
<1>1. SetTab(b, tab[b]) /\ UNCHANGED <<server, overtaken>> BY SameTab DEF Denial, history
<1>2. \/ SetJob(b, s, Idle)
      \/ SetJob(b, s, v)
      \/ SetJob(b, s, w) /\ MayGoOn(job[b][s], tab[b])
    BY DEF Denial, Done
<1>3. ASSUME ~overtaken
      PROVE  TabOK(tab[b], pairs) /\ JobOK(v, pairs) /\ (MayGoOn(job[b][s], tab[b]) => JobOK(w, pairs))
    <2>1. TabOK(tab[b], pairs) /\ JobOK(job[b][s], pairs) BY <1>3, RowAccounts
    <2> QED BY <2>1, RetryAccounts
<1> QED BY <1>1, <1>2, <1>3, NoAccount, ContextOfCall

\* A refused retry leaves the tab without an account, or as it is.
LEMMA SecondDenialContext ==
    ASSUME Types, Context, NEW b \in Tab, NEW s \in Slot, SecondDenial(b, s)
    PROVE  Context'
<1>1. SetTab(b, Expired(tab[b], job[b][s].epoch)) /\ SetJob(b, s, Idle) /\ UNCHANGED <<server, overtaken>>
    BY DEF SecondDenial, history, Done
<1>2. ~overtaken => TabOK(Expired(tab[b], job[b][s].epoch), pairs) BY RowAccounts, TabAccounts
<1> QED BY <1>1, <1>2, NoAccount, ContextOfCall

\* A call after its renewal goes again only as the account it was made for, and
\* a restore names the account of the token it was given.
LEMMA ResumeContext ==
    ASSUME Types, Shape, Context, NEW b \in Tab, NEW s \in Slot, Resume(b, s)
    PROVE  Context'
<1> DEFINE j == job[b][s]
           t == tab[b]
           restoring == j.op = "restore" /\ j.token = 0
<1>1. UNCHANGED server /\ j.pc = "renewed"
    BY DEF Resume
<1>2. overtaken' = (overtaken \/ (restoring /\ j.epoch = t.epoch /\ j.bearer # t.token)) BY DEF Resume
<1>3. j.answer \in Account \cup {None} BY <1>1, RowTypes DEF JobRow, Shape, ShapeOK
<1>4. overtaken => overtaken' BY <1>2
<1>5. ASSUME ~overtaken'
      PROVE  ~overtaken /\ t \in TabRow(issued) /\ TabOK(t, pairs) /\ JobOK(j, pairs)
    BY <1>2, <1>5, RowAccounts
<1>6. CASE restoring
    <2>1. SetJob(b, s, Idle) /\ SetTab(b, Restored(t, j.answer, j.epoch)) BY <1>6 DEF Resume, Done
    <2>2. ~overtaken' => TabOK(Restored(t, j.answer, j.epoch), pairs)
        <3>1. SUFFICES ASSUME ~overtaken' PROVE TabOK(Restored(t, j.answer, j.epoch), pairs) OBVIOUS
        <3>2. j.epoch = t.epoch => j.bearer = t.token BY <1>2, <1>6, <3>1
        <3>3. t \in TabRow(issued) /\ TabOK(t, pairs) /\ JobOK(j, pairs) BY <1>5, <3>1
        <3> HIDE DEF j, t
        <3>4. j.answer \in Account /\ j.epoch = t.epoch => t.token # 0 /\ pairs[t.token].account = j.answer
            BY <1>1, <1>6, <3>2, <3>3 DEF JobOK
        <3> QED BY <1>3, <3>3, <3>4, TabAccounts
    <2> HIDE DEF j, t, restoring
    <2> QED BY <1>1, <1>4, <2>1, <2>2, NoAccount, ContextOfCall
<1>7. CASE ~restoring /\ j.answer = None
    <2>1. SetJob(b, s, Idle) /\ SetTab(b, Expired(t, j.epoch)) BY <1>7 DEF Resume, Done
    <2> HIDE DEF j, t, restoring
    <2>2. ~overtaken' => TabOK(Expired(t, j.epoch), pairs) BY <1>5, TabAccounts
    <2> QED BY <1>1, <1>4, <2>1, <2>2, NoAccount, ContextOfCall
<1>8. CASE ~restoring /\ j.answer # None
    <2> PICK k : k = IF MayGoOn(j, t) THEN Send([j EXCEPT !.again = TRUE], t) ELSE Idle OBVIOUS
    <2>1. SetJob(b, s, k) /\ UNCHANGED tab BY <1>8 DEF Resume
    <2>2. SetTab(b, t) BY <2>1, SameTab
    <2>3. ~overtaken' => JobOK(k, pairs) BY <1>5, RetryAccounts, NoAccount
    <2> HIDE DEF j, t, restoring
    <2> QED BY <1>1, <1>4, <1>5, <2>1, <2>2, <2>3, ContextOfCall
<1> QED BY <1>6, <1>7, <1>8

\* The steps of a sign-in and a sign-out.
LEMMA SignContext ==
    ASSUME Types, Context, NEW b \in Tab, NEW s \in Slot, NEW op \in {"login", "logout"}, NEW a, Sign(b, s, op, a)
    PROVE  Context'
<1> DEFINE t == tab[b]
           u == [t EXCEPT !.epoch = t.epoch + 1]
           j == [Idle EXCEPT !.op = op, !.pc = "queued", !.epoch = t.epoch + 1, !.token = t.token, !.active = a]
<1>1. SetTab(b, u) /\ SetJob(b, s, j) /\ UNCHANGED <<server, overtaken>> BY DEF Sign, SetTab, Types, history
<1>2. j.op = op BY DEF Idle
<1>3. t \in TabRow(issued) BY RowTypes
<1>4. u.token = t.token /\ u.active = t.active BY <1>3 DEF TabRow
<1> HIDE DEF u, j
<1>5. JobOK(j, pairs) BY <1>2, NoAccount
<1>6. ~overtaken => TabOK(t, pairs) BY RowAccounts
<1> HIDE DEF t
<1>7. ~overtaken => TabOK(u, pairs) BY <1>4, <1>6 DEF TabOK
<1> QED BY <1>1, <1>5, <1>7, ContextOfCall

\* A call of sign-in or sign-out that the lock or the server moves on.
LEMMA SignMovesContext ==
    ASSUME Types, Context, ServerStep, UNCHANGED <<tab, overtaken>>, NEW b \in Tab, NEW s \in Slot,
           NEW j, SetJob(b, s, j), j.op \in {"login", "logout"}
    PROVE  Context'
<1>1. job'[b][s] = j /\ \A c \in Tab, r \in Slot : c # b \/ r # s => job'[c][r] = job[c][r] BY OneRow
<1>2. JobOK(j, pairs') BY NoAccount
<1>3. \A c \in Tab, r \in Slot : job'[c][r] = job[c][r] \/ JobOK(job'[c][r], pairs') BY <1>1, <1>2
<1> QED BY <1>3, ContextKept

\* Sign-in and sign-out under way act for no account.
LEMMA SignStepsContext ==
    ASSUME Types, Context, NEW b \in Tab, NEW s \in Slot,
           SignStarts(b, s) \/ LoginHandled(b, s) \/ LogoutHandled(b, s)
    PROVE  Context'
<1>1. job[b][s] \in JobRow(issued) BY RowTypes
<1>2. CASE SignStarts(b, s)
    <2> PICK k : k = [job[b][s] EXCEPT !.pc = "sent", !.cookie = cookie] OBVIOUS
    <2>1. SetJob(b, s, k) /\ UNCHANGED <<tab, overtaken>> /\ job[b][s].op \in {"login", "logout"}
        BY <1>2 DEF SignStarts, history
    <2>2. k.op = job[b][s].op BY <1>1 DEF JobRow
    <2>3. ServerStep BY <1>2, SignStartsTypes
    <2> QED BY <2>1, <2>2, <2>3, SignMovesContext
<1>3. CASE LoginHandled(b, s)
    <2> PICK k : k = [job[b][s] EXCEPT !.pc = "answered", !.token = issued + 1] OBVIOUS
    <2>1. SetJob(b, s, k) /\ UNCHANGED <<tab, overtaken>> /\ job[b][s].op = "login"
        BY <1>3 DEF LoginHandled, history
    <2>2. k.op = job[b][s].op BY <1>1 DEF JobRow
    <2>3. ServerStep BY <1>3, LoginHandledTypes
    <2> QED BY <2>1, <2>2, <2>3, SignMovesContext
<1>4. CASE LogoutHandled(b, s)
    <2> PICK k : k = [job[b][s] EXCEPT !.pc = "answered"] OBVIOUS
    <2>1. SetJob(b, s, k) /\ UNCHANGED <<tab, overtaken>> /\ job[b][s].op = "logout"
        BY <1>4 DEF LogoutHandled, history
    <2>2. k.op = job[b][s].op BY <1>1 DEF JobRow
    <2>3. ServerStep BY <1>4, LogoutHandledTypes
    <2> QED BY <2>1, <2>2, <2>3, SignMovesContext
<1> QED BY <1>2, <1>3, <1>4

\* A sign-in names the account of its pair, a sign-out none.
LEMMA SignEndsContext ==
    ASSUME Types, Shape, Context, NEW b \in Tab, NEW s \in Slot, SignedIn(b, s) \/ SignedOut(b, s)
    PROVE  Context'
<1> DEFINE j == job[b][s]
<1>1. CASE SignedIn(b, s)
    <2>1. SetTab(b, Accepted(tab[b], j.token, j.epoch)) /\ SetJob(b, s, Idle) /\ UNCHANGED <<server, overtaken>>
        BY <1>1 DEF SignedIn, Done, history
    <2>2. j.token \in 1..issued BY <1>1, RowTypes DEF SignedIn, JobRow, Shape, ShapeOK
    <2>3. ~overtaken => TabOK(Accepted(tab[b], j.token, j.epoch), pairs) BY <2>2, RowAccounts, TabAccounts
    <2> QED BY <2>1, <2>3, NoAccount, ContextOfCall
<1>2. CASE SignedOut(b, s)
    <2>1. SetTab(b, Expired(tab[b], j.epoch)) /\ SetJob(b, s, Idle) /\ UNCHANGED <<server, overtaken>>
        BY <1>2 DEF SignedOut, Done, history
    <2>2. ~overtaken => TabOK(Expired(tab[b], j.epoch), pairs) BY RowAccounts, TabAccounts
    <2> QED BY <2>1, <2>2, NoAccount, ContextOfCall
<1> QED BY <1>1, <1>2

\* The calls that a renewal has settled or thrown have the account of the
\* session they were given, or none.
LEMMA ThrownContext ==
    ASSUME Types, NEW b \in Tab, NEW e, job' = Thrown(b, e)
    PROVE  \A c \in Tab, t \in Slot : job'[c][t] = job[c][t] \/ JobOK(job'[c][t], pairs)
<1>1. \A c \in Tab, t \in Slot : job'[c][t] \in {job[c][t], Idle} BY ThrownRows
<1> QED BY <1>1, NoAccount

\* Calls whose renewal was settled have the account of the session.
LEMMA SettledContext ==
    ASSUME Types, Context, ~overtaken, NEW b \in Tab, NEW e, NEW n \in 0..issued, job' = Settled(b, e, n)
    PROVE  \A c \in Tab, t \in Slot : job'[c][t] = job[c][t] \/ JobOK(job'[c][t], pairs)
<1>1. ASSUME NEW c \in Tab, NEW t \in Slot PROVE JobOK(Renewed(job[c][t], n), pairs)
    <2> PICK j : j = job[c][t] OBVIOUS
    <2> PICK a : a = IF n = 0 THEN None ELSE pairs[n].account OBVIOUS
    <2> DEFINE k == [j EXCEPT !.pc = "renewed", !.bearer = n, !.answer = a]
    <2>1. j \in JobRow(issued) /\ JobOK(j, pairs) BY <1>1, RowAccounts
    <2>2. /\ k.pc = "renewed" /\ k.op = j.op /\ k.answer = a /\ k.bearer = n
          /\ k.token = j.token /\ k.active = j.active
        BY <2>1 DEF JobRow
    <2>3. Renewed(job[c][t], n) = k BY DEF Renewed
    <2> HIDE DEF k
    <2>4. a \in Account => n # 0 /\ pairs[n].account = a BY AccountAssumption
    <2>5. JobOK(k, pairs) BY <2>1, <2>2, <2>4 DEF JobOK
    <2> QED BY <2>3, <2>5
<1>2. ASSUME NEW c \in Tab, NEW t \in Slot
      PROVE  job'[c][t] = job[c][t] \/ job'[c][t] = Renewed(job[c][t], n)
    BY <1>2, SettledRows
<1> QED BY <1>1, <1>2

\* The steps of a renewal.
LEMMA RenewalContext ==
    ASSUME Types, Context, UNCHANGED <<server, overtaken>>, NEW b \in Tab, NEW t, SetTab(b, t),
           ~overtaken => TabOK(t, pairs),
           ~overtaken => \A c \in Tab, r \in Slot : job'[c][r] = job[c][r] \/ JobOK(job'[c][r], pairs)
    PROVE  Context'
<1>1. ServerStep /\ pairs' = pairs BY ServerRests DEF server
<1>2. tab'[b] = t /\ \A c \in Tab : c # b => tab'[c] = tab[c] BY OneRow
<1>3. ~overtaken' => \A c \in Tab : tab'[c] = tab[c] \/ TabOK(tab'[c], pairs') BY <1>1, <1>2
<1>4. ~overtaken' => \A c \in Tab, r \in Slot : job'[c][r] = job[c][r] \/ JobOK(job'[c][r], pairs') BY <1>1
<1> QED BY <1>1, <1>3, <1>4, ContextKept

\* Starting, answering and losing a renewal leaves the tab's account alone.
LEMMA RenewalStepsContext ==
    ASSUME Types, Context, NEW b \in Tab, NEW e \in Epoch,
           RenewalStarts(b, e) \/ RenewalHandled(b, e) \/ RenewalLost(b, e)
    PROVE  Context'
<1>1. CASE RenewalStarts(b, e) \/ RenewalLost(b, e)
    <2>1. SetTab(b, tab[b]) /\ UNCHANGED <<server, overtaken>> /\ (job' = job \/ job' = Thrown(b, e))
        BY <1>1, SameTab DEF RenewalStarts, RenewalLost, history
    <2> QED BY <2>1, RowAccounts, ThrownContext, RenewalContext
<1>2. CASE RenewalHandled(b, e)
    <2>1. UNCHANGED <<tab, job, overtaken>> BY <1>2 DEF RenewalHandled, history
    <2>2. ServerStep BY <1>2, RenewalHandledTypes
    <2> QED BY <2>1, <2>2, ContextKept
<1> QED BY <1>1, <1>2

\* A granted renewal gives the tab the account of the pair it granted.
LEMMA RenewalAcceptedContext ==
    ASSUME Types, Context, NEW b \in Tab, NEW e \in Epoch, RenewalAccepted(b, e)
    PROVE  Context'
<1> PICK n : n = renewal[b][e].answer OBVIOUS
<1>1. n \in 0..issued /\ n \in 1..issued
    <2>1. renewal[b][e] \in RenewalRow(issued) /\ n # 0 BY RowTypes DEF RenewalAccepted
    <2>2. n \in 0..issued BY <2>1 DEF RenewalRow
    <2> QED BY <2>1, <2>2, RowTypes
<1>2. /\ SetTab(b, Accepted(tab[b], n, e)) /\ (job' = Thrown(b, e) \/ job' = Settled(b, e, n))
      /\ UNCHANGED <<server, overtaken>>
    BY DEF RenewalAccepted, history
<1>3. ~overtaken => TabOK(Accepted(tab[b], n, e), pairs) BY <1>1, RowAccounts, TabAccounts
<1>4. ~overtaken => \A c \in Tab, r \in Slot : job'[c][r] = job[c][r] \/ JobOK(job'[c][r], pairs)
    BY <1>1, <1>2, ThrownContext, SettledContext
<1> QED BY <1>2, <1>3, <1>4, RenewalContext

\* A refused renewal leaves the tab without an account, or as it is.
LEMMA RenewalDeniedContext ==
    ASSUME Types, Context, NEW b \in Tab, NEW e \in Epoch, RenewalDenied(b, e)
    PROVE  Context'
<1>1. /\ SetTab(b, tab[b]) \/ SetTab(b, Expired(tab[b], e))
      /\ job' = Thrown(b, e) \/ job' = Settled(b, e, 0)
      /\ UNCHANGED <<server, overtaken>>
    BY SameTab DEF RenewalDenied, history
<1>2. 0 \in 0..issued BY RowTypes
<1>3. ~overtaken => TabOK(tab[b], pairs) /\ TabOK(Expired(tab[b], e), pairs) BY RowAccounts, TabAccounts
<1>4. ~overtaken => \A c \in Tab, r \in Slot : job'[c][r] = job[c][r] \/ JobOK(job'[c][r], pairs)
    BY <1>1, <1>2, ThrownContext, SettledContext
<1> QED BY <1>1, <1>3, <1>4, RenewalContext

\* A page that is loaded again acts for nobody.
LEMMA ReloadContext ==
    ASSUME Types, Context, NEW b \in Tab, Reload(b)
    PROVE  Context'
<1> PICK t : t = [tab[b] EXCEPT !.epoch = 0, !.active = None] OBVIOUS
<1>1. SetTab(b, t) /\ UNCHANGED <<server, overtaken>> BY DEF Reload
<1>2. tab[b] \in TabRow(issued) BY RowTypes
<1>3. t.active = None BY <1>2 DEF TabRow
<1>4. \A c \in Tab, r \in Slot : job'[c][r] \in {job[c][r], Idle} BY DEF Reload, Types
<1>5. \A c \in Tab, r \in Slot : job'[c][r] = job[c][r] \/ JobOK(job'[c][r], pairs) BY <1>4, NoAccount
<1>6. TabOK(t, pairs) BY <1>3, NoAccount
<1> QED BY <1>1, <1>5, <1>6, RenewalContext

\* What the server does on its own changes no account.
LEMMA ServerContext ==
    ASSUME Types, Context,
           (\E p \in Pair : Expire(p)) \/ (\E p \in Pair \cup {0} : StrayHandled(p))
    PROVE  Context'
<1>1. UNCHANGED <<tab, job, overtaken>> BY DEF Expire, StrayHandled, history
<1>2. ServerStep BY ExpireTypes, StrayHandledTypes
<1> QED BY <1>1, <1>2, ContextKept

\* Every step keeps the accounts.
LEMMA ContextNext ==
    ASSUME Types, Shape, Context, Next
    PROVE  Context'
<1>1. ASSUME NEW b \in Tab, NEW s \in Slot, NEW op \in {"request", "password", "restore"}, Call(b, s, op)
      PROVE  Context'
    BY <1>1, CallContext
<1>2. ASSUME NEW b \in Tab, NEW s \in Slot, NEW a \in Account, Sign(b, s, "login", a) PROVE Context'
    BY <1>2, SignContext
<1>3. ASSUME NEW b \in Tab, NEW s \in Slot, Sign(b, s, "logout", None) PROVE Context'
    BY <1>3, SignContext
<1>4. ASSUME NEW b \in Tab, NEW s \in Slot, CallFails(b, s) PROVE Context'
    BY <1>4, CallFailsContext
<1>5. ASSUME NEW b \in Tab, NEW s \in Slot,
             \/ PasswordStarts(b, s) \/ Handle(b, s) \/ Succeed(b, s) \/ Denial(b, s)
             \/ SecondDenial(b, s) \/ Resume(b, s)
      PROVE  Context'
    BY <1>5, PasswordStartsContext, HandleContext, SucceedContext, DenialContext, SecondDenialContext, ResumeContext
<1>6. ASSUME NEW b \in Tab, NEW s \in Slot,
             \/ SignStarts(b, s) \/ LoginHandled(b, s) \/ LogoutHandled(b, s)
             \/ SignedIn(b, s) \/ SignedOut(b, s)
      PROVE  Context'
    BY <1>6, SignStepsContext, SignEndsContext
<1>7. ASSUME NEW b \in Tab, NEW e \in Epoch,
             \/ RenewalStarts(b, e) \/ RenewalHandled(b, e) \/ RenewalAccepted(b, e) \/ RenewalDenied(b, e)
             \/ RenewalLost(b, e)
      PROVE  Context'
    BY <1>7, RenewalStepsContext, RenewalAcceptedContext, RenewalDeniedContext
<1>8. ASSUME NEW b \in Tab, Reload(b) PROVE Context'
    BY <1>8, ReloadContext
<1>9. ASSUME (\E p \in Pair : Expire(p)) \/ (\E p \in Pair \cup {0} : StrayHandled(p)) PROVE Context'
    BY <1>9, ServerContext
<1> QED BY <1>1, <1>2, <1>3, <1>4, <1>5, <1>6, <1>7, <1>8, <1>9 DEF Next, Progress

-----------------------------------------------------------------------------
(* The theorems. *)

\* The signed-in tab of the start has the cookie and the access token of the
\* first pair.
LEMMA InitInv == Init => Safe /\ Context
<1> SUFFICES ASSUME Init PROVE Safe /\ Context OBVIOUS
<1> DEFINE a == CHOOSE a \in Account : TRUE
           b == CHOOSE b \in Tab : TRUE
           row == [account |-> a, family |-> 1, access |-> TRUE, refresh |-> "live"]
           T(c) == [epoch |-> 0, token |-> IF c = b THEN 1 ELSE 0, active |-> IF c = b THEN a ELSE None]
<1>1. /\ pairs = [p \in Pair |-> IF p = 1 THEN row ELSE NoPair]
      /\ issued = 1 /\ cookie = 1
      /\ tab = [c \in Tab |-> T(c)]
      /\ job = [c \in Tab |-> [s \in Slot |-> Idle]]
      /\ renewal = [c \in Tab |-> [e \in Epoch |-> NoRenewal]]
      /\ strays = {} /\ replayed = FALSE /\ lost = FALSE /\ overtaken = FALSE
    BY DEF Init
<1>2. a \in Account BY AccountAssumption
<1> HIDE DEF a, b
<1>3. row \in PairRow /\ NoPair \in PairRow BY <1>2 DEF PairRow, NoPair
<1>4. row.account = a /\ row.refresh = "live" OBVIOUS
<1> HIDE DEF row
<1>5. pairs \in [Pair -> PairRow] /\ pairs[1] = row BY <1>1, <1>3, PairFacts
<1>6. \A c \in Tab : T(c) \in TabRow(1) /\ TabOK(T(c), pairs)
    BY <1>2, <1>4, <1>5 DEF TabRow, TabOK
<1> HIDE DEF T
<1>7. Idle \in JobRow(1) /\ NoRenewal \in RenewalRow(1) BY EmptyRows
<1>8. Types
    <2>1. issued \in Pair /\ cookie \in 0..issued /\ strays \subseteq 0..issued BY <1>1, PairFacts
    <2>2. tab \in [Tab -> TabRow(issued)] BY <1>1, <1>6
    <2>3. job \in [Tab -> [Slot -> JobRow(issued)]] BY <1>1, <1>7
    <2>4. renewal \in [Tab -> [Epoch -> RenewalRow(issued)]] BY <1>1, <1>7
    <2>5. replayed \in BOOLEAN /\ lost \in BOOLEAN /\ overtaken \in BOOLEAN BY <1>1
    <2> QED BY <1>5, <2>1, <2>2, <2>3, <2>4, <2>5 DEF Types
<1>9. /\ Shape /\ \A c \in Tab, s \in Slot : ~Critical(job[c][s]) /\ ~AnsweredLogin(job[c][s])
      /\ \A c \in Tab, e \in Epoch : ~Renewing(renewal[c][e])
    BY <1>1, AccountAssumption DEF Shape, ShapeOK, Critical, Queueing, AnsweredLogin, Renewing, Idle, NoRenewal
<1>10. Exclusive BY <1>9 DEF Exclusive
<1>11. CookieFresh
    <2>1. Unspent(pairs, cookie) BY <1>1, <1>4, <1>5 DEF Unspent
    <2>2. \A c \in Tab, e \in Epoch : renewal[c][e].pc # "sent" /\ ~Granted(renewal[c][e])
        BY <1>9 DEF Renewing, Granted
    <2>3. strays = {} BY <1>1
    <2> QED BY <1>9, <2>1, <2>2, <2>3 DEF CookieFresh
<1>12. NoFalseReplay BY <1>1 DEF NoFalseReplay
<1>13. Context
    <2>1. \A c \in Tab : TabOK(tab[c], pairs) BY <1>1, <1>6
    <2>2. \A c \in Tab, s \in Slot : job[c][s] = Idle BY <1>1
    <2>3. JobOK(Idle, pairs) BY NoAccount
    <2> QED BY <2>1, <2>2, <2>3 DEF Context
<1> QED BY <1>8, <1>9, <1>10, <1>11, <1>12, <1>13 DEF Safe

\* The inductive invariant holds, whatever the tabs, calls, accounts, faults
\* and the kind of lock.
THEOREM ConsoleInvariant == Spec => []IInv
<1>1. Init => IInv BY InitInv DEF IInv, Safe
<1>2. IInv /\ [Next]_vars => IInv'
    <2> SUFFICES ASSUME IInv, [Next]_vars PROVE IInv' OBVIOUS
    <2>1. CASE Next
        <3>1. Safe BY DEF IInv, Safe
        <3>2. Safe' BY <2>1, <3>1, SafeNext
        <3>3. Context' BY <2>1, ContextNext DEF IInv
        <3> QED BY <3>2, <3>3 DEF IInv, Safe
    <2>2. CASE UNCHANGED vars
        BY <2>2 DEF IInv, vars, server, history, Types, Shape, ShapeOK, Exclusive, Critical, Renewing,
            CookieFresh, Granted, Unspent, AnsweredLogin, NoFalseReplay, Context, TabOK, JobOK
    <2> QED BY <2>1, <2>2
<1> QED BY <1>1, <1>2, PTL DEF Spec

\* Every token that a tab, a call, a renewal, the browser or a stray request
\* holds is one that the server issued.
THEOREM ConsoleTypeCorrect == Spec => []Types
<1>1. IInv => Types BY DEF IInv
<1> QED BY <1>1, ConsoleInvariant, PTL

\* withAuthLock with Web Locks: unless the answer to a rotation was lost, no
\* tab presents a refresh token that another rotation has spent.
THEOREM NoFalseReplayHolds == Spec => []NoFalseReplay
<1>1. IInv => NoFalseReplay BY DEF IInv
<1> QED BY <1>1, ConsoleInvariant, PTL

\* The critical section of withAuthLock: at most one call or renewal of all
\* tabs is in it when the browser has Web Locks.
THEOREM AuthLockExclusive == Spec => []Exclusive
<1>1. IInv => Exclusive BY DEF IInv
<1> QED BY <1>1, ConsoleInvariant, PTL

\* request's retry: a request that is sent again after a renewal goes as the
\* account it first went as, unless a restore has ended after its token was
\* replaced.
THEOREM NoCrossAccountReplayHolds == Spec => []NoCrossAccountReplay
<1>1. IInv => NoCrossAccountReplay BY DEF IInv, Context, JobOK, NoCrossAccountReplay
<1> QED BY <1>1, ConsoleInvariant, PTL
=============================================================================
