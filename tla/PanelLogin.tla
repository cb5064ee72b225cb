------------------------------ MODULE PanelLogin ------------------------------
(***************************************************************************)
(* Throttling of the panel's sign-in for one account: the in-memory maps   *)
(* attempts (per address of the client) and acctFails (per account), the   *)
(* password step (loginSubmit), the code step (totpSubmit) and the pruner  *)
(* (src/pgforge/auth.go, totp.go, main.go).  The maps are behind a.mu, but *)
(* the check and the record of one request are two critical sections with  *)
(* the bcrypt comparison between them.                                     *)
(*                                                                         *)
(* Time passes in ticks of five minutes; a failure is filed by its age.    *)
(* The check of the code counts reads only entries inside the window, so   *)
(* that the entries it drops make no difference.                           *)
(***************************************************************************)
EXTENDS Naturals, FiniteSets

CONSTANTS
    Ips,            \* addresses
    LoginClients,   \* requests being served at once
    IpLimit,        \* 8 failures in 10 minutes
    AcctLimit       \* 5 failures in 15 minutes

ASSUME LoginAssumption ==
    /\ IsFiniteSet(Ips) /\ IsFiniteSet(LoginClients)
    /\ IpLimit \in Nat /\ AcctLimit \in Nat \ {0}

\* the account can be named by its address or its display name
Keys == {"email", "name"}
Stages == {"password", "code"}
Ages == 0..2            \* inside the 15 minutes of the account
IpAges == 0..1          \* inside the 10 minutes of an address, and of the pruner

VARIABLES
    attempts,   \* failures of an address, by age
    acctFails,  \* failures filed under a key, by age
    doing,      \* what each request does next
    preauth,    \* a password was right and its code step (5 minutes) is open
    wrong,      \* history: wrong passwords and codes since the panel started, by age
    forgotten   \* history: stages whose failures the pruner dropped

loginVars == <<attempts, acctFails, doing, preauth, wrong, forgotten>>

Waiting == [pc |-> "idle", ip |-> "none", key |-> "email"]
None == [a \in Ages |-> 0]
IpNone == [a \in IpAges |-> 0]

LoginTypeOK ==
    /\ attempts \in [Ips -> [IpAges -> Nat]]
    /\ acctFails \in [Keys -> [Ages -> Nat]]
    /\ doing \in [LoginClients ->
         [pc : {"idle", "login", "weigh", "code", "weighCode"},
          ip : Ips \cup {"none"}, key : Keys]]
    /\ preauth \in BOOLEAN
    /\ wrong \in [Stages -> [Ages -> Nat]]
    /\ forgotten \subseteq Stages

LoginInit ==
    /\ attempts = [i \in Ips |-> IpNone]
    /\ acctFails = [k \in Keys |-> None]
    /\ doing = [c \in LoginClients |-> Waiting]
    /\ preauth = FALSE
    /\ wrong = [s \in Stages |-> None]
    /\ forgotten = {}

Recent(f) == f[0] + f[1]            \* inside 10 minutes
Total(f) == f[0] + f[1] + f[2]      \* inside 15 minutes
Add(f) == [f EXCEPT ![0] = @ + 1]
Older(f) == [a \in DOMAIN f |-> IF a = 0 THEN 0 ELSE f[a - 1]]

rateLimited(ip) == Recent(attempts[ip]) >= IpLimit
acctLocked(key) == Total(acctFails[key]) >= AcctLimit

Now(c, pc, ip, key) == doing' = [doing EXCEPT ![c] = [pc |-> pc, ip |-> ip, key |-> key]]
\* recordAttempt and recordAcctFail
RecordFailure(c, stage) ==
    /\ attempts' = [attempts EXCEPT ![doing[c].ip] = Add(@)]
    /\ acctFails' = [acctFails EXCEPT ![doing[c].key] = Add(@)]
    /\ wrong' = [wrong EXCEPT ![stage] = Add(@)]

-----------------------------------------------------------------------------
(* loginSubmit: the account may be named either way; the lock is kept      *)
(* under its address.                                                      *)

LockKeyRaw(id) == id
LockKey(id) == "email"

LoginArrive(c, ip, id) ==
    /\ doing[c] = Waiting /\ ~rateLimited(ip)
    /\ Now(c, "login", ip, LockKey(id))
    /\ UNCHANGED <<attempts, acctFails, preauth, wrong, forgotten>>

LoginCheck(c) ==
    /\ doing[c].pc = "login"
    /\ doing' = [doing EXCEPT ![c] =
         IF acctLocked(doing[c].key) THEN Waiting ELSE [@ EXCEPT !.pc = "weigh"]]
    /\ UNCHANGED <<attempts, acctFails, preauth, wrong, forgotten>>

LoginRight(c) ==
    /\ doing[c].pc = "weigh"
    /\ preauth' = TRUE
    /\ doing' = [doing EXCEPT ![c] = Waiting]
    /\ UNCHANGED <<attempts, acctFails, wrong, forgotten>>

LoginWrong(c) ==
    /\ doing[c].pc = "weigh"
    /\ RecordFailure(c, "password")
    /\ doing' = [doing EXCEPT ![c] = Waiting]
    /\ UNCHANGED <<preauth, forgotten>>

-----------------------------------------------------------------------------
(* totpSubmit: the preauth token carries the name, and the lock of this    *)
(* step is kept under it.                                                  *)

CodeArrive(c, ip) ==
    /\ doing[c] = Waiting /\ ~rateLimited(ip) /\ preauth
    /\ Now(c, "code", ip, "name")
    /\ UNCHANGED <<attempts, acctFails, preauth, wrong, forgotten>>

CodeCheck(c) ==
    /\ doing[c].pc = "code"
    /\ doing' = [doing EXCEPT ![c] =
         IF acctLocked(doing[c].key) THEN Waiting ELSE [@ EXCEPT !.pc = "weighCode"]]
    /\ UNCHANGED <<attempts, acctFails, preauth, wrong, forgotten>>

\* the session is opened, and nothing here changes
CodeRight(c) ==
    /\ doing[c].pc = "weighCode"
    /\ doing' = [doing EXCEPT ![c] = Waiting]
    /\ UNCHANGED <<attempts, acctFails, preauth, wrong, forgotten>>

CodeWrong(c) ==
    /\ doing[c].pc = "weighCode"
    /\ RecordFailure(c, "code")
    /\ doing' = [doing EXCEPT ![c] = Waiting]
    /\ UNCHANGED <<preauth, forgotten>>

-----------------------------------------------------------------------------
StageKey(s) == IF s = "password" THEN LockKey("email") ELSE "name"

\* Five minutes pass; a history that has aged out is closed.
Tick ==
    /\ attempts' = [i \in Ips |-> Older(attempts[i])]
    /\ acctFails' = [k \in Keys |-> Older(acctFails[k])]
    /\ wrong' = [s \in Stages |-> Older(wrong[s])]
    /\ preauth' = FALSE
    /\ forgotten' = {s \in forgotten : Total(Older(wrong[s])) > 0}
    /\ UNCHANGED doing

\* startRateLimitPruner deletes a bucket that has no entry of the last 10
\* minutes, the account's too.
Prune ==
    LET dead == {k \in Keys : Recent(acctFails[k]) = 0} IN
    /\ acctFails' = [k \in Keys |-> IF k \in dead THEN None ELSE acctFails[k]]
    /\ forgotten' = forgotten \cup
         {s \in Stages : StageKey(s) \in dead /\ acctFails[StageKey(s)] # None}
    /\ UNCHANGED <<attempts, doing, preauth, wrong>>

\* The panel restarts: both maps are in memory only, and the budget of an
\* account starts anew.
LoginBoot ==
    /\ attempts' = [i \in Ips |-> IpNone]
    /\ acctFails' = [k \in Keys |-> None]
    /\ doing' = [c \in LoginClients |-> Waiting]
    /\ wrong' = [s \in Stages |-> None]
    /\ forgotten' = {}
    /\ UNCHANGED preauth

LoginNext ==
    \/ \E c \in LoginClients, ip \in Ips :
         CodeArrive(c, ip) \/ \E id \in Keys : LoginArrive(c, ip, id)
    \/ \E c \in LoginClients :
         \/ LoginCheck(c) \/ LoginRight(c) \/ LoginWrong(c)
         \/ CodeCheck(c) \/ CodeRight(c) \/ CodeWrong(c)
    \/ Tick \/ Prune \/ LoginBoot

LoginSpec == LoginInit /\ [][LoginNext]_loginVars

-----------------------------------------------------------------------------
\* the limit, and one for each other request that had passed the check
Budget(limit) == limit + Cardinality(LoginClients) - 1
WithinBudget(s) == Total(wrong[s]) <= Budget(AcctLimit)

\* However its address and its name are mixed, an account is tried with at
\* most AcctLimit wrong passwords, and as many wrong codes, in 15 minutes of
\* one run of the panel, besides those in flight, while the pruner has not
\* dropped failures of the window.
LockoutBudget == \A s \in Stages \ forgotten : WithinBudget(s)
=============================================================================
