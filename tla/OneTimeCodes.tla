----------------------------- MODULE OneTimeCodes -----------------------------
(***************************************************************************)
(* The sign-in codes of POST /auth/v1/otp and POST /auth/v1/verify: the    *)
(* rows of auth.one_time_tokens of one address (an email or a phone; the   *)
(* two branches of the handlers run the same statements).  Each action is  *)
(* one SQL statement, there is no transaction around a handler.            *)
(***************************************************************************)
EXTENDS Naturals, FiniteSets

CONSTANTS
    CodeIds,       \* bound: codes ever issued to the address, 1..n
    CodeClients,   \* requests being served at once
    RequestLimit,  \* 4: codes kept per hour
    MaxAttempts    \* 5: wrong codes a row stands

ASSUME CodesAssumption ==
    /\ CodeIds \subseteq Nat \ {0}
    /\ IsFiniteSet(CodeClients) /\ CodeClients # {}
    /\ RequestLimit \in Nat /\ MaxAttempts \in Nat

VARIABLES
    codes,    \* the rows: id -> [st, attempts]; "stale" is past its 10 minutes
    asks,     \* what each request executes next, about which row
    opened,   \* history: sessions a code has opened
    judged,   \* history: wrong codes weighed against a row that still accepted
    shared    \* history: rows that two requests had matched at once

codeVars == <<codes, asks, opened, judged, shared>>

Resting == [pc |-> "idle", id |-> 0]

CodesTypeOK ==
    /\ codes \in [CodeIds -> [st : {"none", "fresh", "stale", "gone"},
                              attempts : 0..(MaxAttempts + 1)]]
    /\ asks \in [CodeClients -> [pc : {"idle", "purge", "store", "count", "redeem"},
                                 id : CodeIds \cup {0}]]
    /\ opened \in [CodeIds -> Nat]
    /\ judged \in [CodeIds -> Nat]
    /\ shared \subseteq CodeIds

CodesInit ==
    /\ codes = [i \in CodeIds |-> [st |-> "none", attempts |-> 0]]
    /\ asks = [c \in CodeClients |-> Resting]
    /\ opened = [i \in CodeIds |-> 0]
    /\ judged = [i \in CodeIds |-> 0]
    /\ shared = {}

Stored == {i \in CodeIds : codes[i].st \in {"fresh", "stale"}}
\* rows the SELECT of /verify would match, given their code
Accepting == {i \in CodeIds : codes[i].st = "fresh" /\ codes[i].attempts < MaxAttempts}
Issued == {i \in CodeIds : codes[i].st # "none"}
Issuing == {c \in CodeClients : asks[c].pc \in {"purge", "store"}}
NewCodeLeft == Cardinality(Issued) + Cardinality(Issuing) < Cardinality(CodeIds)

-----------------------------------------------------------------------------
(* POST /otp: count the rows of the last hour, delete them, insert one.    *)

CountRecent(c) ==
    /\ asks[c] = Resting /\ NewCodeLeft
    /\ Cardinality(Stored) < RequestLimit
    /\ asks' = [asks EXCEPT ![c].pc = "purge"]
    /\ UNCHANGED <<codes, opened, judged, shared>>

Purge(c) ==
    /\ asks[c].pc = "purge"
    /\ codes' = [i \in CodeIds |-> IF i \in Stored
                                   THEN [codes[i] EXCEPT !.st = "gone"] ELSE codes[i]]
    /\ asks' = [asks EXCEPT ![c].pc = "store"]
    /\ UNCHANGED <<opened, judged, shared>>

\* the code is mailed or sent after the INSERT, best effort
Store(c) ==
    /\ asks[c].pc = "store"
    /\ \E i \in CodeIds \ Issued :
         /\ \A j \in CodeIds \ Issued : i <= j
         /\ codes' = [codes EXCEPT ![i].st = "fresh"]
    /\ asks' = [asks EXCEPT ![c] = Resting]
    /\ UNCHANGED <<opened, judged, shared>>

\* 10 minutes pass.
Outdate(i) ==
    /\ codes[i].st = "fresh"
    /\ codes' = [codes EXCEPT ![i].st = "stale"]
    /\ UNCHANGED <<asks, opened, judged, shared>>

-----------------------------------------------------------------------------
(* POST /verify.                                                           *)

Matched(i) == \E c \in CodeClients : asks[c].pc = "redeem" /\ asks[c].id = i

\* The right code of a row that still accepts answers.
VerifyRight(c, i) ==
    /\ asks[c] = Resting /\ i \in Accepting
    /\ asks' = [asks EXCEPT ![c] = [pc |-> "redeem", id |-> i]]
    /\ shared' = IF Matched(i) THEN shared \cup {i} ELSE shared
    /\ UNCHANGED <<codes, opened, judged>>

\* Any other code, and the right one of a row that is spent or stale.
VerifyWrong(c) ==
    /\ asks[c] = Resting
    /\ asks' = [asks EXCEPT ![c].pc = "count"]
    /\ judged' = [i \in CodeIds |-> judged[i] + (IF i \in Accepting THEN 1 ELSE 0)]
    /\ UNCHANGED <<codes, opened, shared>>

\* attempts = attempts + 1 on every row of the address; bound: the model
\* stops counting once a row is past the limit.
CountFail(c) ==
    /\ asks[c].pc = "count"
    /\ codes' = [i \in CodeIds |->
                   IF i \in Stored /\ codes[i].attempts <= MaxAttempts
                   THEN [codes[i] EXCEPT !.attempts = @ + 1] ELSE codes[i]]
    /\ asks' = [asks EXCEPT ![c] = Resting]
    /\ UNCHANGED <<opened, judged, shared>>

RedeemKeepsRow(c) ==
    /\ asks[c].pc = "redeem"
    /\ codes' = codes
    /\ opened' = [opened EXCEPT ![asks[c].id] = @ + 1]
    /\ asks' = [asks EXCEPT ![c] = Resting]
    /\ UNCHANGED <<judged, shared>>

\* The row is deleted, whether or not it is still there, and the sign-in goes
\* on to find or create the user and mint the tokens.
Redeem(c) ==
    /\ asks[c].pc = "redeem"
    /\ codes' = [codes EXCEPT ![asks[c].id].st = "gone"]
    /\ opened' = [opened EXCEPT ![asks[c].id] = @ + 1]
    /\ asks' = [asks EXCEPT ![c] = Resting]
    /\ UNCHANGED <<judged, shared>>

CodesNext ==
    \/ \E c \in CodeClients :
         \/ CountRecent(c) \/ Purge(c) \/ Store(c)
         \/ \E i \in CodeIds : VerifyRight(c, i)
         \/ VerifyWrong(c) \/ CountFail(c) \/ Redeem(c)
    \/ \E i \in CodeIds : Outdate(i)

CodesSpec == CodesInit /\ [][CodesNext]_codeVars

-----------------------------------------------------------------------------
\* A code opens one session, however requests for new codes, wrong guesses
\* and expiry fall between, unless two requests matched its row
\* before either deleted it: the DELETE's row count is not looked at.
OneTimeMeansOnce == \A i \in CodeIds \ shared : opened[i] <= 1

\* A row is weighed against at most MaxAttempts wrong codes, plus one for
\* each other request that was weighed before its failure was counted.  A
\* request for a new code does not hand the old row new attempts.
GuessBudget ==
    \A i \in CodeIds : judged[i] <= MaxAttempts + Cardinality(CodeClients) - 1
=============================================================================
