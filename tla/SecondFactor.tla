----------------------------- MODULE SecondFactor -----------------------------
(***************************************************************************)
(* Two-factor authentication of one end user of a project: the columns     *)
(* totp_secret and totp_enabled of auth.users, the rows of                 *)
(* auth.recovery_codes, and the handlers of /auth/v1/factors/* and of the  *)
(* password sign-in that read and write them (authmfa.go, authusers.go).   *)
(* The panel's own two-factor handlers (totp.go) run the same statements   *)
(* without recovery codes.  A TOTP code is right or wrong for a secret.    *)
(***************************************************************************)
EXTENDS Naturals, FiniteSets

CONSTANTS
    Secrets,        \* bound: secrets ever enrolled, 1..n
    RecoveryIds,    \* bound: recovery codes ever issued
    CodesPerSet,    \* 10: codes one activation hands out
    FactorClients   \* requests being served at once

ASSUME FactorAssumption ==
    /\ Secrets \subseteq Nat \ {0} /\ IsFiniteSet(RecoveryIds)
    /\ CodesPerSet \in Nat

VARIABLES
    factor,     \* totp_secret (0 is empty) and totp_enabled
    recovery,   \* auth.recovery_codes
    asked,      \* what each request executes next
    proven,     \* history: secrets an authenticator has answered for
    crossed,    \* history: secrets enrolled between a check and its activation
    admitted    \* history: second-factor decisions each recovery code has won

factorVars == <<factor, recovery, asked, proven, crossed, admitted>>

Calm == [pc |-> "idle", left |-> 0]

FactorTypeOK ==
    /\ factor \in [secret : Secrets \cup {0}, on : BOOLEAN]
    /\ recovery \in [RecoveryIds -> {"none", "unused", "used", "gone"}]
    /\ asked \in [FactorClients ->
         [pc : {"idle", "activate", "dropCodes", "issue", "weigh", "prove", "switchOff", "dropLast"},
          left : 0..CodesPerSet]]
    /\ proven \subseteq Secrets
    /\ crossed \subseteq Secrets
    /\ admitted \in [RecoveryIds -> Nat]

FactorInit ==
    /\ factor = [secret |-> 0, on |-> FALSE]
    /\ recovery = [r \in RecoveryIds |-> "none"]
    /\ asked = [c \in FactorClients |-> Calm]
    /\ proven = {}
    /\ crossed = {}
    /\ admitted = [r \in RecoveryIds |-> 0]

Enrolled == factor.on /\ factor.secret # 0
DropCodes == [r \in RecoveryIds |-> IF recovery[r] \in {"unused", "used"}
                                    THEN "gone" ELSE recovery[r]]
Go(c, pc) == asked' = [asked EXCEPT ![c] = [pc |-> pc, left |-> 0]]
Activating == {c \in FactorClients : asked[c].pc \in {"activate", "dropCodes", "issue"}}
\* bound: an activation starts only while there are ids for its codes
CodesLeft == CodesPerSet * (Cardinality(Activating) + 1)
               <= Cardinality({r \in RecoveryIds : recovery[r] = "none"})

-----------------------------------------------------------------------------
\* factors/enroll: a new secret, not active yet; an active one is replaced.
Enroll(c, s) ==
    /\ asked[c] = Calm
    /\ s \notin proven \cup crossed \cup {factor.secret}      \* freshly drawn
    /\ factor' = [secret |-> s, on |-> FALSE]
    /\ crossed' = IF \E d \in FactorClients : asked[d].pc = "activate"
                  THEN crossed \cup {s} ELSE crossed
    /\ UNCHANGED <<recovery, asked, proven, admitted>>

\* factors/verify reads the secret and checks the code against it ...
ActivateUnchecked(c) ==
    /\ asked[c] = Calm /\ factor.secret # 0 /\ CodesLeft
    /\ proven' = proven
    /\ Go(c, "activate")
    /\ UNCHANGED <<factor, recovery, crossed, admitted>>

FactorVerify(c) ==
    /\ asked[c] = Calm /\ factor.secret # 0 /\ CodesLeft
    /\ proven' = proven \cup {factor.secret}
    /\ Go(c, "activate")
    /\ UNCHANGED <<factor, recovery, crossed, admitted>>

\* ... then switches on whatever secret the row holds by now ...
Activate(c) ==
    /\ asked[c].pc = "activate"
    /\ factor' = [factor EXCEPT !.on = TRUE]
    /\ Go(c, "dropCodes")
    /\ UNCHANGED <<recovery, proven, crossed, admitted>>

\* One code too many.
DropOldCodesOneOver(c) ==
    /\ asked[c].pc = "dropCodes"
    /\ recovery' = DropCodes
    /\ asked' = [asked EXCEPT ![c] = [pc |-> "issue", left |-> CodesPerSet + 1]]
    /\ UNCHANGED <<factor, proven, crossed, admitted>>

\* ... and replaces the recovery codes, one INSERT after the other.
DropOldCodes(c) ==
    /\ asked[c].pc = "dropCodes"
    /\ recovery' = DropCodes
    /\ asked' = [asked EXCEPT ![c] = [pc |-> "issue", left |-> CodesPerSet]]
    /\ UNCHANGED <<factor, proven, crossed, admitted>>

IssueCode(c) ==
    /\ asked[c].pc = "issue"
    /\ IF asked[c].left = 0
       THEN Go(c, "idle") /\ UNCHANGED recovery
       ELSE /\ asked' = [asked EXCEPT ![c].left = @ - 1]
            /\ \E r \in RecoveryIds :
                 recovery[r] = "none" /\ recovery' = [recovery EXCEPT ![r] = "unused"]
    /\ UNCHANGED <<factor, proven, crossed, admitted>>

-----------------------------------------------------------------------------
\* tryRecoveryCode: one UPDATE marks an unused code used and counts its rows.
TryRecoveryCode(r) ==
    /\ recovery[r] = "unused"
    /\ recovery' = [recovery EXCEPT ![r] = "used"]
    /\ admitted' = [admitted EXCEPT ![r] = @ + 1]

\* factors/disable: with the factor on it takes a current code or a recovery
\* code; with the factor off it takes nothing.
DisableRead(c) ==
    /\ asked[c] = Calm
    /\ Go(c, IF factor.on THEN "prove" ELSE "switchOff")
    /\ UNCHANGED <<factor, recovery, proven, crossed, admitted>>

DisableProve(c) ==
    /\ asked[c].pc = "prove"
    /\ \/ (Go(c, "idle") \/ Go(c, "switchOff")) /\ UNCHANGED <<recovery, admitted>>
       \/ \E r \in RecoveryIds : TryRecoveryCode(r) /\ Go(c, "switchOff")
    /\ UNCHANGED <<factor, proven, crossed>>

SwitchOff(c) ==
    /\ asked[c].pc = "switchOff"
    /\ factor' = [secret |-> 0, on |-> FALSE]
    /\ Go(c, "dropLast")
    /\ UNCHANGED <<recovery, proven, crossed, admitted>>

DropLastCodes(c) ==
    /\ asked[c].pc = "dropLast"
    /\ recovery' = DropCodes
    /\ Go(c, "idle")
    /\ UNCHANGED <<factor, proven, crossed, admitted>>

\* POST /token: mfaState is read, and with the factor on a recovery code may
\* stand in for the authenticator.
LoginRead(c) ==
    /\ asked[c] = Calm /\ Enrolled
    /\ Go(c, "weigh")
    /\ UNCHANGED <<factor, recovery, proven, crossed, admitted>>

LoginWeigh(c) ==
    /\ asked[c].pc = "weigh"
    /\ \/ UNCHANGED <<recovery, admitted>>      \* a right or a wrong TOTP code
       \/ \E r \in RecoveryIds : TryRecoveryCode(r)
    /\ Go(c, "idle")
    /\ UNCHANGED <<factor, proven, crossed>>

FactorNext ==
    \E c \in FactorClients :
      \/ \E s \in Secrets : Enroll(c, s)
      \/ FactorVerify(c) \/ Activate(c) \/ DropOldCodes(c) \/ IssueCode(c)
      \/ DisableRead(c) \/ DisableProve(c) \/ SwitchOff(c) \/ DropLastCodes(c)
      \/ LoginRead(c) \/ LoginWeigh(c)

FactorSpec == FactorInit /\ [][FactorNext]_factorVars

-----------------------------------------------------------------------------
\* Verify-to-activate: the secret a sign-in is measured against has been
\* answered for by an authenticator, so that activation cannot lock its
\* owner out, unless it was enrolled while an earlier one was being verified:
\* the activation writes totp_enabled only.
ActiveSecretProven ==
    Enrolled => factor.secret \in proven \cup crossed

\* A recovery code decides for its owner once, though sign-ins and a disable
\* may present it at the same moment.
RecoveryCodesOnce == \A r \in RecoveryIds : admitted[r] <= 1
=============================================================================
