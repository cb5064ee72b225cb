------------------------------- MODULE Identity -------------------------------
(***************************************************************************)
(* The parts of ForgeBase that decide who somebody is.  They share no      *)
(* state: auth.* lives in each project's database, api_config, users and   *)
(* the throttling maps in the panel's.  A behaviour therefore starts one   *)
(* part and runs it; the others rest, and the states of the parts add up   *)
(* instead of multiplying.                                                 *)
(***************************************************************************)
EXTENDS UserSessions, OneTimeCodes, SecondFactor, SigningKeys,
        PanelAccounts, PanelLogin, PanelSessions

Parts == {"sessions", "codes", "factor", "keys", "panel", "login", "cookies"}

VARIABLE part      \* the part whose behaviour this is

identityVars ==
    <<part, sessVars, codeVars, factorVars, keyVars, panelVars, loginVars,
      panelSessVars>>

IdentityInit ==
    /\ part \in Parts
    /\ SessInit /\ CodesInit /\ FactorInit
    /\ KeysInit /\ PanelInit /\ LoginInit /\ PanelSessInit
    \* the other parts look at neither
    /\ part # "sessions" =>
         /\ policy = CHOOSE p \in Settings : TRUE
         /\ \A u \in Uids : users[u].st = "unborn"
    /\ part # "cookies" => \A d \in Devices : cookie[d] = NoCookie

Rests(p) ==
    CASE p = "sessions" -> UNCHANGED sessVars
      [] p = "codes"    -> UNCHANGED codeVars
      [] p = "factor"   -> UNCHANGED factorVars
      [] p = "keys"     -> UNCHANGED keyVars
      [] p = "panel"    -> UNCHANGED panelVars
      [] p = "login"    -> UNCHANGED loginVars
      [] p = "cookies"  -> UNCHANGED panelSessVars

Runs(p) ==
    /\ part = p /\ UNCHANGED part
    /\ \A q \in Parts \ {p} : Rests(q)

IdentityNext ==
    \/ Runs("sessions") /\ SessNext
    \/ Runs("codes")    /\ CodesNext
    \/ Runs("factor")   /\ FactorNext
    \/ Runs("keys")     /\ KeysNext
    \/ Runs("panel")    /\ PanelNext
    \/ Runs("login")    /\ LoginNext
    \/ Runs("cookies")  /\ PanelSessNext

IdentitySpec == IdentityInit /\ [][IdentityNext]_identityVars

-----------------------------------------------------------------------------
\* Every part keeps its types.
IdentityTypeOK ==
    /\ part \in Parts
    /\ SessTypeOK /\ CodesTypeOK /\ FactorTypeOK
    /\ KeysTypeOK /\ PanelTypeOK /\ LoginTypeOK /\ PanelSessTypeOK

\* What is good for one use is used once: a refresh token, a one-time code, a
\* recovery code, an invitation.  Each is read, weighed and ended by separate statements of
\* handlers that run at once (exceptions at the four definitions).
SpentOnce ==
    OneLiveTokenPerSession /\ OneTimeMeansOnce /\ RecoveryCodesOnce /\ InvitationOnce

\* A guesser has a budget: wrong one-time codes per row, and wrong passwords
\* and second-factor codes per panel account, end at the limit, plus the
\* requests that had passed the check by then.
GuessesBounded == GuessBudget /\ LockoutBudget

\* What lets somebody in stands for something: a token for a key that is
\* published, a cookie of the panel for a row that nobody has deleted.
AdmissionsHold == KeysServeTokens /\ SignedOutStays
=============================================================================
