----------------------------- MODULE UserSessions -----------------------------
(***************************************************************************)
(* The sessions of a project's end users: the rows of auth.users and       *)
(* auth.refresh_tokens and the handlers under /auth/v1 that create,        *)
(* rotate and revoke them (src/pgforge/authusers.go, oauth.go,             *)
(* samlsso.go).  Every handler is a goroutine that issues one SQL          *)
(* statement at a time with no transaction around them, so each action     *)
(* below is one statement together with the Go code up to the next one.    *)
(*                                                                         *)
(* Passwords, codes, links and access tokens are left out: a sign-in either *)
(* presents what is asked or changes nothing here.  The second factor and  *)
(* the one-time codes are the subject of OneTimeCodes.                     *)
(***************************************************************************)
EXTENDS Naturals, FiniteSets

CONSTANTS
    Uids,       \* ids a user row can be given, never reused
    Emails,     \* addresses
    Clients,    \* requests being served at once
    MaxTokens,  \* bound: refresh tokens minted in a behaviour
    Settings,   \* the settings of auth_config that are tried
    Pasts,      \* ids used up and deleted before the behaviour starts
    NoUid, NoEmail

TokenIds == 1..MaxTokens

ASSUME SessionsAssumption ==
    /\ MaxTokens \in Nat \ {0}
    /\ Settings \subseteq [single : BOOLEAN, confirm : BOOLEAN]
    /\ Pasts \subseteq [users : SUBSET Uids, tokens : SUBSET TokenIds]
    /\ NoUid \notin Uids
    /\ NoEmail \notin Emails

VARIABLES
    users,     \* auth.users
    tokens,    \* auth.refresh_tokens; a family is named by its first token
    policy,    \* auth_config: single_session and email confirmation
    req,       \* what each request is about to execute
    forked     \* history: families that two refreshes were rotating at once

sessVars == <<users, tokens, policy, req, forked>>

Row(st) == [st |-> st, email |-> NoEmail, confirmed |-> FALSE, banned |-> FALSE]
NoToken(st) == [st |-> st, uid |-> NoUid, fam |-> 0]
Idle == [pc |-> "idle", uid |-> NoUid, email |-> NoEmail, tok |-> 0, fam |-> 0]

Pcs == {"idle", "mail", "create", "spend", "burn", "evict", "insert",
        "revoke", "revokeEmail", "dropUser", "upgrade"}

SessTypeOK ==
    /\ users \in [Uids -> [st : {"unborn", "here", "gone"},
                           email : Emails \cup {NoEmail},
                           confirmed : BOOLEAN, banned : BOOLEAN]]
    /\ tokens \in [TokenIds -> [st : {"none", "live", "expired", "revoked", "gone"},
                                uid : Uids \cup {NoUid}, fam : 0..MaxTokens]]
    /\ policy \in Settings
    /\ req \in [Clients -> [pc : Pcs, uid : Uids \cup {NoUid},
                            email : Emails \cup {NoEmail},
                            tok : 0..MaxTokens, fam : 0..MaxTokens]]
    /\ forked \subseteq TokenIds

SessInit ==
    /\ \E past \in Pasts :
         /\ users = [u \in Uids |->
                       Row(IF u \in past.users THEN "gone" ELSE "unborn")]
         /\ tokens = [t \in TokenIds |->
                       NoToken(IF t \in past.tokens THEN "gone" ELSE "none")]
    /\ policy \in Settings
    /\ req = [c \in Clients |-> Idle]
    /\ forked = {}

-----------------------------------------------------------------------------
Here(u) == users[u].st = "here"
\* only anonymous sign-up leaves the address empty; a phone number is an address
Anonymous(u) == users[u].email = NoEmail
\* UNIQUE(email): at most one row has an address
Holder(e) == {u \in Uids : Here(u) /\ users[u].email = e}
Used == {t \in TokenIds : tokens[t].st # "none"}
Minting == {c \in Clients : req[c].pc \in {"mail", "create", "spend", "evict", "insert"}}
\* bound: a request that would mint starts only while a token id is left
Room == Cardinality(Used) + Cardinality(Minting) < MaxTokens

Goto(c, r) == req' = [req EXCEPT ![c] = r]
Step(pc, u, e, t, f) == [pc |-> pc, uid |-> u, email |-> e, tok |-> t, fam |-> f]
Mint(u, fam) == Step("evict", u, NoEmail, 0, fam)
NewUser(e, confirmed) ==
    [st |-> "here", email |-> e, confirmed |-> confirmed, banned |-> FALSE]

RevokedIf(P(_)) ==
    [t \in TokenIds |-> IF tokens[t].st \in {"live", "expired"} /\ P(t)
                        THEN [tokens[t] EXCEPT !.st = "revoked"] ELSE tokens[t]]
RevokeUser(u) == RevokedIf(LAMBDA t : tokens[t].uid = u)
RevokeFamily(f) == RevokedIf(LAMBDA t : tokens[t].fam = f)

-----------------------------------------------------------------------------
(* Sign-up and sign-in.                                                    *)

\* POST /signup without credentials: an anonymous user and its session.
SignupAnonymous(c, u) ==
    /\ req[c] = Idle /\ Room /\ users[u].st = "unborn"
    /\ users' = [users EXCEPT ![u] = NewUser(NoEmail, TRUE)]
    /\ Goto(c, Mint(u, 0))
    /\ UNCHANGED <<tokens, policy, forked>>

\* POST /signup: the INSERT fails on a taken address.  With confirmation on
\* the mail goes out before anything is minted.
Signup(c, u, e) ==
    /\ req[c] = Idle /\ Room /\ users[u].st = "unborn" /\ Holder(e) = {}
    /\ users' = [users EXCEPT ![u] = NewUser(e, FALSE)]
    /\ Goto(c, IF policy.confirm THEN Step("mail", u, e, 0, 0) ELSE Mint(u, 0))
    /\ UNCHANGED <<tokens, policy, forked>>

\* The confirmation mail was sent, or it failed and the row is deleted again.
SignupMail(c) ==
    /\ req[c].pc = "mail"
    /\ \E sent \in BOOLEAN :
         users' = IF sent THEN users
                  ELSE [users EXCEPT ![req[c].uid] = Row("gone")]
    /\ Goto(c, Idle)
    /\ UNCHANGED <<tokens, policy, forked>>

\* POST /token with a password that matches.
PasswordLogin(c, e) ==
    /\ req[c] = Idle /\ Room
    /\ \E u \in Holder(e) :
         /\ ~users[u].banned
         /\ policy.confirm => users[u].confirmed
         /\ Goto(c, Mint(u, 0))
    /\ UNCHANGED <<users, tokens, policy, forked>>

\* Magic link, one-time code, OAuth callback, SAML assertion: the user with
\* the proven address is looked up ...
FindUser(c, e) ==
    /\ req[c] = Idle /\ Room
    /\ IF Holder(e) = {}
       THEN Goto(c, Step("create", NoUid, e, 0, 0)) /\ UNCHANGED users
       ELSE \E u \in Holder(e) :
              /\ Goto(c, Mint(u, 0))
              /\ \E confirms \in BOOLEAN :      \* an OAuth callback does not
                   users' = [users EXCEPT ![u].confirmed = @ \/ confirms]
    /\ UNCHANGED <<tokens, policy, forked>>

\* ... or created.  When another request took the address in between the
\* INSERT fails, the id stays empty and no token can be stored for it.
CreateUser(c) ==
    /\ req[c].pc = "create"
    /\ IF Holder(req[c].email) = {}
       THEN \E u \in {v \in Uids : users[v].st = "unborn"}, confirmed \in BOOLEAN :
              /\ users' = [users EXCEPT ![u] = NewUser(req[c].email, confirmed)]
              /\ Goto(c, Mint(u, 0))
       ELSE Goto(c, Idle) /\ UNCHANGED users
    /\ UNCHANGED <<tokens, policy, forked>>

\* The auth.before_create hook of the project turns the new user away.
HookRejects(c) ==
    /\ req[c].pc = "create"
    /\ Goto(c, Idle)
    /\ UNCHANGED <<users, tokens, policy, forked>>

-----------------------------------------------------------------------------
(* issueTokensAAL: in single-session mode every live token of the user is  *)
(* revoked, then the new one is inserted; an empty family starts one.      *)

Evict(c) ==
    /\ req[c].pc = "evict" /\ policy.single
    /\ tokens' = RevokeUser(req[c].uid)
    /\ Goto(c, [req[c] EXCEPT !.pc = "insert"])
    /\ UNCHANGED <<users, policy, forked>>

Insert(c) ==
    /\ req[c].pc = "insert" \/ (req[c].pc = "evict" /\ ~policy.single)
    /\ \E t \in TokenIds \ Used :
         /\ \A s \in TokenIds \ Used : t <= s
         /\ tokens' = [tokens EXCEPT ![t] =
              [st |-> "live", uid |-> req[c].uid,
               fam |-> IF req[c].fam = 0 THEN t ELSE req[c].fam]]
    /\ Goto(c, Idle)
    /\ UNCHANGED <<users, policy, forked>>

-----------------------------------------------------------------------------
(* handleRefresh.                                                          *)

Rotating(f) == {c \in Clients : req[c].fam = f /\ req[c].pc \in {"spend", "evict", "insert"}}

RefreshReadNoReuseCheck(c, t) ==
    /\ req[c] = Idle /\ Room
    /\ tokens[t].st \in {"live", "revoked"}
    /\ Here(tokens[t].uid)
    /\ Goto(c, Step("spend", tokens[t].uid, NoEmail, t, tokens[t].fam))
    /\ forked' = IF Rotating(tokens[t].fam) = {} THEN forked
                 ELSE forked \cup {tokens[t].fam}
    /\ UNCHANGED <<users, tokens, policy>>

\* The token is looked up joined to its user, so a deleted user's token is
\* unknown; an expired one is refused.
RefreshRead(c, t) ==
    /\ req[c] = Idle /\ Room
    /\ tokens[t].st \in {"live", "revoked"}
    /\ Here(tokens[t].uid)
    /\ LET f == tokens[t].fam IN
         IF tokens[t].st = "revoked"
         THEN Goto(c, Step("burn", NoUid, NoEmail, 0, f)) /\ UNCHANGED forked
         ELSE /\ Goto(c, Step("spend", tokens[t].uid, NoEmail, t, f))
              /\ forked' = IF Rotating(f) = {} THEN forked ELSE forked \cup {f}
    /\ UNCHANGED <<users, tokens, policy>>

\* A token that was used before: the whole family is revoked.
Burn(c) ==
    /\ req[c].pc = "burn"
    /\ tokens' = RevokeFamily(req[c].fam)
    /\ Goto(c, Idle)
    /\ UNCHANGED <<users, policy, forked>>

\* The presented token is spent; its successor keeps the family.
Spend(c) ==
    /\ req[c].pc = "spend"
    /\ tokens' = RevokedIf(LAMBDA t : t = req[c].tok)
    /\ Goto(c, Mint(req[c].uid, req[c].fam))
    /\ UNCHANGED <<users, policy, forked>>

\* 30 days pass.
Expire(t) ==
    /\ tokens[t].st = "live"
    /\ tokens' = [tokens EXCEPT ![t].st = "expired"]
    /\ UNCHANGED <<users, policy, req, forked>>

-----------------------------------------------------------------------------
(* Revocation.                                                             *)

\* POST /logout: the presented token, or with scope=global every token of
\* its user.
Logout(t) ==
    /\ tokens[t].st \in {"live", "expired", "revoked"}
    /\ tokens' \in {RevokedIf(LAMBDA s : s = t), RevokeUser(tokens[t].uid)}
    /\ UNCHANGED <<users, policy, req, forked>>

\* The panel's "sign out everywhere" button.
RevokeSessions(u) ==
    /\ tokens' = RevokeUser(u)
    /\ UNCHANGED <<users, policy, req, forked>>

\* POST /recover: the new password, which also confirms the address; the
\* user's tokens are revoked by the next statement.
Recover(c, e) ==
    /\ req[c] = Idle
    /\ \E u \in Holder(e) : users' = [users EXCEPT ![u].confirmed = TRUE]
    /\ Goto(c, Step("revokeEmail", NoUid, e, 0, 0))
    /\ UNCHANGED <<tokens, policy, forked>>

RevokeByEmail(c) ==
    /\ req[c].pc = "revokeEmail"
    /\ tokens' = RevokedIf(LAMBDA t : tokens[t].uid \in Holder(req[c].email))
    /\ Goto(c, Idle)
    /\ UNCHANGED <<users, policy, forked>>

\* PUT /admin/users/{id}: a new password or a ban, then the revocation.  One
\* body may carry both, which runs the revocation twice.
AdminUpdate(c, u) ==
    /\ req[c] = Idle /\ Here(u)
    /\ \E ban \in {users[u].banned, TRUE} : users' = [users EXCEPT ![u].banned = ban]
    /\ Goto(c, Step("revoke", u, NoEmail, 0, 0))
    /\ UNCHANGED <<tokens, policy, forked>>

RevokeAll(c) ==
    /\ req[c].pc = "revoke"
    /\ tokens' = RevokeUser(req[c].uid)
    /\ Goto(c, Idle)
    /\ UNCHANGED <<users, policy, forked>>

Unban(u) ==
    /\ Here(u) /\ users[u].banned
    /\ users' = [users EXCEPT ![u].banned = FALSE]
    /\ UNCHANGED <<tokens, policy, req, forked>>

\* DELETE /admin/users/{id}: the tokens' rows, then the user's.
AdminDelete(c, u) ==
    /\ req[c] = Idle /\ Here(u)
    /\ tokens' = [t \in TokenIds |-> IF tokens[t].uid = u
                                     THEN NoToken("gone") ELSE tokens[t]]
    /\ Goto(c, Step("dropUser", u, NoEmail, 0, 0))
    /\ UNCHANGED <<users, policy, forked>>

DropUser(c) ==
    /\ req[c].pc = "dropUser"
    /\ users' = [users EXCEPT ![req[c].uid] = Row("gone")]
    /\ Goto(c, Idle)
    /\ UNCHANGED <<tokens, policy, forked>>

\* The panel's delete button leaves the tokens where they are.
PanelDelete(u) ==
    /\ Here(u)
    /\ users' = [users EXCEPT ![u] = Row("gone")]
    /\ UNCHANGED <<tokens, policy, req, forked>>

-----------------------------------------------------------------------------
(* Accounts and settings that no session depends on.                       *)

\* Admin API, panel form and invitation: a row without a session.
CreateRow(u, e) ==
    /\ users[u].st = "unborn" /\ Holder(e) = {}
    /\ users' = [users EXCEPT ![u] = NewUser(e, FALSE)]
    /\ UNCHANGED <<tokens, policy, req, forked>>

\* GET /verify with a confirmation link.
ConfirmEmail(e) ==
    /\ \E u \in Holder(e) :
         ~users[u].confirmed /\ users' = [users EXCEPT ![u].confirmed = TRUE]
    /\ UNCHANGED <<tokens, policy, req, forked>>

\* PUT /user: an anonymous account becomes permanent; the UPDATE fails on an
\* address taken since, and repeats the whole row when it ran before.
UpgradeRead(c, u, e) ==
    /\ req[c] = Idle /\ Here(u) /\ Anonymous(u)
    /\ Goto(c, Step("upgrade", u, e, 0, 0))
    /\ UNCHANGED <<users, tokens, policy, forked>>

UpgradeWrite(c) ==
    /\ req[c].pc = "upgrade"
    /\ LET u == req[c].uid IN
         users' = IF Here(u) /\ Holder(req[c].email) \subseteq {u}
                  THEN [users EXCEPT ![u].email = req[c].email,
                                     ![u].confirmed = ~policy.confirm]
                  ELSE users
    /\ Goto(c, Idle)
    /\ UNCHANGED <<tokens, policy, forked>>

SavePolicy ==
    /\ policy' \in Settings
    /\ UNCHANGED <<users, tokens, req, forked>>

\* The panel restarts: what its requests had still to execute is lost.
PanelRestart ==
    /\ req' = [c \in Clients |-> Idle]
    /\ UNCHANGED <<users, tokens, policy, forked>>

SignIn(c) ==
    \/ \E u \in Uids : SignupAnonymous(c, u)
    \/ \E u \in Uids, e \in Emails : Signup(c, u, e)
    \/ \E e \in Emails : PasswordLogin(c, e) \/ FindUser(c, e)
    \/ SignupMail(c) \/ CreateUser(c) \/ HookRejects(c)
    \/ Evict(c) \/ Insert(c)
    \/ \E t \in TokenIds : RefreshRead(c, t)
    \/ Burn(c) \/ Spend(c)

Manage(c) ==
    \/ \E e \in Emails : Recover(c, e)
    \/ \E u \in Uids : AdminUpdate(c, u) \/ AdminDelete(c, u)
    \/ \E u \in Uids, e \in Emails : UpgradeRead(c, u, e)
    \/ RevokeByEmail(c) \/ RevokeAll(c) \/ DropUser(c) \/ UpgradeWrite(c)

SessNext ==
    \/ \E c \in Clients : SignIn(c) \/ Manage(c)
    \/ \E t \in TokenIds : Expire(t) \/ Logout(t)
    \/ \E u \in Uids : RevokeSessions(u) \/ Unban(u) \/ PanelDelete(u)
    \/ \E u \in Uids, e \in Emails : CreateRow(u, e)
    \/ \E e \in Emails : ConfirmEmail(e)
    \/ SavePolicy
    \/ PanelRestart

SessSpec == SessInit /\ [][SessNext]_sessVars

-----------------------------------------------------------------------------
Live(f) == {t \in TokenIds : tokens[t].fam = f /\ tokens[t].st = "live"}

\* A session is over when none of its tokens is live and no refresh that
\* found one live is still on its way to inserting the next.
Over(f) ==
    /\ tokens[f].st # "none"
    /\ \A t \in TokenIds : tokens[t].st = "live" => tokens[t].fam # f
    /\ \A c \in Clients : req[c].fam = f => req[c].pc = "burn"

\* A session that is over stays over: whatever ended it (logout, a ban, a
\* new password, reuse of a spent token, eviction, expiry, a deleted user),
\* no later request brings a token of its family to life.  The revoking
\* statements and the rotation are separate, so this needs the check of
\* "revoked" before the rotation and every revocation to stick.
OverStaysOver == [][\A f \in TokenIds : Over(f) => Over(f)']_sessVars

\* A session has one usable refresh token at a time unless two refreshes of
\* it overlapped: rotation spends the token it read before it inserts the
\* next one, and a spent token never starts a rotation.
OneLiveTokenPerSession ==
    \A f \in Used \ forked : Cardinality(Live(f)) <= 1
=============================================================================
