---------------------------- MODULE IdentityProofs ----------------------------
(***************************************************************************)
(* Proofs about who is let in: the sessions, refresh tokens, codes and     *)
(* second factors of a project's users, the panel's accounts, sign-in and  *)
(* cookies, and the signing keys; for any number of users, requests,       *)
(* tokens, codes, addresses and browsers and any settings.  At the end,    *)
(* Identity implements each of its parts, so that what is proved of a part *)
(* holds of Identity, whatever the other parts do.                         *)
(***************************************************************************)
EXTENDS Identity, FiniteSetTheorems, TLAPS

-----------------------------------------------------------------------------
(* Sessions and refresh tokens.                                            *)

TokenRecords == [st : {"none", "live", "expired", "revoked", "gone"},
                 uid : Uids \cup {NoUid}, fam : 0..MaxTokens]
ReqRecords == [pc : Pcs, uid : Uids \cup {NoUid}, email : Emails \cup {NoEmail},
               tok : 0..MaxTokens, fam : 0..MaxTokens]

\* A token that was not minted is nobody's.
SessShape ==
    /\ tokens \in [TokenIds -> TokenRecords]
    /\ req \in [Clients -> ReqRecords]
    /\ \A t \in TokenIds : tokens[t].st = "none" => tokens[t].uid = NoUid

\* A family is named by a token that was minted, and a token that may be
\* presented has one.
FamiliesMinted ==
    /\ \A t \in TokenIds : tokens[t].fam \in Used \cup {0}
    /\ \A c \in Clients : req[c].fam \in Used \cup {0}
    /\ \A t \in TokenIds : tokens[t].fam = 0 => tokens[t].st \in {"none", "gone"}

\* Of a family that is not forked: one token is live, one request rotates it,
\* and that one holds the live token or has spent it.
OneLine ==
    \A f \in TokenIds \ forked :
        /\ \A s, t \in Live(f) : s = t
        /\ \A c, d \in Rotating(f) : c = d
        /\ \A c \in Rotating(f) :
             \A t \in Live(f) : req[c].pc = "spend" /\ t = req[c].tok

SessInv == SessShape /\ FamiliesMinted /\ OneLine

-----------------------------------------------------------------------------
LEMMA TokenIdsFacts ==
  /\ 0 \notin TokenIds /\ TokenIds \subseteq 0..MaxTokens /\ 0 \in 0..MaxTokens
  BY SessionsAssumption DEF TokenIds

LEMMA Steps ==
  /\ Idle \in ReqRecords /\ Idle.pc = "idle" /\ Idle.fam = 0
  /\ \A pc \in Pcs, u \in Uids \cup {NoUid}, e \in Emails \cup {NoEmail},
        t \in 0..MaxTokens, f \in 0..MaxTokens :
       /\ Step(pc, u, e, t, f) \in ReqRecords
       /\ Step(pc, u, e, t, f).pc = pc /\ Step(pc, u, e, t, f).tok = t
       /\ Step(pc, u, e, t, f).fam = f
  BY TokenIdsFacts DEF Idle, Step, ReqRecords, Pcs

LEMMA SessInitInv == SessInit => SessInv
<1> SUFFICES ASSUME SessInit PROVE SessInv
  OBVIOUS
<1>1. PICK past \in Pasts :
        tokens = [t \in TokenIds |-> NoToken(IF t \in past.tokens THEN "gone" ELSE "none")]
  BY DEF SessInit
<1>2. \A t \in TokenIds : /\ tokens[t] \in TokenRecords
                          /\ tokens[t].fam = 0 /\ tokens[t].st # "live"
                          /\ tokens[t].uid = NoUid /\ tokens[t].st \in {"none", "gone"}
  BY <1>1, TokenIdsFacts DEF NoToken, TokenRecords
<1>3. req = [c \in Clients |-> Idle]
  BY DEF SessInit
<1>4. SessShape
  BY <1>1, <1>2, <1>3, Steps DEF SessShape
<1> QED
  BY <1>2, <1>3, <1>4, Steps DEF SessInv, FamiliesMinted, OneLine, Live, Rotating

-----------------------------------------------------------------------------
\* No token becomes live and no request starts to rotate a family.
LEMMA QuietStep ==
  ASSUME SessInv, SessShape', forked' = forked,
         \A t \in TokenIds :
           /\ tokens'[t].st = "none" <=> tokens[t].st = "none"
           /\ tokens'[t].st = "live" => tokens[t].st = "live"
           /\ tokens'[t].fam \in {0, tokens[t].fam}
           /\ tokens'[t].fam = 0 => tokens'[t].st \in {"none", "gone"},
         \A c \in Clients :
           \/ req'[c] = req[c]
           \/ req'[c].fam = 0
           \/ req'[c].fam = req[c].fam /\ req[c].pc = "evict" /\ req'[c].pc = "insert"
  PROVE  SessInv'
<1>1. Used' = Used
  BY DEF Used
<1>2. FamiliesMinted'
  BY <1>1 DEF SessInv, FamiliesMinted
<1>3. \A f \in TokenIds : Live(f)' \subseteq Live(f) /\ Rotating(f)' \subseteq Rotating(f)
  BY TokenIdsFacts DEF Live, Rotating
<1>4. \A f \in TokenIds : \A c \in Rotating(f)' :
        req[c].pc = "spend" => req'[c].pc = "spend" /\ req'[c].tok = req[c].tok
  BY TokenIdsFacts DEF Rotating
<1>5. OneLine'
  BY <1>3, <1>4 DEF SessInv, OneLine
<1> QED
  BY <1>2, <1>5 DEF SessInv

\* A statement that ends tokens and brings none to life.
Ending(toks) ==
    /\ toks \in [TokenIds -> TokenRecords]
    /\ \A t \in TokenIds :
         /\ toks[t].st = "none" <=> tokens[t].st = "none"
         /\ toks[t].st = "none" => toks[t].uid = NoUid
         /\ toks[t].st = "live" => tokens[t].st = "live"
         /\ toks[t].fam \in {0, tokens[t].fam}
         /\ toks[t].fam = 0 => toks[t].st \in {"none", "gone"}

RevokeToken(s) == RevokedIf(LAMBDA t : t = s)
RevokeHolder(e) == RevokedIf(LAMBDA t : tokens[t].uid \in Holder(e))

\* Every revocation is one.
LEMMA RevocationsEnd ==
  ASSUME SessShape, FamiliesMinted
  PROVE  /\ \A u : Ending(RevokeUser(u))
         /\ \A f : Ending(RevokeFamily(f))
         /\ \A s : Ending(RevokeToken(s))
         /\ \A e : Ending(RevokeHolder(e))
<1>1. \A t \in TokenIds :
        /\ tokens[t] \in TokenRecords
        /\ tokens[t].st = "none" => tokens[t].uid = NoUid
        /\ tokens[t].fam = 0 => tokens[t].st \in {"none", "gone"}
        /\ tokens[t].st \in {"live", "expired"} =>
             /\ [tokens[t] EXCEPT !.st = "revoked"] \in TokenRecords
             /\ [tokens[t] EXCEPT !.st = "revoked"].st = "revoked"
             /\ [tokens[t] EXCEPT !.st = "revoked"].fam = tokens[t].fam
  BY DEF SessShape, FamiliesMinted, TokenRecords
<1>2. \A u : Ending(RevokeUser(u))
  BY <1>1 DEF Ending, RevokeUser, RevokedIf
<1>3. \A f : Ending(RevokeFamily(f))
  BY <1>1 DEF Ending, RevokeFamily, RevokedIf
<1>4. \A s : Ending(RevokeToken(s))
  BY <1>1 DEF Ending, RevokeToken, RevokedIf
<1>5. \A e : Ending(RevokeHolder(e))
  BY <1>1 DEF Ending, RevokeHolder, RevokedIf
<1> QED
  BY <1>2, <1>3, <1>4, <1>5

\* Such a statement, and a request that goes on with a step of no family.
Quiet ==
    /\ Ending(tokens') /\ forked' = forked
    /\ \/ req' = req
       \/ \E c \in Clients, r \in ReqRecords : r.fam = 0 /\ Goto(c, r)

LEMMA EndingStep == ASSUME SessInv, Quiet PROVE SessInv'
<1>1. CASE req' = req
  <2>1. SessShape'
    BY <1>1 DEF SessInv, SessShape, Ending, Quiet
  <2> QED
    BY <1>1, <2>1, QuietStep DEF Ending, Quiet
<1>2. ASSUME NEW c \in Clients, NEW r \in ReqRecords, r.fam = 0, Goto(c, r)
      PROVE  SessInv'
  <2>1. SessShape'
    BY <1>2 DEF SessInv, SessShape, Goto, Ending, Quiet
  <2>2. /\ req'[c] = r /\ \A d \in Clients : d # c => req'[d] = req[d]
    BY <1>2 DEF SessInv, SessShape, Goto
  <2> QED
    BY <1>2, <2>1, <2>2, QuietStep DEF Ending, Quiet
<1> QED
  BY <1>1, <1>2 DEF Quiet

-----------------------------------------------------------------------------
LEMMA RefreshReadStep ==
  ASSUME SessInv, NEW c \in Clients, NEW t \in TokenIds, RefreshRead(c, t)
  PROVE  SessInv'
<1> DEFINE f == tokens[t].fam
<1>0. f \in 0..MaxTokens /\ f \in Used \cup {0} /\ tokens[t].uid \in Uids \cup {NoUid}
  BY DEF SessInv, SessShape, FamiliesMinted, TokenRecords
<1>1. CASE tokens[t].st = "revoked"
  <2> DEFINE r == Step("burn", NoUid, NoEmail, 0, f)
  <2>1. r \in ReqRecords /\ r.pc = "burn" /\ r.fam = f
    BY <1>0, Steps, TokenIdsFacts, SessionsAssumption DEF Pcs
  <2>2. Goto(c, r) /\ UNCHANGED <<tokens, forked>>
    BY <1>1 DEF RefreshRead
  <2> HIDE DEF r
  <2>3. /\ req'[c] = r /\ \A d \in Clients : d # c => req'[d] = req[d]
    BY <2>2 DEF SessInv, SessShape, Goto
  <2>4. SessShape'
    BY <2>1, <2>2 DEF SessInv, SessShape, Goto
  <2>5. Used' = Used
    BY <2>2 DEF Used
  <2>6. FamiliesMinted'
    BY <1>0, <2>1, <2>2, <2>3, <2>5 DEF SessInv, FamiliesMinted
  <2>7. \A g \in TokenIds : /\ Live(g)' = Live(g) /\ Rotating(g)' \subseteq Rotating(g) \ {c}
                            /\ Rotating(g) \subseteq Clients
    BY <2>1, <2>2, <2>3 DEF Live, Rotating
  <2>8. OneLine'
    BY <2>2, <2>3, <2>7 DEF SessInv, OneLine
  <2> QED
    BY <2>4, <2>6, <2>8 DEF SessInv
<1>2. CASE tokens[t].st = "live"
  <2> DEFINE r == Step("spend", tokens[t].uid, NoEmail, t, f)
  <2>1. r \in ReqRecords /\ r.pc = "spend" /\ r.fam = f /\ r.tok = t
    BY <1>0, Steps, TokenIdsFacts DEF Pcs
  <2>2. /\ Goto(c, r) /\ tokens' = tokens
        /\ forked' = IF Rotating(f) = {} THEN forked ELSE forked \cup {f}
        /\ req[c] = Idle
    BY <1>2 DEF RefreshRead
  <2> HIDE DEF r
  <2>3. /\ req'[c] = r /\ \A d \in Clients : d # c => req'[d] = req[d]
    BY <2>2 DEF SessInv, SessShape, Goto
  <2>4. SessShape'
    BY <2>1, <2>2 DEF SessInv, SessShape, Goto
  <2>5. Used' = Used
    BY <2>2 DEF Used
  <2>6. FamiliesMinted'
    BY <1>0, <2>1, <2>2, <2>3, <2>5 DEF SessInv, FamiliesMinted
  <2>7. \A g \in TokenIds : /\ Live(g)' = Live(g)
                            /\ g # f => Rotating(g)' = Rotating(g)
                            /\ Rotating(g)' \subseteq Rotating(g) \cup {c}
    BY <2>1, <2>2, <2>3, Steps DEF Live, Rotating
  <2>8. ASSUME NEW g \in TokenIds \ forked'
        PROVE  /\ \A s, u \in Live(g)' : s = u
               /\ \A d, e \in Rotating(g)' : d = e
               /\ \A d \in Rotating(g)' :
                    \A u \in Live(g)' : req'[d].pc = "spend" /\ u = req'[d].tok
    <3>1. g \notin forked
      BY <2>2
    <3>2. CASE g = f
      <4>1. Rotating(f) = {} /\ Rotating(f)' \subseteq {c}
        BY <2>2, <2>7, <3>2
      <4>2. t \in Live(f)
        BY <1>2 DEF Live
      <4> QED
        BY <2>1, <2>3, <2>7, <3>1, <3>2, <4>1, <4>2 DEF SessInv, OneLine
    <3>3. CASE g # f
      <4>1. c \notin Rotating(g)
        BY <2>2, Steps DEF Rotating
      <4> QED
        BY <2>3, <2>7, <3>1, <3>3, <4>1 DEF SessInv, OneLine, Rotating
    <3> QED
      BY <3>2, <3>3
  <2>9. OneLine'
    BY <2>8 DEF OneLine
  <2> QED
    BY <2>4, <2>6, <2>9 DEF SessInv
<1> QED
  BY <1>1, <1>2 DEF RefreshRead

LEMMA SpendStep ==
  ASSUME SessInv, NEW c \in Clients, Spend(c)
  PROVE  SessInv'
<1> DEFINE r == Mint(req[c].uid, req[c].fam)
<1>0. /\ req[c].fam \in 0..MaxTokens /\ req[c].fam \in Used \cup {0}
      /\ req[c].uid \in Uids \cup {NoUid} /\ req[c].pc = "spend"
  BY DEF Spend, SessInv, SessShape, FamiliesMinted, ReqRecords
<1>1. r \in ReqRecords /\ r.pc = "evict" /\ r.fam = req[c].fam
  BY <1>0, Steps, TokenIdsFacts, SessionsAssumption DEF Pcs, Mint
<1>2. /\ Goto(c, r) /\ forked' = forked
      /\ tokens' = RevokeToken(req[c].tok)
  BY DEF Spend, RevokeToken, RevokedIf
<1>3. Ending(tokens')
  BY <1>2, RevocationsEnd DEF SessInv
<1>4. \A t \in TokenIds : tokens'[t].st = "live" => t # req[c].tok
  BY <1>2 DEF RevokeToken, RevokedIf, SessInv, SessShape, TokenRecords
<1> HIDE DEF r
<1>5. /\ req'[c] = r /\ \A d \in Clients : d # c => req'[d] = req[d]
  BY <1>2 DEF SessInv, SessShape, Goto
<1>6. SessShape'
  BY <1>1, <1>2, <1>3 DEF SessInv, SessShape, Goto, Ending
<1>7. Used' = Used
  BY <1>3 DEF Used, Ending
<1>8. FamiliesMinted'
  BY <1>0, <1>1, <1>3, <1>5, <1>7 DEF SessInv, FamiliesMinted, Ending
<1>9. \A g \in TokenIds : /\ Live(g)' \subseteq Live(g) /\ Rotating(g)' = Rotating(g)
                          /\ Rotating(g) \subseteq Clients
                          /\ c \in Rotating(g) /\ g \notin forked => Live(g)' = {}
  <2>1. \A g \in TokenIds : Live(g)' \subseteq Live(g) /\ req[c].tok \notin Live(g)'
    BY <1>3, <1>4, TokenIdsFacts DEF Live, Ending
  <2>2. \A g \in TokenIds : Rotating(g)' = Rotating(g) /\ Rotating(g) \subseteq Clients
    BY <1>0, <1>1, <1>5 DEF Rotating
  <2>3. ASSUME NEW g \in TokenIds, c \in Rotating(g), g \notin forked PROVE Live(g)' = {}
    BY <2>1, <2>3 DEF SessInv, OneLine
  <2> QED
    BY <2>1, <2>2, <2>3
<1>10. OneLine'
  BY <1>2, <1>5, <1>9 DEF SessInv, OneLine
<1> QED
  BY <1>6, <1>8, <1>10 DEF SessInv

LEMMA InsertStep ==
  ASSUME SessInv, NEW c \in Clients, Insert(c)
  PROVE  SessInv'
<1>1. PICK t \in TokenIds \ Used :
        tokens' = [tokens EXCEPT ![t] = [st |-> "live", uid |-> req[c].uid,
                    fam |-> IF req[c].fam = 0 THEN t ELSE req[c].fam]]
  BY DEF Insert
<1> DEFINE f == IF req[c].fam = 0 THEN t ELSE req[c].fam
           new == [st |-> "live", uid |-> req[c].uid, fam |-> f]
<1>2. /\ req[c].fam \in 0..MaxTokens /\ req[c].fam \in Used \cup {0}
      /\ req[c].uid \in Uids \cup {NoUid} /\ req[c].pc \in {"evict", "insert"}
  BY DEF Insert, SessInv, SessShape, FamiliesMinted, ReqRecords
<1>3. /\ f \in TokenIds
      /\ req[c].fam = 0 => f = t
      /\ req[c].fam # 0 => f = req[c].fam /\ f \in Used
  BY <1>1, <1>2, TokenIdsFacts DEF Used
<1>4. tokens' = [tokens EXCEPT ![t] = new]
  BY <1>1
<1> HIDE DEF f
<1>5. new \in TokenRecords /\ new.st = "live" /\ new.fam = f
  BY <1>2, <1>3, TokenIdsFacts DEF TokenRecords
<1> HIDE DEF new
<1>6. /\ tokens' \in [TokenIds -> TokenRecords] /\ tokens'[t] = new
      /\ \A s \in TokenIds : s # t => tokens'[s] = tokens[s]
  BY <1>1, <1>4, <1>5 DEF SessInv, SessShape
<1>7. /\ forked' = forked /\ Goto(c, Idle)
  BY DEF Insert
<1>8. /\ req'[c] = Idle /\ \A d \in Clients : d # c => req'[d] = req[d]
  BY <1>7 DEF SessInv, SessShape, Goto
<1>9. SessShape'
  BY <1>5, <1>6, <1>7, Steps DEF SessInv, SessShape, Goto
<1>10. Used' = Used \cup {t}
  BY <1>1, <1>5, <1>6 DEF Used
<1>11. FamiliesMinted'
  BY <1>3, <1>5, <1>6, <1>8, <1>10, Steps, TokenIdsFacts DEF SessInv, FamiliesMinted
<1>12. \A g \in TokenIds : Rotating(g)' = Rotating(g) \ {c} /\ Rotating(g) \subseteq Clients
  BY <1>8, Steps, TokenIdsFacts DEF Rotating
<1>13. \A g \in TokenIds : Live(g)' \subseteq Live(g) \cup {t} /\ (g # f => Live(g)' = Live(g))
  <2>1. tokens[t].st # "live"
    BY <1>1 DEF Used
  <2> QED
    BY <1>1, <1>5, <1>6, <2>1 DEF Live
<1>14. ASSUME f \notin forked PROVE Live(f) = {} /\ Rotating(f) \subseteq {c}
  <2>1. CASE req[c].fam = 0
    <3>1. f \notin Used /\ f # 0
      BY <1>1, <1>3, <2>1, TokenIdsFacts
    <3> QED
      BY <3>1 DEF SessInv, FamiliesMinted, Live, Rotating
  <2>2. CASE req[c].fam # 0
    <3>1. c \in Rotating(f)
      BY <1>2, <1>3, <2>2 DEF Rotating
    <3> QED
      BY <1>2, <1>3, <1>14, <3>1 DEF SessInv, OneLine
  <2> QED
    BY <2>1, <2>2
<1>15. ASSUME NEW g \in TokenIds \ forked'
       PROVE  /\ \A s, u \in Live(g)' : s = u
              /\ \A d, e \in Rotating(g)' : d = e
              /\ \A d \in Rotating(g)' :
                   \A u \in Live(g)' : req'[d].pc = "spend" /\ u = req'[d].tok
  <2>1. CASE g = f
    BY <1>7, <1>12, <1>13, <1>14, <2>1
  <2>2. CASE g # f
    BY <1>7, <1>8, <1>12, <1>13, <2>2 DEF SessInv, OneLine
  <2> QED
    BY <2>1, <2>2
<1>16. OneLine'
  BY <1>15 DEF OneLine
<1> QED
  BY <1>9, <1>11, <1>16 DEF SessInv

-----------------------------------------------------------------------------
\* The steps that belong to no family.
LEMMA NoFamily ==
  /\ Idle \in ReqRecords /\ Idle.fam = 0
  /\ \A pc \in Pcs, u \in Uids \cup {NoUid}, e \in Emails \cup {NoEmail} :
       Step(pc, u, e, 0, 0) \in ReqRecords /\ Step(pc, u, e, 0, 0).fam = 0
  /\ \A u \in Uids : Mint(u, 0) \in ReqRecords /\ Mint(u, 0).fam = 0
<1>1. \A pc \in Pcs, u \in Uids \cup {NoUid}, e \in Emails \cup {NoEmail} :
        Step(pc, u, e, 0, 0) \in ReqRecords /\ Step(pc, u, e, 0, 0).fam = 0
  BY Steps, TokenIdsFacts, SessionsAssumption
<1> QED
  BY <1>1, Steps DEF Mint, Pcs

LEMMA TokensStay == ASSUME SessShape, FamiliesMinted PROVE Ending(tokens)
  BY DEF Ending, SessShape, FamiliesMinted

LEMMA SignInQuiet ==
  ASSUME SessInv, NEW c \in Clients, SignIn(c),
         ~Evict(c), ~Insert(c), ~Spend(c), \A t \in TokenIds : ~RefreshRead(c, t)
  PROVE  Quiet
<1>0. SessShape /\ FamiliesMinted /\ Ending(tokens)
  BY TokensStay DEF SessInv
<1>1. ASSUME UNCHANGED <<tokens, forked>>, NEW r \in ReqRecords, r.fam = 0, Goto(c, r)
      PROVE  Quiet
  BY <1>0, <1>1 DEF Quiet
<1>2. ASSUME NEW u \in Uids, SignupAnonymous(c, u) PROVE Quiet
  BY <1>1, <1>2, NoFamily DEF SignupAnonymous
<1>3. ASSUME NEW u \in Uids, NEW e \in Emails, Signup(c, u, e) PROVE Quiet
  BY <1>1, <1>3, NoFamily DEF Signup, Pcs
<1>4. ASSUME NEW e \in Emails, PasswordLogin(c, e) PROVE Quiet
  BY <1>1, <1>4, NoFamily DEF PasswordLogin, Holder
<1>5. ASSUME NEW e \in Emails, FindUser(c, e) PROVE Quiet
  BY <1>1, <1>5, NoFamily DEF FindUser, Holder, Pcs
<1>6. ASSUME SignupMail(c) \/ HookRejects(c) PROVE Quiet
  BY <1>1, <1>6, NoFamily DEF SignupMail, HookRejects
<1>7. ASSUME CreateUser(c) PROVE Quiet
  BY <1>1, <1>7, NoFamily DEF CreateUser
<1>8. ASSUME Burn(c) PROVE Quiet
  BY <1>0, <1>8, NoFamily, RevocationsEnd DEF Burn, Quiet
<1> QED
  BY <1>2, <1>3, <1>4, <1>5, <1>6, <1>7, <1>8 DEF SignIn

LEMMA ManageQuiet ==
  ASSUME SessInv, NEW c \in Clients, Manage(c)
  PROVE  Quiet
<1>0. SessShape /\ FamiliesMinted /\ Ending(tokens)
  BY TokensStay DEF SessInv
<1>1. ASSUME Ending(tokens'), forked' = forked, NEW r \in ReqRecords, r.fam = 0, Goto(c, r)
      PROVE  Quiet
  BY <1>1 DEF Quiet
<1>2. ASSUME NEW e \in Emails, Recover(c, e) PROVE Quiet
  BY <1>0, <1>1, <1>2, NoFamily DEF Recover, Pcs
<1>3. ASSUME NEW u \in Uids, AdminUpdate(c, u) PROVE Quiet
  BY <1>0, <1>1, <1>3, NoFamily DEF AdminUpdate, Pcs
<1>4. ASSUME NEW u \in Uids, AdminDelete(c, u) PROVE Quiet
  <2>1. NoToken("gone") \in TokenRecords /\ NoToken("gone").st = "gone"
        /\ NoToken("gone").fam = 0
    BY TokenIdsFacts DEF NoToken, TokenRecords
  <2>2. \A t \in TokenIds : tokens[t].uid = u => tokens[t].st # "none"
    BY <1>0, SessionsAssumption DEF SessShape
  <2>3. Ending(tokens')
    BY <1>0, <1>4, <2>1, <2>2 DEF AdminDelete, Ending, SessShape
  <2> QED
    BY <1>1, <1>4, <2>3, NoFamily DEF AdminDelete, Pcs
<1>5. ASSUME NEW u \in Uids, NEW e \in Emails, UpgradeRead(c, u, e) PROVE Quiet
  BY <1>0, <1>1, <1>5, NoFamily DEF UpgradeRead, Pcs
<1>6. ASSUME RevokeByEmail(c) PROVE Quiet
  <2>1. tokens' = RevokeHolder(req[c].email)
    BY <1>6 DEF RevokeByEmail, RevokeHolder, RevokedIf
  <2> QED
    BY <1>0, <1>1, <1>6, <2>1, NoFamily, RevocationsEnd DEF RevokeByEmail
<1>7. ASSUME RevokeAll(c) PROVE Quiet
  BY <1>0, <1>1, <1>7, NoFamily, RevocationsEnd DEF RevokeAll
<1>8. ASSUME DropUser(c) \/ UpgradeWrite(c) PROVE Quiet
  BY <1>0, <1>1, <1>8, NoFamily DEF DropUser, UpgradeWrite
<1> QED
  BY <1>2, <1>3, <1>4, <1>5, <1>6, <1>7, <1>8 DEF Manage

LEMMA SessNextQuiet ==
  ASSUME SessInv, SessNext
  PROVE  \/ Quiet
         \/ PanelRestart
         \/ \E c \in Clients : Evict(c) \/ Insert(c) \/ Spend(c)
         \/ \E c \in Clients, t \in TokenIds : RefreshRead(c, t)
<1>0. SessShape /\ FamiliesMinted /\ Ending(tokens)
  BY TokensStay DEF SessInv
<1>1. ASSUME NEW t \in TokenIds, Expire(t) PROVE Quiet
  <2> DEFINE r == [tokens[t] EXCEPT !.st = "expired"]
  <2>1. /\ r \in TokenRecords /\ r.st = "expired" /\ r.fam = tokens[t].fam
        /\ tokens[t].st = "live"
    BY <1>0, <1>1 DEF Expire, SessShape, TokenRecords
  <2>2. tokens' = [tokens EXCEPT ![t] = r]
    BY <1>1 DEF Expire
  <2> HIDE DEF r
  <2>3. Ending(tokens')
    BY <1>0, <2>1, <2>2 DEF Ending, SessShape
  <2> QED
    BY <1>1, <2>3 DEF Expire, Quiet
<1>2. ASSUME NEW t \in TokenIds, Logout(t) PROVE Quiet
  <2>1. tokens' = RevokeToken(t) \/ tokens' = RevokeUser(tokens[t].uid)
    BY <1>2 DEF Logout, RevokeToken, RevokedIf
  <2> QED
    BY <1>0, <1>2, <2>1, RevocationsEnd DEF Logout, Quiet
<1>3. ASSUME NEW u \in Uids, RevokeSessions(u) PROVE Quiet
  BY <1>0, <1>3, RevocationsEnd DEF RevokeSessions, Quiet
<1>4. ASSUME UNCHANGED <<tokens, req, forked>> PROVE Quiet
  BY <1>0, <1>4 DEF Quiet
<1>5. ASSUME NEW u \in Uids, Unban(u) \/ PanelDelete(u) PROVE Quiet
  BY <1>4, <1>5 DEF Unban, PanelDelete
<1>6. ASSUME NEW u \in Uids, NEW e \in Emails, CreateRow(u, e) PROVE Quiet
  BY <1>4, <1>6 DEF CreateRow
<1>7. ASSUME NEW e \in Emails, ConfirmEmail(e) PROVE Quiet
  BY <1>4, <1>7 DEF ConfirmEmail
<1>8. ASSUME SavePolicy PROVE Quiet
  BY <1>4, <1>8 DEF SavePolicy
<1> QED
  BY <1>1, <1>2, <1>3, <1>5, <1>6, <1>7, <1>8, SignInQuiet, ManageQuiet DEF SessNext

LEMMA EvictStep ==
  ASSUME SessInv, NEW c \in Clients, Evict(c)
  PROVE  SessInv' /\ Ending(tokens')
<1> DEFINE r == [req[c] EXCEPT !.pc = "insert"]
<1>1. r \in ReqRecords /\ r.pc = "insert" /\ r.fam = req[c].fam /\ req[c].pc = "evict"
  BY DEF Evict, SessInv, SessShape, ReqRecords, Pcs
<1>2. Goto(c, r) /\ forked' = forked
  BY DEF Evict
<1>3. Ending(tokens')
  BY RevocationsEnd DEF Evict, SessInv
<1> HIDE DEF r
<1>4. /\ req'[c] = r /\ \A d \in Clients : d # c => req'[d] = req[d]
  BY <1>2 DEF SessInv, SessShape, Goto
<1>5. SessShape'
  BY <1>1, <1>2, <1>3 DEF SessInv, SessShape, Goto, Ending
<1> QED
  BY <1>1, <1>2, <1>3, <1>4, <1>5, QuietStep DEF Ending

LEMMA RestartStep == ASSUME SessInv, PanelRestart PROVE SessInv'
<1>1. SessShape'
  BY Steps DEF PanelRestart, SessInv, SessShape
<1>2. \A c \in Clients : req'[c].fam = 0
  BY Steps DEF PanelRestart
<1> QED
  BY <1>1, <1>2, QuietStep DEF PanelRestart, SessInv, FamiliesMinted

LEMMA SessNextInv == SessInv /\ [SessNext]_sessVars => SessInv'
<1> SUFFICES ASSUME SessInv, [SessNext]_sessVars PROVE SessInv'
  OBVIOUS
<1>1. CASE UNCHANGED sessVars
  BY <1>1 DEF sessVars, SessInv, SessShape, FamiliesMinted, OneLine, Used, Live, Rotating
<1> QED
  BY <1>1, SessNextQuiet, EndingStep, RestartStep, EvictStep, InsertStep, SpendStep,
     RefreshReadStep

LEMMA SessAlwaysInv == SessSpec => []SessInv
  BY SessInitInv, SessNextInv, PTL DEF SessSpec

-----------------------------------------------------------------------------
\* One usable refresh token per session (handleRefresh, issueTokensAAL), for
\* any number of users, sessions and requests, unless two refreshes of the
\* session overlapped.
THEOREM RefreshTokensSpentOnce == SessSpec => []OneLiveTokenPerSession
<1>1. ASSUME SessInv PROVE OneLiveTokenPerSession
  <2> SUFFICES ASSUME NEW f \in Used \ forked PROVE Cardinality(Live(f)) <= 1
    BY DEF OneLiveTokenPerSession
  <2>1. \A s, t \in Live(f) : s = t
    BY <1>1 DEF SessInv, OneLine, Used
  <2>2. CASE Live(f) = {}
    BY <2>2, FS_EmptySet
  <2>3. ASSUME NEW t \in Live(f) PROVE Cardinality(Live(f)) <= 1
    <3>1. Live(f) = {t}
      BY <2>1, <2>3
    <3> QED
      BY <3>1, FS_Singleton
  <2> QED
    BY <2>2, <2>3
<1> QED
  BY <1>1, SessAlwaysInv, PTL

-----------------------------------------------------------------------------
LEMMA OverStaysStep ==
  ASSUME SessInv, [SessNext]_sessVars, NEW f \in TokenIds, Over(f)
  PROVE  Over(f)'
<1>0. /\ f \in Used /\ f # 0
      /\ \A t \in TokenIds : tokens[t].st = "live" => tokens[t].fam # f
      /\ \A c \in Clients : req[c].fam = f => req[c].pc = "burn"
  BY TokenIdsFacts DEF Over, Used
<1>1. ASSUME Ending(tokens'),
             \A c \in Clients : req'[c].fam = f => req'[c] = req[c]
      PROVE  Over(f)'
  BY <1>0, <1>1 DEF Over, Ending, Used
<1>2. CASE Quiet
  <2>1. \A c \in Clients : req'[c].fam = f => req'[c] = req[c]
    BY <1>0, <1>2 DEF Quiet, Goto, SessInv, SessShape
  <2> QED
    BY <1>1, <1>2, <2>1 DEF Quiet
<1>3. CASE PanelRestart
  BY <1>0, <1>1, <1>3, TokensStay, Steps DEF PanelRestart, SessInv
<1>4. ASSUME NEW c \in Clients, Evict(c) PROVE Over(f)'
  <2>1. req[c].fam # f
    BY <1>0, <1>4 DEF Evict
  <2>2. /\ req'[c].fam = req[c].fam
        /\ \A d \in Clients : d # c => req'[d] = req[d]
    BY <1>4 DEF Evict, Goto, SessInv, SessShape, ReqRecords
  <2> QED
    BY <1>1, <1>4, <2>1, <2>2, EvictStep
<1>5. ASSUME NEW c \in Clients, Spend(c) PROVE Over(f)'
  <2>1. req[c].fam # f
    BY <1>0, <1>5 DEF Spend
  <2>2. /\ req'[c].fam = req[c].fam
        /\ \A d \in Clients : d # c => req'[d] = req[d]
    BY <1>5 DEF Spend, Goto, Mint, Step, SessInv, SessShape
  <2>3. tokens' = RevokeToken(req[c].tok)
    BY <1>5 DEF Spend, RevokeToken, RevokedIf
  <2> QED
    BY <1>1, <2>1, <2>2, <2>3, RevocationsEnd DEF SessInv
<1>6. ASSUME NEW c \in Clients, Insert(c) PROVE Over(f)'
  <2>1. PICK t \in TokenIds \ Used :
          tokens' = [tokens EXCEPT ![t] = [st |-> "live", uid |-> req[c].uid,
                      fam |-> IF req[c].fam = 0 THEN t ELSE req[c].fam]]
    BY <1>6 DEF Insert
  <2>2. req[c].fam # f /\ t # f
    BY <1>0, <1>6 DEF Insert
  <2>3. /\ tokens'[t].fam # f /\ tokens'[t].st = "live"
        /\ \A s \in TokenIds : s # t => tokens'[s] = tokens[s]
    BY <2>1, <2>2 DEF SessInv, SessShape
  <2>4. /\ req'[c].fam # f
        /\ \A d \in Clients : d # c => req'[d] = req[d]
    BY <1>0, <1>6, Steps DEF Insert, Goto, SessInv, SessShape
  <2> QED
    BY <1>0, <2>2, <2>3, <2>4 DEF Over, Used
<1>7. ASSUME NEW c \in Clients, NEW t \in TokenIds, RefreshRead(c, t) PROVE Over(f)'
  <2>1. tokens[t].st = "live" => tokens[t].fam # f
    BY <1>0
  <2>2. /\ tokens' = tokens
        /\ req'[c].fam = tokens[t].fam
        /\ req'[c].pc = IF tokens[t].st = "revoked" THEN "burn" ELSE "spend"
        /\ \A d \in Clients : d # c => req'[d] = req[d]
    BY <1>7 DEF RefreshRead, Goto, Step, SessInv, SessShape
  <2> QED
    BY <1>0, <1>7, <2>1, <2>2 DEF Over, Used, RefreshRead
<1>8. CASE UNCHANGED sessVars
  BY <1>8 DEF sessVars, Over
<1> QED
  BY <1>2, <1>3, <1>4, <1>5, <1>6, <1>7, <1>8, SessNextQuiet

\* A session that is over stays over (logout, recovery, bans, deletion, reuse
\* detection and eviction against handleRefresh), for any number of each.
THEOREM OverSessionsStayOver == SessSpec => OverStaysOver
<1>1. SessInv /\ [SessNext]_sessVars =>
        [\A f \in TokenIds : Over(f) => Over(f)']_sessVars
  BY OverStaysStep
<1> QED
  BY <1>1, SessAlwaysInv, PTL DEF SessSpec, OverStaysOver

-----------------------------------------------------------------------------
UserRecords == [st : {"unborn", "here", "gone"}, email : Emails \cup {NoEmail},
                confirmed : BOOLEAN, banned : BOOLEAN]

\* The types that the invariant leaves out.
UsersTypeOK ==
    users \in [Uids -> UserRecords] /\ policy \in Settings /\ forked \subseteq TokenIds

LEMMA UserRows ==
  /\ \A st \in {"unborn", "here", "gone"} : Row(st) \in UserRecords
  /\ \A e \in Emails \cup {NoEmail}, b \in BOOLEAN : NewUser(e, b) \in UserRecords
  BY DEF Row, NewUser, UserRecords

LEMMA UsersTypesStep ==
  SessInv /\ UsersTypeOK /\ [SessNext]_sessVars => UsersTypeOK'
<1> SUFFICES ASSUME SessInv, UsersTypeOK, [SessNext]_sessVars PROVE UsersTypeOK'
  OBVIOUS
<1>0. SessShape /\ users \in [Uids -> UserRecords] /\ policy \in Settings /\ forked \subseteq TokenIds
      /\ Settings \subseteq [single : BOOLEAN, confirm : BOOLEAN]
  BY SessionsAssumption DEF SessInv, UsersTypeOK
<1>1. ASSUME NEW c \in Clients, SignIn(c) PROVE UsersTypeOK'
  <2>1. ASSUME NEW u \in Uids, SignupAnonymous(c, u) PROVE UsersTypeOK'
    BY <1>0, <2>1, UserRows DEF SignupAnonymous, UsersTypeOK
  <2>2. ASSUME NEW u \in Uids, NEW e \in Emails, Signup(c, u, e) PROVE UsersTypeOK'
    BY <1>0, <2>2, UserRows DEF Signup, UsersTypeOK
  <2>3. ASSUME NEW e \in Emails, PasswordLogin(c, e) PROVE UsersTypeOK'
    BY <1>0, <2>3 DEF PasswordLogin, UsersTypeOK
  <2>4. ASSUME NEW e \in Emails, FindUser(c, e) PROVE UsersTypeOK'
    BY <1>0, <2>4 DEF FindUser, UsersTypeOK, UserRecords
  <2>5. ASSUME SignupMail(c) PROVE UsersTypeOK'
    BY <1>0, <2>5, UserRows DEF SignupMail, UsersTypeOK
  <2>6. ASSUME CreateUser(c) PROVE UsersTypeOK'
    BY <1>0, <2>6, UserRows DEF CreateUser, UsersTypeOK, SessShape, ReqRecords
  <2>7. ASSUME HookRejects(c) \/ Evict(c) \/ Insert(c) \/ Burn(c) \/ Spend(c) PROVE UsersTypeOK'
    BY <1>0, <2>7 DEF HookRejects, Evict, Insert, Burn, Spend, UsersTypeOK
  <2>8. ASSUME NEW t \in TokenIds, RefreshRead(c, t) PROVE UsersTypeOK'
    <3>1. tokens[t].fam \in Used \cup {0} /\ tokens[t].fam \in TokenIds \cup {0}
      BY DEF SessInv, FamiliesMinted, Used
    <3>2. tokens[t].fam # 0
      BY <2>8 DEF RefreshRead, SessInv, FamiliesMinted
    <3> QED
      BY <1>0, <2>8, <3>1, <3>2 DEF RefreshRead, UsersTypeOK
  <2> QED
    BY <1>1, <2>1, <2>2, <2>3, <2>4, <2>5, <2>6, <2>7, <2>8 DEF SignIn
<1>2. ASSUME NEW c \in Clients, Manage(c) PROVE UsersTypeOK'
  <2>1. ASSUME NEW e \in Emails, Recover(c, e) PROVE UsersTypeOK'
    BY <1>0, <2>1 DEF Recover, Holder, UsersTypeOK, UserRecords
  <2>2. ASSUME NEW u \in Uids, AdminUpdate(c, u) \/ AdminDelete(c, u) PROVE UsersTypeOK'
    BY <1>0, <2>2 DEF AdminUpdate, AdminDelete, UsersTypeOK, UserRecords
  <2>3. ASSUME NEW u \in Uids, NEW e \in Emails, UpgradeRead(c, u, e) PROVE UsersTypeOK'
    BY <1>0, <2>3 DEF UpgradeRead, UsersTypeOK
  <2>4. ASSUME RevokeByEmail(c) \/ RevokeAll(c) PROVE UsersTypeOK'
    BY <1>0, <2>4 DEF RevokeByEmail, RevokeAll, UsersTypeOK
  <2>5. ASSUME DropUser(c) PROVE UsersTypeOK'
    BY <1>0, <2>5, UserRows DEF DropUser, UsersTypeOK
  <2>6. ASSUME UpgradeWrite(c) PROVE UsersTypeOK'
    <3>1. policy.confirm \in BOOLEAN /\ req[c].email \in Emails \cup {NoEmail}
      BY <1>0 DEF SessShape, ReqRecords
    <3>2. ASSUME NEW u \in Uids,
                 users' = [users EXCEPT ![u].email = req[c].email,
                                        ![u].confirmed = ~policy.confirm]
          PROVE  users' \in [Uids -> UserRecords]
      BY <1>0, <3>1, <3>2 DEF UserRecords
    <3>3. users' \in [Uids -> UserRecords]
      BY <1>0, <2>6, <3>2 DEF UpgradeWrite, Here
    <3> QED
      BY <1>0, <2>6, <3>3 DEF UpgradeWrite, UsersTypeOK
  <2> QED
    BY <1>2, <2>1, <2>2, <2>3, <2>4, <2>5, <2>6 DEF Manage
<1>3. ASSUME NEW t \in TokenIds, Expire(t) \/ Logout(t) PROVE UsersTypeOK'
  BY <1>0, <1>3 DEF Expire, Logout, UsersTypeOK
<1>4. ASSUME NEW u \in Uids, RevokeSessions(u) \/ Unban(u) \/ PanelDelete(u) PROVE UsersTypeOK'
  <2>1. CASE RevokeSessions(u)
    BY <1>0, <2>1 DEF RevokeSessions, UsersTypeOK
  <2>2. CASE Unban(u)
    BY <1>0, <2>2 DEF Unban, UsersTypeOK, UserRecords
  <2>3. CASE PanelDelete(u)
    BY <1>0, <2>3, UserRows DEF PanelDelete, UsersTypeOK
  <2> QED
    BY <1>4, <2>1, <2>2, <2>3
<1>5. ASSUME NEW u \in Uids, NEW e \in Emails, CreateRow(u, e) PROVE UsersTypeOK'
  BY <1>0, <1>5, UserRows DEF CreateRow, UsersTypeOK
<1>6. ASSUME NEW e \in Emails, ConfirmEmail(e) PROVE UsersTypeOK'
  BY <1>0, <1>6 DEF ConfirmEmail, Holder, UsersTypeOK, UserRecords
<1>7. CASE SavePolicy \/ PanelRestart \/ UNCHANGED sessVars
  BY <1>0, <1>7 DEF SavePolicy, PanelRestart, sessVars, UsersTypeOK
<1> QED
  BY <1>1, <1>2, <1>3, <1>4, <1>5, <1>6, <1>7 DEF SessNext

LEMMA SessTypes == SessSpec => []SessTypeOK
<1>1. SessInit => UsersTypeOK
  BY UserRows DEF SessInit, UsersTypeOK
<1>2. SessInv /\ UsersTypeOK => SessTypeOK
  BY DEF SessInv, SessShape, UsersTypeOK, SessTypeOK, UserRecords, TokenRecords, ReqRecords
<1> QED
  BY <1>1, <1>2, SessAlwaysInv, UsersTypesStep, PTL DEF SessSpec

-----------------------------------------------------------------------------
(* Codes sent to an address.                                               *)

AskRecords == [pc : {"idle", "purge", "store", "count", "redeem"}, id : CodeIds \cup {0}]
CodeRecords == [st : {"none", "fresh", "stale", "gone"}, attempts : 0..(MaxAttempts + 1)]

\* A request that is about to redeem has a row in mind.
RedeemsOne == \A c \in CodeClients : asks[c].pc = "redeem" => asks[c].id \in CodeIds

\* A row that two requests have not matched together: a session was opened only
\* with its deletion, and none while a request is on its way to redeem it.
OpenedByOne ==
    \A i \in CodeIds \ shared :
        /\ opened[i] <= 1
        /\ codes[i].st # "gone" => opened[i] = 0
        /\ \A c, d \in CodeClients :
             (asks[c].pc = "redeem" /\ asks[c].id = i) =>
               /\ opened[i] = 0
               /\ (asks[d].pc = "redeem" /\ asks[d].id = i) => c = d

CodesOnceInv == CodesTypeOK /\ RedeemsOne /\ OpenedByOne

LEMMA CodesOnceInit == CodesInit => CodesOnceInv
  BY CodesAssumption DEF CodesInit, CodesOnceInv, CodesTypeOK, RedeemsOne, OpenedByOne, Resting

\* A request moves on without a row in mind, and no row comes back.
LEMMA OtherAsk ==
  ASSUME CodesOnceInv, NEW c \in CodeClients, NEW v \in AskRecords, v.pc # "redeem",
         asks' = [asks EXCEPT ![c] = v],
         codes' \in [CodeIds -> CodeRecords], judged' \in [CodeIds -> Nat],
         \A i \in CodeIds : codes[i].st = "gone" => codes'[i].st = "gone",
         UNCHANGED <<opened, shared>>
  PROVE  CodesOnceInv'
<1>1. /\ asks' \in [CodeClients -> AskRecords]
      /\ asks'[c] = v /\ \A d \in CodeClients : d # c => asks'[d] = asks[d]
  BY DEF CodesOnceInv, CodesTypeOK, AskRecords
<1>2. CodesTypeOK'
  BY <1>1 DEF CodesOnceInv, CodesTypeOK, AskRecords, CodeRecords
<1>3. RedeemsOne' /\ OpenedByOne'
  BY <1>1 DEF CodesOnceInv, RedeemsOne, OpenedByOne
<1> QED
  BY <1>2, <1>3 DEF CodesOnceInv

LEMMA CodesOnceNext == CodesOnceInv /\ [CodesNext]_codeVars => CodesOnceInv'
<1> SUFFICES ASSUME CodesOnceInv, [CodesNext]_codeVars PROVE CodesOnceInv'
  OBVIOUS
<1>0. /\ codes \in [CodeIds -> CodeRecords] /\ asks \in [CodeClients -> AskRecords]
      /\ judged \in [CodeIds -> Nat]
      /\ MaxAttempts \in Nat
  BY CodesAssumption DEF CodesOnceInv, CodesTypeOK, CodeRecords, AskRecords
<1>1. ASSUME NEW c \in CodeClients, CountRecent(c) PROVE CodesOnceInv'
  <2> DEFINE v == [asks[c] EXCEPT !.pc = "purge"]
  <2>1. v \in AskRecords /\ v.pc # "redeem" /\ asks' = [asks EXCEPT ![c] = v]
    BY <1>0, <1>1 DEF CountRecent, AskRecords
  <2> HIDE DEF v
  <2> QED
    BY <1>0, <1>1, <2>1, OtherAsk DEF CountRecent
<1>2. ASSUME NEW c \in CodeClients, Purge(c) PROVE CodesOnceInv'
  <2> DEFINE v == [asks[c] EXCEPT !.pc = "store"]
  <2>1. v \in AskRecords /\ v.pc # "redeem" /\ asks' = [asks EXCEPT ![c] = v]
    BY <1>0, <1>2 DEF Purge, AskRecords
  <2>2. codes' \in [CodeIds -> CodeRecords]
    BY <1>0, <1>2 DEF Purge, CodeRecords
  <2>3. \A i \in CodeIds : codes[i].st = "gone" => codes'[i].st = "gone"
    BY <1>0, <1>2 DEF Purge, CodeRecords
  <2> HIDE DEF v
  <2> QED
    BY <1>0, <1>2, <2>1, <2>2, <2>3, OtherAsk DEF Purge
<1>3. Resting \in AskRecords /\ Resting.pc # "redeem"
  BY DEF Resting, AskRecords
<1>4. ASSUME NEW c \in CodeClients, Store(c) PROVE CodesOnceInv'
  <2>1. PICK i \in CodeIds \ Issued : codes' = [codes EXCEPT ![i].st = "fresh"]
    BY <1>4 DEF Store
  <2>2. codes' \in [CodeIds -> CodeRecords]
    BY <1>0, <2>1 DEF CodeRecords
  <2>3. \A j \in CodeIds : codes[j].st = "gone" => codes'[j].st = "gone"
    BY <1>0, <2>1 DEF CodeRecords, Issued
  <2> QED
    BY <1>0, <1>3, <1>4, <2>2, <2>3, OtherAsk DEF Store
<1>5. ASSUME NEW c \in CodeClients, NEW i \in CodeIds, VerifyRight(c, i) PROVE CodesOnceInv'
  <2> DEFINE v == [pc |-> "redeem", id |-> i]
  <2>1. v \in AskRecords /\ v.pc = "redeem" /\ v.id = i
    BY DEF AskRecords
  <2>2. /\ asks' \in [CodeClients -> AskRecords]
        /\ asks'[c] = v /\ \A d \in CodeClients : d # c => asks'[d] = asks[d]
    BY <1>0, <1>5, <2>1 DEF VerifyRight
  <2>3. CodesTypeOK'
    BY <1>5, <2>2 DEF VerifyRight, CodesOnceInv, CodesTypeOK, AskRecords
  <2>4. RedeemsOne'
    BY <2>1, <2>2 DEF CodesOnceInv, RedeemsOne
  <2>5. i \notin shared' => opened[i] = 0 /\ ~Matched(i)
    BY <1>5 DEF VerifyRight, Accepting, CodesOnceInv, OpenedByOne
  <2>6. OpenedByOne'
    BY <1>5, <2>1, <2>2, <2>5 DEF VerifyRight, CodesOnceInv, OpenedByOne, Matched
  <2> QED
    BY <2>3, <2>4, <2>6 DEF CodesOnceInv
<1>6. ASSUME NEW c \in CodeClients, VerifyWrong(c) PROVE CodesOnceInv'
  <2> DEFINE v == [asks[c] EXCEPT !.pc = "count"]
  <2>1. v \in AskRecords /\ v.pc # "redeem" /\ asks' = [asks EXCEPT ![c] = v]
    BY <1>0, <1>6 DEF VerifyWrong, AskRecords
  <2>2. judged' \in [CodeIds -> Nat]
    BY <1>0, <1>6 DEF VerifyWrong
  <2> HIDE DEF v
  <2> QED
    BY <1>0, <1>6, <2>1, <2>2, OtherAsk DEF VerifyWrong
<1>7. ASSUME NEW c \in CodeClients, CountFail(c) PROVE CodesOnceInv'
  <2>1. codes' \in [CodeIds -> CodeRecords]
    BY <1>0, <1>7 DEF CountFail, CodeRecords
  <2>2. \A i \in CodeIds : codes[i].st = "gone" => codes'[i].st = "gone"
    BY <1>0, <1>7 DEF CountFail, CodeRecords
  <2> QED
    BY <1>0, <1>3, <1>7, <2>1, <2>2, OtherAsk DEF CountFail
<1>8. ASSUME NEW c \in CodeClients, Redeem(c) PROVE CodesOnceInv'
  <2> DEFINE i == asks[c].id
  <2>1. i \in CodeIds
    BY <1>8 DEF Redeem, CodesOnceInv, RedeemsOne
  <2>2. /\ asks' \in [CodeClients -> AskRecords]
        /\ asks'[c] = Resting /\ \A d \in CodeClients : d # c => asks'[d] = asks[d]
    BY <1>0, <1>3, <1>8 DEF Redeem
  <2>3. /\ codes' \in [CodeIds -> CodeRecords] /\ codes'[i].st = "gone"
        /\ \A j \in CodeIds : j # i => codes'[j] = codes[j]
    BY <1>0, <1>8, <2>1 DEF Redeem, CodeRecords
  <2>4. /\ opened' \in [CodeIds -> Nat] /\ opened'[i] = opened[i] + 1
        /\ \A j \in CodeIds : j # i => opened'[j] = opened[j]
    BY <1>8, <2>1 DEF Redeem, CodesOnceInv, CodesTypeOK
  <2>5. CodesTypeOK'
    BY <1>8, <2>2, <2>3, <2>4 DEF Redeem, CodesOnceInv, CodesTypeOK, AskRecords, CodeRecords
  <2>6. RedeemsOne'
    BY <1>3, <2>2 DEF CodesOnceInv, RedeemsOne
  <2>7. i \notin shared => opened[i] = 0 /\ \A d \in CodeClients :
                              asks[d].pc = "redeem" /\ asks[d].id = i => c = d
    BY <1>8, <2>1 DEF Redeem, CodesOnceInv, OpenedByOne
  <2>8. OpenedByOne'
    BY <1>3, <1>8, <2>1, <2>2, <2>3, <2>4, <2>7 DEF Redeem, CodesOnceInv, OpenedByOne
  <2> QED
    BY <2>5, <2>6, <2>8 DEF CodesOnceInv
<1>9. ASSUME NEW i \in CodeIds, Outdate(i) PROVE CodesOnceInv'
  <2>1. codes' \in [CodeIds -> CodeRecords]
    BY <1>0, <1>9 DEF Outdate, CodeRecords
  <2>2. \A j \in CodeIds : codes'[j].st = "gone" <=> codes[j].st = "gone"
    BY <1>0, <1>9 DEF Outdate, CodeRecords
  <2> QED
    BY <1>9, <2>1, <2>2 DEF Outdate, CodesOnceInv, CodesTypeOK, CodeRecords, RedeemsOne, OpenedByOne
<1>10. CASE UNCHANGED codeVars
  BY <1>10 DEF codeVars, CodesOnceInv, CodesTypeOK, RedeemsOne, OpenedByOne
<1> QED
  BY <1>1, <1>2, <1>4, <1>5, <1>6, <1>7, <1>8, <1>9, <1>10 DEF CodesNext

LEMMA CodesAlwaysOnce == CodesSpec => []CodesOnceInv
  BY CodesOnceInit, CodesOnceNext, PTL DEF CodesSpec

\* A sign-in code opens one session (verify, authusers.go), for any number of
\* requests, unless two had matched its row before either deleted it.
THEOREM CodesSpentOnce == CodesSpec => []OneTimeMeansOnce
<1>1. CodesOnceInv => OneTimeMeansOnce
  BY DEF CodesOnceInv, OpenedByOne, OneTimeMeansOnce
<1> QED
  BY <1>1, CodesAlwaysOnce, PTL

-----------------------------------------------------------------------------
\* Requests whose wrong code is weighed and not counted yet.
Counting == {c \in CodeClients : asks[c].pc = "count"}
Everyone == Cardinality(CodeClients)

\* What was weighed is counted, or about to be, and the limit leaves room for
\* the requests that are about to.
WeighedIsCounted ==
    \A i \in CodeIds :
        /\ judged[i] <= MaxAttempts + Everyone - 1
        /\ codes[i].st = "none" => judged[i] = 0
        /\ codes[i].st \in {"fresh", "stale"} /\ codes[i].attempts <= MaxAttempts =>
             judged[i] <= codes[i].attempts + Cardinality(Counting)

BudgetInv == CodesTypeOK /\ WeighedIsCounted

LEMMA CountingFinite ==
  /\ IsFiniteSet(Counting) /\ Cardinality(Counting) \in Nat
  /\ Everyone \in Nat /\ Everyone >= 1
  /\ (\E c \in CodeClients : c \notin Counting) => Cardinality(Counting) <= Everyone - 1
<1>1. Counting \subseteq CodeClients
  BY DEF Counting
<1>2. IsFiniteSet(Counting) /\ Cardinality(Counting) \in Nat /\ Everyone \in Nat
  BY <1>1, CodesAssumption, FS_Subset, FS_CardinalityType DEF Everyone
<1>3. Everyone # 0
  BY CodesAssumption, FS_EmptySet DEF Everyone
<1>4. ASSUME NEW c \in CodeClients, c \notin Counting
      PROVE  Cardinality(Counting) <= Everyone - 1
  <2>1. IsFiniteSet(CodeClients \ {c}) /\ Cardinality(CodeClients \ {c}) = Everyone - 1
    BY CodesAssumption, FS_RemoveElement DEF Everyone
  <2>2. Counting \subseteq CodeClients \ {c}
    BY <1>1, <1>4
  <2> QED
    BY <2>1, <2>2, FS_Subset
<1> QED
  BY <1>2, <1>3, <1>4

LEMMA BudgetInit == CodesInit => BudgetInv
<1> SUFFICES ASSUME CodesInit PROVE BudgetInv
  OBVIOUS
<1>1. CodesTypeOK
  BY CodesOnceInit DEF CodesOnceInv
<1>2. \A i \in CodeIds : judged[i] = 0 /\ codes[i].attempts = 0
  BY DEF CodesInit
<1> QED
  BY <1>1, <1>2, CountingFinite, CodesAssumption DEF BudgetInv, WeighedIsCounted

\* Nobody starts or stops counting, nothing is weighed.
LEMMA BudgetRests ==
  ASSUME BudgetInv, CodesTypeOK', Counting' = Counting, judged' = judged,
         \A i \in CodeIds :
           \/ codes'[i].st = "gone"
           \/ codes'[i].attempts = codes[i].attempts
              /\ (codes[i].st = "gone" => codes'[i].st = "gone")
              /\ (codes'[i].st = "none" => codes[i].st = "none")
  PROVE  BudgetInv'
<1>1. \A i \in CodeIds : codes[i].st \in {"none", "fresh", "stale", "gone"}
                         /\ codes[i].attempts \in Nat
  BY CodesAssumption DEF BudgetInv, CodesTypeOK
<1>2. Cardinality(Counting) \in Nat
  BY CountingFinite
<1> QED
  BY <1>1, <1>2 DEF BudgetInv, WeighedIsCounted, Everyone

LEMMA WrongCounts ==
  ASSUME BudgetInv, CodesTypeOK', NEW c \in CodeClients, VerifyWrong(c)
  PROVE  BudgetInv'
<1>1. c \notin Counting
  BY DEF VerifyWrong, Counting, Resting
<1>2. Counting' = Counting \cup {c}
  BY DEF VerifyWrong, Counting, BudgetInv, CodesTypeOK
<1>3. Cardinality(Counting') = Cardinality(Counting) + 1
  BY <1>1, <1>2, CountingFinite, FS_AddElement
<1>4. Cardinality(Counting) <= Everyone - 1 /\ Cardinality(Counting) \in Nat /\ Everyone \in Nat
  BY <1>1, CountingFinite
<1>5. SUFFICES ASSUME NEW i \in CodeIds
      PROVE  /\ judged'[i] <= MaxAttempts + Everyone - 1
             /\ codes[i].st = "none" => judged'[i] = 0
             /\ codes[i].st \in {"fresh", "stale"} /\ codes[i].attempts <= MaxAttempts =>
                  judged'[i] <= codes[i].attempts + Cardinality(Counting')
  BY DEF VerifyWrong, BudgetInv, WeighedIsCounted, Everyone
<1>6. /\ codes[i].attempts \in Nat /\ judged[i] \in Nat /\ MaxAttempts \in Nat
      /\ judged'[i] = judged[i] + (IF i \in Accepting THEN 1 ELSE 0)
  BY CodesAssumption DEF VerifyWrong, BudgetInv, CodesTypeOK
<1>7. CASE i \in Accepting
  BY <1>3, <1>4, <1>6, <1>7 DEF Accepting, BudgetInv, WeighedIsCounted
<1>8. CASE i \notin Accepting
  BY <1>3, <1>4, <1>6, <1>8 DEF BudgetInv, WeighedIsCounted
<1> QED
  BY <1>7, <1>8

LEMMA FailIsCounted ==
  ASSUME BudgetInv, CodesTypeOK', NEW c \in CodeClients, CountFail(c)
  PROVE  BudgetInv'
<1>1. c \in Counting
  BY DEF CountFail, Counting
<1>2. Counting' = Counting \ {c}
  BY DEF CountFail, Counting, BudgetInv, CodesTypeOK, Resting
<1>3. Cardinality(Counting') = Cardinality(Counting) - 1
  BY <1>1, <1>2, CountingFinite, FS_RemoveElement
<1>4. Cardinality(Counting) \in Nat /\ Everyone \in Nat
  BY CountingFinite
<1>5. SUFFICES ASSUME NEW i \in CodeIds
      PROVE  /\ codes'[i].st = "none" => judged[i] = 0
             /\ codes'[i].st \in {"fresh", "stale"} /\ codes'[i].attempts <= MaxAttempts =>
                  judged[i] <= codes'[i].attempts + Cardinality(Counting')
  BY DEF CountFail, BudgetInv, WeighedIsCounted, Everyone
<1>6. /\ codes[i].attempts \in Nat /\ judged[i] \in Nat /\ MaxAttempts \in Nat
      /\ codes[i].st \in {"none", "fresh", "stale", "gone"}
      /\ codes'[i].st = codes[i].st
      /\ codes'[i].attempts = IF i \in Stored /\ codes[i].attempts <= MaxAttempts
                              THEN codes[i].attempts + 1 ELSE codes[i].attempts
  BY CodesAssumption DEF CountFail, BudgetInv, CodesTypeOK
<1>7. CASE i \in Stored /\ codes[i].attempts <= MaxAttempts
  BY <1>3, <1>4, <1>6, <1>7 DEF Stored, BudgetInv, WeighedIsCounted
<1>8. CASE ~(i \in Stored /\ codes[i].attempts <= MaxAttempts)
  BY <1>3, <1>4, <1>6, <1>8 DEF Stored, BudgetInv, WeighedIsCounted
<1> QED
  BY <1>7, <1>8

LEMMA BudgetNext == BudgetInv /\ CodesTypeOK' /\ [CodesNext]_codeVars => BudgetInv'
<1> SUFFICES ASSUME BudgetInv, CodesTypeOK', [CodesNext]_codeVars PROVE BudgetInv'
  OBVIOUS
<1>0. /\ codes \in [CodeIds -> CodeRecords] /\ asks \in [CodeClients -> AskRecords]
      /\ MaxAttempts \in Nat
  BY CodesAssumption DEF BudgetInv, CodesTypeOK, CodeRecords, AskRecords
<1>1. ASSUME NEW c \in CodeClients, CountRecent(c) \/ Purge(c) PROVE BudgetInv'
  <2>1. Counting' = Counting
    BY <1>0, <1>1 DEF CountRecent, Purge, Counting, Resting, AskRecords
  <2>2. \A i \in CodeIds : codes'[i] = codes[i] \/ codes'[i].st = "gone"
    BY <1>0, <1>1 DEF CountRecent, Purge, CodeRecords
  <2> QED
    BY <1>1, <2>1, <2>2, BudgetRests DEF CountRecent, Purge
<1>2. ASSUME NEW c \in CodeClients, Store(c) PROVE BudgetInv'
  <2>1. Counting' = Counting
    BY <1>0, <1>2 DEF Store, Counting, Resting
  <2>2. PICK i \in CodeIds \ Issued : codes' = [codes EXCEPT ![i].st = "fresh"]
    BY <1>2 DEF Store
  <2>3. /\ codes[i].st = "none" /\ codes'[i].st = "fresh" /\ codes'[i].attempts = codes[i].attempts
        /\ \A j \in CodeIds : j # i => codes'[j] = codes[j]
    BY <1>0, <2>2 DEF Issued, CodeRecords
  <2> QED
    BY <1>2, <2>1, <2>3, BudgetRests DEF Store
<1>3. ASSUME NEW c \in CodeClients, NEW i \in CodeIds, VerifyRight(c, i) PROVE BudgetInv'
  <2>1. Counting' = Counting
    BY <1>0, <1>3 DEF VerifyRight, Counting, Resting
  <2> QED
    BY <1>3, <2>1, BudgetRests DEF VerifyRight
<1>4. ASSUME NEW c \in CodeClients, Redeem(c) PROVE BudgetInv'
  <2>1. Counting' = Counting
    BY <1>0, <1>4 DEF Redeem, Counting, Resting
  <2>2. \A i \in CodeIds : codes'[i] = codes[i] \/ codes'[i].st = "gone"
    BY <1>0, <1>4 DEF Redeem, CodeRecords
  <2> QED
    BY <1>4, <2>1, <2>2, BudgetRests DEF Redeem
<1>5. ASSUME NEW i \in CodeIds, Outdate(i) PROVE BudgetInv'
  <2>1. /\ codes[i].st = "fresh" /\ codes'[i].st = "stale" /\ codes'[i].attempts = codes[i].attempts
        /\ \A j \in CodeIds : j # i => codes'[j] = codes[j]
    BY <1>0, <1>5 DEF Outdate, CodeRecords
  <2> QED
    BY <1>5, <2>1, BudgetRests DEF Outdate, Counting
<1>6. CASE UNCHANGED codeVars
  BY <1>6, BudgetRests DEF codeVars, Counting
<1> QED
  BY <1>1, <1>2, <1>3, <1>4, <1>5, <1>6, WrongCounts, FailIsCounted DEF CodesNext

\* Wrong codes per row end at the limit plus the requests that were weighed
\* meanwhile (verify, authusers.go), for any limit and any number of requests.
THEOREM GuessesEnd == CodesSpec => []GuessBudget
<1>1. CodesOnceInv => CodesTypeOK
  BY DEF CodesOnceInv
<1>2. BudgetInv => GuessBudget
  BY DEF BudgetInv, WeighedIsCounted, GuessBudget, Everyone
<1> QED
  BY <1>1, <1>2, CodesAlwaysOnce, BudgetInit, BudgetNext, PTL DEF CodesSpec

-----------------------------------------------------------------------------
(* Second factors and recovery codes.                                      *)

\* While somebody is between the check and the activation, the secret that
\* would become active is proven, or is one that crossed the check.
CrossedOrProven ==
    (\E c \in FactorClients : asked[c].pc = "activate") =>
        factor.secret \in proven \cup crossed \cup {0}

\* What the invariants need of the types.
FactorShape ==
    /\ DOMAIN factor = {"secret", "on"}
    /\ factor = [secret |-> factor.secret, on |-> factor.on]
    /\ factor.secret \in Secrets \cup {0}
    /\ DOMAIN asked = FactorClients
    /\ asked = [c \in FactorClients |-> asked[c]]

FactorInv == FactorShape /\ CrossedOrProven /\ ActiveSecretProven

LEMMA FactorInitInv == FactorInit => FactorInv
  BY DEF FactorInit, FactorInv, FactorShape, CrossedOrProven, ActiveSecretProven,
         Enrolled, Calm

\* A request moves on and leaves the row alone.
LEMMA FactorMoves ==
  ASSUME FactorInv, NEW c \in FactorClients, NEW v,
         asked' = [asked EXCEPT ![c] = v],
         v.pc # "activate" \/ factor.secret \in proven',
         factor' = factor, proven \subseteq proven', crossed \subseteq crossed'
  PROVE  FactorInv'
<1>1. FactorShape'
  BY DEF FactorInv, FactorShape
<1>2. CrossedOrProven'
  BY DEF FactorInv, FactorShape, CrossedOrProven
<1>3. ActiveSecretProven'
  BY DEF FactorInv, ActiveSecretProven, Enrolled
<1> QED
  BY <1>1, <1>2, <1>3 DEF FactorInv

LEMMA FactorNextInv == FactorInv /\ [FactorNext]_factorVars => FactorInv'
<1> SUFFICES ASSUME FactorInv, [FactorNext]_factorVars PROVE FactorInv'
  OBVIOUS
<1>1. ASSUME NEW c \in FactorClients, NEW s \in Secrets, Enroll(c, s) PROVE FactorInv'
  <2>1. FactorShape'
    BY <1>1 DEF Enroll, FactorInv, FactorShape
  <2>2. CrossedOrProven'
    BY <1>1 DEF Enroll, CrossedOrProven
  <2>3. ActiveSecretProven'
    BY <1>1 DEF Enroll, ActiveSecretProven, Enrolled
  <2> QED
    BY <2>1, <2>2, <2>3 DEF FactorInv
<1>2. ASSUME NEW c \in FactorClients, FactorVerify(c) PROVE FactorInv'
  BY <1>2, FactorMoves DEF FactorVerify, Go
<1>3. ASSUME NEW c \in FactorClients, Activate(c) PROVE FactorInv'
  <2>1. FactorShape'
    BY <1>3 DEF Activate, Go, FactorInv, FactorShape
  <2>2. factor'.secret = factor.secret /\ factor.secret \in proven \cup crossed \cup {0}
    BY <1>3 DEF Activate, FactorInv, FactorShape, CrossedOrProven
  <2>3. CrossedOrProven' /\ ActiveSecretProven'
    BY <1>3, <2>2 DEF Activate, CrossedOrProven, ActiveSecretProven, Enrolled
  <2> QED
    BY <2>1, <2>3 DEF FactorInv
<1>4. ASSUME NEW c \in FactorClients, DropOldCodes(c) \/ IssueCode(c) PROVE FactorInv'
  <2>1. CASE DropOldCodes(c)
    BY <2>1, FactorMoves DEF DropOldCodes
  <2>2. CASE IssueCode(c)
    <3>1. CASE asked[c].left = 0
      BY <2>2, <3>1, FactorMoves DEF IssueCode, Go
    <3>2. CASE asked[c].left # 0
      <4> DEFINE v == [asked[c] EXCEPT !.left = @ - 1]
      <4>1. asked' = [asked EXCEPT ![c] = v] /\ v.pc = asked[c].pc
        BY <2>2, <3>2 DEF IssueCode
      <4>2. v.pc # "activate"
        BY <2>2, <4>1 DEF IssueCode
      <4> HIDE DEF v
      <4> QED
        BY <2>2, <4>1, <4>2, FactorMoves DEF IssueCode
    <3> QED
      BY <3>1, <3>2
  <2> QED
    BY <1>4, <2>1, <2>2
<1>5. ASSUME NEW c \in FactorClients, DisableRead(c) \/ DisableProve(c) PROVE FactorInv'
  BY <1>5, FactorMoves DEF DisableRead, DisableProve, Go
<1>6. ASSUME NEW c \in FactorClients, SwitchOff(c) PROVE FactorInv'
  BY <1>6 DEF SwitchOff, Go, FactorInv, FactorShape, CrossedOrProven, ActiveSecretProven, Enrolled
<1>7. ASSUME NEW c \in FactorClients, DropLastCodes(c) \/ LoginRead(c) \/ LoginWeigh(c)
      PROVE FactorInv'
  BY <1>7, FactorMoves DEF DropLastCodes, LoginRead, LoginWeigh, Go
<1>8. CASE UNCHANGED factorVars
  BY <1>8 DEF factorVars, FactorInv, FactorShape, CrossedOrProven, ActiveSecretProven, Enrolled
<1> QED
  BY <1>1, <1>2, <1>3, <1>4, <1>5, <1>6, <1>7, <1>8 DEF FactorNext

\* Verify-to-activate (authmfa.go), for any number of requests: an active
\* secret was answered for, or crossed the check of an earlier one.
THEOREM ActiveIsProven == FactorSpec => []ActiveSecretProven
<1>1. FactorInv => ActiveSecretProven
  BY DEF FactorInv
<1> QED
  BY <1>1, FactorInitInv, FactorNextInv, PTL DEF FactorSpec

-----------------------------------------------------------------------------
\* A code that may still be used has not been.
UnusedIsUnspent ==
    /\ recovery = [r \in RecoveryIds |-> recovery[r]]
    /\ admitted \in [RecoveryIds -> Nat]
    /\ \A r \in RecoveryIds :
         recovery[r] \in {"none", "unused"} => admitted[r] = 0

CodesInv == UnusedIsUnspent /\ RecoveryCodesOnce

LEMMA CodesInvInit == FactorInit => CodesInv
  BY DEF FactorInit, CodesInv, UnusedIsUnspent, RecoveryCodesOnce

LEMMA CodesInvNext == CodesInv /\ [FactorNext]_factorVars => CodesInv'
<1> SUFFICES ASSUME CodesInv, [FactorNext]_factorVars PROVE CodesInv'
  OBVIOUS
<1>1. ASSUME UNCHANGED <<recovery, admitted>> PROVE CodesInv'
  BY <1>1 DEF CodesInv, UnusedIsUnspent, RecoveryCodesOnce
<1>2. ASSUME recovery' = DropCodes, UNCHANGED admitted PROVE CodesInv'
  BY <1>2 DEF DropCodes, CodesInv, UnusedIsUnspent, RecoveryCodesOnce
<1>3. ASSUME NEW r \in RecoveryIds, TryRecoveryCode(r) PROVE CodesInv'
  <2>1. admitted[r] = 0
    BY <1>3 DEF TryRecoveryCode, CodesInv, UnusedIsUnspent
  <2> QED
    BY <1>3, <2>1 DEF TryRecoveryCode, CodesInv, UnusedIsUnspent, RecoveryCodesOnce
<1>4. ASSUME NEW c \in FactorClients, IssueCode(c) PROVE CodesInv'
  <2>1. CASE UNCHANGED recovery
    BY <1>1, <1>4, <2>1 DEF IssueCode
  <2>2. ASSUME NEW r \in RecoveryIds,
               recovery[r] = "none" /\ recovery' = [recovery EXCEPT ![r] = "unused"]
        PROVE CodesInv'
    BY <1>4, <2>2 DEF IssueCode, CodesInv, UnusedIsUnspent, RecoveryCodesOnce
  <2> QED
    BY <1>4, <2>1, <2>2 DEF IssueCode
<1> QED
  BY <1>1, <1>2, <1>3, <1>4
  DEF FactorNext, factorVars, Enroll, FactorVerify, Activate, DropOldCodes, DisableRead,
      DisableProve, SwitchOff, DropLastCodes, LoginRead, LoginWeigh

\* A recovery code decides once (tryRecoveryCode, authmfa.go), for any number
\* of requests that present it together.
THEOREM RecoveryCodesSpentOnce == FactorSpec => []RecoveryCodesOnce
<1>1. CodesInv => RecoveryCodesOnce
  BY DEF CodesInv
<1> QED
  BY <1>1, CodesInvInit, CodesInvNext, PTL DEF FactorSpec

-----------------------------------------------------------------------------
AskedRecords ==
    [pc : {"idle", "activate", "dropCodes", "issue", "weigh", "prove", "switchOff", "dropLast"},
     left : 0..CodesPerSet]

LEMMA FactorTypesStep == FactorTypeOK /\ [FactorNext]_factorVars => FactorTypeOK'
<1> SUFFICES ASSUME FactorTypeOK, [FactorNext]_factorVars PROVE FactorTypeOK'
  OBVIOUS
<1>0. /\ asked \in [FactorClients -> AskedRecords]
      /\ \A pc \in {"idle", "activate", "dropCodes", "issue", "weigh", "prove",
                    "switchOff", "dropLast"}, n \in 0..CodesPerSet :
           [pc |-> pc, left |-> n] \in AskedRecords
      /\ 0 \in 0..CodesPerSet /\ CodesPerSet \in 0..CodesPerSet
  BY FactorAssumption DEF FactorTypeOK, AskedRecords
<1>1. ASSUME NEW c \in FactorClients, NEW v \in AskedRecords, asked' = [asked EXCEPT ![c] = v]
      PROVE  asked' \in [FactorClients -> AskedRecords]
  BY <1>0, <1>1
<1>2. ASSUME NEW c \in FactorClients,
             NEW pc \in {"idle", "activate", "dropCodes", "issue", "weigh", "prove",
                         "switchOff", "dropLast"}, Go(c, pc)
      PROVE  asked' \in [FactorClients -> AskedRecords]
  BY <1>0, <1>2 DEF Go
<1>3. DropCodes \in [RecoveryIds -> {"none", "unused", "used", "gone"}]
  BY DEF DropCodes, FactorTypeOK
<1>4. ASSUME NEW r \in RecoveryIds, TryRecoveryCode(r)
      PROVE  /\ recovery' \in [RecoveryIds -> {"none", "unused", "used", "gone"}]
             /\ admitted' \in [RecoveryIds -> Nat]
  BY <1>4 DEF TryRecoveryCode, FactorTypeOK
<1>5. ASSUME asked' \in [FactorClients -> AskedRecords],
             factor' \in [secret : Secrets \cup {0}, on : BOOLEAN],
             recovery' \in [RecoveryIds -> {"none", "unused", "used", "gone"}],
             proven' \subseteq Secrets, crossed' \subseteq Secrets,
             admitted' \in [RecoveryIds -> Nat]
      PROVE  FactorTypeOK'
  BY <1>5 DEF FactorTypeOK, AskedRecords
<1>6. ASSUME NEW c \in FactorClients, NEW s \in Secrets, Enroll(c, s) PROVE FactorTypeOK'
  BY <1>0, <1>5, <1>6 DEF Enroll, FactorTypeOK
<1>7. ASSUME NEW c \in FactorClients, FactorVerify(c) PROVE FactorTypeOK'
  BY <1>2, <1>5, <1>7 DEF FactorVerify, FactorTypeOK
<1>8. ASSUME NEW c \in FactorClients, Activate(c) \/ SwitchOff(c) PROVE FactorTypeOK'
  <2>1. factor' \in [secret : Secrets \cup {0}, on : BOOLEAN]
    <3>1. CASE Activate(c)
      BY <3>1 DEF Activate, FactorTypeOK
    <3>2. CASE SwitchOff(c)
      BY <3>2 DEF SwitchOff
    <3> QED
      BY <1>8, <3>1, <3>2
  <2>2. asked' \in [FactorClients -> AskedRecords]
    BY <1>2, <1>8 DEF Activate, SwitchOff
  <2> QED
    BY <1>5, <1>8, <2>1, <2>2 DEF Activate, SwitchOff, FactorTypeOK
<1>9. ASSUME NEW c \in FactorClients, DropOldCodes(c) PROVE FactorTypeOK'
  BY <1>0, <1>1, <1>3, <1>5, <1>9 DEF DropOldCodes, FactorTypeOK
<1>10. ASSUME NEW c \in FactorClients, IssueCode(c) PROVE FactorTypeOK'
  <2>1. recovery' \in [RecoveryIds -> {"none", "unused", "used", "gone"}]
    BY <1>10 DEF IssueCode, FactorTypeOK
  <2>2. CASE asked[c].left = 0
    BY <1>2, <1>5, <1>10, <2>1, <2>2 DEF IssueCode, FactorTypeOK
  <2>3. CASE asked[c].left # 0
    <3> DEFINE v == [asked[c] EXCEPT !.left = @ - 1]
    <3>1. v \in AskedRecords
      BY <1>0, <2>3, FactorAssumption DEF AskedRecords
    <3>2. asked' = [asked EXCEPT ![c] = v]
      BY <1>10, <2>3 DEF IssueCode
    <3> HIDE DEF v
    <3> QED
      BY <1>1, <1>5, <1>10, <2>1, <3>1, <3>2 DEF IssueCode, FactorTypeOK
  <2> QED
    BY <2>2, <2>3
<1>11. ASSUME NEW c \in FactorClients, DisableRead(c) \/ LoginRead(c) PROVE FactorTypeOK'
  BY <1>2, <1>5, <1>11 DEF DisableRead, LoginRead, FactorTypeOK
<1>12. ASSUME NEW c \in FactorClients, DisableProve(c) \/ LoginWeigh(c) PROVE FactorTypeOK'
  BY <1>2, <1>4, <1>5, <1>12 DEF DisableProve, LoginWeigh, FactorTypeOK
<1>13. ASSUME NEW c \in FactorClients, DropLastCodes(c) PROVE FactorTypeOK'
  BY <1>2, <1>3, <1>5, <1>13 DEF DropLastCodes, FactorTypeOK
<1>14. CASE UNCHANGED factorVars
  BY <1>14 DEF factorVars, FactorTypeOK
<1> QED
  BY <1>6, <1>7, <1>8, <1>9, <1>10, <1>11, <1>12, <1>13, <1>14 DEF FactorNext

LEMMA FactorTypes == FactorSpec => []FactorTypeOK
<1>1. FactorInit => FactorTypeOK
  BY FactorAssumption DEF FactorInit, FactorTypeOK, Calm
<1> QED
  BY <1>1, FactorTypesStep, PTL DEF FactorSpec

-----------------------------------------------------------------------------
\* What a request is about to do has its type.
LEMMA FreeTyped ==
  /\ Free \in [pc : {"idle", "register", "add", "remove", "accept"},
               name : Names \cup {NoName}, role : Roles, stale : BOOLEAN]
  /\ \A pc \in {"register", "add", "remove", "accept"}, n \in Names, r \in Roles :
       PendingAct(pc, n, r) \in [pc : {"idle", "register", "add", "remove", "accept"},
                                 name : Names \cup {NoName}, role : Roles, stale : BOOLEAN]
  BY DEF Free, NoName, PendingAct, Roles

\* A request that is at work is about a name.
Named == \A c \in PanelClients : acts[c].pc # "idle" => acts[c].name \in Names

\* A removal that is not out of date may be carried out: its account is there,
\* and is not the last owner's.
CountStands ==
    \A c \in PanelClients : acts[c].pc = "remove" /\ ~acts[c].stale =>
        LET n == acts[c].name IN
        /\ n \in Team
        /\ n \in Owners => \E m \in Owners : m # n

\* Of an invitation: nobody has set its password while it is pending or being
\* answered, and one request answers it.
AnsweredOnce ==
    \A n \in Names \ together :
        /\ accepted[n] <= 1
        /\ n \in pending => accepted[n] = 0
        /\ \A c, d \in PanelClients :
             (acts[c].pc = "accept" /\ acts[c].name = n) =>
               /\ accepted[n] = 0
               /\ (acts[d].pc = "accept" /\ acts[d].name = n) => c = d

PanelInv == PanelTypeOK /\ Named /\ CountStands /\ AnsweredOnce

LEMMA PanelInitInv == PanelInit => PanelInv
  BY FreeTyped DEF PanelInit, PanelInv, PanelTypeOK, Named, CountStands, AnsweredOnce, Free

-----------------------------------------------------------------------------
\* A request reads, and what it read is not to be removed or answered.
LEMMA ActStep ==
  ASSUME PanelInv, NEW c \in PanelClients, NEW n \in Names, NEW r \in Roles,
         NEW pc \in {"register", "add", "remove", "accept"}, Act(c, pc, n, r),
         UNCHANGED <<members, pending, accepted>>,
         pc = "remove" => n \in Team /\ (n \in Owners => \E m \in Owners : m # n),
         pc = "accept" => n \in pending,
         together \subseteq together' /\ together' \subseteq Names,
         pc = "accept" /\ n \notin together' => ~Reading(n)
  PROVE  PanelInv'
<1>1. PanelTypeOK'
  BY FreeTyped DEF PanelInv, PanelTypeOK, Act
<1>2. /\ acts'[c] = PendingAct(pc, n, r)
      /\ \A d \in PanelClients : d # c => acts'[d] = acts[d]
  BY DEF PanelInv, PanelTypeOK, Act
<1>3. acts'[c].pc = pc /\ acts'[c].name = n
  BY <1>2 DEF PendingAct
<1>4. Named'
  BY <1>2, <1>3 DEF PanelInv, Named
<1>5. Team' = Team /\ Owners' = Owners
  BY DEF Team, Owners
<1>6. CountStands'
  BY <1>2, <1>3, <1>5 DEF PanelInv, CountStands
<1>7. AnsweredOnce'
  BY <1>2, <1>3 DEF PanelInv, AnsweredOnce, Reading
<1> QED
  BY <1>1, <1>4, <1>6, <1>7 DEF PanelInv

LEMMA RegisterReadStep ==
  ASSUME PanelInv, NEW c \in PanelClients, NEW n \in Names, RegisterRead(c, n)
  PROVE  PanelInv'
  BY ActStep DEF RegisterRead, Roles, PanelInv, PanelTypeOK

LEMMA AddReadStep ==
  ASSUME PanelInv, NEW c \in PanelClients, NEW n \in Names, NEW r \in Roles, AddRead(c, n, r)
  PROVE  PanelInv'
  BY ActStep DEF AddRead, PanelInv, PanelTypeOK

LEMMA RemoveReadStep ==
  ASSUME PanelInv, NEW c \in PanelClients, NEW n \in Names, RemoveRead(c, n)
  PROVE  PanelInv'
<1>1. members[n] \in Roles
  BY DEF RemoveRead, Team, PanelInv, PanelTypeOK
<1>2. ASSUME n \in Owners PROVE \E m \in Owners : m # n
  <2>1. SUFFICES ASSUME Owners = {n} PROVE FALSE
    BY <1>2
  <2>2. Cardinality(Owners) = 1
    BY <2>1, FS_Singleton
  <2> QED
    BY <1>2, <2>2 DEF RemoveRead
<1> QED
  BY <1>1, <1>2, ActStep DEF RemoveRead, PanelInv, PanelTypeOK

LEMMA InviteReadStep ==
  ASSUME PanelInv, NEW c \in PanelClients, NEW n \in Names, InviteRead(c, n)
  PROVE  PanelInv'
  BY ActStep DEF InviteRead, PanelInv, PanelTypeOK, Roles

-----------------------------------------------------------------------------
LEMMA RegisterInsertStep ==
  ASSUME PanelInv, NEW c \in PanelClients, RegisterInsert(c)
  PROVE  PanelInv'
<1>1. acts[c].name \in Names
  BY DEF RegisterInsert, PanelInv, Named
<1>2. /\ acts'[c] = Free
      /\ \A d \in PanelClients : d # c => acts'[d] = acts[d]
  BY DEF RegisterInsert, PanelInv, PanelTypeOK
<1>3. PanelTypeOK'
  BY <1>1, FreeTyped DEF RegisterInsert, PanelInv, PanelTypeOK, Roles
<1>4. Named' /\ AnsweredOnce'
  BY <1>2 DEF RegisterInsert, PanelInv, Named, AnsweredOnce, Free
<1>5. CountStands'
  <2>1. CASE Team = {}
    BY <1>2, <2>1 DEF PanelInv, CountStands, Free
  <2>2. CASE Team # {}
    BY <1>2, <2>2 DEF RegisterInsert, PanelInv, CountStands, Free, Team, Owners
  <2> QED
    BY <2>1, <2>2
<1> QED
  BY <1>3, <1>4, <1>5 DEF PanelInv

LEMMA AddInsertStep ==
  ASSUME PanelInv, NEW c \in PanelClients, AddInsert(c)
  PROVE  PanelInv'
<1> DEFINE n == acts[c].name
<1>1. n \in Names /\ acts[c].role \in Roles
  BY DEF AddInsert, PanelInv, Named, PanelTypeOK
<1>2. /\ acts'[c] = Free
      /\ \A d \in PanelClients : d # c => acts'[d] = acts[d]
  BY DEF AddInsert, PanelInv, PanelTypeOK
<1>3. PanelTypeOK'
  BY <1>1, FreeTyped DEF AddInsert, PanelInv, PanelTypeOK, Roles
<1>4. Named'
  BY <1>2 DEF PanelInv, Named, Free
<1>5. CASE members[n] = "none"
  <2>1. /\ members' = [members EXCEPT ![n] = acts[c].role]
        /\ pending' = pending \cup {n}
        /\ accepted' = [accepted EXCEPT ![n] = 0]
        /\ together' = IF \E d \in PanelClients : acts[d].pc = "accept" /\ acts[d].name = n
                       THEN together \cup {n} ELSE together \ {n}
    BY <1>5 DEF AddInsert
  <2>2. CountStands'
    <3>1. \A m \in Team : m # n /\ members'[m] = members[m]
      BY <1>5, <2>1 DEF Team, PanelInv, PanelTypeOK
    <3>2. Team \subseteq Team' /\ Owners \subseteq Owners'
      BY <3>1 DEF Team, Owners
    <3>3. \A m \in Team : m \in Owners' => m \in Owners
      BY <3>1 DEF Team, Owners
    <3> QED
      BY <1>2, <3>2, <3>3 DEF PanelInv, CountStands, Free
  <2>3. AnsweredOnce'
    <3>1. \A m \in Names : m # n => accepted'[m] = accepted[m]
                                    /\ (m \in together <=> m \in together')
                                    /\ (m \in pending <=> m \in pending')
      BY <2>1 DEF PanelInv, PanelTypeOK
    <3>2. accepted'[n] = 0
      BY <1>1, <2>1 DEF PanelInv, PanelTypeOK
    <3>3. n \notin together' => \A d \in PanelClients : ~(acts[d].pc = "accept" /\ acts[d].name = n)
      BY <1>1, <2>1
    <3> QED
      BY <1>2, <3>1, <3>2, <3>3 DEF PanelInv, AnsweredOnce, Free
  <2> QED
    BY <1>3, <1>4, <2>2, <2>3 DEF PanelInv
<1>6. CASE members[n] # "none"
  <2>1. UNCHANGED <<members, pending, accepted, together>>
    BY <1>6 DEF AddInsert
  <2>2. CountStands' /\ AnsweredOnce'
    BY <1>2, <2>1 DEF PanelInv, CountStands, AnsweredOnce, Free, Team, Owners
  <2> QED
    BY <1>3, <1>4, <2>2 DEF PanelInv
<1> QED
  BY <1>5, <1>6

\* After a change of roles no removal stands.
LEMMA StaleStep ==
  ASSUME PanelInv, PanelTypeOK',
         \A d \in PanelClients :
           \/ acts'[d] = Free
           \/ /\ acts'[d].pc = acts[d].pc /\ acts'[d].name = acts[d].name
              /\ acts[d].pc = "remove" => acts'[d].stale,
         pending' \subseteq pending, UNCHANGED <<accepted, together>>
  PROVE  PanelInv'
<1>1. Named'
  BY DEF PanelInv, Named, Free
<1>2. CountStands'
  BY DEF CountStands, Free
<1>3. AnsweredOnce'
  BY DEF PanelInv, AnsweredOnce, Free
<1> QED
  BY <1>1, <1>2, <1>3 DEF PanelInv

LEMMA SetRoleStep ==
  ASSUME PanelInv, NEW n \in Names, NEW r \in Roles, SetRole(n, r)
  PROVE  PanelInv'
<1> DEFINE marked(d) == [acts[d] EXCEPT !.stale = @ \/ acts[d].pc = "remove"]
<1>1. \A d \in PanelClients :
        /\ acts'[d] = marked(d)
        /\ marked(d) \in [pc : {"idle", "register", "add", "remove", "accept"},
                          name : Names \cup {NoName}, role : Roles, stale : BOOLEAN]
        /\ marked(d).pc = acts[d].pc /\ marked(d).name = acts[d].name
        /\ acts[d].pc = "remove" => marked(d).stale
  BY DEF SetRole, PanelInv, PanelTypeOK
<1>2. PanelTypeOK'
  BY <1>1 DEF SetRole, PanelInv, PanelTypeOK
<1> QED
  BY <1>1, <1>2, StaleStep DEF SetRole

LEMMA RemoveDeleteStep ==
  ASSUME PanelInv, NEW c \in PanelClients, RemoveDelete(c)
  PROVE  PanelInv'
<1> DEFINE marked(d) == [acts[d] EXCEPT !.stale = @ \/ acts[d].pc = "remove"]
<1>1. \A d \in PanelClients :
        /\ acts'[d] = IF d = c THEN Free ELSE marked(d)
        /\ marked(d) \in [pc : {"idle", "register", "add", "remove", "accept"},
                          name : Names \cup {NoName}, role : Roles, stale : BOOLEAN]
        /\ marked(d).pc = acts[d].pc /\ marked(d).name = acts[d].name
        /\ acts[d].pc = "remove" => marked(d).stale
  BY DEF RemoveDelete, ActAndStale, PanelInv, PanelTypeOK
<1>2. acts[c].name \in Names
  BY DEF RemoveDelete, PanelInv, Named
<1>3. PanelTypeOK'
  BY <1>1, <1>2, FreeTyped DEF RemoveDelete, ActAndStale, PanelInv, PanelTypeOK
<1> HIDE DEF marked
<1> QED
  BY <1>1, <1>3, StaleStep DEF RemoveDelete

LEMMA InviteAcceptStep ==
  ASSUME PanelInv, NEW c \in PanelClients, InviteAccept(c)
  PROVE  PanelInv'
<1> DEFINE n == acts[c].name
<1>1. n \in Names
  BY DEF InviteAccept, PanelInv, Named
<1>2. /\ acts'[c] = Free
      /\ \A d \in PanelClients : d # c => acts'[d] = acts[d]
  BY DEF InviteAccept, PanelInv, PanelTypeOK
<1>3. PanelTypeOK'
  BY <1>1, FreeTyped DEF InviteAccept, PanelInv, PanelTypeOK
<1>4. Named' /\ CountStands'
  BY <1>2 DEF InviteAccept, PanelInv, Named, CountStands, Free, Team, Owners
<1>5. AnsweredOnce'
  <2>1. \A m \in Names : m # n => accepted'[m] = accepted[m] /\ (m \in pending <=> m \in pending')
    BY DEF InviteAccept, PanelInv, PanelTypeOK
  <2>2. n \notin pending' /\ accepted'[n] \in {accepted[n], accepted[n] + 1}
    BY <1>1 DEF InviteAccept, PanelInv, PanelTypeOK
  <2>3. n \notin together =>
          accepted[n] = 0 /\ \A d \in PanelClients :
                               acts[d].pc = "accept" /\ acts[d].name = n => c = d
    BY <1>1 DEF InviteAccept, PanelInv, AnsweredOnce
  <2>4. together' = together /\ acts'[c].pc # "accept"
    BY <1>2 DEF InviteAccept, Free
  <2> QED
    BY <1>1, <1>2, <2>1, <2>2, <2>3, <2>4 DEF PanelInv, AnsweredOnce
<1> QED
  BY <1>3, <1>4, <1>5 DEF PanelInv

LEMMA PanelNextInv == PanelInv /\ [PanelNext]_panelVars => PanelInv'
<1> SUFFICES ASSUME PanelInv, [PanelNext]_panelVars PROVE PanelInv'
  OBVIOUS
<1>1. CASE PanelBoot
  BY <1>1, FreeTyped DEF PanelBoot, PanelInv, PanelTypeOK, Named, CountStands, AnsweredOnce, Free
<1>2. CASE UNCHANGED panelVars
  BY <1>2 DEF panelVars, PanelInv, PanelTypeOK, Named, CountStands, AnsweredOnce, Team, Owners
<1> QED
  BY <1>1, <1>2, RegisterReadStep, AddReadStep, RemoveReadStep, InviteReadStep,
     RegisterInsertStep, AddInsertStep, SetRoleStep, RemoveDeleteStep, InviteAcceptStep
  DEF PanelNext

LEMMA PanelAlwaysInv == PanelSpec => []PanelInv
  BY PanelInitInv, PanelNextInv, PTL DEF PanelSpec

-----------------------------------------------------------------------------
\* An invitation sets one password (inviteSubmit, people.go), however many
\* requests answer, remove and add its name, unless two had read it.
THEOREM InvitationsSpentOnce == PanelSpec => []InvitationOnce
<1>1. PanelInv => InvitationOnce
  BY DEF PanelInv, AnsweredOnce, InvitationOnce
<1> QED
  BY <1>1, PanelAlwaysInv, PTL

-----------------------------------------------------------------------------
LEMMA OwnerStaysStep == PanelInv /\ [PanelNext]_panelVars => LastOwnerStays
<1> SUFFICES ASSUME PanelInv, [PanelNext]_panelVars, Owners # {}, Owners' = {}
             PROVE  \/ \E n \in Team, r \in Roles : members' = [members EXCEPT ![n] = r]
                    \/ \E c \in PanelClients : acts[c].pc = "remove" /\ acts[c].stale
  BY DEF LastOwnerStays
<1>1. ASSUME UNCHANGED members PROVE FALSE
  BY <1>1 DEF Owners
<1>2. ASSUME NEW n \in Names, NEW r, members[n] = "none", members' = [members EXCEPT ![n] = r]
      PROVE FALSE
  BY <1>2 DEF Owners, PanelInv, PanelTypeOK
<1>3. ASSUME NEW c \in PanelClients, RegisterInsert(c) PROVE FALSE
  <2>1. acts[c].name \in Names
    BY <1>3 DEF RegisterInsert, PanelInv, Named
  <2> QED
    BY <1>1, <1>2, <1>3, <2>1 DEF RegisterInsert, Team
<1>4. ASSUME NEW c \in PanelClients, AddInsert(c) PROVE FALSE
  <2>1. acts[c].name \in Names
    BY <1>4 DEF AddInsert, PanelInv, Named
  <2> QED
    BY <1>1, <1>2, <1>4, <2>1 DEF AddInsert
<1>5. ASSUME NEW c \in PanelClients, RemoveDelete(c) PROVE acts[c].stale
  <2>1. SUFFICES ASSUME ~acts[c].stale PROVE FALSE
    OBVIOUS
  <2>2. \E m \in Owners : m # acts[c].name
    BY <1>5, <2>1 DEF RemoveDelete, PanelInv, CountStands
  <2> QED
    BY <1>5, <2>2 DEF RemoveDelete, Owners, PanelInv, PanelTypeOK
<1>6. ASSUME NEW n \in Names, NEW r \in Roles, SetRole(n, r)
      PROVE  n \in Team /\ members' = [members EXCEPT ![n] = r]
  BY <1>6 DEF SetRole
<1>7. ASSUME NEW c \in PanelClients, NEW n \in Names,
             \/ RegisterRead(c, n) \/ RemoveRead(c, n) \/ InviteRead(c, n)
             \/ \E r \in Roles : AddRead(c, n, r)
      PROVE  FALSE
  BY <1>1, <1>7 DEF RegisterRead, RemoveRead, InviteRead, AddRead
<1>8. ASSUME NEW c \in PanelClients, InviteAccept(c) PROVE FALSE
  BY <1>1, <1>8 DEF InviteAccept
<1>9. CASE PanelBoot \/ UNCHANGED panelVars
  BY <1>1, <1>9 DEF PanelBoot, panelVars
<1> QED
  BY <1>3, <1>4, <1>5, <1>6, <1>7, <1>8, <1>9 DEF PanelNext, RemoveDelete

LEMMA FirstOwnerStep == PanelInv /\ [PanelNext]_panelVars => FirstOwnerOnly
<1> SUFFICES ASSUME PanelInv, [PanelNext]_panelVars, NEW n \in Names,
                    n \notin Team, members'[n] # "none", Team # {}
             PROVE  \E c \in PanelClients : acts[c].pc = "add" /\ acts[c].name = n
  BY DEF FirstOwnerOnly
<1>1. members[n] = "none" /\ members' # members
  BY DEF Team
<1>2. ASSUME NEW c \in PanelClients, AddInsert(c)
      PROVE  acts[c].pc = "add" /\ acts[c].name = n
  BY <1>1, <1>2 DEF AddInsert, PanelInv, PanelTypeOK
<1>3. ASSUME NEW c \in PanelClients, RegisterInsert(c) \/ RemoveDelete(c) \/ InviteAccept(c)
      PROVE  FALSE
  BY <1>1, <1>3 DEF RegisterInsert, RemoveDelete, InviteAccept, PanelInv, PanelTypeOK
<1>4. ASSUME NEW m \in Names, NEW r \in Roles, SetRole(m, r) PROVE FALSE
  BY <1>1, <1>4 DEF SetRole, PanelInv, PanelTypeOK
<1>5. ASSUME NEW c \in PanelClients, NEW m \in Names,
             \/ RegisterRead(c, m) \/ RemoveRead(c, m) \/ InviteRead(c, m)
             \/ \E r \in Roles : AddRead(c, m, r)
      PROVE  FALSE
  BY <1>1, <1>5 DEF RegisterRead, RemoveRead, InviteRead, AddRead
<1>6. ~(PanelBoot \/ UNCHANGED panelVars)
  BY <1>1 DEF PanelBoot, panelVars
<1> QED
  BY <1>2, <1>3, <1>4, <1>5, <1>6 DEF PanelNext

\* The team keeps an owner and lets no stranger in (removeMember, register,
\* addMember), but for the two steps that are named: for any number of names
\* and of requests that read, count and write at once.
THEOREM TeamIsKept == PanelSpec => TeamKept
<1>1. PanelInv /\ [PanelNext]_panelVars => [LastOwnerStays /\ FirstOwnerOnly]_panelVars
  BY OwnerStaysStep, FirstOwnerStep
<1> QED
  BY <1>1, PanelAlwaysInv, PTL DEF PanelSpec, TeamKept
-----------------------------------------------------------------------------
(* Cookies of the panel.                                                   *)

\* A browser that was signed out has a cookie without a row, if any.
SignedOutRowless ==
    /\ hour \in Nat
    /\ rowsOf \in [Sids -> Nat]
    /\ cookie \in [Devices -> [kind : {"none", "legacy", "row"},
                               sid : Sids \cup {Legacy}, until : Nat]]
    /\ \A d \in Devices : cookie[d].kind = "row" => cookie[d].sid \in Sids
    /\ out \subseteq Devices
    /\ \A d \in out : cookie[d].kind = "row" => rowsOf[cookie[d].sid] = 0

\* A step that ends rows and takes cookies away.
LEMMA EndingRows ==
  ASSUME SignedOutRowless, hour' \in Nat, rowsOf' \in [Sids -> Nat],
         \A s \in Sids : rowsOf'[s] \in {0, rowsOf[s]},
         \/ cookie' = cookie
         \/ \E d \in Devices : cookie' = [cookie EXCEPT ![d] = NoCookie],
         out' \subseteq Devices,
         \A d \in out' \ out : cookie[d].kind = "row" => rowsOf'[cookie[d].sid] = 0
  PROVE  SignedOutRowless'
<1>1. NoCookie \in [kind : {"none", "legacy", "row"}, sid : Sids \cup {Legacy}, until : Nat]
      /\ NoCookie.kind = "none"
  BY DEF NoCookie
<1>2. CASE cookie' = cookie
  BY <1>2 DEF SignedOutRowless
<1>3. ASSUME NEW d \in Devices, cookie' = [cookie EXCEPT ![d] = NoCookie]
      PROVE  SignedOutRowless'
  <2>1. /\ cookie'[d].kind = "none"
        /\ \A e \in Devices : e # d => cookie'[e] = cookie[e]
    BY <1>1, <1>3 DEF SignedOutRowless
  <2> QED
    BY <1>1, <1>3, <2>1 DEF SignedOutRowless
<1> QED
  BY <1>2, <1>3

LEMMA EndedRows ==
  ASSUME SignedOutRowless, NEW sids, rowsOf' = Ended(sids)
  PROVE  /\ rowsOf' \in [Sids -> Nat]
         /\ \A s \in Sids : rowsOf'[s] \in {0, rowsOf[s]}
         /\ SignedOut(sids) \subseteq Devices
         /\ \A d \in SignedOut(sids) : cookie[d].kind = "row" => rowsOf'[cookie[d].sid] = 0
  BY DEF SignedOutRowless, Ended, SignedOut, WithRow

LEMMA SetSessionStep ==
  ASSUME SignedOutRowless, NEW d \in Devices, SetSession(d)
  PROVE  SignedOutRowless'
<1>1. PICK s \in Sids, end \in Nat :
        /\ s \in Unused
        /\ rowsOf' = [rowsOf EXCEPT ![s] = end]
        /\ cookie' = [cookie EXCEPT ![d] = [kind |-> "row", sid |-> s, until |-> end]]
  <2>1. hour + (IF request[d].long THEN 2 ELSE 1) \in Nat
    BY DEF SignedOutRowless
  <2> QED
    BY <2>1 DEF SetSession, NextSid
<1>2. /\ \A e \in Devices : e # d => cookie'[e] = cookie[e] /\ cookie'[e].sid # s
      /\ \A t \in Sids : t # s => rowsOf'[t] = rowsOf[t]
      /\ cookie'[d] = [kind |-> "row", sid |-> s, until |-> end]
  BY <1>1 DEF SignedOutRowless, Unused
<1>3. out' = out \ {d} /\ hour' = hour
  BY DEF SetSession
<1> QED
  BY <1>1, <1>2, <1>3 DEF SignedOutRowless

LEMMA PanelSessNextInv ==
  SignedOutRowless /\ [PanelSessNext]_panelSessVars => SignedOutRowless'
<1> SUFFICES ASSUME SignedOutRowless, [PanelSessNext]_panelSessVars PROVE SignedOutRowless'
  OBVIOUS
<1>0. hour \in Nat /\ rowsOf \in [Sids -> Nat] /\ out \subseteq Devices
  BY DEF SignedOutRowless
<1>1. ASSUME UNCHANGED <<rowsOf, cookie, out>>, hour' \in Nat PROVE SignedOutRowless'
  BY <1>1 DEF SignedOutRowless
<1>2. ASSUME NEW d \in Devices, NEW long \in BOOLEAN, PanelSignIn(d, long)
      PROVE  SignedOutRowless'
  BY <1>0, <1>1, <1>2 DEF PanelSignIn
<1>3. ASSUME NEW d \in Devices, Arrive(d) \/ Served(d) PROVE SignedOutRowless'
  BY <1>0, <1>1, <1>3 DEF Arrive, Served
<1>4. ASSUME NEW d \in Devices, NEW get \in BOOLEAN, AccountCheck(d, get)
      PROVE  SignedOutRowless'
  BY <1>0, <1>4, EndingRows DEF AccountCheck
<1>5. ASSUME NEW d \in Devices, RevokeOthers(d) PROVE SignedOutRowless'
  BY <1>0, <1>5, EndedRows, EndingRows DEF RevokeOthers
<1>6. ASSUME NEW d \in Devices, NEW s \in Sids, RevokeOne(d, s) PROVE SignedOutRowless'
  BY <1>0, <1>6, EndedRows, EndingRows DEF RevokeOne
<1>7. ASSUME NEW d \in Devices, SignOff(d) PROVE SignedOutRowless'
  BY <1>0, <1>7, EndedRows, EndingRows DEF SignOff
<1>8. CASE SignOutMember
  BY <1>0, <1>8, EndedRows, EndingRows DEF SignOutMember
<1>9. CASE Removed \/ AddedAgain \/ HalfDay
  BY <1>0, <1>1, <1>9 DEF Removed, AddedAgain, HalfDay
<1>10. CASE ExpiredPruned
  BY <1>0, <1>10, EndedRows, EndingRows DEF ExpiredPruned
<1>11. CASE UNCHANGED panelSessVars
  BY <1>0, <1>1, <1>11 DEF panelSessVars
<1> QED
  BY <1>2, <1>3, <1>4, <1>5, <1>6, <1>7, <1>8, <1>9, <1>10, <1>11, SetSessionStep
  DEF PanelSessNext

LEMMA PanelSessInitInv == PanelSessInit => SignedOutRowless
  BY DEF PanelSessInit, SignedOutRowless, NoCookie

\* Who was signed out of the panel (revokeOthers, revokeOne, logout, the Team
\* page, auth.go) stays out, for any number of browsers and sessions.
THEOREM SignedOutStaysOut == PanelSessSpec => []SignedOutStays
<1>1. SignedOutRowless => SignedOutStays
  BY DEF SignedOutRowless, SignedOutStays, LetsIn
<1> QED
  BY <1>1, PanelSessInitInv, PanelSessNextInv, PTL DEF PanelSessSpec

-----------------------------------------------------------------------------
(* Sign-in.                                                                *)

AskPc(s) == IF s = "password" THEN "login" ELSE "code"
WeighPc(s) == IF s = "password" THEN "weigh" ELSE "weighCode"
DoingRecords == [pc : {"idle", "login", "weigh", "code", "weighCode"},
                 ip : Ips \cup {"none"}, key : Keys]
\* Requests that have passed the check of a stage and weigh what was sent.
Weighing(s) == {c \in LoginClients : doing[c].pc = WeighPc(s)}

\* A stage keeps its failures under one key.
StageKeyed ==
    \A c \in LoginClients, s \in Stages :
        doing[c].pc \in {AskPc(s), WeighPc(s)} => doing[c].key = StageKey(s)

\* What was wrong is filed, at its age.
FailuresFiled ==
    \A s \in Stages \ forgotten :
        \A a \in Ages : wrong[s][a] <= acctFails[StageKey(s)][a]

\* What was wrong leaves room for what is being weighed.
RoomToWeigh ==
    \A s \in Stages \ forgotten :
        Total(wrong[s]) + Cardinality(Weighing(s)) <= Budget(AcctLimit)

LoginInv == LoginTypeOK /\ StageKeyed /\ FailuresFiled /\ RoomToWeigh

LEMMA WeighingFinite ==
  ASSUME NEW s \in Stages
  PROVE  /\ IsFiniteSet(Weighing(s)) /\ Cardinality(Weighing(s)) \in Nat
         /\ Cardinality(LoginClients) \in Nat
         /\ Cardinality(Weighing(s)) <= Cardinality(LoginClients)
<1>1. Weighing(s) \subseteq LoginClients
  BY DEF Weighing
<1> QED
  BY <1>1, LoginAssumption, FS_Subset, FS_CardinalityType

LEMMA Sums ==
  /\ \A f \in [Ages -> Nat] :
       /\ Total(f) \in Nat
       /\ Add(f) \in [Ages -> Nat] /\ Total(Add(f)) = Total(f) + 1
       /\ Add(f)[0] = f[0] + 1 /\ \A a \in Ages : a # 0 => Add(f)[a] = f[a]
       /\ Older(f) \in [Ages -> Nat] /\ Total(Older(f)) <= Total(f)
       /\ Total(f) = 0 => \A a \in Ages : f[a] = 0
  /\ \A f, g \in [Ages -> Nat] : (\A a \in Ages : f[a] <= g[a]) =>
       /\ Total(f) <= Total(g)
       /\ \A a \in Ages : Older(f)[a] <= Older(g)[a]
  /\ None \in [Ages -> Nat] /\ Total(None) = 0 /\ \A a \in Ages : None[a] = 0
<1>1. Ages = {0, 1, 2}
  BY DEF Ages
<1>2. ASSUME NEW f \in [Ages -> Nat]
      PROVE  /\ Total(f) \in Nat
             /\ Add(f) \in [Ages -> Nat] /\ Total(Add(f)) = Total(f) + 1
             /\ Add(f)[0] = f[0] + 1 /\ \A a \in Ages : a # 0 => Add(f)[a] = f[a]
             /\ Total(f) = 0 => \A a \in Ages : f[a] = 0
  BY <1>1 DEF Total, Add
<1>3. ASSUME NEW f \in [Ages -> Nat]
      PROVE  /\ Older(f) \in [Ages -> Nat]
             /\ Older(f)[0] = 0 /\ Older(f)[1] = f[0] /\ Older(f)[2] = f[1]
  BY <1>1 DEF Older
<1>4. ASSUME NEW f \in [Ages -> Nat] PROVE Total(Older(f)) <= Total(f)
  BY <1>1, <1>3 DEF Total
<1>5. ASSUME NEW f \in [Ages -> Nat], NEW g \in [Ages -> Nat], \A a \in Ages : f[a] <= g[a]
      PROVE  Total(f) <= Total(g) /\ \A a \in Ages : Older(f)[a] <= Older(g)[a]
  <2>1. f[0] <= g[0] /\ f[1] <= g[1] /\ f[2] <= g[2]
    BY <1>1, <1>5
  <2> QED
    BY <1>1, <1>3, <2>1 DEF Total
<1>6. None \in [Ages -> Nat] /\ Total(None) = 0 /\ \A a \in Ages : None[a] = 0
  BY <1>1 DEF None, Total
<1> QED
  BY <1>2, <1>3, <1>4, <1>5, <1>6

LEMMA IpSums ==
  /\ \A f \in [IpAges -> Nat] : Add(f) \in [IpAges -> Nat] /\ Older(f) \in [IpAges -> Nat]
  /\ IpNone \in [IpAges -> Nat]
<1>1. IpAges = {0, 1}
  BY DEF IpAges
<1> QED
  BY <1>1 DEF Add, Older, IpNone

LEMMA StageFacts ==
  /\ Waiting \in DoingRecords /\ Waiting.pc = "idle"
  /\ \A s \in Stages : StageKey(s) \in Keys
  /\ \A s, t \in Stages : s # t =>
       StageKey(s) # StageKey(t) /\ AskPc(s) # AskPc(t) /\ WeighPc(s) # WeighPc(t)
  /\ \A s, t \in Stages : AskPc(s) # WeighPc(t)
  /\ \A s \in Stages : /\ AskPc(s) # "idle" /\ WeighPc(s) # "idle"
                       /\ {AskPc(s), WeighPc(s)} \subseteq
                            {"idle", "login", "weigh", "code", "weighCode"}
  BY DEF Waiting, DoingRecords, StageKey, LockKey, Keys, Stages, AskPc, WeighPc

LEMMA LoginInitInv == LoginInit => LoginInv
<1> SUFFICES ASSUME LoginInit PROVE LoginInv
  OBVIOUS
<1>1. LoginTypeOK
  BY Sums, IpSums, StageFacts DEF LoginInit, LoginTypeOK, DoingRecords
<1>2. \A s \in Stages : Weighing(s) = {} /\ wrong[s] = None
  BY StageFacts DEF LoginInit, Weighing
<1>3. RoomToWeigh
  BY <1>2, Sums, FS_EmptySet, WeighingFinite, LoginAssumption DEF RoomToWeigh, Budget
<1>4. StageKeyed
  BY StageFacts DEF LoginInit, StageKeyed
<1>5. FailuresFiled
  BY <1>2, Sums, StageFacts DEF LoginInit, FailuresFiled
<1> QED
  BY <1>1, <1>3, <1>4, <1>5 DEF LoginInv

-----------------------------------------------------------------------------
\* A request goes on, nothing is filed, and nobody comes to weigh.
LEMMA MoveStep ==
  ASSUME LoginInv, NEW c \in LoginClients, NEW r \in DoingRecords,
         doing' = [doing EXCEPT ![c] = r],
         \A s \in Stages : r.pc # WeighPc(s) /\ (r.pc = AskPc(s) => r.key = StageKey(s)),
         preauth' \in BOOLEAN, UNCHANGED <<attempts, acctFails, wrong, forgotten>>
  PROVE  LoginInv'
<1>1. /\ doing' \in [LoginClients -> DoingRecords]
      /\ doing'[c] = r /\ \A d \in LoginClients : d # c => doing'[d] = doing[d]
  BY DEF LoginInv, LoginTypeOK, DoingRecords
<1>2. LoginTypeOK'
  BY <1>1 DEF LoginInv, LoginTypeOK, DoingRecords
<1>3. StageKeyed'
  BY <1>1 DEF LoginInv, StageKeyed
<1>4. FailuresFiled'
  BY DEF LoginInv, FailuresFiled
<1>5. ASSUME NEW s \in Stages \ forgotten
      PROVE  Total(wrong[s]) + Cardinality(Weighing(s)') <= Budget(AcctLimit)
  <2>1. Weighing(s)' \subseteq Weighing(s)
    BY <1>1 DEF Weighing
  <2>2. Cardinality(Weighing(s)') \in Nat /\ Cardinality(Weighing(s)') <= Cardinality(Weighing(s))
    BY <2>1, WeighingFinite, FS_Subset, FS_CardinalityType
  <2>3. Total(wrong[s]) \in Nat /\ Budget(AcctLimit) \in Int
    BY Sums, WeighingFinite, LoginAssumption DEF LoginInv, LoginTypeOK, Budget
  <2>4. Total(wrong[s]) + Cardinality(Weighing(s)) <= Budget(AcctLimit)
    BY DEF LoginInv, RoomToWeigh
  <2> QED
    BY <2>2, <2>3, <2>4, WeighingFinite
<1>6. RoomToWeigh'
  BY <1>5 DEF RoomToWeigh
<1> QED
  BY <1>2, <1>3, <1>4, <1>6 DEF LoginInv

\* A request passes the check of a stage, or it does not.
LEMMA CheckStep ==
  ASSUME LoginInv, NEW c \in LoginClients, NEW s \in Stages,
         doing[c].pc = AskPc(s), ~acctLocked(doing[c].key),
         doing' = [doing EXCEPT ![c] = [@ EXCEPT !.pc = WeighPc(s)]],
         UNCHANGED <<attempts, acctFails, preauth, wrong, forgotten>>
  PROVE  LoginInv'
<1> DEFINE r == [doing[c] EXCEPT !.pc = WeighPc(s)]
<1>1. r \in DoingRecords /\ r.pc = WeighPc(s) /\ r.key = doing[c].key
  BY StageFacts DEF LoginInv, LoginTypeOK, DoingRecords
<1>2. doing[c].key = StageKey(s)
  BY DEF LoginInv, StageKeyed
<1>3. doing' = [doing EXCEPT ![c] = r]
  OBVIOUS
<1> HIDE DEF r
<1>4. /\ doing' \in [LoginClients -> DoingRecords]
      /\ doing'[c] = r /\ \A d \in LoginClients : d # c => doing'[d] = doing[d]
  BY <1>1, <1>3 DEF LoginInv, LoginTypeOK, DoingRecords
<1>5. LoginTypeOK'
  BY <1>4 DEF LoginInv, LoginTypeOK, DoingRecords
<1>6. StageKeyed'
  BY <1>1, <1>2, <1>4, StageFacts DEF LoginInv, StageKeyed
<1>7. FailuresFiled'
  BY DEF LoginInv, FailuresFiled
<1>8. ASSUME NEW t \in Stages \ forgotten
      PROVE  Total(wrong[t]) + Cardinality(Weighing(t)') <= Budget(AcctLimit)
  <2>1. CASE t = s
    <3>1. Total(wrong[s]) <= Total(acctFails[StageKey(s)])
      BY <2>1, Sums, StageFacts DEF LoginInv, LoginTypeOK, FailuresFiled
    <3>2. Total(wrong[s]) \in Nat /\ Total(acctFails[StageKey(s)]) \in Nat
      BY Sums, StageFacts DEF LoginInv, LoginTypeOK
    <3>3. Total(wrong[s]) <= AcctLimit - 1
      BY <1>2, <3>1, <3>2, LoginAssumption DEF acctLocked
    <3>4. Weighing(s)' \subseteq LoginClients
      BY DEF Weighing
    <3>5. /\ Cardinality(Weighing(s)') \in Nat /\ Cardinality(LoginClients) \in Nat
          /\ Cardinality(Weighing(s)') <= Cardinality(LoginClients)
      BY <3>4, LoginAssumption, FS_Subset, FS_CardinalityType
    <3> QED
      BY <2>1, <3>2, <3>3, <3>5, LoginAssumption DEF Budget
  <2>2. CASE t # s
    <3>1. Weighing(t)' = Weighing(t)
      BY <1>1, <1>4, <2>2, StageFacts DEF Weighing
    <3> QED
      BY <3>1 DEF LoginInv, RoomToWeigh
  <2> QED
    BY <2>1, <2>2
<1>9. RoomToWeigh'
  BY <1>8 DEF RoomToWeigh
<1> QED
  BY <1>5, <1>6, <1>7, <1>9 DEF LoginInv

\* What was weighed was wrong.
LEMMA WrongStep ==
  ASSUME LoginInv, NEW c \in LoginClients, NEW s \in Stages, doing[c].pc = WeighPc(s),
         RecordFailure(c, s), doing' = [doing EXCEPT ![c] = Waiting],
         UNCHANGED <<preauth, forgotten>>
  PROVE  LoginInv'
<1>1. doing[c].key = StageKey(s) /\ StageKey(s) \in Keys
  BY StageFacts DEF LoginInv, StageKeyed
<1>2. /\ doing' \in [LoginClients -> DoingRecords]
      /\ doing'[c].pc = "idle" /\ \A d \in LoginClients : d # c => doing'[d] = doing[d]
  BY StageFacts DEF LoginInv, LoginTypeOK, DoingRecords
<1>3. /\ wrong' \in [Stages -> [Ages -> Nat]] /\ wrong'[s] = Add(wrong[s])
      /\ \A t \in Stages : t # s => wrong'[t] = wrong[t]
  BY Sums DEF RecordFailure, LoginInv, LoginTypeOK
<1>4. /\ acctFails' \in [Keys -> [Ages -> Nat]]
      /\ acctFails'[StageKey(s)] = Add(acctFails[StageKey(s)])
      /\ \A k \in Keys : k # StageKey(s) => acctFails'[k] = acctFails[k]
  BY <1>1, Sums DEF RecordFailure, LoginInv, LoginTypeOK
<1>5. attempts' \in [Ips -> [IpAges -> Nat]]
  BY IpSums DEF RecordFailure, LoginInv, LoginTypeOK
<1>6. LoginTypeOK'
  BY <1>2, <1>3, <1>4, <1>5 DEF LoginInv, LoginTypeOK, DoingRecords
<1>7. StageKeyed'
  BY <1>2, StageFacts DEF LoginInv, StageKeyed
<1>8. FailuresFiled'
  <2>1. SUFFICES ASSUME NEW t \in Stages \ forgotten, NEW a \in Ages
        PROVE  wrong'[t][a] <= acctFails'[StageKey(t)][a]
    BY DEF FailuresFiled
  <2>2. CASE t = s
    <3>1. wrong[s][a] <= acctFails[StageKey(s)][a]
      BY <2>2 DEF LoginInv, FailuresFiled
    <3>2. wrong[s] \in [Ages -> Nat] /\ acctFails[StageKey(s)] \in [Ages -> Nat]
      BY <1>1 DEF LoginInv, LoginTypeOK
    <3>3. /\ wrong'[s][a] = IF a = 0 THEN wrong[s][a] + 1 ELSE wrong[s][a]
          /\ acctFails'[StageKey(s)][a] = IF a = 0 THEN acctFails[StageKey(s)][a] + 1
                                          ELSE acctFails[StageKey(s)][a]
      BY <1>3, <1>4, <3>2, Sums
    <3> QED
      BY <2>2, <3>1, <3>2, <3>3
  <2>3. CASE t # s
    BY <1>3, <1>4, <2>3, StageFacts DEF LoginInv, FailuresFiled
  <2> QED
    BY <2>2, <2>3
<1>9. ASSUME NEW t \in Stages \ forgotten
      PROVE  Total(wrong'[t]) + Cardinality(Weighing(t)') <= Budget(AcctLimit)
  <2>1. Total(wrong[t]) + Cardinality(Weighing(t)) <= Budget(AcctLimit)
    BY DEF LoginInv, RoomToWeigh
  <2>2. Total(wrong[t]) \in Nat /\ wrong[t] \in [Ages -> Nat]
    BY Sums DEF LoginInv, LoginTypeOK
  <2>3. CASE t = s
    <3>1. Total(wrong'[s]) = Total(wrong[s]) + 1
      BY <1>3, <2>2, <2>3, Sums
    <3>2. Weighing(s)' = Weighing(s) \ {c} /\ c \in Weighing(s)
      BY <1>2, StageFacts DEF Weighing
    <3>3. Cardinality(Weighing(s)') = Cardinality(Weighing(s)) - 1
      BY <3>2, WeighingFinite, FS_RemoveElement
    <3> QED
      BY <2>1, <2>2, <2>3, <3>1, <3>3, WeighingFinite
  <2>4. CASE t # s
    <3>1. Weighing(t)' = Weighing(t)
      BY <1>2, <2>4, StageFacts DEF Weighing
    <3> QED
      BY <1>3, <2>1, <2>4, <3>1
  <2> QED
    BY <2>3, <2>4
<1>10. RoomToWeigh'
  BY <1>9 DEF RoomToWeigh
<1> QED
  BY <1>6, <1>7, <1>8, <1>10 DEF LoginInv

LEMMA TickStep == ASSUME LoginInv, Tick PROVE LoginInv'
<1>1. /\ wrong' \in [Stages -> [Ages -> Nat]] /\ acctFails' \in [Keys -> [Ages -> Nat]]
      /\ \A s \in Stages : wrong'[s] = Older(wrong[s]) /\ wrong[s] \in [Ages -> Nat]
      /\ \A k \in Keys : acctFails'[k] = Older(acctFails[k]) /\ acctFails[k] \in [Ages -> Nat]
      /\ attempts' \in [Ips -> [IpAges -> Nat]]
      /\ doing' = doing /\ preauth' = FALSE /\ forgotten' \subseteq forgotten
  BY Sums, IpSums DEF Tick, LoginInv, LoginTypeOK
<1>2. LoginTypeOK' /\ StageKeyed'
  BY <1>1 DEF LoginInv, LoginTypeOK, StageKeyed
<1>3. \A s \in Stages : s \in forgotten /\ s \notin forgotten' => Total(wrong'[s]) = 0
  <2>1. \A s \in Stages : Total(wrong'[s]) \in Nat
    BY <1>1, Sums
  <2> QED
    BY <1>1, <2>1 DEF Tick
<1>4. FailuresFiled'
  <2>1. SUFFICES ASSUME NEW s \in Stages \ forgotten'
        PROVE  \A a \in Ages : wrong'[s][a] <= acctFails'[StageKey(s)][a]
    BY DEF FailuresFiled
  <2>2. StageKey(s) \in Keys
    BY StageFacts
  <2>3. CASE s \in forgotten
    <3>1. \A a \in Ages : wrong'[s][a] = 0
      BY <1>1, <1>3, <2>3, Sums
    <3>2. acctFails'[StageKey(s)] \in [Ages -> Nat]
      BY <1>1, <2>2
    <3> QED
      BY <3>1, <3>2
  <2>4. CASE s \notin forgotten
    <3>1. \A a \in Ages : wrong[s][a] <= acctFails[StageKey(s)][a]
      BY <2>4 DEF LoginInv, FailuresFiled
    <3>2. wrong[s] \in [Ages -> Nat] /\ acctFails[StageKey(s)] \in [Ages -> Nat]
      BY <1>1, <2>2
    <3>3. \A a \in Ages : Older(wrong[s])[a] <= Older(acctFails[StageKey(s)])[a]
      BY <3>1, <3>2, Sums
    <3>4. wrong'[s] = Older(wrong[s]) /\ acctFails'[StageKey(s)] = Older(acctFails[StageKey(s)])
      BY <1>1, <2>2
    <3> QED
      BY <3>3, <3>4
  <2> QED
    BY <2>3, <2>4
<1>5. RoomToWeigh'
  <2>1. SUFFICES ASSUME NEW s \in Stages \ forgotten'
        PROVE  Total(wrong'[s]) + Cardinality(Weighing(s)) <= Budget(AcctLimit)
    BY <1>1 DEF RoomToWeigh, Weighing
  <2>2. /\ Total(wrong[s]) \in Nat /\ Total(wrong'[s]) \in Nat
        /\ Total(wrong'[s]) <= Total(wrong[s])
    BY <1>1, Sums
  <2>3. /\ Cardinality(Weighing(s)) \in Nat /\ Cardinality(LoginClients) \in Nat
        /\ Cardinality(Weighing(s)) <= Cardinality(LoginClients)
    BY WeighingFinite
  <2>4. CASE s \in forgotten
    BY <1>3, <2>3, <2>4, LoginAssumption DEF Budget
  <2>5. CASE s \notin forgotten
    <3>1. Total(wrong[s]) + Cardinality(Weighing(s)) <= Budget(AcctLimit)
      BY <2>5 DEF LoginInv, RoomToWeigh
    <3> QED
      BY <2>2, <2>3, <3>1, LoginAssumption DEF Budget
  <2> QED
    BY <2>4, <2>5
<1> QED
  BY <1>2, <1>4, <1>5 DEF LoginInv

LEMMA PruneStep == ASSUME LoginInv, Prune PROVE LoginInv'
<1> DEFINE dead == {k \in Keys : Recent(acctFails[k]) = 0}
<1>1. /\ acctFails' = [k \in Keys |-> IF k \in dead THEN None ELSE acctFails[k]]
      /\ forgotten' = forgotten \cup
           {s \in Stages : StageKey(s) \in dead /\ acctFails[StageKey(s)] # None}
      /\ UNCHANGED <<attempts, doing, preauth, wrong>>
  BY DEF Prune
<1> HIDE DEF dead
<1>2. LoginTypeOK' /\ StageKeyed'
  BY <1>1, Sums DEF LoginInv, LoginTypeOK, StageKeyed
<1>3. FailuresFiled'
  BY <1>1, StageFacts DEF LoginInv, FailuresFiled
<1>4. RoomToWeigh'
  BY <1>1 DEF LoginInv, RoomToWeigh, Weighing
<1> QED
  BY <1>2, <1>3, <1>4 DEF LoginInv

LEMMA LoginBootStep == ASSUME LoginInv, LoginBoot PROVE LoginInv'
<1>1. LoginTypeOK'
  BY Sums, IpSums, StageFacts DEF LoginBoot, LoginInv, LoginTypeOK, DoingRecords
<1>2. \A s \in Stages : Weighing(s)' = {} /\ wrong'[s] = None
  BY StageFacts DEF LoginBoot, Weighing
<1>3. RoomToWeigh'
  <2>1. SUFFICES ASSUME NEW s \in Stages
        PROVE  Total(wrong'[s]) + Cardinality(Weighing(s)') <= Budget(AcctLimit)
    BY DEF RoomToWeigh
  <2>2. Total(wrong'[s]) = 0 /\ Cardinality(Weighing(s)') = 0
    BY <1>2, Sums, FS_EmptySet
  <2> QED
    BY <2>2, WeighingFinite, LoginAssumption DEF Budget
<1>4. StageKeyed'
  BY StageFacts DEF LoginBoot, StageKeyed
<1>5. FailuresFiled'
  BY <1>2, Sums, StageFacts DEF LoginBoot, FailuresFiled
<1> QED
  BY <1>1, <1>3, <1>4, <1>5 DEF LoginInv

LEMMA LoginNextInv == LoginInv /\ [LoginNext]_loginVars => LoginInv'
<1> SUFFICES ASSUME LoginInv, [LoginNext]_loginVars PROVE LoginInv'
  OBVIOUS
<1>0. preauth \in BOOLEAN /\ TRUE \in BOOLEAN
  BY DEF LoginInv, LoginTypeOK
<1>8. /\ Waiting \in DoingRecords
      /\ \A s \in Stages : Waiting.pc # WeighPc(s) /\ Waiting.pc # AskPc(s)
  BY StageFacts
<1>1. ASSUME NEW c \in LoginClients, NEW ip \in Ips, NEW id \in Keys, LoginArrive(c, ip, id)
      PROVE  LoginInv'
  <2> DEFINE r == [pc |-> "login", ip |-> ip, key |-> LockKey(id)]
  <2>1. /\ r \in DoingRecords
        /\ \A s \in Stages : r.pc # WeighPc(s) /\ (r.pc = AskPc(s) => r.key = StageKey(s))
    BY DEF DoingRecords, LockKey, Keys, WeighPc, AskPc, StageKey, Stages
  <2>2. doing' = [doing EXCEPT ![c] = r] /\ UNCHANGED <<attempts, acctFails, preauth, wrong, forgotten>>
    BY <1>1 DEF LoginArrive, Now
  <2> HIDE DEF r
  <2> QED
    BY <1>0, <2>1, <2>2, MoveStep
<1>2. ASSUME NEW c \in LoginClients, NEW ip \in Ips, CodeArrive(c, ip) PROVE LoginInv'
  <2> DEFINE r == [pc |-> "code", ip |-> ip, key |-> "name"]
  <2>1. /\ r \in DoingRecords
        /\ \A s \in Stages : r.pc # WeighPc(s) /\ (r.pc = AskPc(s) => r.key = StageKey(s))
    BY DEF DoingRecords, Keys, WeighPc, AskPc, StageKey, Stages
  <2>2. doing' = [doing EXCEPT ![c] = r] /\ UNCHANGED <<attempts, acctFails, preauth, wrong, forgotten>>
    BY <1>2 DEF CodeArrive, Now
  <2> HIDE DEF r
  <2> QED
    BY <1>0, <2>1, <2>2, MoveStep
<1>3. ASSUME NEW c \in LoginClients, LoginCheck(c) \/ CodeCheck(c) PROVE LoginInv'
  <2>1. PICK s \in Stages :
          /\ doing[c].pc = AskPc(s)
          /\ doing' = [doing EXCEPT ![c] =
               IF acctLocked(doing[c].key) THEN Waiting ELSE [@ EXCEPT !.pc = WeighPc(s)]]
          /\ UNCHANGED <<attempts, acctFails, preauth, wrong, forgotten>>
    BY <1>3 DEF LoginCheck, CodeCheck, AskPc, WeighPc, Stages
  <2>2. CASE acctLocked(doing[c].key)
    <3>1. doing' = [doing EXCEPT ![c] = Waiting]
      BY <2>1, <2>2
    <3> QED
      BY <1>0, <1>8, <2>1, <3>1, MoveStep
  <2>3. CASE ~acctLocked(doing[c].key)
    <3>1. doing' = [doing EXCEPT ![c] = [@ EXCEPT !.pc = WeighPc(s)]]
      BY <2>1, <2>3
    <3> QED
      BY <2>1, <2>3, <3>1, CheckStep
  <2> QED
    BY <2>2, <2>3
<1>4. ASSUME NEW c \in LoginClients, LoginRight(c) \/ CodeRight(c) PROVE LoginInv'
  BY <1>0, <1>8, <1>4, MoveStep DEF LoginRight, CodeRight
<1>5. ASSUME NEW c \in LoginClients, LoginWrong(c) PROVE LoginInv'
  <2>1. "password" \in Stages /\ doing[c].pc = WeighPc("password")
    BY <1>5 DEF LoginWrong, WeighPc, Stages
  <2> QED
    BY <1>5, <2>1, WrongStep DEF LoginWrong
<1>6. ASSUME NEW c \in LoginClients, CodeWrong(c) PROVE LoginInv'
  <2>1. "code" \in Stages /\ doing[c].pc = WeighPc("code")
    BY <1>6 DEF CodeWrong, WeighPc, Stages
  <2> QED
    BY <1>6, <2>1, WrongStep DEF CodeWrong
<1>7. CASE UNCHANGED loginVars
  BY <1>7 DEF loginVars, LoginInv, LoginTypeOK, StageKeyed, FailuresFiled, RoomToWeigh, Weighing
<1> QED
  BY <1>1, <1>2, <1>3, <1>4, <1>5, <1>6, <1>7, TickStep, PruneStep, LoginBootStep DEF LoginNext

\* However its names are mixed and its requests interleave, an account is
\* tried with at most a budget of wrong passwords and of wrong codes
\* (loginSubmit, totpSubmit, acctLocked), for any limits and any number of
\* requests and addresses, unless the pruner dropped failures.
THEOREM TriesAreBounded == LoginSpec => []LockoutBudget
<1>1. ASSUME LoginInv PROVE LockoutBudget
  <2> SUFFICES ASSUME NEW s \in Stages \ forgotten PROVE Total(wrong[s]) <= Budget(AcctLimit)
    BY DEF LockoutBudget, WithinBudget
  <2>1. Total(wrong[s]) + Cardinality(Weighing(s)) <= Budget(AcctLimit)
    BY <1>1 DEF LoginInv, RoomToWeigh
  <2>2. Total(wrong[s]) \in Nat /\ Budget(AcctLimit) \in Int
    BY <1>1, Sums, WeighingFinite, LoginAssumption DEF LoginInv, LoginTypeOK, Budget
  <2> QED
    BY <2>1, <2>2, WeighingFinite
<1> QED
  BY <1>1, LoginInitInv, LoginNextInv, PTL DEF LoginSpec

-----------------------------------------------------------------------------
LEMMA PanelSessTypesStep ==
  SignedOutRowless /\ PanelSessTypeOK /\ [PanelSessNext]_panelSessVars => PanelSessTypeOK'
<1> SUFFICES ASSUME SignedOutRowless, PanelSessTypeOK, [PanelSessNext]_panelSessVars
             PROVE PanelSessTypeOK'
  OBVIOUS
<1> USE PanelSessAssumption
<1>0. NoCookie \in [kind : {"none", "legacy", "row"}, sid : Sids \cup {Legacy},
                    until : 0..LastHour + 2]
      /\ NoRequest \in [pc : {"idle", "mint", "account", "serve", "upgrade"}, long : BOOLEAN]
  BY DEF NoCookie, NoRequest
<1>1. \A sids : Ended(sids) \in [Sids -> 0..LastHour + 2] /\ SignedOut(sids) \subseteq Devices
  BY DEF PanelSessTypeOK, Ended, SignedOut, WithRow
<1>2. ASSUME NEW d \in Devices, NEW long \in BOOLEAN, PanelSignIn(d, long) PROVE PanelSessTypeOK'
  BY <1>2 DEF PanelSignIn, Comes, PanelSessTypeOK
<1>3. ASSUME NEW d \in Devices, SetSession(d) PROVE PanelSessTypeOK'
  <2> DEFINE end == hour + IF request[d].long THEN 2 ELSE 1
  <2>1. end \in 0..LastHour + 2
    BY DEF PanelSessTypeOK
  <2>2. PICK s \in Sids :
          /\ rowsOf' = [rowsOf EXCEPT ![s] = end]
          /\ cookie' = [cookie EXCEPT ![d] = [kind |-> "row", sid |-> s, until |-> end]]
    BY <1>3 DEF SetSession
  <2> HIDE DEF end
  <2>3. request' \in [Devices -> [pc : {"idle", "mint", "account", "serve", "upgrade"},
                                  long : BOOLEAN]]
    BY <1>0, <1>3 DEF SetSession, PanelSessTypeOK
  <2> QED
    BY <1>3, <2>1, <2>2, <2>3 DEF SetSession, PanelSessTypeOK
<1>4. ASSUME NEW d \in Devices, Arrive(d) \/ Served(d) PROVE PanelSessTypeOK'
  <2>1. request' \in [Devices -> [pc : {"idle", "mint", "account", "serve", "upgrade"},
                                  long : BOOLEAN]]
    <3>1. CASE Arrive(d)
      BY <3>1 DEF Arrive, Comes, PanelSessTypeOK
    <3>2. CASE Served(d)
      BY <1>0, <3>2 DEF Served, Leaves, PanelSessTypeOK
    <3> QED
      BY <1>4, <3>1, <3>2
  <2> QED
    BY <1>4, <2>1 DEF Arrive, Served, PanelSessTypeOK
<1>5. ASSUME NEW d \in Devices, NEW get \in BOOLEAN, AccountCheck(d, get) PROVE PanelSessTypeOK'
  <2> DEFINE pc == IF cookie[d].kind = "legacy" /\ get /\ Fresh THEN "upgrade" ELSE "serve"
  <2>1. /\ pc \in {"upgrade", "serve"} /\ (cookie[d].until > hour + 1) \in BOOLEAN
    OBVIOUS
  <2>2. request' \in [Devices -> [pc : {"idle", "mint", "account", "serve", "upgrade"},
                                  long : BOOLEAN]]
    <3>1. CASE member
      <4>1. request' = [request EXCEPT ![d] = [pc |-> pc, long |-> cookie[d].until > hour + 1]]
        BY <1>5, <3>1 DEF AccountCheck
      <4> HIDE DEF pc
      <4> QED
        BY <2>1, <4>1 DEF PanelSessTypeOK
    <3>2. CASE ~member
      BY <1>0, <1>5, <3>2 DEF AccountCheck, Leaves, PanelSessTypeOK
    <3> QED
      BY <3>1, <3>2
  <2>3. cookie' = cookie \/ cookie' = [cookie EXCEPT ![d] = NoCookie]
    BY <1>5 DEF AccountCheck
  <2>4. cookie' \in [Devices -> [kind : {"none", "legacy", "row"},
                                 sid : Sids \cup {Legacy}, until : 0..LastHour + 2]]
    BY <1>0, <2>3 DEF PanelSessTypeOK
  <2> QED
    BY <1>5, <2>2, <2>4 DEF AccountCheck, PanelSessTypeOK
<1>6. ASSUME NEW d \in Devices, RevokeOthers(d) PROVE PanelSessTypeOK'
  BY <1>0, <1>1, <1>6 DEF RevokeOthers, Leaves, PanelSessTypeOK
<1>7. ASSUME NEW d \in Devices, NEW s \in Sids, RevokeOne(d, s) PROVE PanelSessTypeOK'
  BY <1>0, <1>1, <1>7 DEF RevokeOne, Leaves, PanelSessTypeOK
<1>8. ASSUME NEW d \in Devices, SignOff(d) PROVE PanelSessTypeOK'
  BY <1>0, <1>1, <1>8 DEF SignOff, PanelSessTypeOK
<1>9. CASE SignOutMember \/ ExpiredPruned
  BY <1>1, <1>9 DEF SignOutMember, ExpiredPruned, PanelSessTypeOK
<1>11. CASE Removed \/ AddedAgain \/ HalfDay
  <2>1. hour' \in 0..LastHour /\ member' \in BOOLEAN
    <3>1. CASE Removed \/ AddedAgain
      BY <3>1 DEF Removed, AddedAgain, PanelSessTypeOK
    <3>2. CASE HalfDay
      BY <3>2 DEF HalfDay, PanelSessTypeOK
    <3> QED
      BY <1>11, <3>1, <3>2
  <2> QED
    BY <1>11, <2>1 DEF Removed, AddedAgain, HalfDay, PanelSessTypeOK
<1>10. CASE UNCHANGED panelSessVars
  BY <1>10 DEF panelSessVars, PanelSessTypeOK
<1> QED
  BY <1>2, <1>3, <1>4, <1>5, <1>6, <1>7, <1>8, <1>9, <1>10, <1>11 DEF PanelSessNext

\* The panel's three parts keep their types.
LEMMA PanelTypes ==
  /\ PanelSpec => []PanelTypeOK
  /\ LoginSpec => []LoginTypeOK
  /\ PanelSessSpec => []PanelSessTypeOK
<1>1. PanelInv => PanelTypeOK
  BY DEF PanelInv
<1>2. LoginInv => LoginTypeOK
  BY DEF LoginInv
<1>3. PanelSessInit => PanelSessTypeOK
  BY PanelSessAssumption DEF PanelSessInit, PanelSessTypeOK, NoCookie, NoRequest
<1> QED
  BY <1>1, <1>2, <1>3, PanelAlwaysInv, LoginInitInv, LoginNextInv, PanelSessInitInv,
     PanelSessNextInv, PanelSessTypesStep, PTL DEF LoginSpec, PanelSessSpec

-----------------------------------------------------------------------------
(* Signing keys.                                                           *)

\* The row holds a pair, and the public key of the pair before it.
RowOfPairs ==
    /\ row.kid \in Nat /\ row.priv = row.kid
    /\ row.old = IF row.kid = 0 THEN 0 ELSE row.kid - 1

\* Who signs with a kid or registers one has one; what was signed between two rotations
\* names the pair that signed it.
SignedByPair ==
    /\ \A c \in KeyClients : todo[c].pc \in {"sign", "register"} =>
                              todo[c].kid \in Nat \ {0} /\ row.kid # 0
    /\ \A t \in jwts : ~t.torn => /\ t.key = t.kid /\ t.kid \in Nat \ {0}
                                  /\ t.kid <= row.kid

\* What is published is in the cache or about to be registered there, and in
\* the PostgREST process unless somebody is about to stop it.
PublishedKnown ==
    /\ \A k \in Published :
         k \in rsPubs \/ \E c \in KeyClients : todo[c].pc = "register" /\ todo[c].kid = k
    /\ row.enabled /\ pgrst.up /\ ~Before({"register", "enable", "stop"}) =>
         Published \subseteq pgrst.kids

KeysInv ==
    /\ row \in [kid : Nat, priv : Nat, old : Nat, enabled : BOOLEAN]
    /\ todo \in [KeyClients ->
         [pc : {"idle", "sign", "generate", "register", "enable", "stop"}, kid : Nat]]
    /\ RowOfPairs /\ SignedByPair /\ PublishedKnown

LEMMA KeysInitInv == KeysInit => KeysInv
  BY DEF KeysInit, KeysInv, RowOfPairs, SignedByPair, PublishedKnown, Published, Stopped, Rest

LEMMA DoStep ==
  ASSUME KeysInv, NEW c \in KeyClients, NEW kid \in Nat,
         NEW pc \in {"idle", "sign", "generate", "register", "enable", "stop"},
         Do(c, pc, kid)
  PROVE  /\ todo' \in [KeyClients ->
              [pc : {"idle", "sign", "generate", "register", "enable", "stop"}, kid : Nat]]
         /\ todo'[c].pc = pc /\ todo'[c].kid = kid
         /\ \A d \in KeyClients : d # c => todo'[d] = todo[d]
  BY DEF KeysInv, Do

LEMMA KeysNextInv == KeysInv /\ [KeysNext]_keyVars => KeysInv'
<1> SUFFICES ASSUME KeysInv, [KeysNext]_keyVars PROVE KeysInv'
  OBVIOUS
<1>0. row.kid \in Nat /\ 0 \in Nat
  BY DEF KeysInv
<1> USE DEF KeysInv, RowOfPairs, SignedByPair, PublishedKnown, Published, Before
<1>1. ASSUME NEW c \in KeyClients, ReadKid(c) PROVE KeysInv'
  <2>1. todo[c].pc = "idle"
    BY <1>1 DEF ReadKid, Rest
  <2> QED
    BY <1>0, <1>1, <2>1, DoStep DEF ReadKid
<1>2. ASSUME NEW c \in KeyClients, Sign(c) PROVE KeysInv'
  <2>1. /\ todo' \in [KeyClients ->
             [pc : {"idle", "sign", "generate", "register", "enable", "stop"}, kid : Nat]]
        /\ todo'[c].pc = "idle" /\ todo'[c].kid = 0
        /\ \A d \in KeyClients : d # c => todo'[d] = todo[d]
    BY <1>0, <1>2, DoStep DEF Sign
  <2> DEFINE new == [kid |-> todo[c].kid, key |-> row.priv, torn |-> row.kid # todo[c].kid]
  <2>2. /\ todo[c].pc = "sign" /\ jwts' = jwts \cup {new}
        /\ UNCHANGED <<row, rsPubs, pgrst>>
    BY <1>2 DEF Sign
  <2>3. ~new.torn => new.kid = row.kid /\ new.key = row.kid /\ row.kid \in Nat \ {0}
    BY <1>0, <2>2
  <2> HIDE DEF new
  <2>4. SignedByPair'
    BY <1>0, <2>1, <2>2, <2>3
  <2>5. PublishedKnown'
    BY <2>1, <2>2
  <2> QED
    BY <2>1, <2>2, <2>4, <2>5
<1>3. ASSUME NEW c \in KeyClients, ToggleOn(c) \/ Rotate(c) PROVE KeysInv'
  <2>1. todo[c].pc = "idle"
    BY <1>3 DEF ToggleOn, Rotate, Rest
  <2> QED
    BY <1>0, <1>3, <2>1, DoStep DEF ToggleOn, Rotate
<1>4. ASSUME NEW c \in KeyClients, ToggleOff(c) PROVE KeysInv'
  <2>1. /\ todo' \in [KeyClients ->
             [pc : {"idle", "sign", "generate", "register", "enable", "stop"}, kid : Nat]]
        /\ todo'[c].pc = "stop" /\ todo'[c].kid = 0
        /\ \A d \in KeyClients : d # c => todo'[d] = todo[d]
    BY <1>0, <1>4, DoStep DEF ToggleOff
  <2>2. /\ row' = [row EXCEPT !.enabled = FALSE] /\ todo[c].pc = "idle"
        /\ UNCHANGED <<rsPubs, pgrst, jwts>>
    BY <1>4 DEF ToggleOff, Rest
  <2>3. /\ row'.kid = row.kid /\ row'.priv = row.priv /\ row'.old = row.old
        /\ row'.enabled = FALSE
        /\ row' \in [kid : Nat, priv : Nat, old : Nat, enabled : BOOLEAN]
    BY <2>2
  <2>4. SignedByPair' /\ PublishedKnown'
    BY <2>1, <2>2, <2>3
  <2> QED
    BY <2>1, <2>3, <2>4
<1>5. ASSUME NEW c \in KeyClients, Generate(c) PROVE KeysInv'
  <2>1. /\ todo' \in [KeyClients ->
             [pc : {"idle", "sign", "generate", "register", "enable", "stop"}, kid : Nat]]
        /\ todo'[c].pc = "register" /\ todo'[c].kid = row.kid + 1
        /\ \A d \in KeyClients : d # c => todo'[d] = todo[d]
    BY <1>0, <1>5, DoStep DEF Generate
  <2>2. /\ row' = [row EXCEPT !.old = row.kid, !.kid = row.kid + 1, !.priv = row.kid + 1]
        /\ todo[c].pc = "generate"
        /\ UNCHANGED <<rsPubs, pgrst, jwts>>
    BY <1>5 DEF Generate
  <2>3. /\ row'.kid = row.kid + 1 /\ row'.priv = row.kid + 1 /\ row'.old = row.kid
        /\ row' \in [kid : Nat, priv : Nat, old : Nat, enabled : BOOLEAN]
    <3>1. row \in [kid : Nat, priv : Nat, old : Nat, enabled : BOOLEAN] /\ row.kid + 1 \in Nat
      BY <1>0
    <3> QED
      BY ONLY <2>2, <3>1
  <2>4. RowOfPairs'
    BY <1>0, <2>3
  <2>5. SignedByPair'
    BY <1>0, <2>1, <2>2, <2>3
  <2>6. PublishedKnown'
    BY <1>0, <2>1, <2>2, <2>3
  <2> QED
    BY <2>1, <2>3, <2>4, <2>5, <2>6
<1>6. ASSUME NEW c \in KeyClients, Register(c) PROVE KeysInv'
  <2>1. /\ todo' \in [KeyClients ->
             [pc : {"idle", "sign", "generate", "register", "enable", "stop"}, kid : Nat]]
        /\ todo'[c].pc \in {"enable", "stop"}
        /\ \A d \in KeyClients : d # c => todo'[d] = todo[d]
    BY <1>0, <1>6, DoStep DEF Register
  <2>2. /\ todo[c].pc = "register" /\ rsPubs' = rsPubs \cup {todo[c].kid}
        /\ UNCHANGED <<row, pgrst, jwts>>
    BY <1>6 DEF Register
  <2>3. SignedByPair'
    BY <2>1, <2>2
  <2>4. PublishedKnown'
    BY <2>1, <2>2
  <2> QED
    BY <2>1, <2>2, <2>3, <2>4
<1>7. ASSUME NEW c \in KeyClients, SetEnabled(c) PROVE KeysInv'
  <2>1. /\ todo' \in [KeyClients ->
             [pc : {"idle", "sign", "generate", "register", "enable", "stop"}, kid : Nat]]
        /\ todo'[c].pc = "stop" /\ todo'[c].kid = 0
        /\ \A d \in KeyClients : d # c => todo'[d] = todo[d]
    BY <1>0, <1>7, DoStep DEF SetEnabled
  <2>2. /\ row' = [row EXCEPT !.enabled = TRUE] /\ todo[c].pc = "enable"
        /\ UNCHANGED <<rsPubs, pgrst, jwts>>
    BY <1>7 DEF SetEnabled
  <2>3. /\ row'.kid = row.kid /\ row'.priv = row.priv /\ row'.old = row.old
        /\ row' \in [kid : Nat, priv : Nat, old : Nat, enabled : BOOLEAN]
    BY <2>2
  <2>4. SignedByPair' /\ PublishedKnown'
    BY <2>1, <2>2, <2>3
  <2> QED
    BY <2>1, <2>3, <2>4
<1>8. ASSUME NEW c \in KeyClients, Stop(c) PROVE KeysInv'
  BY <1>0, <1>8, DoStep DEF Stop, Stopped
<1>9. ASSUME NEW c \in KeyClients, StartReadEnabled(c) \/ StartReadKeys(c) PROVE KeysInv'
  BY <1>9 DEF StartReadEnabled, StartReadKeys
<1>10. CASE OtherStop
  BY <1>10 DEF OtherStop, Stopped
<1>11. CASE Boot
  BY <1>11 DEF Boot, Stopped, Rest
<1>12. ASSUME NEW t \in jwts, TokenDies(t) PROVE KeysInv'
  BY <1>12 DEF TokenDies
<1>13. CASE UNCHANGED keyVars
  BY <1>13 DEF keyVars
<1> QED
  BY <1>1, <1>2, <1>3, <1>4, <1>5, <1>6, <1>7, <1>8, <1>9, <1>10, <1>11, <1>12, <1>13
  DEF KeysNext

\* Tokens verify wherever they are shown, through rotations, toggles, restarts
\* and starts of PostgREST (jwks.go), for any number of requests and pairs.
THEOREM KeysAlwaysServe == KeysSpec => []KeysServeTokens
<1>1. ASSUME KeysInv PROVE KeysServeTokens
  <2> SUFFICES ASSUME NEW t \in jwts, ~t.torn, t.kid + 1 >= row.kid
               PROVE  /\ Sound(t)
                      /\ ~Before({"register"}) => t.kid \in rsPubs
                      /\ row.enabled /\ pgrst.up /\ ~Before({"register", "enable", "stop"}) =>
                           t.kid \in pgrst.kids
    BY DEF KeysServeTokens
  <2>1. t.kid = t.key /\ t.kid \in Published
    BY <1>1 DEF KeysInv, SignedByPair, RowOfPairs, Published
  <2> QED
    BY <1>1, <2>1 DEF KeysInv, PublishedKnown, Before, Sound
<1> QED
  BY <1>1, KeysInitInv, KeysNextInv, PTL DEF KeysSpec

-----------------------------------------------------------------------------
LEMMA KeysTypesStep == KeysInv /\ KeysTypeOK /\ [KeysNext]_keyVars => KeysTypeOK'
<1> SUFFICES ASSUME KeysInv, KeysTypeOK, [KeysNext]_keyVars PROVE KeysTypeOK'
  OBVIOUS
<1>0. /\ 0 \in Kids \cup {0} /\ Published \subseteq Kids
      /\ row.kid \in Kids \cup {0} /\ row.priv = row.kid
      /\ \A k \in Nat : k < MaxKeys => k + 1 \in Kids
  BY KeysAssumption DEF Kids, Published, KeysTypeOK, KeysInv, RowOfPairs
<1> DEFINE Todos == [KeyClients ->
             [pc : {"idle", "sign", "generate", "register", "enable", "stop"},
              kid : Kids \cup {0}]]
<1>1. ASSUME NEW c \in KeyClients, NEW kid \in Kids \cup {0},
             NEW pc \in {"idle", "sign", "generate", "register", "enable", "stop"},
             Do(c, pc, kid)
      PROVE  todo' \in Todos
  BY <1>1 DEF Do, KeysTypeOK
<1>2. ASSUME NEW c \in KeyClients, ReadKid(c) \/ ToggleOn(c) \/ Rotate(c) PROVE KeysTypeOK'
  BY <1>0, <1>1, <1>2 DEF ReadKid, ToggleOn, Rotate, KeysTypeOK
<1>3. ASSUME NEW c \in KeyClients, Sign(c) PROVE KeysTypeOK'
  <2>1. todo[c].kid \in Kids /\ row.kid \in Kids
    <3>1. /\ todo[c].kid \in Kids \cup {0} /\ todo[c].kid \in Nat \ {0}
      BY <1>3 DEF Sign, KeysTypeOK, KeysInv, SignedByPair
    <3>2. row.kid # 0
      BY <1>3 DEF Sign, KeysInv, SignedByPair
    <3> QED
      BY <1>0, <3>1, <3>2
  <2>2. todo' \in Todos
    BY <1>0, <1>1, <1>3 DEF Sign
  <2> DEFINE new == [kid |-> todo[c].kid, key |-> row.priv, torn |-> row.kid # todo[c].kid]
  <2>3. new \in [kid : Kids, key : Kids, torn : BOOLEAN]
    BY <1>0, <2>1
  <2>4. jwts' = jwts \cup {new}
    BY <1>3 DEF Sign
  <2> HIDE DEF new
  <2>5. jwts' \subseteq [kid : Kids, key : Kids, torn : BOOLEAN]
    BY <2>3, <2>4 DEF KeysTypeOK
  <2> QED
    BY <1>3, <2>2, <2>5 DEF Sign, KeysTypeOK
<1>4. ASSUME NEW c \in KeyClients, ToggleOff(c) \/ SetEnabled(c) PROVE KeysTypeOK'
  <2>1. row' \in [kid : Kids \cup {0}, priv : Kids \cup {0}, old : Kids \cup {0},
                  enabled : BOOLEAN]
    <3>1. row' \in {[row EXCEPT !.enabled = b] : b \in BOOLEAN}
      BY <1>4 DEF ToggleOff, SetEnabled
    <3> QED
      BY <3>1 DEF KeysTypeOK
  <2>2. todo' \in Todos
    BY <1>0, <1>1, <1>4 DEF ToggleOff, SetEnabled
  <2> QED
    BY <1>4, <2>1, <2>2 DEF ToggleOff, SetEnabled, KeysTypeOK
<1>5. ASSUME NEW c \in KeyClients, Generate(c) PROVE KeysTypeOK'
  <2>1. row.kid + 1 \in Kids
    BY <1>0, <1>5 DEF Generate, KeysInv, RowOfPairs
  <2>2. row' \in [kid : Kids \cup {0}, priv : Kids \cup {0}, old : Kids \cup {0},
                  enabled : BOOLEAN]
    BY <1>0, <1>5, <2>1 DEF Generate, KeysTypeOK
  <2>3. todo' \in Todos
    BY <1>1, <1>5, <2>1 DEF Generate
  <2> QED
    BY <1>5, <2>2, <2>3 DEF Generate, KeysTypeOK
<1>6. ASSUME NEW c \in KeyClients, Register(c) PROVE KeysTypeOK'
  <2>1. todo[c].kid \in Kids
    <3>1. todo[c].kid \in Nat \ {0} /\ todo[c].kid \in Kids \cup {0}
      BY <1>6 DEF Register, KeysTypeOK, KeysInv, SignedByPair
    <3> QED
      BY <3>1
  <2>2. todo' \in Todos
    BY <1>0, <1>1, <1>6 DEF Register
  <2> QED
    BY <1>6, <2>1, <2>2 DEF Register, KeysTypeOK
<1>7. Stopped \in [up : BOOLEAN, kids : SUBSET Kids]
  BY DEF Stopped
<1>8. ASSUME NEW c \in KeyClients, Stop(c) PROVE KeysTypeOK'
  <2>1. todo' \in Todos
    BY <1>0, <1>1, <1>8 DEF Stop
  <2> QED
    BY <1>7, <1>8, <2>1 DEF Stop, KeysTypeOK
<1>9. ASSUME NEW c \in KeyClients, StartReadEnabled(c) \/ StartReadKeys(c) PROVE KeysTypeOK'
  <2>1. starter' \in KeyClients \cup {NoOne}
    BY <1>9 DEF StartReadEnabled, StartReadKeys, KeysTypeOK
  <2>2. pgrst' \in {pgrst, [up |-> TRUE, kids |-> {}], [up |-> TRUE, kids |-> Published]}
    BY <1>9 DEF StartReadEnabled, StartReadKeys
  <2>3. pgrst' \in [up : BOOLEAN, kids : SUBSET Kids]
    <3>1. \A ks \in SUBSET Kids : [up |-> TRUE, kids |-> ks] \in [up : BOOLEAN, kids : SUBSET Kids]
      OBVIOUS
    <3>2. [up |-> TRUE, kids |-> {}] \in [up : BOOLEAN, kids : SUBSET Kids]
      BY <3>1
    <3>3. [up |-> TRUE, kids |-> Published] \in [up : BOOLEAN, kids : SUBSET Kids]
      BY <1>0, <3>1
    <3>4. pgrst \in [up : BOOLEAN, kids : SUBSET Kids]
      BY DEF KeysTypeOK
    <3> QED
      BY <2>2, <3>2, <3>3, <3>4
  <2> QED
    BY <1>9, <2>1, <2>3 DEF StartReadEnabled, StartReadKeys, KeysTypeOK
<1>12. CASE OtherStop
  BY <1>7, <1>12 DEF OtherStop, KeysTypeOK
<1>13. CASE Boot
  <2>1. todo' \in Todos
    BY <1>13 DEF Boot, Rest
  <2> QED
    BY <1>0, <1>7, <1>13, <2>1 DEF Boot, KeysTypeOK
<1>10. ASSUME NEW t \in jwts, TokenDies(t) PROVE KeysTypeOK'
  BY <1>10 DEF TokenDies, KeysTypeOK
<1>11. CASE UNCHANGED keyVars
  BY <1>11 DEF keyVars, KeysTypeOK
<1> QED
  BY <1>2, <1>3, <1>4, <1>5, <1>6, <1>8, <1>9, <1>10, <1>11, <1>12, <1>13 DEF KeysNext

LEMMA KeysTypes == KeysSpec => []KeysTypeOK
<1>1. KeysInit => KeysTypeOK
  BY DEF KeysInit, KeysTypeOK, Stopped, Rest
<1> QED
  BY <1>1, KeysInitInv, KeysNextInv, KeysTypesStep, PTL DEF KeysSpec

-----------------------------------------------------------------------------
(* The composition.                                                        *)

\* While another part runs, a part rests.
LEMMA OthersRest ==
  ASSUME NEW p \in Parts, NEW q \in Parts, p # q, Runs(q)
  PROVE  Rests(p)
  BY DEF Runs

LEMMA RestingParts ==
  /\ Rests("sessions") => UNCHANGED sessVars
  /\ Rests("codes") => UNCHANGED codeVars
  /\ Rests("factor") => UNCHANGED factorVars
  /\ Rests("panel") => UNCHANGED panelVars
  /\ Rests("keys") => UNCHANGED keyVars
  /\ Rests("login") => UNCHANGED loginVars
  /\ Rests("cookies") => UNCHANGED panelSessVars
  BY DEF Rests

LEMMA SomePartRuns ==
  ASSUME [IdentityNext]_identityVars
  PROVE  /\ [SessNext]_sessVars
         /\ [CodesNext]_codeVars
         /\ [FactorNext]_factorVars
         /\ [PanelNext]_panelVars
         /\ [KeysNext]_keyVars
         /\ [LoginNext]_loginVars
         /\ [PanelSessNext]_panelSessVars
<1>1. CASE UNCHANGED identityVars
  BY <1>1 DEF identityVars
<1>2. CASE IdentityNext
  <2>1. \A q \in Parts : Runs(q) =>
          \A p \in Parts \ {q} : Rests(p)
    BY OthersRest
  <2>2. /\ SessNext \/ Rests("sessions")
        /\ CodesNext \/ Rests("codes")
        /\ FactorNext \/ Rests("factor")
        /\ PanelNext \/ Rests("panel")
        /\ KeysNext \/ Rests("keys")
        /\ LoginNext \/ Rests("login")
        /\ PanelSessNext \/ Rests("cookies")
    BY <1>2, <2>1 DEF IdentityNext, Parts
  <2> QED
    BY <2>2, RestingParts
<1> QED
  BY <1>1, <1>2

\* Every behaviour of Identity is one of each part.
LEMMA IdentityIsItsParts ==
  IdentitySpec => /\ SessSpec /\ CodesSpec /\ FactorSpec
                  /\ PanelSpec /\ LoginSpec /\ PanelSessSpec /\ KeysSpec
<1>1. IdentityInit => /\ SessInit /\ CodesInit /\ FactorInit
                      /\ PanelInit /\ LoginInit /\ PanelSessInit /\ KeysInit
  BY DEF IdentityInit
<1> QED
  BY <1>1, SomePartRuns, PTL 
  DEF IdentitySpec, SessSpec, CodesSpec, FactorSpec, PanelSpec, LoginSpec,
      PanelSessSpec, KeysSpec

-----------------------------------------------------------------------------
\* What is good for one use is used once: refresh tokens (authusers.go),
\* one-time codes, recovery codes (authusers.go) and invitations (people.go).
THEOREM OneUseEach == IdentitySpec => []SpentOnce
  BY IdentityIsItsParts, RefreshTokensSpentOnce, CodesSpentOnce, RecoveryCodesSpentOnce,
     InvitationsSpentOnce, PTL DEF SpentOnce

\* Guessing has a budget: one-time codes (authusers.go), passwords and codes of
\* the panel's sign-in (auth.go, totp.go).
THEOREM GuessesStayBounded == IdentitySpec => []GuessesBounded
  BY IdentityIsItsParts, GuessesEnd, TriesAreBounded, PTL DEF GuessesBounded

\* What lets somebody in stands for something (jwks.go, auth.go).
THEOREM AdmissionsAlwaysHold == IdentitySpec => []AdmissionsHold
  BY IdentityIsItsParts, KeysAlwaysServe, SignedOutStaysOut, PTL DEF AdmissionsHold

\* A second factor that is active was proven (authusers.go).
THEOREM IdentityActiveIsProven == IdentitySpec => []ActiveSecretProven
  BY IdentityIsItsParts, ActiveIsProven, PTL

\* A session of a project's user that is over stays over (authusers.go).
THEOREM IdentitySessionsEnd == IdentitySpec => OverStaysOver
  BY IdentityIsItsParts, OverSessionsStayOver, PTL

\* The team keeps an owner and lets no stranger in (people.go, auth.go).
THEOREM IdentityTeamIsKept == IdentitySpec => TeamKept
  BY IdentityIsItsParts, TeamIsKept, PTL

\* Every part keeps its types.
THEOREM IdentityTypeCorrect == IdentitySpec => []IdentityTypeOK
<1>1. IdentityInit => part \in Parts
  BY DEF IdentityInit
<1>2. part \in Parts /\ [IdentityNext]_identityVars => (part \in Parts)'
  BY DEF IdentityNext, identityVars, Runs
<1>3. CodesOnceInv => CodesTypeOK
  BY DEF CodesOnceInv
<1>4. IdentitySpec => [](part \in Parts)
  BY <1>1, <1>2, PTL DEF IdentitySpec
<1> QED
  BY <1>3, <1>4, IdentityIsItsParts, SessTypes, CodesAlwaysOnce, FactorTypes, KeysTypes,
     PanelTypes, PTL DEF IdentityTypeOK
=============================================================================
