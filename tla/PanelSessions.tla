----------------------------- MODULE PanelSessions -----------------------------
(***************************************************************************)
(* Who a request to the panel comes from (src/pgforge/auth.go): session    *)
(* cookies with a row each and cookies of an older release without one,    *)
(* for one display name; and what the account page, the Team page and the  *)
(* sampler do to the rows.  The check of a request reads the row and the   *)
(* account by separate statements, and the handler runs after both.        *)
(***************************************************************************)
EXTENDS Naturals, FiniteSets

CONSTANTS
    Devices,        \* browsers, with one request each
    MaxSessions,    \* bound: sessions made
    LastHour        \* bound: ticks of half a day; a session lasts one, or two
                    \* when it is remembered (12 hours, 7 days)

ASSUME PanelSessAssumption == MaxSessions \in Nat /\ LastHour \in Nat

VARIABLES
    hour,
    member,     \* an account bears the name
    rowsOf,     \* panel_sessions: session -> the hour it ends at, 0 for no row
    cookie,     \* what each browser sends
    request,    \* what each request does next
    out         \* history: browsers that were signed out

panelSessVars == <<hour, member, rowsOf, cookie, request, out>>

Sids == 1..MaxSessions
Legacy == 0             \* a cookie of three parts: no session id
NoCookie == [kind |-> "none", sid |-> Legacy, until |-> 0]
NoRequest == [pc |-> "idle", long |-> FALSE]

PanelSessTypeOK ==
    /\ hour \in 0..LastHour /\ member \in BOOLEAN
    /\ rowsOf \in [Sids -> 0..LastHour + 2]
    /\ cookie \in [Devices -> [kind : {"none", "legacy", "row"},
                               sid : Sids \cup {Legacy}, until : 0..LastHour + 2]]
    /\ request \in [Devices -> [pc : {"idle", "mint", "account", "serve", "upgrade"},
                                long : BOOLEAN]]
    /\ out \subseteq Devices

\* Some browsers may have a cookie of the older release.
PanelSessInit ==
    /\ hour = 0 /\ member = TRUE
    /\ rowsOf = [s \in Sids |-> 0]
    /\ \E old \in SUBSET Devices :
         /\ Cardinality(old) <= 1
         /\ cookie = [d \in Devices |-> IF d \in old
                        THEN [kind |-> "legacy", sid |-> Legacy, until |-> 2] ELSE NoCookie]
    /\ request = [d \in Devices |-> NoRequest]
    /\ out = {}

Comes(d, pc, long) == request' = [request EXCEPT ![d] = [pc |-> pc, long |-> long]]
Leaves(d) == request' = [request EXCEPT ![d] = NoRequest]
Unused == {s \in Sids : /\ rowsOf[s] = 0
                        /\ \A d \in Devices : cookie[d].sid # s}
\* no row of a session that ended comes back: its cookie may still be around
Fresh == Unused # {}
NextSid(s) == s \in Unused /\ \A t \in Unused : s <= t
WithRow == {d \in Devices : cookie[d].kind = "row" /\ rowsOf[cookie[d].sid] # 0}

\* sessionName: signed and in time, and its row is there and in time.
LetsIn(d) ==
    /\ cookie[d].kind # "none" /\ hour < cookie[d].until
    /\ cookie[d].kind = "row" => rowsOf[cookie[d].sid] > hour

-----------------------------------------------------------------------------
(* Signing in: the password (or the code after it) is right, then setSession. *)

PanelSignIn(d, long) ==
    /\ request[d] = NoRequest /\ member /\ Fresh
    /\ Comes(d, "mint", long)
    /\ UNCHANGED <<hour, member, rowsOf, cookie, out>>

\* A row and a cookie with the same end.  For who signed in, or whose old
\* cookie is exchanged.
SetSession(d) ==
    /\ request[d].pc \in {"mint", "upgrade"}
    /\ \E s \in Sids :
         LET end == hour + IF request[d].long THEN 2 ELSE 1
         IN  /\ NextSid(s)
             /\ rowsOf' = [rowsOf EXCEPT ![s] = end]
             /\ cookie' = [cookie EXCEPT ![d] = [kind |-> "row", sid |-> s, until |-> end]]
    /\ request' = [request EXCEPT ![d] = IF @.pc = "mint" THEN NoRequest ELSE [@ EXCEPT !.pc = "serve"]]
    /\ out' = out \ {d}
    /\ UNCHANGED <<hour, member>>

-----------------------------------------------------------------------------
(* auth: the cookie and its row, then the account.                         *)

Arrive(d) ==
    /\ request[d] = NoRequest /\ LetsIn(d)
    /\ Comes(d, "account", FALSE)
    /\ UNCHANGED <<hour, member, rowsOf, cookie, out>>

\* A name nobody bears any more loses its cookie; a GET with an old cookie
\* gets a new one, of the longer kind when more than a day is left.
AccountCheck(d, get) ==
    /\ request[d].pc = "account"
    /\ IF ~member
       THEN cookie' = [cookie EXCEPT ![d] = NoCookie] /\ Leaves(d)
       ELSE /\ UNCHANGED cookie
            /\ request' = [request EXCEPT ![d] =
                 [pc |-> IF cookie[d].kind = "legacy" /\ get /\ Fresh THEN "upgrade" ELSE "serve",
                  long |-> cookie[d].until > hour + 1]]
    /\ UNCHANGED <<hour, member, rowsOf, out>>

Served(d) ==
    /\ request[d].pc = "serve" /\ Leaves(d)
    /\ UNCHANGED <<hour, member, rowsOf, cookie, out>>

-----------------------------------------------------------------------------
(* What a handler does with sessions.                                      *)

Ended(sids) == [s \in Sids |-> IF s \in sids THEN 0 ELSE rowsOf[s]]
SignedOut(sids) == {d \in WithRow : cookie[d].sid \in sids}

\* "Sign out everywhere else": all rows but this one's, and all of them when
\* the request came without a row.
RevokeOthers(d) ==
    /\ request[d].pc = "serve"
    /\ LET others == Sids \ {cookie[d].sid}
       IN  rowsOf' = Ended(others) /\ out' = out \cup SignedOut(others)
    /\ Leaves(d)
    /\ UNCHANGED <<hour, member, cookie>>

RevokeOne(d, s) ==
    /\ request[d].pc = "serve" /\ rowsOf[s] # 0
    /\ rowsOf' = Ended({s}) /\ out' = out \cup SignedOut({s})
    /\ cookie' = IF cookie[d].sid = s THEN [cookie EXCEPT ![d] = NoCookie] ELSE cookie
    /\ Leaves(d)
    /\ UNCHANGED <<hour, member>>

\* logout checks nothing.
SignOff(d) ==
    /\ request[d] = NoRequest /\ cookie[d] # NoCookie
    /\ rowsOf' = Ended({cookie[d].sid})
    /\ out' = out \cup SignedOut({cookie[d].sid})
    /\ cookie' = [cookie EXCEPT ![d] = NoCookie]
    /\ UNCHANGED <<hour, member, request>>

-----------------------------------------------------------------------------
(* The Team page, and time.                                                *)

SignOutMember ==
    /\ member /\ \E s \in Sids : rowsOf[s] # 0
    /\ rowsOf' = Ended(Sids) /\ out' = out \cup SignedOut(Sids)
    /\ UNCHANGED <<hour, member, cookie, request>>

\* removeMember deletes the account alone: rows stay.
Removed ==
    /\ member /\ member' = FALSE
    /\ UNCHANGED <<hour, rowsOf, cookie, request, out>>

\* Somebody of the same name: rows of the one before count for them.
AddedAgain ==
    /\ ~member /\ member' = TRUE
    /\ UNCHANGED <<hour, rowsOf, cookie, request, out>>

HalfDay ==
    /\ hour < LastHour /\ hour' = hour + 1
    /\ UNCHANGED <<member, rowsOf, cookie, request, out>>

\* Every hour, by the sampler.
ExpiredPruned ==
    /\ \E s \in Sids : rowsOf[s] # 0 /\ rowsOf[s] < hour
    /\ rowsOf' = Ended({s \in Sids : rowsOf[s] < hour})
    /\ UNCHANGED <<hour, member, cookie, request, out>>

PanelSessNext ==
    \/ \E d \in Devices :
         \/ \E long \in BOOLEAN : PanelSignIn(d, long)
         \/ SetSession(d) \/ Arrive(d)
         \/ \E get \in BOOLEAN : AccountCheck(d, get)
         \/ Served(d)
         \/ RevokeOthers(d) \/ \E s \in Sids : RevokeOne(d, s)
         \/ SignOff(d)
    \/ SignOutMember \/ Removed \/ AddedAgain \/ HalfDay \/ ExpiredPruned

PanelSessSpec == PanelSessInit /\ [][PanelSessNext]_panelSessVars

-----------------------------------------------------------------------------
\* A browser that was signed out - by itself, from another one, by an owner -
\* is not let in until somebody signs in on it, whichever requests run beside
\* the signing out.  Cookies of the older release have no row, and are beyond
\* reach until they expire or are exchanged.
SignedOutStays == \A d \in out : cookie[d].kind = "row" => ~LetsIn(d)
=============================================================================
