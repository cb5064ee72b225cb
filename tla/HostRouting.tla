------------------------------ MODULE HostRouting ------------------------------
(***************************************************************************)
(* Which host name reaches what: the primary domain of the configuration,  *)
(* the secondary domain and the custom host of the status page (settings   *)
(* rows with a copy in memory), and the router and certificate check that  *)
(* read the copies (src/pgforge/domains.go, status.go, main.go).  A host   *)
(* is the sequence of its labels, the last one first.                      *)
(***************************************************************************)
EXTENDS Naturals, Sequences, SequencesExt

CONSTANTS
    Hosts,          \* host names that are tried or entered
    Primary,        \* cfg.domain
    Projects,       \* labels that are slugs of projects
    HostClients,    \* requests being served at once
    Unread,         \* a copy nobody has read or stored yet
    MaxHostSets     \* bound: forms sent

HostKeys == {"secondary", "status"}
NoHost == <<>>

Label == STRING

\* The configuration needs a domain, and no project is called "status"
\* (main.go:71, 98-109).
ASSUME HostsAssumption ==
    /\ \A h \in Hosts \cup {Primary} : h \in Seq(Label) /\ h # NoHost
    /\ Projects \subseteq Label /\ "status" \notin Projects
    /\ Unread \notin Hosts \cup {NoHost} /\ MaxHostSets \in Nat

VARIABLES
    hostRow,    \* settings rows
    hostCopy,   \* secDomainCache, statusDomainCache
    redirect,   \* panel_redirect
    routing,    \* what each request does next
    hostSets,   \* forms so far
    overlap,    \* history: two that read or write the same row and copy met
    aliasLate   \* history: the secondary domain was set beside or after the status
                \* host, or its copy was out of date then

hostVars == <<hostRow, hostCopy, redirect, routing, hostSets, overlap, aliasLate>>

NoRoute == [pc |-> "idle", key |-> "status", val |-> NoHost]

HostTypeOK ==
    /\ hostRow \in [HostKeys -> Hosts \cup {NoHost}]
    /\ hostCopy \in [HostKeys -> Hosts \cup {NoHost, Unread}]
    /\ redirect \in BOOLEAN /\ hostSets \in 0..MaxHostSets
    /\ overlap \subseteq HostKeys /\ aliasLate \in BOOLEAN
    /\ routing \in [HostClients ->
         [pc : {"idle", "write", "store", "flag", "keep"}, key : HostKeys,
          val : Hosts \cup {NoHost}]]

HostInit ==
    /\ hostRow = [k \in HostKeys |-> NoHost]
    /\ hostCopy = [k \in HostKeys |-> Unread]
    /\ redirect = FALSE /\ hostSets = 0
    /\ routing = [c \in HostClients |-> NoRoute]
    /\ overlap = {} /\ aliasLate = FALSE

\* hostMatchesDomain: the apex, or anything below it
Under(host, domain) == domain # NoHost /\ IsPrefix(domain, host)
Below(host, domain) == Under(host, domain) /\ host # domain
\* the labels below a domain; only one of them can name a service or a project
SubOf(host, domain) == SubSeq(host, Len(domain) + 1, Len(host))
\* what a reader of the copy gets, from the row when nothing is kept
HostKnown(k) == IF hostCopy[k] = Unread THEN hostRow[k] ELSE hostCopy[k]
RouteTo(c, pc, k, v) == routing' = [routing EXCEPT ![c] = [pc |-> pc, key |-> k, val |-> v]]
RouteRests(c) == routing' = [routing EXCEPT ![c] = NoRoute]
AtWork(k) == \E c \in HostClients : routing[c].pc \in {"write", "store", "keep"} /\ routing[c].key = k

-----------------------------------------------------------------------------
(* rootHandler and tlsCheck.                                               *)

DomainOf(host) ==
    IF Under(host, Primary) THEN Primary
    ELSE IF Under(host, HostKnown("secondary")) THEN HostKnown("secondary") ELSE NoHost

Reaches(host, method) ==
    LET dom == DomainOf(host)
        sub == SubOf(host, dom)
    IN  CASE host = HostKnown("status") -> "status"
          [] host # HostKnown("status") /\ dom # NoHost /\ sub = <<"status">> -> "status"
          [] host # HostKnown("status") /\ dom # NoHost /\ Len(sub) = 1 /\ sub[1] \in Projects -> "api"
          [] host # HostKnown("status") /\ dom # NoHost /\ dom # Primary /\ sub = <<>>
               /\ method = "GET" /\ redirect -> "moved"
          [] OTHER -> "panel"

Certified(host) ==
    \/ host = HostKnown("status")
    \/ \E dom \in {Primary, HostKnown("secondary")} :
         /\ Under(host, dom)
         /\ SubOf(host, dom) \in {<<>>, <<"db">>, <<"status">>} \cup {<<p>> : p \in Projects}

-----------------------------------------------------------------------------
\* The first reader keeps the row it read, in a second step.
HostRead(c, k) ==
    /\ routing[c] = NoRoute /\ hostCopy[k] = Unread
    /\ overlap' = IF AtWork(k) THEN overlap \cup {k} ELSE overlap
    /\ RouteTo(c, "keep", k, hostRow[k])
    /\ UNCHANGED <<hostRow, hostCopy, redirect, hostSets, aliasLate>>

HostKeep(c) ==
    /\ routing[c].pc = "keep"
    /\ hostCopy' = [hostCopy EXCEPT ![routing[c].key] = routing[c].val]
    /\ RouteRests(c)
    /\ UNCHANGED <<hostRow, redirect, hostSets, overlap, aliasLate>>

\* setSecondaryDomain refuses the primary, what is below it and above it.
SecondaryAsked(c, d) ==
    /\ routing[c] = NoRoute /\ hostSets < MaxHostSets /\ hostSets' = hostSets + 1
    /\ d # NoHost => ~Under(d, Primary) /\ ~Below(Primary, d)
    /\ overlap' = IF AtWork("secondary") THEN overlap \cup {"secondary"} ELSE overlap
    /\ aliasLate' = (aliasLate \/ AtWork("status")
                    \/ {hostRow["status"], HostKnown("status")} # {NoHost})
    /\ RouteTo(c, "write", "secondary", d)
    /\ UNCHANGED <<hostRow, hostCopy, redirect>>

\* setStatusDomain refuses the hosts of both domains.
StatusAsked(c, d) ==
    /\ routing[c] = NoRoute /\ hostSets < MaxHostSets /\ hostSets' = hostSets + 1
    /\ d # NoHost => ~Under(d, Primary) /\ ~Under(d, HostKnown("secondary"))
    /\ overlap' = IF AtWork("status") THEN overlap \cup {"status"} ELSE overlap
    /\ aliasLate' = (aliasLate \/ AtWork("secondary") \/ "secondary" \in overlap)
    /\ RouteTo(c, "write", "status", d)
    /\ UNCHANGED <<hostRow, hostCopy, redirect>>

\* That the statement fails is not noticed, and not modelled.
HostWrite(c) ==
    /\ routing[c].pc = "write"
    /\ hostRow' = [hostRow EXCEPT ![routing[c].key] = routing[c].val]
    /\ RouteTo(c, "store", routing[c].key, routing[c].val)
    /\ UNCHANGED <<hostCopy, redirect, hostSets, overlap, aliasLate>>

HostStore(c) ==
    /\ routing[c].pc = "store"
    /\ hostCopy' = [hostCopy EXCEPT ![routing[c].key] = routing[c].val]
    /\ IF routing[c].key = "secondary" THEN RouteTo(c, "flag", "secondary", routing[c].val)
       ELSE RouteRests(c)
    /\ UNCHANGED <<hostRow, redirect, hostSets, overlap, aliasLate>>

\* The form's redirect counts only with a domain.
RedirectSet(c, on) ==
    /\ routing[c].pc = "flag"
    /\ redirect' = (on /\ routing[c].val # NoHost)
    /\ RouteRests(c)
    /\ UNCHANGED <<hostRow, hostCopy, hostSets, overlap, aliasLate>>

\* Between the two settings of the form, or of a row and its copy.
RouterRestarts ==
    /\ hostCopy' = [k \in HostKeys |-> Unread]
    /\ routing' = [c \in HostClients |-> NoRoute]
    /\ overlap' = {}
    /\ UNCHANGED <<hostRow, redirect, hostSets, aliasLate>>

HostNext ==
    \/ \E c \in HostClients :
         \/ \E k \in HostKeys : HostRead(c, k)
         \/ HostKeep(c)
         \/ \E d \in Hosts \cup {NoHost} : SecondaryAsked(c, d) \/ StatusAsked(c, d)
         \/ HostWrite(c) \/ HostStore(c)
         \/ \E on \in BOOLEAN : RedirectSet(c, on)
    \/ RouterRestarts

HostSpec == HostInit /\ [][HostNext]_hostVars

-----------------------------------------------------------------------------
\* No setting, in any order of forms, takes a host of the primary domain away:
\* its apex is the panel, and each project answers below it.  Nor does the
\* status host shadow the secondary domain, when that was there first;
\* setSecondaryDomain does not look at the status host, and setStatusDomain at the
\* copy of the secondary domain.
NothingShadowed ==
    /\ Reaches(Primary, "GET") = "panel"
    /\ \A p \in Projects : Reaches(Append(Primary, p), "GET") = "api"
    /\ ~aliasLate => ~Under(HostKnown("status"), HostKnown("secondary"))

\* Every host that is answered by something other than the panel can have its
\* certificate, and nobody is sent away from the domain they are sent to.
AnsweredIsCertified ==
    /\ \A h \in Hosts : Reaches(h, "GET") # "panel" => Certified(h)
    /\ Reaches(Primary, "GET") # "moved"

\* The copy in memory is the row, with no request between the two, unless two of
\* them met: readers that keep what they read before a change, or two changes.
CopiesFollowRows ==
    \A k \in HostKeys :
        (~AtWork(k) /\ k \notin overlap) => hostCopy[k] \in {Unread, hostRow[k]}

\* Routes, certificates and the settings they come from.
HostsKept == NothingShadowed /\ AnsweredIsCertified /\ CopiesFollowRows
=============================================================================
