----------------------------- MODULE PanelAccounts -----------------------------
(***************************************************************************)
(* The members of the panel: the rows of users, first registration, the    *)
(* Team page and invitations (src/pgforge/auth.go, people.go).  Every      *)
(* handler reads, decides and then writes with separate statements.  The   *)
(* break-glass admin of the environment has no row and can always act, so  *)
(* the Team page works even without an owner.                              *)
(***************************************************************************)
EXTENDS Naturals, FiniteSets

CONSTANTS
    Names,          \* display names; a name has one address here
    PanelClients    \* requests being served at once

Roles == {"member", "admin", "owner"}

VARIABLES
    members,    \* users: name -> role, or "none"
    pending,    \* invite_pending
    acts,       \* what each request executes next
    accepted,   \* history: passwords set through the current invitation
    together    \* history: invitations two requests had read as pending

panelVars == <<members, pending, acts, accepted, together>>

NoName == "nobody"
Free == [pc |-> "idle", name |-> NoName, role |-> "member", stale |-> FALSE]

PanelTypeOK ==
    /\ members \in [Names -> Roles \cup {"none"}]
    /\ pending \subseteq Names
    /\ acts \in [PanelClients ->
         [pc : {"idle", "register", "add", "remove", "accept"},
          name : Names \cup {NoName}, role : Roles, stale : BOOLEAN]]
    /\ accepted \in [Names -> Nat]
    /\ together \subseteq Names

PanelInit ==
    /\ members = [n \in Names |-> "none"]
    /\ pending = {}
    /\ acts = [c \in PanelClients |-> Free]
    /\ accepted = [n \in Names |-> 0]
    /\ together = {}

Team == {n \in Names : members[n] # "none"}
Owners == {n \in Names : members[n] = "owner"}
PendingAct(pc, n, r) == [pc |-> pc, name |-> n, role |-> r, stale |-> FALSE]
Act(c, pc, n, r) == acts' = [acts EXCEPT ![c] = PendingAct(pc, n, r)]
\* the roles change: what removals in progress have read is out of date
ActAndStale(c) ==
    acts' = [d \in PanelClients |->
               IF d = c THEN Free
               ELSE [acts[d] EXCEPT !.stale = @ \/ acts[d].pc = "remove"]]

-----------------------------------------------------------------------------
(* Registration of the first owner.                                        *)

RegisterRead(c, n) ==
    /\ acts[c] = Free /\ Team = {}
    /\ Act(c, "register", n, "owner")
    /\ UNCHANGED <<members, pending, accepted, together>>

\* INSERT ... WHERE NOT EXISTS: no row is inserted into a table that has one.
RegisterInsert(c) ==
    /\ acts[c].pc = "register"
    /\ members' = IF Team = {} THEN [members EXCEPT ![acts[c].name] = "owner"]
                  ELSE members
    /\ acts' = [acts EXCEPT ![c] = Free]
    /\ UNCHANGED <<pending, accepted, together>>

-----------------------------------------------------------------------------
(* The Team page.                                                          *)

\* addMember looks for the name and the address, then inserts; the UNIQUE
\* address makes the second of two equal INSERTs fail.
AddRead(c, n, r) ==
    /\ acts[c] = Free /\ members[n] = "none"
    /\ Act(c, "add", n, r)
    /\ UNCHANGED <<members, pending, accepted, together>>

AddInsert(c) ==
    /\ acts[c].pc = "add"
    /\ LET n == acts[c].name IN
         IF members[n] = "none"
         THEN /\ members' = [members EXCEPT ![n] = acts[c].role]
              /\ pending' = pending \cup {n}
              /\ accepted' = [accepted EXCEPT ![n] = 0]
              /\ together' = IF \E d \in PanelClients : acts[d].pc = "accept" /\ acts[d].name = n
                             THEN together \cup {n} ELSE together \ {n}
         ELSE UNCHANGED <<members, pending, accepted, together>>
    /\ acts' = [acts EXCEPT ![c] = Free]

\* setMemberRole has no check: it may leave the team without an owner.
SetRole(n, r) ==
    /\ n \in Team
    /\ members' = [members EXCEPT ![n] = r]
    /\ acts' = [d \in PanelClients |->
                  [acts[d] EXCEPT !.stale = @ \/ acts[d].pc = "remove"]]
    /\ UNCHANGED <<pending, accepted, together>>

\* removeMember counts the owners and refuses the last one ...
RemoveUncounted(c, n) ==
    /\ acts[c] = Free /\ n \in Team
    /\ Act(c, "remove", n, members[n])
    /\ UNCHANGED <<members, pending, accepted, together>>

RemoveRead(c, n) ==
    /\ acts[c] = Free /\ n \in Team
    /\ ~(n \in Owners /\ Cardinality(Owners) <= 1)
    /\ Act(c, "remove", n, members[n])
    /\ UNCHANGED <<members, pending, accepted, together>>

\* ... then deletes by id: nothing, when the row has gone since.
RemoveDelete(c) ==
    /\ acts[c].pc = "remove"
    /\ members' = [members EXCEPT ![acts[c].name] = "none"]
    /\ pending' = pending \ {acts[c].name}
    /\ ActAndStale(c)
    /\ UNCHANGED <<accepted, together>>

\* inviteSubmit: the link counts while the invitation is pending ...
Reading(n) == \E c \in PanelClients : acts[c].pc = "accept" /\ acts[c].name = n

InviteRead(c, n) ==
    /\ acts[c] = Free /\ n \in pending
    /\ Act(c, "accept", n, "member")
    /\ together' = IF Reading(n) THEN together \cup {n} ELSE together
    /\ UNCHANGED <<members, pending, accepted>>

\* ... and one UPDATE sets the password and ends the invitation.
InviteAccept(c) ==
    /\ acts[c].pc = "accept"
    /\ LET n == acts[c].name IN
         /\ pending' = pending \ {n}
         /\ accepted' = IF n \in Team THEN [accepted EXCEPT ![n] = @ + 1] ELSE accepted
    /\ acts' = [acts EXCEPT ![c] = Free]
    /\ UNCHANGED <<members, together>>

PanelBoot ==
    /\ acts' = [c \in PanelClients |-> Free]
    /\ UNCHANGED <<members, pending, accepted, together>>

PanelNext ==
    \/ \E c \in PanelClients, n \in Names :
         \/ RegisterRead(c, n) \/ RemoveRead(c, n) \/ InviteRead(c, n)
         \/ \E r \in Roles : AddRead(c, n, r)
    \/ \E c \in PanelClients :
         \/ RegisterInsert(c) \/ AddInsert(c) \/ RemoveDelete(c) \/ InviteAccept(c)
    \/ \E n \in Names, r \in Roles : SetRole(n, r)
    \/ PanelBoot

PanelSpec == PanelInit /\ [][PanelNext]_panelVars

-----------------------------------------------------------------------------
\* The panel keeps an owner: the step that takes the last one away is a role
\* change, or a removal that had read the roles before another removal or a
\* role change.  A removal that counted right never does.
LastOwnerStays ==
    Owners # {} /\ Owners' = {} =>
      \/ \E n \in Team, r \in Roles : members' = [members EXCEPT ![n] = r]
      \/ \E c \in PanelClients : acts[c].pc = "remove" /\ acts[c].stale

\* Registration makes an owner of the first registrant only, however many
\* register at once: a member who appears in a team that has members was
\* added by the Team page.
FirstOwnerOnly ==
    \A n \in Names :
      n \notin Team /\ members'[n] # "none" /\ Team # {} =>
        \E c \in PanelClients : acts[c].pc = "add" /\ acts[c].name = n

\* The team of the panel: no step takes its last owner away or lets a stranger
\* in, but for the two that are named.
TeamKept == [][LastOwnerStays /\ FirstOwnerOnly]_panelVars

\* An invitation sets one password, unless two requests had read it as
\* pending before either ended it.
InvitationOnce == \A n \in Names \ together : accepted[n] <= 1
=============================================================================
