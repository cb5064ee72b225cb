---------------------------- MODULE RealtimeHub ----------------------------
(***************************************************************************)
(* The realtime hub of one project: rtHubs[slug], the pq.Listener of each  *)
(* hub, the WebSocket clients registered on it, and the change triggers    *)
(* that Realtime and Webhooks share.                                       *)
(*                                                                         *)
(* rtMu guards the map and h.mu one hub's clients; nothing guards the two  *)
(* together. A hub found under rtMu is used after the unlock, stopping one *)
(* is "delete from the map" and later "close the listener", and the reap   *)
(* decisions read the webhooks table in between. Each lock region, SQL     *)
(* statement and listener call is a step.                                  *)
(***************************************************************************)
EXTENDS Naturals, FiniteSets, TLC

CONSTANTS
  Conns,     \* WebSocket handlers (serveRealtime)
  Workers,   \* panel handlers
  Reaper,    \* the sampler's reapRealtimeHubs
  Main,      \* startWebhookPumps at boot
  Hubs,      \* hub objects, never reused: the bound on hubs created
  Ops,       \* panel commands issued in this instance
  Tries,     \* attempts of a client to find a hub that is not closed (5)
  MaxOps,    \* bound on panel commands and crashes
  None

AllOps == {"enable", "disable", "create", "delete", "sleep", "wake", "crash"}
Actors == Conns \cup Workers \cup {Reaper, Main}

\* Handlers are alike (used by TLC alone).
HandlersAlike == Permutations(Workers)

ASSUME RealtimeAssumption ==
  /\ Conns \cap Workers = {}
  /\ Reaper # Main
  /\ {Reaper, Main} \cap (Conns \cup Workers) = {}
  /\ Ops \subseteq AllOps
  /\ Tries \in Nat \ {0}
  /\ MaxOps \in Nat
  /\ Hubs # {} /\ None \notin Hubs

VARIABLES
  rtHub,      \* rtHubs[slug]
  lis,        \* state of each hub's listener
  clients,    \* h.clients
  closed,     \* hubs with h.closed set
  empty,      \* h.emptySince: zero ("no"), or set "recent"ly or "long" ago
  enabled,    \* realtime_config.enabled
  hooks,      \* the project has a row in webhooks
  triggers,   \* the change triggers are installed
  awake,      \* projects.status is 'active', not 'suspended'
  pc,         \* what each actor does next, on which hub, after how many tries
  ops,        \* commands issued so far
  overlap     \* history: two commands (or a command and a reap) overlapped

hub    == <<rtHub, lis, clients, closed, empty>>
config == <<enabled, hooks, triggers, awake>>
vars   == <<rtHub, lis, clients, closed, empty, enabled, hooks, triggers, awake,
            pc, ops, overlap>>

Off   == [at |-> "off", hub |-> None, tries |-> 0]
Steps == {"off", "fetch", "listen", "join", "open", "enTriggers", "enRow",
          "disRow", "crTriggers", "crRow", "delRow", "recRealtime", "recHooks",
          "recEnsure", "recDrop", "useHooks", "useFind", "close", "take",
          "lisClose", "sleepTake", "sleepClose", "sleepRow", "wakeRow",
          "wakeHooks", "reapCheck", "reapHooks"}

TypeOK ==
  /\ rtHub \in Hubs \cup {None}
  /\ lis \in [Hubs -> {"unborn", "connecting", "listening", "closed"}]
  /\ clients \in [Hubs -> SUBSET Conns]
  /\ closed \subseteq Hubs
  /\ empty \in [Hubs -> {"no", "recent", "long"}]
  /\ enabled \in BOOLEAN /\ hooks \in BOOLEAN
  /\ triggers \in BOOLEAN /\ awake \in BOOLEAN
  /\ pc \in [Actors -> [at : Steps, hub : Hubs \cup {None}, tries : 0..Tries]]
  /\ ops \in 0..MaxOps
  /\ overlap \in BOOLEAN

\* The program has booted; Realtime or webhooks may have been set up before,
\* and the hub of an active project with webhooks runs.
Init ==
  /\ enabled \in BOOLEAN /\ hooks \in BOOLEAN
  /\ triggers = (enabled \/ hooks)
  /\ awake = TRUE
  /\ rtHub = IF hooks THEN CHOOSE k \in Hubs : TRUE ELSE None
  /\ lis = [k \in Hubs |-> IF k = rtHub THEN "listening" ELSE "unborn"]
  /\ clients = [k \in Hubs |-> {}]
  /\ closed = {}
  /\ empty = [k \in Hubs |-> "recent"]
  /\ pc = [a \in Actors |-> Off]
  /\ ops = 0
  /\ overlap = FALSE

-----------------------------------------------------------------------------
Goto(a, from, to) ==
  /\ pc[a].at = from
  /\ pc' = [pc EXCEPT ![a] = IF to = "off" THEN Off ELSE [@ EXCEPT !.at = to]]

Quiet == \A a \in Workers \cup {Reaper, Main} : pc[a].at = "off"

Begin(w, op, step) ==
  /\ op \in Ops
  /\ pc[Main].at = "off"
  /\ ops < MaxOps
  /\ ops' = ops + 1
  /\ Goto(w, "off", step)
  /\ overlap' = (overlap \/ ~Quiet)

(***************************************************************************)
(* rtGetHub: the hub in the map, or a new one that is in the map before    *)
(* its listener has a database connection.                                 *)
(***************************************************************************)
Found(a, k) == [pc[a] EXCEPT !.at = IF a \in Conns THEN "join" ELSE "off", !.hub = k]

\* The caller gets the hub; only a WebSocket handler goes on to use it.
Return(a, k) == pc' = [pc EXCEPT ![a] = IF a \in Conns THEN Found(a, k) ELSE Off]

Fresh == {k \in Hubs : lis[k] = "unborn"}

MakeHub(a) ==
  LET k == CHOOSE h \in Fresh : TRUE IN
    /\ Fresh # {}
    /\ rtHub' = k
    /\ lis' = [lis EXCEPT ![k] = "connecting"]
    /\ pc' = [pc EXCEPT ![a] = [@ EXCEPT !.at = "listen", !.hub = k]]
    /\ UNCHANGED <<clients, closed, empty>>

\* The map was looked up before the lock was taken for the insertion.
FetchStale(a) ==
  /\ pc[a].at = "fetch"
  /\ MakeHub(a) \/ (rtHub # None /\ Return(a, rtHub) /\ UNCHANGED hub)
  /\ UNCHANGED <<config, ops, overlap>>

Fetch(a) ==
  /\ pc[a].at = "fetch"
  /\ IF rtHub # None
     THEN Return(a, rtHub) /\ UNCHANGED hub
     ELSE MakeHub(a)
  /\ UNCHANGED <<config, ops, overlap>>

\* lis.Listen returns once connected, or because the listener was closed.
Listened(a) ==
  /\ pc[a].at = "listen"
  /\ lis[pc[a].hub] \in {"listening", "closed"}
  /\ Return(a, pc[a].hub)
  /\ UNCHANGED <<hub, config, ops, overlap>>

\* The listener's own goroutine reaches the database, sooner or later or never.
Connects(k) ==
  /\ lis[k] = "connecting"
  /\ lis' = [lis EXCEPT ![k] = "listening"]
  /\ UNCHANGED <<rtHub, clients, closed, empty, config, pc, ops, overlap>>

(***************************************************************************)
(* serveRealtime.                                                          *)
(***************************************************************************)
\* Any request wakes a sleeping project first (touchAndResume).
Connect(c) ==
  /\ enabled
  /\ pc[Main].at = "off"
  /\ Goto(c, "off", "fetch")
  /\ awake' = TRUE
  /\ UNCHANGED <<hub, enabled, hooks, triggers, ops, overlap>>

Register(c, k) ==
  /\ clients' = [clients EXCEPT ![k] = @ \cup {c}]
  /\ empty' = [empty EXCEPT ![k] = "no"]
  /\ pc' = [pc EXCEPT ![c].at = "open"]

\* The dead hub is forgotten for another attempt.
Again(c) == [at |-> "fetch", hub |-> pc[c].hub, tries |-> pc[c].tries + 1]

\* The retry loop without its bound.
JoinEndless(c) ==
  LET k == pc[c].hub IN
  /\ pc[c].at = "join"
  /\ IF k \notin closed
     THEN Register(c, k)
     ELSE /\ pc' = [pc EXCEPT ![c] = Again(c)]
          /\ UNCHANGED <<clients, empty>>
  /\ UNCHANGED <<rtHub, lis, closed, config, ops, overlap>>

\* Registering without a look at h.closed.
JoinUnchecked(c) ==
  /\ pc[c].at = "join"
  /\ Register(c, pc[c].hub)
  /\ UNCHANGED <<rtHub, lis, closed, config, ops, overlap>>

Join(c) ==
  LET k == pc[c].hub IN
  /\ pc[c].at = "join"
  /\ IF k \notin closed
     THEN Register(c, k)
     ELSE /\ pc' = [pc EXCEPT ![c] = IF @.tries + 1 = Tries THEN Off ELSE Again(c)]
          /\ UNCHANGED <<clients, empty>>
  /\ UNCHANGED <<rtHub, lis, closed, config, ops, overlap>>

\* delete(h.clients, ...) and the emptySince that goes with it.
Leave(k, C) ==
  /\ clients' = [clients EXCEPT ![k] = @ \ C]
  /\ empty' = [empty EXCEPT ![k] = IF clients[k] \subseteq C THEN "recent" ELSE @]

Disconnect(c) ==
  /\ Goto(c, "open", "off")
  /\ Leave(pc[c].hub, {c})
  /\ UNCHANGED <<rtHub, lis, closed, config, ops, overlap>>

\* The failing clients are deleted, the empty hub's clock is not started.
BroadcastOnly(k) ==
  /\ \E D \in (SUBSET clients[k]) \ {{}} : clients' = [clients EXCEPT ![k] = @ \ D]
  /\ UNCHANGED <<rtHub, lis, closed, empty, config, pc, ops, overlap>>

\* A broadcast drops the clients it cannot write to; their handlers notice
\* at their next read.
Broadcast(k) ==
  /\ \E D \in (SUBSET clients[k]) \ {{}} : Leave(k, D)
  /\ UNCHANGED <<rtHub, lis, closed, config, pc, ops, overlap>>

-----------------------------------------------------------------------------
(***************************************************************************)
(* enableRealtime, disableRealtime, createWebhook, deleteWebhook.          *)
(***************************************************************************)
\* ensureChangeTriggers; its failure ends the handler.
SetupTriggers(w, from, to) ==
  /\ \/ Goto(w, from, to) /\ triggers' = TRUE
     \/ Goto(w, from, "off") /\ UNCHANGED triggers
  /\ UNCHANGED <<hub, enabled, hooks, awake, ops, overlap>>

enableRealtime(w) ==
  /\ Begin(w, "enable", "enTriggers")
  /\ UNCHANGED <<hub, config>>

EnableRow(w) ==
  /\ Goto(w, "enRow", "off")
  /\ enabled' = TRUE
  /\ UNCHANGED <<hub, hooks, triggers, awake, ops, overlap>>

disableRealtime(w) ==
  /\ Begin(w, "disable", "disRow")
  /\ UNCHANGED <<hub, config>>

DisableRow(w) ==
  /\ Goto(w, "disRow", "recRealtime")
  /\ enabled' = FALSE
  /\ UNCHANGED <<hub, hooks, triggers, awake, ops, overlap>>

createWebhook(w) ==
  /\ Begin(w, "create", "crTriggers")
  /\ UNCHANGED <<hub, config>>

\* rtGetHub without the INSERT before it.
CreateRowForgotten(w) ==
  /\ Goto(w, "crRow", "off")
  /\ hooks' = TRUE
  /\ UNCHANGED <<hub, enabled, triggers, awake, ops, overlap>>

CreateRow(w) ==
  /\ Goto(w, "crRow", "fetch")
  /\ hooks' = TRUE
  /\ UNCHANGED <<hub, enabled, triggers, awake, ops, overlap>>

deleteWebhook(w) ==
  /\ hooks
  /\ Begin(w, "delete", "delRow")
  /\ UNCHANGED <<hub, config>>

\* The row deleted may be the last one or one of several.
DeleteRow(w) ==
  /\ Goto(w, "delRow", "recRealtime")
  /\ hooks' \in {FALSE, hooks}
  /\ UNCHANGED <<hub, enabled, triggers, awake, ops, overlap>>

\* Steps that read one fact, in a statement of their own, and branch on it.
Branch(a, from, fact, yes, no) ==
  /\ Goto(a, from, IF fact THEN yes ELSE no)
  /\ UNCHANGED <<hub, config, ops, overlap>>

\* reconcileChangeTriggers: two reads, then ensure or drop; errors ignored.
ReadRealtime(w) == Branch(w, "recRealtime", enabled, "recEnsure", "recHooks")
ReadHooks(w)    == Branch(w, "recHooks", hooks, "recEnsure", "recDrop")

Reconcile(w) ==
  /\ \/ Goto(w, "recEnsure", "useHooks") /\ triggers' \in {TRUE, triggers}
     \/ Goto(w, "recDrop", "useHooks") /\ triggers' \in {FALSE, triggers}
  /\ UNCHANGED <<hub, enabled, hooks, awake, ops, overlap>>

\* reapHubIfUnused: hasWebhooks, then the map, then the hub.
UseHooks(w) == Branch(w, "useHooks", hooks, "off", "useFind")

UseFind(w) ==
  /\ pc[w].at = "useFind"
  /\ pc' = [pc EXCEPT ![w] = IF rtHub = None THEN Off
                             ELSE [@ EXCEPT !.at = "close", !.hub = rtHub]]
  /\ UNCHANGED <<hub, config, ops, overlap>>

-----------------------------------------------------------------------------
(***************************************************************************)
(* Closing a hub.                                                          *)
(***************************************************************************)
\* Under h.mu: nobody registered, so mark it closed and go on to stop it.
Close(a) ==
  LET k == pc[a].hub IN
  /\ Goto(a, "close", IF clients[k] = {} THEN "take" ELSE "off")
  /\ closed' = IF clients[k] = {} THEN closed \cup {k} ELSE closed
  /\ UNCHANGED <<rtHub, lis, clients, empty, config, ops, overlap>>

\* stopRealtimeHub, under rtMu: whatever hub the map holds by now leaves it.
Take(a, from, to) ==
  /\ pc[a].at = from
  /\ pc' = [pc EXCEPT ![a] = [@ EXCEPT !.at = to, !.hub = rtHub]]
  /\ rtHub' = None
  /\ UNCHANGED <<lis, clients, closed, empty, config, ops, overlap>>

\* stopRealtimeHub, outside rtMu: close the listener of the hub taken.
CloseListener(a, from, to) ==
  LET k == pc[a].hub IN
  /\ Goto(a, from, to)
  /\ lis' = IF k = None THEN lis ELSE [lis EXCEPT ![k] = "closed"]
  /\ UNCHANGED <<rtHub, clients, closed, empty, config, ops, overlap>>

(***************************************************************************)
(* sleepProject and wakeProject, as far as the hub goes.                   *)
(***************************************************************************)
sleepProject(w) ==
  /\ Begin(w, "sleep", "sleepTake")
  /\ UNCHANGED <<hub, config>>

SleepRow(w) ==
  /\ Goto(w, "sleepRow", "off")
  /\ awake' = FALSE
  /\ UNCHANGED <<hub, enabled, hooks, triggers, ops, overlap>>

wakeProject(w) ==
  /\ Begin(w, "wake", "wakeRow")
  /\ UNCHANGED <<hub, config>>

WakeRow(w) ==
  /\ Goto(w, "wakeRow", IF awake THEN "off" ELSE "wakeHooks")
  /\ awake' = TRUE
  /\ UNCHANGED <<hub, enabled, hooks, triggers, ops, overlap>>

WakeHooks(w) == Branch(w, "wakeHooks", hooks, "fetch", "off")

(***************************************************************************)
(* reapRealtimeHubs: a snapshot of the map, then hub by hub.               *)
(***************************************************************************)
ReapSnapshot ==
  /\ rtHub # None
  /\ pc[Reaper].at = "off"
  /\ pc' = [pc EXCEPT ![Reaper] = [@ EXCEPT !.at = "reapCheck", !.hub = rtHub]]
  /\ overlap' = (overlap \/ ~Quiet)
  /\ UNCHANGED <<hub, config, ops>>

\* emptySince is not looked at: a busy hub ends the pass, an idle one too.
ReapCheckNever == Branch(Reaper, "reapCheck", FALSE, "reapHooks", "off")

ReapCheck ==
  LET k == pc[Reaper].hub IN
  Branch(Reaper, "reapCheck", clients[k] = {} /\ empty[k] = "long", "reapHooks", "off")

ReapHooks == Branch(Reaper, "reapHooks", hooks, "off", "close")

ReaperStep ==
  \/ ReapSnapshot \/ ReapCheck \/ ReapHooks
  \/ Close(Reaper) \/ Take(Reaper, "take", "lisClose")
  \/ CloseListener(Reaper, "lisClose", "off")

\* The idle window elapses (for a hub whose clock the reaper may still read).
EmptyElapses(k) ==
  /\ k \in {rtHub, pc[Reaper].hub}
  /\ empty[k] = "recent"
  /\ empty' = [empty EXCEPT ![k] = "long"]
  /\ UNCHANGED <<rtHub, lis, clients, closed, config, pc, ops, overlap>>

\* The program restarts: hubs, listeners and handlers are gone, and
\* startWebhookPumps runs before the server accepts a request.
Crash ==
  /\ "crash" \in Ops
  /\ ops < MaxOps
  /\ ops' = ops + 1
  /\ rtHub' = None
  /\ lis' = [k \in Hubs |-> IF lis[k] = "unborn" THEN "unborn" ELSE "closed"]
  /\ clients' = [k \in Hubs |-> {}]
  /\ empty' = [k \in Hubs |-> "recent"]
  /\ pc' = [a \in Actors |-> IF a = Main /\ hooks /\ awake THEN [Off EXCEPT !.at = "fetch"]
                             ELSE Off]
  /\ closed' = {}
  /\ overlap' = (overlap \/ ~Quiet)
  /\ UNCHANGED config

WorkerStep(w) ==
  \/ SetupTriggers(w, "enTriggers", "enRow") \/ EnableRow(w)
  \/ DisableRow(w)
  \/ SetupTriggers(w, "crTriggers", "crRow") \/ CreateRow(w)
  \/ DeleteRow(w)
  \/ ReadRealtime(w) \/ ReadHooks(w) \/ Reconcile(w)
  \/ UseHooks(w) \/ UseFind(w)
  \/ Close(w) \/ Take(w, "take", "lisClose") \/ CloseListener(w, "lisClose", "off")
  \/ Take(w, "sleepTake", "sleepClose") \/ CloseListener(w, "sleepClose", "sleepRow")
  \/ SleepRow(w)
  \/ WakeRow(w) \/ WakeHooks(w)

Command(w) ==
  \/ enableRealtime(w) \/ disableRealtime(w)
  \/ createWebhook(w) \/ deleteWebhook(w)
  \/ sleepProject(w) \/ wakeProject(w)

Next ==
  \/ \E a \in Conns \cup Workers \cup {Main} : Fetch(a) \/ Listened(a)
  \/ \E c \in Conns : Connect(c) \/ Join(c) \/ Disconnect(c)
  \/ \E w \in Workers : Command(w) \/ WorkerStep(w)
  \/ \E k \in Hubs : Connects(k) \/ Broadcast(k) \/ EmptyElapses(k)
  \/ ReaperStep
  \/ Crash

(***************************************************************************)
(* The sampler's reaper runs on a ticker and time passes. Clients, panel   *)
(* commands, the project's database and crashes are owed no fairness.      *)
(***************************************************************************)
Spec ==
  /\ Init /\ [][Next]_vars
  /\ WF_vars(ReaperStep)
  /\ \A k \in Hubs : WF_vars(EmptyElapses(k))

-----------------------------------------------------------------------------
(***************************************************************************)
(* Properties.                                                             *)
(***************************************************************************)
\* A hub marked closed has no clients, then and ever after: the handler that
\* raced the reaper sees the mark under h.mu and fetches another hub, and the
\* reaper looks at the clients again under h.mu before it marks
\* (realtime.go:53-58, 143-151).
ClosedHubIsEmpty == \A k \in closed : clients[k] = {}

\* A hub object that opened a listener is the one in the map or in the hands
\* of whoever took it out to close the listener: concurrent first users of a
\* project never leave a second LISTEN backend running that nothing will ever
\* close (realtime.go:89-101, 158-177).
NoOrphanListener ==
  \A k \in Hubs : lis[k] \in {"connecting", "listening"} =>
    \/ rtHub = k
    \/ \E a \in Actors : pc[a].at \in {"lisClose", "sleepClose"} /\ pc[a].hub = k

\* The clock the reaper goes by is stopped exactly while the hub has clients,
\* whichever of the three places that change the clients did it (the join, the
\* handler's exit, a broadcast that could not write).
EmptySinceTruthful == \A k \in Hubs : clients[k] # {} <=> empty[k] = "no"

\* As long as panel commands, the reaper's passes and restarts have come one
\* after another, the state between them is right: the triggers are installed
\* while Realtime or a webhook needs them, and an active project with a webhook
\* has a hub that listens, or is on its way to (realtime.go:368-377,
\* webhooks.go:115-135, 246). Clients come and go in the meantime.
SequentialDelivers ==
  (Quiet /\ ~overlap /\ \A c \in Conns : pc[c].at \in {"off", "open"}) =>
    /\ enabled \/ hooks => triggers
    /\ hooks /\ awake => rtHub # None /\ lis[rtHub] # "closed"

\* A hub that nobody uses, no client and no webhook, does not stay in the map
\* for ever: its LISTEN backend is released (realtime.go:52-55, 126-156).
UnusedHubReleased ==
  \A k \in Hubs : ~<>[](rtHub = k /\ clients[k] = {} /\ ~hooks)

\* Nobody is registered on a hub whose listener has been closed. The changelog
\* says the race that broke this is fixed (CHANGELOG.md:865-867); it is for one
\* closer, and two of them break it: both mark hub A closed, a client gets the
\* new hub B after the first has removed A, and the second then removes and
\* closes whatever the map holds, B.
NoSubscriberStranded == \A k \in Hubs : clients[k] # {} => lis[k] # "closed"

=============================================================================
