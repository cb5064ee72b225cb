------------------------- MODULE RealtimeHubProofs -------------------------
(***************************************************************************)
(* For every number of clients, panel handlers and hubs: a closed hub is   *)
(* empty, the idle clock of a hub is truthful, no listener is open without *)
(* somebody who will close it, and commands that come one after another    *)
(* leave triggers and hub as they should be.                               *)
(***************************************************************************)
EXTENDS RealtimeHub, TLAPS

\* Steps at which an actor works on the hub object it has found, and steps
\* at which it is about to close the listener of the hub it took.
Using   == {"listen", "join", "open", "close", "reapCheck", "reapHooks"}
Closing == {"lisClose", "sleepClose"}

\* A handler that uses a hub has one, and one that looks for a hub has an
\* attempt left.
PcValue ==
  {v \in [at : Steps, hub : Hubs \cup {None}, tries : 0..Tries] :
     v.tries < Tries /\ (v.at \in Using => v.hub \in Hubs)}

PcGood == pc \in [Actors -> PcValue]

HubTypes ==
  /\ rtHub \in Hubs \cup {None}
  /\ lis \in [Hubs -> {"unborn", "connecting", "listening", "closed"}]
  /\ clients \in [Hubs -> SUBSET Conns]
  /\ closed \subseteq Hubs
  /\ empty \in [Hubs -> {"no", "recent", "long"}]

ConfigTypes ==
  /\ enabled \in BOOLEAN /\ hooks \in BOOLEAN
  /\ triggers \in BOOLEAN /\ awake \in BOOLEAN
  /\ ops \in 0..MaxOps
  /\ overlap \in BOOLEAN

Held(k) == \E a \in Actors : pc[a].at \in Closing /\ pc[a].hub = k

IInv ==
  /\ HubTypes /\ ConfigTypes /\ PcGood
  /\ ClosedHubIsEmpty /\ EmptySinceTruthful /\ NoOrphanListener

LEMMA IInvTypes == IInv => TypeOK
  BY DEF IInv, HubTypes, ConfigTypes, PcGood, PcValue, TypeOK

-----------------------------------------------------------------------------
(***************************************************************************)
(* How program counters move.                                              *)
(***************************************************************************)
LEMMA OffIsValue == Off \in PcValue
  BY RealtimeAssumption DEF Off, PcValue, Steps, Using

\* A jump gives a good value: only a step that uses a hub leads to another.
LEMMA GotoValue ==
  ASSUME PcGood, NEW a \in Actors, NEW from, NEW to \in Steps,
         to \in Using => from \in Using, Goto(a, from, to)
  PROVE  \E v \in PcValue : pc' = [pc EXCEPT ![a] = v]
<1> DEFINE v == IF to = "off" THEN Off ELSE [pc[a] EXCEPT !.at = to]
<1>1. pc[a] \in PcValue
  BY DEF PcGood
<1>2. v \in PcValue
  BY <1>1, OffIsValue DEF PcValue, Goto
<1> QED
  BY <1>2 DEF Goto

\* An actor that is not about to close a listener takes a step that leaves the
\* hubs alone.
LEMMA PcStep ==
  ASSUME IInv, NEW a \in Actors, NEW v \in PcValue, pc' = [pc EXCEPT ![a] = v],
         pc[a].at \notin Closing, hub' = hub, ConfigTypes'
  PROVE  IInv'
<1>1. PcGood'
  BY DEF IInv, PcGood
<1>2. HubTypes' /\ ClosedHubIsEmpty' /\ EmptySinceTruthful'
  BY DEF IInv, HubTypes, ClosedHubIsEmpty, EmptySinceTruthful, hub
<1>3. NoOrphanListener'
  BY DEF IInv, PcGood, NoOrphanListener, hub, Closing
<1> QED
  BY <1>1, <1>2, <1>3 DEF IInv

\* The same for a jump.
LEMMA GotoStep ==
  ASSUME IInv, NEW a \in Actors, NEW from, NEW to \in Steps,
         to \in Using => from \in Using, from \notin Closing,
         Goto(a, from, to), hub' = hub, ConfigTypes'
  PROVE  IInv'
<1>1. PICK v \in PcValue : pc' = [pc EXCEPT ![a] = v]
  BY GotoValue DEF IInv
<1>2. pc[a].at \notin Closing
  BY DEF Goto
<1> QED
  BY <1>1, <1>2, PcStep

-----------------------------------------------------------------------------
(***************************************************************************)
(* rtGetHub and serveRealtime.                                             *)
(***************************************************************************)
LEMMA ReturnStep ==
  ASSUME IInv, NEW a \in Actors, NEW k \in Hubs, Return(a, k),
         pc[a].at \notin Closing, hub' = hub, ConfigTypes'
  PROVE  IInv'
<1> DEFINE v == IF a \in Conns THEN Found(a, k) ELSE Off
<1>1. pc[a] \in PcValue
  BY DEF IInv, PcGood
<1>2. v \in PcValue
  BY <1>1, OffIsValue DEF PcValue, Found, Steps
<1> QED
  BY <1>2, PcStep DEF Return

LEMMA FetchStep ==
  ASSUME IInv, NEW a \in Actors, Fetch(a)
  PROVE  IInv'
<1>0. pc[a].at \notin Closing /\ ConfigTypes'
  BY DEF Fetch, Closing, config, IInv, ConfigTypes
<1>1. CASE rtHub # None
  <2>1. rtHub \in Hubs
    BY <1>1 DEF IInv, HubTypes
  <2> QED
    BY <1>0, <1>1, <2>1, ReturnStep DEF Fetch, hub
<1>2. CASE rtHub = None
  <2> DEFINE k == CHOOSE h \in Fresh : TRUE
             v == [pc[a] EXCEPT !.at = "listen", !.hub = k]
  <2>1. k \in Hubs /\ lis[k] = "unborn"
    BY <1>2 DEF Fetch, MakeHub, Fresh
  <2>2. /\ rtHub' = k /\ lis' = [lis EXCEPT ![k] = "connecting"]
        /\ pc' = [pc EXCEPT ![a] = v]
        /\ UNCHANGED <<clients, closed, empty>>
    BY <1>2 DEF Fetch, MakeHub
  <2>3. pc[a] \in PcValue
    BY DEF IInv, PcGood
  <2>4. v \in PcValue
    BY <2>1, <2>3 DEF PcValue, Steps
  <2>5. PcGood'
    BY <2>2, <2>4 DEF IInv, PcGood
  <2>6. HubTypes' /\ ClosedHubIsEmpty' /\ EmptySinceTruthful'
    BY <2>1, <2>2 DEF IInv, HubTypes, ClosedHubIsEmpty, EmptySinceTruthful
  <2>7. NoOrphanListener'
    <3>1. SUFFICES ASSUME NEW j \in Hubs, lis'[j] \in {"connecting", "listening"}, j # k
                   PROVE  Held(j)'
      BY <2>2 DEF NoOrphanListener, Held, Closing
    <3>2. lis[j] \in {"connecting", "listening"} /\ rtHub # j
      BY <1>2, <2>1, <2>2, <3>1, RealtimeAssumption DEF IInv, HubTypes
    <3>3. PICK b \in Actors : pc[b].at \in Closing /\ pc[b].hub = j
      BY <3>2 DEF IInv, NoOrphanListener, Closing
    <3>4. b # a
      BY <1>0, <3>3
    <3>5. pc'[b] = pc[b]
      BY <2>2, <3>4 DEF IInv, PcGood
    <3> QED
      BY <3>3, <3>5 DEF Held
  <2> QED
    BY <1>0, <2>5, <2>6, <2>7 DEF IInv
<1> QED
  BY <1>1, <1>2

LEMMA ListenedStep ==
  ASSUME IInv, NEW a \in Actors, Listened(a)
  PROVE  IInv'
<1>1. pc[a].hub \in Hubs
  BY DEF Listened, IInv, PcGood, PcValue, Using
<1>2. pc[a].at \notin Closing /\ ConfigTypes' /\ hub' = hub
  BY DEF Listened, Closing, config, IInv, ConfigTypes, hub
<1> QED
  BY <1>1, <1>2, ReturnStep DEF Listened

LEMMA ConnectsStep ==
  ASSUME IInv, NEW k \in Hubs, Connects(k)
  PROVE  IInv'
<1>1. HubTypes' /\ ClosedHubIsEmpty' /\ EmptySinceTruthful'
  BY DEF Connects, IInv, HubTypes, ClosedHubIsEmpty, EmptySinceTruthful
<1>2. NoOrphanListener'
  BY DEF Connects, IInv, HubTypes, NoOrphanListener
<1>3. ConfigTypes' /\ PcGood'
  BY DEF Connects, IInv, ConfigTypes, PcGood, config
<1> QED
  BY <1>1, <1>2, <1>3 DEF IInv

\* The map and the listeners stay, an actor that closes none moves.
LEMMA OrphansStay ==
  ASSUME IInv, NEW a \in Actors, NEW v, pc' = [pc EXCEPT ![a] = v],
         pc[a].at \notin Closing, UNCHANGED <<rtHub, lis>>
  PROVE  NoOrphanListener'
BY DEF IInv, PcGood, NoOrphanListener, Closing

LEMMA JoinStep ==
  ASSUME IInv, NEW c \in Conns, Join(c)
  PROVE  IInv'
<1> DEFINE k == pc[c].hub
<1>1. c \in Actors /\ pc[c] \in PcValue /\ k \in Hubs /\ pc[c].at = "join"
  BY DEF Join, IInv, PcGood, PcValue, Using, Actors
<1>2. ConfigTypes'
  BY DEF Join, config, IInv, ConfigTypes
<1>3. CASE k \notin closed
  <2>1. /\ clients' = [clients EXCEPT ![k] = @ \cup {c}]
        /\ empty' = [empty EXCEPT ![k] = "no"]
        /\ pc' = [pc EXCEPT ![c].at = "open"]
        /\ UNCHANGED <<rtHub, lis, closed>>
    BY <1>3 DEF Join, Register
  <2>2. [pc[c] EXCEPT !.at = "open"] \in PcValue
    BY <1>1 DEF PcValue, Steps
  <2>3. PcGood'
    BY <2>1, <2>2 DEF IInv, PcGood
  <2>4. HubTypes' /\ ClosedHubIsEmpty' /\ EmptySinceTruthful'
    BY <1>1, <1>3, <2>1 DEF IInv, HubTypes, ClosedHubIsEmpty, EmptySinceTruthful
  <2>5. NoOrphanListener'
    BY <1>1, <2>1, OrphansStay DEF Closing
  <2> QED
    BY <1>2, <2>3, <2>4, <2>5 DEF IInv
<1>4. CASE k \in closed
  <2> DEFINE v == IF pc[c].tries + 1 = Tries THEN Off ELSE Again(c)
  <2>1. pc' = [pc EXCEPT ![c] = v] /\ hub' = hub
    BY <1>4 DEF Join, hub
  <2>2. v \in PcValue
    <3>1. pc[c].tries \in Nat /\ pc[c].tries < Tries
      BY <1>1 DEF PcValue
    <3>2. CASE pc[c].tries + 1 # Tries
      <4>1. pc[c].tries + 1 \in 0..Tries /\ pc[c].tries + 1 < Tries
        BY <3>1, <3>2, RealtimeAssumption
      <4> QED
        BY <1>1, <3>2, <4>1 DEF PcValue, Steps, Using, Again
    <3> QED
      BY <3>2, OffIsValue
  <2> QED
    BY <1>1, <1>2, <2>1, <2>2, PcStep DEF Closing
<1> QED
  BY <1>3, <1>4

\* Clients leave a hub, and its clock with them.
LEMMA LeaveKeeps ==
  ASSUME IInv, NEW k \in Hubs, NEW C, Leave(k, C), UNCHANGED <<rtHub, lis, closed>>
  PROVE  HubTypes' /\ ClosedHubIsEmpty' /\ EmptySinceTruthful'
<1>1. HubTypes'
  BY DEF Leave, IInv, HubTypes
<1>2. ClosedHubIsEmpty'
  BY DEF Leave, IInv, HubTypes, ClosedHubIsEmpty
<1>3. EmptySinceTruthful'
  <2>1. SUFFICES ASSUME NEW j \in Hubs
                 PROVE  clients'[j] # {} <=> empty'[j] = "no"
    BY DEF EmptySinceTruthful
  <2>2. clients[j] # {} <=> empty[j] = "no"
    BY DEF IInv, EmptySinceTruthful
  <2>3. CASE j # k
    BY <2>2, <2>3 DEF Leave, IInv, HubTypes
  <2>4. CASE j = k
    <3>1. clients'[k] = clients[k] \ C
      BY DEF Leave, IInv, HubTypes
    <3>2. empty'[k] = IF clients[k] \subseteq C THEN "recent" ELSE empty[k]
      BY DEF Leave, IInv, HubTypes
    <3> QED
      BY <2>2, <2>4, <3>1, <3>2
  <2> QED
    BY <2>3, <2>4
<1> QED
  BY <1>1, <1>2, <1>3

LEMMA DisconnectStep ==
  ASSUME IInv, NEW c \in Conns, Disconnect(c)
  PROVE  IInv'
<1>1. c \in Actors /\ pc[c].hub \in Hubs /\ pc[c].at = "open"
  BY DEF Disconnect, Goto, IInv, PcGood, PcValue, Using, Actors
<1>2. HubTypes' /\ ClosedHubIsEmpty' /\ EmptySinceTruthful'
  BY <1>1, LeaveKeeps DEF Disconnect
<1>3. pc' = [pc EXCEPT ![c] = Off] /\ UNCHANGED <<rtHub, lis>>
  BY DEF Disconnect, Goto
<1>4. PcGood'
  BY <1>3, OffIsValue DEF IInv, PcGood
<1>5. NoOrphanListener'
  BY <1>1, <1>3, OrphansStay DEF Closing
<1>6. ConfigTypes'
  BY DEF Disconnect, config, IInv, ConfigTypes
<1> QED
  BY <1>2, <1>4, <1>5, <1>6 DEF IInv

LEMMA BroadcastStep ==
  ASSUME IInv, NEW k \in Hubs, Broadcast(k)
  PROVE  IInv'
<1>1. HubTypes' /\ ClosedHubIsEmpty' /\ EmptySinceTruthful'
  BY LeaveKeeps DEF Broadcast
<1>2. PcGood' /\ ConfigTypes' /\ NoOrphanListener'
  BY DEF Broadcast, config, IInv, PcGood, ConfigTypes, NoOrphanListener
<1> QED
  BY <1>1, <1>2 DEF IInv

-----------------------------------------------------------------------------
(***************************************************************************)
(* Closing a hub.                                                          *)
(***************************************************************************)
LEMMA CloseStep ==
  ASSUME IInv, NEW a \in Actors, Close(a)
  PROVE  IInv'
<1> DEFINE k == pc[a].hub
           to == IF clients[k] = {} THEN "take" ELSE "off"
<1>1. pc[a].at = "close" /\ k \in Hubs
  BY DEF Close, Goto, IInv, PcGood, PcValue, Using
<1>2. to \in Steps /\ to \notin Using /\ Goto(a, "close", to)
  BY DEF Close, Steps, Using
<1>3. PICK v \in PcValue : pc' = [pc EXCEPT ![a] = v]
  BY <1>2, GotoValue DEF IInv
<1>4. PcGood'
  BY <1>3 DEF IInv, PcGood
<1>5. HubTypes' /\ ClosedHubIsEmpty' /\ EmptySinceTruthful'
  BY <1>1 DEF Close, IInv, HubTypes, ClosedHubIsEmpty, EmptySinceTruthful
<1>6. NoOrphanListener'
  BY <1>1, <1>3, OrphansStay DEF Close, Closing
<1>7. ConfigTypes'
  BY DEF Close, config, IInv, ConfigTypes
<1> QED
  BY <1>4, <1>5, <1>6, <1>7 DEF IInv

\* The hub taken out of the map is in the hands of the actor that took it.
LEMMA TakeStep ==
  ASSUME IInv, NEW a \in Actors, NEW from, from \notin Closing,
         NEW to \in Closing, Take(a, from, to)
  PROVE  IInv'
<1> DEFINE v == [pc[a] EXCEPT !.at = to, !.hub = rtHub]
<1>1. pc[a] \in PcValue /\ rtHub \in Hubs \cup {None}
  BY DEF IInv, PcGood, HubTypes
<1>2. v \in PcValue
  BY <1>1 DEF PcValue, Steps, Using, Closing
<1>3. pc' = [pc EXCEPT ![a] = v] /\ lis' = lis /\ rtHub' = None
  BY DEF Take
<1>4. PcGood'
  BY <1>2, <1>3 DEF IInv, PcGood
<1>5. HubTypes' /\ ClosedHubIsEmpty' /\ EmptySinceTruthful'
  BY DEF Take, IInv, HubTypes, ClosedHubIsEmpty, EmptySinceTruthful
<1>6. NoOrphanListener'
  <2>1. SUFFICES ASSUME NEW j \in Hubs, lis'[j] \in {"connecting", "listening"}
                 PROVE  Held(j)'
    BY DEF NoOrphanListener, Held, Closing
  <2>2. lis[j] \in {"connecting", "listening"}
    BY <1>3, <2>1
  <2>3. CASE rtHub = j
    <3>1. pc'[a].at \in Closing /\ pc'[a].hub = j
      BY <1>1, <1>3, <2>3 DEF IInv, PcGood, PcValue
    <3> QED
      BY <3>1 DEF Held
  <2>4. CASE rtHub # j
    <3>1. PICK b \in Actors : pc[b].at \in Closing /\ pc[b].hub = j
      BY <2>2, <2>4 DEF IInv, NoOrphanListener, Closing
    <3>2. b # a
      BY <3>1 DEF Take
    <3>3. pc'[b] = pc[b]
      BY <1>3, <3>2 DEF IInv, PcGood
    <3> QED
      BY <3>1, <3>3 DEF Held
  <2> QED
    BY <2>3, <2>4
<1>7. ConfigTypes'
  BY DEF Take, config, IInv, ConfigTypes
<1> QED
  BY <1>4, <1>5, <1>6, <1>7 DEF IInv

\* Its listener is closed before the actor lets go of it.
LEMMA CloseListenerStep ==
  ASSUME IInv, NEW a \in Actors, NEW from \in Closing, NEW to \in Steps,
         to \notin Using, CloseListener(a, from, to)
  PROVE  IInv'
<1> DEFINE k == pc[a].hub
<1>1. PICK v \in PcValue : pc' = [pc EXCEPT ![a] = v]
  BY GotoValue DEF CloseListener, IInv
<1>2. PcGood'
  BY <1>1 DEF IInv, PcGood
<1>3. HubTypes' /\ ClosedHubIsEmpty' /\ EmptySinceTruthful'
  BY DEF CloseListener, IInv, HubTypes, ClosedHubIsEmpty, EmptySinceTruthful
<1>4. NoOrphanListener'
  <2>1. SUFFICES ASSUME NEW j \in Hubs, lis'[j] \in {"connecting", "listening"},
                        rtHub # j
                 PROVE  Held(j)'
    BY DEF NoOrphanListener, Held, Closing, CloseListener
  <2>2. j # k /\ lis[j] = lis'[j]
    BY <2>1, RealtimeAssumption DEF CloseListener, IInv, HubTypes
  <2>3. PICK b \in Actors : pc[b].at \in Closing /\ pc[b].hub = j
    BY <2>1, <2>2 DEF IInv, NoOrphanListener, Closing
  <2>4. pc'[b] = pc[b]
    BY <1>1, <2>2, <2>3 DEF IInv, PcGood
  <2> QED
    BY <2>3, <2>4 DEF Held
<1>5. ConfigTypes'
  BY DEF CloseListener, config, IInv, ConfigTypes
<1> QED
  BY <1>2, <1>3, <1>4, <1>5 DEF IInv

LEMMA EmptyElapsesStep ==
  ASSUME IInv, NEW k \in Hubs, EmptyElapses(k)
  PROVE  IInv'
<1>1. HubTypes' /\ ClosedHubIsEmpty' /\ EmptySinceTruthful'
  BY DEF EmptyElapses, IInv, HubTypes, ClosedHubIsEmpty, EmptySinceTruthful
<1>2. PcGood' /\ ConfigTypes' /\ NoOrphanListener'
  BY DEF EmptyElapses, config, IInv, PcGood, ConfigTypes, NoOrphanListener
<1> QED
  BY <1>1, <1>2 DEF IInv

\* A restart closes every listener.
LEMMA CrashStep ==
  ASSUME IInv, Crash
  PROVE  IInv'
<1>1. [Off EXCEPT !.at = "fetch"] \in PcValue
  BY RealtimeAssumption DEF Off, PcValue, Steps, Using
<1>2. PcGood'
  BY <1>1, OffIsValue DEF Crash, PcGood
<1>3. HubTypes' /\ ClosedHubIsEmpty' /\ EmptySinceTruthful' /\ NoOrphanListener'
  BY DEF Crash, IInv, HubTypes, ClosedHubIsEmpty, EmptySinceTruthful, NoOrphanListener
<1>4. ConfigTypes'
  <2>1. ops' \in 0..MaxOps
    BY RealtimeAssumption DEF Crash, IInv, ConfigTypes
  <2>2. overlap' \in BOOLEAN
    BY DEF Crash, IInv, ConfigTypes, Quiet
  <2> QED
    BY <2>1, <2>2 DEF Crash, config, IInv, ConfigTypes
<1> QED
  BY <1>2, <1>3, <1>4 DEF IInv

-----------------------------------------------------------------------------
(***************************************************************************)
(* The panel commands.                                                     *)
(***************************************************************************)
\* A command counts, and notes whether it overlaps another.
LEMMA BeginStep ==
  ASSUME IInv, NEW w \in Workers, NEW op, NEW step \in Steps, step \notin Using,
         Begin(w, op, step), UNCHANGED <<hub, config>>
  PROVE  IInv'
<1>1. ops' \in 0..MaxOps
  BY RealtimeAssumption DEF Begin, IInv, ConfigTypes
<1>2. overlap' \in BOOLEAN
  BY DEF Begin, IInv, ConfigTypes, Quiet
<1>3. ConfigTypes'
  BY <1>1, <1>2 DEF config, IInv, ConfigTypes
<1>4. w \in Actors /\ Goto(w, "off", step) /\ hub' = hub
  BY DEF Begin, Actors
<1> QED
  BY <1>3, <1>4, GotoStep DEF Closing

LEMMA CommandStep ==
  ASSUME IInv, NEW w \in Workers, Command(w)
  PROVE  IInv'
<1>1. CASE enableRealtime(w)
  BY <1>1, BeginStep DEF enableRealtime, Steps, Using
<1>2. CASE disableRealtime(w)
  BY <1>2, BeginStep DEF disableRealtime, Steps, Using
<1>3. CASE createWebhook(w)
  BY <1>3, BeginStep DEF createWebhook, Steps, Using
<1>4. CASE deleteWebhook(w)
  BY <1>4, BeginStep DEF deleteWebhook, Steps, Using
<1>5. CASE sleepProject(w)
  BY <1>5, BeginStep DEF sleepProject, Steps, Using
<1>6. CASE wakeProject(w)
  BY <1>6, BeginStep DEF wakeProject, Steps, Using
<1> QED
  BY <1>1, <1>2, <1>3, <1>4, <1>5, <1>6 DEF Command

LEMMA BranchStep ==
  ASSUME IInv, NEW a \in Actors, NEW from, from \notin Closing, NEW fact,
         NEW yes \in Steps, NEW no \in Steps,
         yes \in Using \/ no \in Using => from \in Using,
         Branch(a, from, fact, yes, no)
  PROVE  IInv'
<1>1. ConfigTypes' /\ hub' = hub
  BY DEF Branch, config, IInv, ConfigTypes
<1>2. CASE fact
  BY <1>1, <1>2, GotoStep DEF Branch
<1>3. CASE ~fact
  BY <1>1, <1>3, GotoStep DEF Branch
<1> QED
  BY <1>2, <1>3

LEMMA SetupTriggersStep ==
  ASSUME IInv, NEW w \in Workers, NEW from, from \notin Closing,
         NEW to \in Steps, to \notin Using, SetupTriggers(w, from, to)
  PROVE  IInv'
<1>1. ConfigTypes' /\ hub' = hub
  BY DEF SetupTriggers, IInv, ConfigTypes
<1>2. w \in Actors /\ "off" \in Steps /\ "off" \notin Using
  BY DEF Actors, Steps, Using
<1>3. Goto(w, from, to) \/ Goto(w, from, "off")
  BY DEF SetupTriggers
<1> QED
  BY <1>1, <1>2, <1>3, GotoStep

LEMMA UseFindStep ==
  ASSUME IInv, NEW w \in Workers, UseFind(w)
  PROVE  IInv'
<1> DEFINE v == IF rtHub = None THEN Off
                ELSE [pc[w] EXCEPT !.at = "close", !.hub = rtHub]
<1>1. w \in Actors /\ pc[w] \in PcValue /\ pc[w].at = "useFind"
  BY DEF UseFind, IInv, PcGood, Actors
<1>2. v \in PcValue
  BY <1>1, OffIsValue DEF IInv, HubTypes, PcValue, Steps
<1>3. pc' = [pc EXCEPT ![w] = v] /\ hub' = hub /\ ConfigTypes'
  BY DEF UseFind, config, IInv, ConfigTypes
<1> QED
  BY <1>1, <1>2, <1>3, PcStep DEF Closing

\* The steps of a handler that only change the configuration.
LEMMA RowStep ==
  ASSUME IInv, NEW w \in Workers,
         \/ EnableRow(w) \/ DisableRow(w) \/ CreateRow(w) \/ DeleteRow(w)
         \/ Reconcile(w) \/ SleepRow(w) \/ WakeRow(w)
  PROVE  IInv'
<1>0. w \in Actors
  BY DEF Actors
<1>1. hub' = hub
  BY DEF EnableRow, DisableRow, CreateRow, DeleteRow, Reconcile, SleepRow, WakeRow
<1>2. ConfigTypes'
  BY DEF EnableRow, DisableRow, CreateRow, DeleteRow, Reconcile, SleepRow, WakeRow,
         IInv, ConfigTypes
<1>3. \E from \in Steps \ Closing, to \in Steps \ Using : Goto(w, from, to)
  <2>1. CASE EnableRow(w)
    BY <2>1 DEF EnableRow, Steps, Closing, Using
  <2>2. CASE DisableRow(w)
    BY <2>2 DEF DisableRow, Steps, Closing, Using
  <2>3. CASE CreateRow(w)
    BY <2>3 DEF CreateRow, Steps, Closing, Using
  <2>4. CASE DeleteRow(w)
    BY <2>4 DEF DeleteRow, Steps, Closing, Using
  <2>5. CASE Reconcile(w)
    BY <2>5 DEF Reconcile, Steps, Closing, Using
  <2>6. CASE SleepRow(w)
    BY <2>6 DEF SleepRow, Steps, Closing, Using
  <2>7. CASE WakeRow(w)
    BY <2>7 DEF WakeRow, Steps, Closing, Using
  <2> QED
    BY <2>1, <2>2, <2>3, <2>4, <2>5, <2>6, <2>7
<1> QED
  BY <1>0, <1>1, <1>2, <1>3, GotoStep

LEMMA WorkerStepStep ==
  ASSUME IInv, NEW w \in Workers, WorkerStep(w)
  PROVE  IInv'
<1>0. w \in Actors
  BY DEF Actors
<1>1. CASE SetupTriggers(w, "enTriggers", "enRow") \/ SetupTriggers(w, "crTriggers", "crRow")
  BY <1>1, SetupTriggersStep DEF Steps, Using, Closing
<1>2. CASE \/ EnableRow(w) \/ DisableRow(w) \/ CreateRow(w) \/ DeleteRow(w)
           \/ Reconcile(w) \/ SleepRow(w) \/ WakeRow(w)
  BY <1>2, RowStep
<1>3. CASE ReadRealtime(w) \/ ReadHooks(w) \/ UseHooks(w) \/ WakeHooks(w)
  <2>1. CASE ReadRealtime(w)
    BY <1>0, <2>1, BranchStep DEF ReadRealtime, Steps, Using, Closing
  <2>2. CASE ReadHooks(w)
    BY <1>0, <2>2, BranchStep DEF ReadHooks, Steps, Using, Closing
  <2>3. CASE UseHooks(w)
    BY <1>0, <2>3, BranchStep DEF UseHooks, Steps, Using, Closing
  <2>4. CASE WakeHooks(w)
    BY <1>0, <2>4, BranchStep DEF WakeHooks, Steps, Using, Closing
  <2> QED
    BY <1>3, <2>1, <2>2, <2>3, <2>4
<1>4. CASE UseFind(w)
  BY <1>4, UseFindStep
<1>5. CASE Close(w)
  BY <1>0, <1>5, CloseStep
<1>6. CASE Take(w, "take", "lisClose") \/ Take(w, "sleepTake", "sleepClose")
  BY <1>0, <1>6, TakeStep DEF Closing
<1>7. CASE CloseListener(w, "lisClose", "off") \/ CloseListener(w, "sleepClose", "sleepRow")
  BY <1>0, <1>7, CloseListenerStep DEF Closing, Steps, Using
<1> QED
  BY <1>1, <1>2, <1>3, <1>4, <1>5, <1>6, <1>7 DEF WorkerStep

-----------------------------------------------------------------------------
(***************************************************************************)
(* The reaper, the clients' first step, and the whole.                     *)
(***************************************************************************)
LEMMA ReaperStepStep ==
  ASSUME IInv, ReaperStep
  PROVE  IInv'
<1>0. Reaper \in Actors
  BY DEF Actors
<1>1. CASE ReapSnapshot
  <2> DEFINE v == [pc[Reaper] EXCEPT !.at = "reapCheck", !.hub = rtHub]
  <2>1. pc[Reaper] \in PcValue /\ rtHub \in Hubs /\ pc[Reaper].at = "off"
    BY <1>0, <1>1 DEF ReapSnapshot, IInv, PcGood, HubTypes
  <2>2. v \in PcValue
    BY <2>1 DEF PcValue, Steps
  <2>3. overlap' \in BOOLEAN
    BY <1>1 DEF ReapSnapshot, IInv, ConfigTypes, Quiet
  <2>4. pc' = [pc EXCEPT ![Reaper] = v] /\ hub' = hub /\ ConfigTypes'
    BY <1>1, <2>3 DEF ReapSnapshot, config, IInv, ConfigTypes
  <2> QED
    BY <1>0, <2>1, <2>2, <2>4, PcStep DEF Closing
<1>2. CASE ReapCheck
  BY <1>0, <1>2, BranchStep DEF ReapCheck, Steps, Using, Closing
<1>3. CASE ReapHooks
  BY <1>0, <1>3, BranchStep DEF ReapHooks, Steps, Using, Closing
<1>4. CASE Close(Reaper)
  BY <1>0, <1>4, CloseStep
<1>5. CASE Take(Reaper, "take", "lisClose")
  BY <1>0, <1>5, TakeStep DEF Closing
<1>6. CASE CloseListener(Reaper, "lisClose", "off")
  BY <1>0, <1>6, CloseListenerStep DEF Closing, Steps, Using
<1> QED
  BY <1>1, <1>2, <1>3, <1>4, <1>5, <1>6 DEF ReaperStep

LEMMA ConnectStep ==
  ASSUME IInv, NEW c \in Conns, Connect(c)
  PROVE  IInv'
<1>1. ConfigTypes' /\ hub' = hub /\ c \in Actors
  BY DEF Connect, IInv, ConfigTypes, Actors
<1>2. Goto(c, "off", "fetch")
  BY DEF Connect
<1> QED
  BY <1>1, <1>2, GotoStep DEF Steps, Using, Closing

LEMMA InitIInv == Init => IInv
<1> SUFFICES ASSUME Init PROVE IInv
  OBVIOUS
<1>1. rtHub \in Hubs \cup {None}
  BY RealtimeAssumption DEF Init
<1>2. HubTypes
  BY <1>1 DEF Init, HubTypes
<1>3. ConfigTypes
  <2>1. ops \in 0..MaxOps
    BY RealtimeAssumption DEF Init
  <2>2. triggers \in BOOLEAN /\ awake \in BOOLEAN /\ overlap \in BOOLEAN
    BY Zenon DEF Init
  <2> QED
    BY <2>1, <2>2 DEF Init, ConfigTypes
<1>4. PcGood
  BY OffIsValue DEF Init, PcGood
<1>5. ClosedHubIsEmpty /\ EmptySinceTruthful /\ NoOrphanListener
  BY DEF Init, ClosedHubIsEmpty, EmptySinceTruthful, NoOrphanListener
<1> QED
  BY <1>2, <1>3, <1>4, <1>5 DEF IInv

LEMMA NextIInv == IInv /\ [Next]_vars => IInv'
<1> SUFFICES ASSUME IInv, [Next]_vars PROVE IInv'
  OBVIOUS
<1>1. CASE \E a \in Conns \cup Workers \cup {Main} : Fetch(a) \/ Listened(a)
  BY <1>1, FetchStep, ListenedStep DEF Actors
<1>2. CASE \E c \in Conns : Connect(c) \/ Join(c) \/ Disconnect(c)
  BY <1>2, ConnectStep, JoinStep, DisconnectStep
<1>3. CASE \E w \in Workers : Command(w) \/ WorkerStep(w)
  BY <1>3, CommandStep, WorkerStepStep
<1>4. CASE \E k \in Hubs : Connects(k) \/ Broadcast(k) \/ EmptyElapses(k)
  BY <1>4, ConnectsStep, BroadcastStep, EmptyElapsesStep
<1>5. CASE ReaperStep
  BY <1>5, ReaperStepStep
<1>6. CASE Crash
  BY <1>6, CrashStep
<1>7. CASE UNCHANGED vars
  BY <1>7 DEF vars, IInv, HubTypes, ConfigTypes, PcGood, ClosedHubIsEmpty,
              EmptySinceTruthful, NoOrphanListener
<1> QED
  BY <1>1, <1>2, <1>3, <1>4, <1>5, <1>6, <1>7 DEF Next

LEMMA Invariance == Spec => []IInv
BY InitIInv, NextIInv, PTL DEF Spec

\* Every reachable state is type correct (TypeOK), for every number of clients,
\* handlers, hubs and tries.
THEOREM TypeCorrect == Spec => []TypeOK
BY IInvTypes, Invariance, PTL

\* No client is ever registered on a hub that a reaper has marked closed
\* (the two looks at h.closed and h.clients under h.mu).
THEOREM ClosedStaysEmpty == Spec => []ClosedHubIsEmpty
<1>1. IInv => ClosedHubIsEmpty
  BY DEF IInv
<1> QED
  BY <1>1, Invariance, PTL

\* The clock that the reaper goes by never runs for a hub with clients and
\* never stands still for one without (emptySince).
THEOREM IdleClockTruthful == Spec => []EmptySinceTruthful
<1>1. IInv => EmptySinceTruthful
  BY DEF IInv
<1> QED
  BY <1>1, Invariance, PTL

\* However many first users, closers and restarts race, an open listener is
\* the one of the map or about to be closed (rtGetHub, stopRealtimeHub).
THEOREM NoListenerIsLost == Spec => []NoOrphanListener
<1>1. IInv => NoOrphanListener
  BY DEF IInv
<1> QED
  BY <1>1, Invariance, PTL

-----------------------------------------------------------------------------
(***************************************************************************)
(* SequentialDelivers speaks of the states between two commands; what      *)
(* carries it through a command is what the one actor at work knows        *)
(* (Knows), and that the hub a project with webhooks is without is being   *)
(* fetched, or is put to sleep (OnItsWay).  That the map's hub is never a  *)
(* closed one (MapOpen) holds in every interleaving.                       *)
(***************************************************************************)
Panel == Workers \cup {Reaper, Main}

\* The map's hub is open, and a hub that was taken out does not come back.
MapOpen ==
  /\ rtHub # None => lis[rtHub] \in {"connecting", "listening"}
  /\ \A a \in Actors : pc[a].at \in Closing /\ pc[a].hub # None =>
       pc[a].hub # rtHub /\ lis[pc[a].hub] # "unborn"

Alone == \A a, b \in Panel : pc[a].at # "off" /\ pc[b].at # "off" => a = b

\* What an actor has read or set is still so when it acts on it.
Knows(a) ==
  /\ pc[a].at \in {"enRow", "crRow"} => triggers
  /\ pc[a].at \in {"recHooks", "recDrop"} => ~enabled
  /\ pc[a].at \in {"recDrop", "useFind", "close", "take", "lisClose"} => ~hooks

Way == {"fetch", "sleepClose", "sleepRow", "wakeHooks"}
OnItsWay == \E a \in Actors : pc[a].at \in Way

Triggered == enabled \/ hooks => triggers
Hubbed    == hooks /\ awake => rtHub # None \/ OnItsWay

SInv == ~overlap => Alone /\ (\A a \in Panel : Knows(a)) /\ Triggered /\ Hubbed

\* Nobody else moves.
Moves(a) == \A b \in Actors : b # a => pc'[b] = pc[b]

LEMMA GotoMoves ==
  ASSUME IInv, NEW a \in Actors, NEW from, NEW to, Goto(a, from, to)
  PROVE  /\ pc[a].at = from /\ pc'[a].at = to /\ Moves(a)
         /\ to # "off" => pc'[a].hub = pc[a].hub
<1>1. pc[a] \in [at : Steps, hub : Hubs \cup {None}, tries : 0..Tries]
  BY DEF IInv, PcGood, PcValue
<1> QED
  BY <1>1 DEF Goto, Moves, Off, IInv, PcGood

LEMMA ReturnMoves ==
  ASSUME IInv, NEW a \in Actors, NEW k, Return(a, k)
  PROVE  Moves(a) /\ pc'[a].at = IF a \in Conns THEN "join" ELSE "off"
<1>1. pc[a] \in [at : Steps, hub : Hubs \cup {None}, tries : 0..Tries]
  BY DEF IInv, PcGood, PcValue
<1> QED
  BY <1>1 DEF Return, Found, Moves, Off, IInv, PcGood

-----------------------------------------------------------------------------
(***************************************************************************)
(* The map.                                                                *)
(***************************************************************************)
LEMMA MapRests ==
  ASSUME MapOpen, NEW a \in Actors, Moves(a), pc'[a].at \notin Closing,
         UNCHANGED <<rtHub, lis>>
  PROVE  MapOpen'
BY DEF MapOpen, Moves

LEMMA FetchMapOpen ==
  ASSUME IInv, MapOpen, NEW a \in Actors, Fetch(a)
  PROVE  MapOpen'
<1>1. CASE rtHub # None
  BY <1>1, ReturnMoves, MapRests DEF Fetch, hub, Closing
<1>2. CASE rtHub = None
  <2>1. PICK k \in Hubs :
          /\ lis[k] = "unborn" /\ rtHub' = k /\ lis' = [lis EXCEPT ![k] = "connecting"]
          /\ pc' = [pc EXCEPT ![a] = [@ EXCEPT !.at = "listen", !.hub = k]]
    <3>1. \A k : k \in Fresh => k \in Hubs /\ lis[k] = "unborn"
      BY DEF Fresh
    <3> QED
      BY <1>2, <3>1 DEF Fetch, MakeHub
  <2>2. Moves(a) /\ pc'[a].at = "listen"
    <3>1. pc[a] \in [at : Steps, hub : Hubs \cup {None}, tries : 0..Tries]
      BY DEF IInv, PcGood, PcValue
    <3> QED
      BY <2>1, <3>1 DEF Moves, IInv, PcGood
  <2>3. lis'[k] = "connecting" /\ \A j \in Hubs : j # k => lis'[j] = lis[j]
    BY <2>1 DEF IInv, HubTypes
  <2>4. ASSUME NEW b \in Actors, pc'[b].at \in Closing, pc'[b].hub # None
        PROVE  pc'[b].hub # k /\ lis'[pc'[b].hub] # "unborn"
    <3>1. b # a /\ pc'[b] = pc[b] /\ pc[b].hub \in Hubs
      BY <2>2, <2>4 DEF Closing, Moves, IInv, PcGood, PcValue
    <3>2. lis[pc[b].hub] # "unborn"
      BY <2>4, <3>1 DEF MapOpen
    <3> QED
      BY <2>1, <2>3, <3>1, <3>2
  <2> QED
    BY <2>1, <2>3, <2>4 DEF MapOpen
<1> QED
  BY <1>1, <1>2

LEMMA TakeMapOpen ==
  ASSUME IInv, MapOpen, NEW a \in Actors, NEW from, NEW to, Take(a, from, to)
  PROVE  /\ MapOpen' /\ Moves(a)
         /\ pc[a].at = from /\ pc'[a].at = to
<1>1. pc[a] \in [at : Steps, hub : Hubs \cup {None}, tries : 0..Tries]
  BY DEF IInv, PcGood, PcValue
<1>2. /\ Moves(a) /\ pc[a].at = from /\ pc'[a].at = to /\ pc'[a].hub = rtHub
      /\ rtHub' = None /\ lis' = lis
  BY <1>1 DEF Take, Moves, IInv, PcGood
<1>3. MapOpen'
  <2>1. \A b \in Actors : b # a => pc'[b] = pc[b]
    BY <1>2 DEF Moves
  <2> QED
    BY <1>2, <2>1 DEF MapOpen
<1> QED
  BY <1>2, <1>3

LEMMA CloseListenerMapOpen ==
  ASSUME IInv, MapOpen, NEW a \in Actors, NEW from \in Closing, NEW to, to \notin Closing,
         CloseListener(a, from, to)
  PROVE  /\ MapOpen' /\ Moves(a)
         /\ pc[a].at = from /\ pc'[a].at = to
<1>1. /\ Moves(a) /\ pc[a].at = from /\ pc'[a].at = to
  BY GotoMoves DEF CloseListener
<1>2. /\ rtHub' = rtHub /\ pc[a].hub \in Hubs \cup {None}
      /\ \A b \in Actors : pc[b].hub \in Hubs \cup {None}
  BY DEF CloseListener, IInv, PcGood, PcValue
<1>3. \A k \in Hubs : lis'[k] = lis[k] \/ (k = pc[a].hub /\ lis'[k] = "closed")
  BY DEF CloseListener, IInv, HubTypes
<1>4. rtHub # None => lis'[rtHub] \in {"connecting", "listening"}
  <2>1. rtHub # None => rtHub \in Hubs /\ rtHub # pc[a].hub
    BY <1>1 DEF MapOpen, IInv, HubTypes
  <2> QED
    BY <1>3, <2>1 DEF MapOpen
<1>5. ASSUME NEW b \in Actors, pc'[b].at \in Closing, pc'[b].hub # None
      PROVE  pc'[b].hub # rtHub /\ lis'[pc'[b].hub] # "unborn"
  <2>1. b # a /\ pc'[b] = pc[b] /\ pc[b].hub \in Hubs
    BY <1>1, <1>2, <1>5 DEF Moves
  <2> QED
    BY <1>3, <1>5, <2>1 DEF MapOpen
<1> QED
  BY <1>1, <1>2, <1>4, <1>5 DEF MapOpen

-----------------------------------------------------------------------------
(***************************************************************************)
(* One command at a time.                                                  *)
(***************************************************************************)
\* The actor at work takes a step: what it knows afterwards is all there is.
LEMMA PanelMoves ==
  ASSUME SInv, NEW a \in Panel, pc[a].at # "off", Moves(a), overlap' = overlap,
         SInv /\ Knows(a) /\ Triggered /\ Hubbed => Knows(a)' /\ Triggered' /\ Hubbed'
  PROVE  SInv'
<1> SUFFICES ASSUME ~overlap
             PROVE  Alone' /\ (\A b \in Panel : Knows(b)') /\ Triggered' /\ Hubbed'
  BY DEF SInv
<1>1. Alone /\ Knows(a) /\ Triggered /\ Hubbed
  BY DEF SInv
<1>2. \A b \in Panel : b # a => pc'[b] = pc[b] /\ pc[b].at = "off"
  BY <1>1 DEF Alone, Moves, Panel, Actors
<1>3. Alone'
  BY <1>2 DEF Alone
<1>4. \A b \in Panel : b # a => Knows(b)'
  BY <1>2 DEF Knows
<1> QED
  BY <1>1, <1>3, <1>4

\* The hub that is on its way stays so when an actor without a part in it moves.
LEMMA WayStays ==
  ASSUME NEW a \in Actors, Moves(a), pc[a].at \notin Way \/ pc'[a].at \in Way, OnItsWay
  PROVE  OnItsWay'
BY DEF OnItsWay, Moves

\* A command or a pass of the reaper begins.
LEMMA PanelBegins ==
  ASSUME SInv, NEW a \in Panel, pc[a].at = "off", Moves(a),
         pc'[a].at \in {"enTriggers", "disRow", "crTriggers", "delRow", "sleepTake",
                        "wakeRow", "reapCheck"},
         overlap' <=> (overlap \/ ~Quiet), hub' = hub, config' = config
  PROVE  SInv'
<1> SUFFICES ASSUME ~overlap, Quiet
             PROVE  Alone' /\ (\A b \in Panel : Knows(b)') /\ Triggered' /\ Hubbed'
  BY DEF SInv
<1>1. Triggered /\ Hubbed
  BY DEF SInv
<1>2. \A b \in Panel : b # a => pc'[b] = pc[b] /\ pc[b].at = "off"
  BY DEF Quiet, Moves, Panel, Actors
<1>3. a \in Actors
  BY DEF Panel, Actors
<1>4. Alone'
  BY <1>2 DEF Alone
<1>5. \A b \in Panel : Knows(b)'
  BY <1>2 DEF Knows
<1>6. Hubbed'
  BY <1>1, <1>3, WayStays DEF Hubbed, hub, config, Way
<1>7. Triggered'
  BY <1>1 DEF Triggered, config
<1> QED
  BY <1>4, <1>5, <1>6, <1>7

\* A client's handler moves; the panel does not see it.
LEMMA ClientMoves ==
  ASSUME SInv, NEW c \in Conns, Moves(c), UNCHANGED <<enabled, hooks, triggers, overlap>>,
         Hubbed => Hubbed'
  PROVE  SInv'
<1>1. \A b \in Panel : b # c /\ b \in Actors
  BY RealtimeAssumption DEF Panel, Actors
<1>2. \A b \in Panel : pc'[b] = pc[b]
  BY <1>1 DEF Moves
<1>3. Alone => Alone'
  BY <1>2 DEF Alone
<1>4. (\A b \in Panel : Knows(b)) => \A b \in Panel : Knows(b)'
  BY <1>2 DEF Knows
<1>5. Triggered => Triggered'
  BY DEF Triggered
<1> QED
  BY <1>3, <1>4, <1>5 DEF SInv

LEMMA FetchSequential ==
  ASSUME IInv, SInv, NEW a \in Conns \cup Workers \cup {Main}, Fetch(a)
  PROVE  SInv'
<1>0. a \in Actors /\ pc[a].at = "fetch" /\ UNCHANGED <<config, overlap>>
  BY DEF Actors, Fetch
<1>1. Moves(a) /\ pc'[a].at \in {"join", "off", "listen"} /\ rtHub' # None
  <2>1. CASE rtHub # None
    BY <1>0, <2>1, ReturnMoves DEF Fetch, hub
  <2>2. CASE rtHub = None
    <3>1. PICK k \in Hubs :
            /\ rtHub' = k
            /\ pc' = [pc EXCEPT ![a] = [@ EXCEPT !.at = "listen", !.hub = k]]
      <4>1. \A k : k \in Fresh => k \in Hubs
        BY DEF Fresh
      <4> QED
        BY <2>2, <4>1 DEF Fetch, MakeHub
    <3>2. pc[a] \in [at : Steps, hub : Hubs \cup {None}, tries : 0..Tries]
      BY <1>0 DEF IInv, PcGood, PcValue
    <3> QED
      BY <1>0, <3>1, <3>2, RealtimeAssumption DEF Moves, IInv, PcGood
  <2> QED
    BY <2>1, <2>2
<1>2. Hubbed' /\ (Triggered => Triggered')
  BY <1>0, <1>1 DEF Hubbed, Triggered, config
<1>3. CASE a \in Conns
  BY <1>0, <1>1, <1>2, <1>3, ClientMoves DEF config
<1>4. CASE a \in Panel
  <2>1. Knows(a)'
    BY <1>1 DEF Knows
  <2> QED
    BY <1>0, <1>1, <1>2, <1>4, <2>1, PanelMoves
<1> QED
  BY <1>3, <1>4 DEF Panel

LEMMA ListenedSequential ==
  ASSUME IInv, SInv, NEW a \in Conns \cup Workers \cup {Main}, Listened(a)
  PROVE  SInv'
<1>0. /\ a \in Actors /\ pc[a].at = "listen" /\ UNCHANGED <<hub, config, overlap>>
      /\ Moves(a) /\ pc'[a].at \in {"join", "off"}
  BY ReturnMoves DEF Actors, Listened
<1>1. (Hubbed => Hubbed') /\ (Triggered => Triggered')
  BY <1>0, WayStays DEF Hubbed, Triggered, config, hub, Way
<1>3. CASE a \in Conns
  BY <1>0, <1>1, <1>3, ClientMoves DEF config
<1>4. CASE a \in Panel
  <2>1. Knows(a)'
    BY <1>0 DEF Knows
  <2> QED
    BY <1>0, <1>1, <1>4, <2>1, PanelMoves
<1> QED
  BY <1>3, <1>4 DEF Panel

LEMMA ClientSequential ==
  ASSUME IInv, SInv, NEW c \in Conns, Connect(c) \/ Join(c) \/ Disconnect(c)
  PROVE  SInv'
<1>0. c \in Actors
  BY DEF Actors
<1>1. CASE Connect(c)
  <2>1. Moves(c) /\ pc'[c].at = "fetch"
    BY <1>0, <1>1, GotoMoves DEF Connect
  <2>2. OnItsWay'
    BY <1>0, <2>1 DEF OnItsWay, Way
  <2> QED
    BY <1>1, <2>1, <2>2, ClientMoves DEF Connect, Hubbed
<1>2. CASE Join(c) \/ Disconnect(c)
  <2>1. Moves(c) /\ pc[c].at \in {"join", "open"}
    BY <1>2 DEF Join, Disconnect, Register, Goto, Moves, IInv, PcGood
  <2>2. UNCHANGED <<rtHub, config, overlap>>
    BY <1>2 DEF Join, Disconnect
  <2>3. Hubbed => Hubbed'
    BY <1>0, <2>1, <2>2, WayStays DEF Hubbed, config, Way
  <2> QED
    BY <2>1, <2>2, <2>3, ClientMoves DEF config
<1> QED
  BY <1>1, <1>2

LEMMA CommandSequential ==
  ASSUME IInv, SInv, NEW w \in Workers, Command(w)
  PROVE  SInv'
<1>0. w \in Actors /\ w \in Panel
  BY DEF Actors, Panel
<1>1. PICK step \in {"enTriggers", "disRow", "crTriggers", "delRow", "sleepTake", "wakeRow"} :
        Goto(w, "off", step)
  <2> SUFFICES \/ Goto(w, "off", "enTriggers") \/ Goto(w, "off", "disRow")
               \/ Goto(w, "off", "crTriggers") \/ Goto(w, "off", "delRow")
               \/ Goto(w, "off", "sleepTake") \/ Goto(w, "off", "wakeRow")
    OBVIOUS
  <2> QED
    BY DEF Command, enableRealtime, disableRealtime, createWebhook, deleteWebhook,
           sleepProject, wakeProject, Begin
<1>2. hub' = hub /\ config' = config
  BY DEF Command, enableRealtime, disableRealtime, createWebhook, deleteWebhook,
         sleepProject, wakeProject
<1>3. overlap' = (overlap \/ ~Quiet)
  BY DEF Command, enableRealtime, disableRealtime, createWebhook, deleteWebhook,
         sleepProject, wakeProject, Begin
<1>4. pc[w].at = "off" /\ pc'[w].at = step /\ Moves(w)
  BY <1>0, <1>1, GotoMoves
<1> QED
  BY <1>0, <1>2, <1>3, <1>4, PanelBegins

\* The rows and the triggers.
LEMMA RowSequential ==
  ASSUME IInv, SInv, NEW w \in Workers,
         \/ SetupTriggers(w, "enTriggers", "enRow") \/ SetupTriggers(w, "crTriggers", "crRow")
         \/ EnableRow(w) \/ DisableRow(w) \/ CreateRow(w) \/ DeleteRow(w)
         \/ ReadRealtime(w) \/ ReadHooks(w) \/ Reconcile(w)
  PROVE  SInv' /\ Moves(w) /\ pc'[w].at \notin Closing /\ UNCHANGED <<rtHub, lis>>
<1>0. /\ w \in Actors /\ w \in Panel
      /\ UNCHANGED <<rtHub, lis, awake, overlap>>
  BY DEF Actors, Panel, SetupTriggers, EnableRow, DisableRow, CreateRow, DeleteRow,
         ReadRealtime, ReadHooks, Branch, Reconcile, hub, config
<1>1. ASSUME Moves(w), pc[w].at \notin Way \cup {"off"}, pc'[w].at \notin Closing,
             Triggered /\ Knows(w) => Triggered' /\ Knows(w)',
             hooks' => hooks \/ pc'[w].at \in Way
      PROVE  SInv'
  <2>1. Hubbed => Hubbed'
    <3>1. pc'[w].at \in Way => OnItsWay'
      BY <1>0 DEF OnItsWay
    <3>2. OnItsWay => OnItsWay'
      BY <1>0, <1>1, WayStays
    <3> QED
      BY <1>0, <1>1, <3>1, <3>2 DEF Hubbed
  <2> QED
    BY <1>0, <1>1, <2>1, PanelMoves
<1>2. CASE SetupTriggers(w, "enTriggers", "enRow")
  <2>1. PICK to \in {"enRow", "off"} :
          /\ Goto(w, "enTriggers", to) /\ UNCHANGED <<enabled, hooks>>
          /\ triggers' = TRUE \/ (to = "off" /\ triggers' = triggers)
    BY <1>2 DEF SetupTriggers
  <2>2. pc[w].at = "enTriggers" /\ pc'[w].at = to /\ Moves(w)
    BY <1>0, <2>1, GotoMoves
  <2>3. Triggered /\ Knows(w) => Triggered' /\ Knows(w)'
    BY <2>1, <2>2 DEF Triggered, Knows
  <2> QED
    BY <1>0, <1>1, <2>1, <2>2, <2>3 DEF Way, Closing
<1>3. CASE SetupTriggers(w, "crTriggers", "crRow")
  <2>1. PICK to \in {"crRow", "off"} :
          /\ Goto(w, "crTriggers", to) /\ UNCHANGED <<enabled, hooks>>
          /\ triggers' = TRUE \/ (to = "off" /\ triggers' = triggers)
    BY <1>3 DEF SetupTriggers
  <2>2. pc[w].at = "crTriggers" /\ pc'[w].at = to /\ Moves(w)
    BY <1>0, <2>1, GotoMoves
  <2>3. Triggered /\ Knows(w) => Triggered' /\ Knows(w)'
    BY <2>1, <2>2 DEF Triggered, Knows
  <2> QED
    BY <1>0, <1>1, <2>1, <2>2, <2>3 DEF Way, Closing
<1>4. CASE EnableRow(w)
  <2>1. /\ Goto(w, "enRow", "off") /\ UNCHANGED <<hooks, triggers>>
    BY <1>4 DEF EnableRow
  <2>2. pc[w].at = "enRow" /\ pc'[w].at = "off" /\ Moves(w)
    BY <1>0, <2>1, GotoMoves
  <2>3. Triggered /\ Knows(w) => Triggered' /\ Knows(w)'
    BY <2>1, <2>2 DEF Triggered, Knows
  <2> QED
    BY <1>0, <1>1, <2>1, <2>2, <2>3 DEF Way, Closing
<1>5. CASE DisableRow(w)
  <2>1. /\ Goto(w, "disRow", "recRealtime") /\ UNCHANGED <<hooks, triggers>>
        /\ ~enabled'
    BY <1>5 DEF DisableRow
  <2>2. pc[w].at = "disRow" /\ pc'[w].at = "recRealtime" /\ Moves(w)
    BY <1>0, <2>1, GotoMoves
  <2>3. Triggered /\ Knows(w) => Triggered' /\ Knows(w)'
    BY <2>1, <2>2 DEF Triggered, Knows
  <2> QED
    BY <1>0, <1>1, <2>1, <2>2, <2>3 DEF Way, Closing
<1>6. CASE CreateRow(w)
  <2>1. /\ Goto(w, "crRow", "fetch") /\ UNCHANGED <<enabled, triggers>>
    BY <1>6 DEF CreateRow
  <2>2. pc[w].at = "crRow" /\ pc'[w].at = "fetch" /\ Moves(w)
    BY <1>0, <2>1, GotoMoves
  <2>3. Triggered /\ Knows(w) => Triggered' /\ Knows(w)'
    BY <2>1, <2>2 DEF Triggered, Knows
  <2> QED
    BY <1>0, <1>1, <2>1, <2>2, <2>3 DEF Way, Closing
<1>7. CASE DeleteRow(w)
  <2>1. Goto(w, "delRow", "recRealtime") /\ UNCHANGED <<enabled, triggers>>
    BY <1>7 DEF DeleteRow
  <2>2. pc[w].at = "delRow" /\ pc'[w].at = "recRealtime" /\ Moves(w)
    BY <1>0, <2>1, GotoMoves
  <2>4. hooks' => hooks
    BY <1>7, Zenon DEF DeleteRow
  <2>3. Triggered /\ Knows(w) => Triggered' /\ Knows(w)'
    BY <2>1, <2>2, <2>4 DEF Triggered, Knows
  <2> QED
    BY <1>0, <1>1, <2>2, <2>3, <2>4 DEF Way, Closing
<1>8. CASE ReadRealtime(w)
  <2>1. PICK to \in {"recEnsure", "recHooks"} :
          /\ Goto(w, "recRealtime", to) /\ UNCHANGED <<enabled, hooks, triggers>>
          /\ to = "recHooks" => ~enabled
    BY <1>8 DEF ReadRealtime, Branch, config
  <2>2. pc[w].at = "recRealtime" /\ pc'[w].at = to /\ Moves(w)
    BY <1>0, <2>1, GotoMoves
  <2>3. Triggered /\ Knows(w) => Triggered' /\ Knows(w)'
    BY <2>1, <2>2 DEF Triggered, Knows
  <2> QED
    BY <1>0, <1>1, <2>1, <2>2, <2>3 DEF Way, Closing
<1>9. CASE ReadHooks(w)
  <2>1. PICK to \in {"recEnsure", "recDrop"} :
          /\ Goto(w, "recHooks", to) /\ UNCHANGED <<enabled, hooks, triggers>>
          /\ to = "recDrop" => ~hooks
    BY <1>9 DEF ReadHooks, Branch, config
  <2>2. pc[w].at = "recHooks" /\ pc'[w].at = to /\ Moves(w)
    BY <1>0, <2>1, GotoMoves
  <2>3. Triggered /\ Knows(w) => Triggered' /\ Knows(w)'
    BY <2>1, <2>2 DEF Triggered, Knows
  <2> QED
    BY <1>0, <1>1, <2>1, <2>2, <2>3 DEF Way, Closing
<1>10. CASE Reconcile(w)
  <2>1. PICK from \in {"recEnsure", "recDrop"} :
          /\ Goto(w, from, "useHooks") /\ UNCHANGED <<enabled, hooks>>
          /\ from = "recEnsure" => triggers' \in {TRUE, triggers}
    BY <1>10 DEF Reconcile
  <2>2. pc[w].at = from /\ pc'[w].at = "useHooks" /\ Moves(w)
    BY <1>0, <2>1, GotoMoves
  <2>3. Triggered /\ Knows(w) => Triggered' /\ Knows(w)'
    BY <2>1, <2>2 DEF Triggered, Knows
  <2> QED
    BY <1>0, <1>1, <2>1, <2>2, <2>3 DEF Way, Closing
<1> QED
  BY <1>0, <1>2, <1>3, <1>4, <1>5, <1>6, <1>7, <1>8, <1>9, <1>10

\* A hub leaves the map only for want of webhooks, or to sleep.
LEMMA CloseSequential ==
  ASSUME IInv, SInv, NEW a \in Panel,
         \/ Close(a) \/ Take(a, "take", "lisClose") \/ CloseListener(a, "lisClose", "off")
         \/ Take(a, "sleepTake", "sleepClose") \/ CloseListener(a, "sleepClose", "sleepRow")
  PROVE  SInv'
<1>0. a \in Actors /\ UNCHANGED <<config, overlap>>
  BY DEF Panel, Actors, Close, Take, CloseListener
<1>1. Triggered => Triggered'
  BY <1>0 DEF Triggered, config
<1>2. CASE Close(a)
  <2>1. pc[a].at = "close" /\ pc'[a].at \in {"take", "off"} /\ Moves(a) /\ rtHub' = rtHub
    <3>1. \E to \in {"take", "off"} : Goto(a, "close", to)
      BY <1>2 DEF Close
    <3> QED
      BY <1>0, <1>2, <3>1, GotoMoves DEF Close
  <2>2. Knows(a) => Knows(a)'
    BY <1>0, <2>1 DEF Knows, config
  <2>3. Hubbed => Hubbed'
    BY <1>0, <2>1, WayStays DEF Hubbed, Way, config
  <2> QED
    BY <1>0, <1>1, <2>1, <2>2, <2>3, PanelMoves
<1>3. CASE Take(a, "take", "lisClose")
  <2>1. pc[a].at = "take" /\ pc'[a].at = "lisClose" /\ Moves(a)
    <3>1. pc[a] \in [at : Steps, hub : Hubs \cup {None}, tries : 0..Tries]
      BY <1>0 DEF IInv, PcGood, PcValue
    <3> QED
      BY <1>0, <1>3, <3>1 DEF Take, Moves, IInv, PcGood
  <2>2. Knows(a) => Knows(a)' /\ Hubbed'
    BY <1>0, <2>1 DEF Knows, Hubbed, config
  <2> QED
    BY <1>0, <1>1, <2>1, <2>2, PanelMoves
<1>4. CASE CloseListener(a, "lisClose", "off")
  <2>1. pc[a].at = "lisClose" /\ pc'[a].at = "off" /\ Moves(a) /\ rtHub' = rtHub
    BY <1>0, <1>4, GotoMoves DEF CloseListener
  <2>2. Knows(a)'
    BY <2>1 DEF Knows
  <2>3. Hubbed => Hubbed'
    BY <1>0, <2>1, WayStays DEF Hubbed, Way, config
  <2> QED
    BY <1>0, <1>1, <2>1, <2>2, <2>3, PanelMoves
<1>5. CASE Take(a, "sleepTake", "sleepClose") \/ CloseListener(a, "sleepClose", "sleepRow")
  <2>1. /\ pc[a].at \in {"sleepTake", "sleepClose"}
        /\ pc'[a].at \in {"sleepClose", "sleepRow"} /\ Moves(a)
    <3>1. pc[a] \in [at : Steps, hub : Hubs \cup {None}, tries : 0..Tries]
      BY <1>0 DEF IInv, PcGood, PcValue
    <3>2. CASE Take(a, "sleepTake", "sleepClose")
      BY <1>0, <3>1, <3>2 DEF Take, Moves, IInv, PcGood
    <3>3. CASE CloseListener(a, "sleepClose", "sleepRow")
      BY <1>0, <3>3, GotoMoves DEF CloseListener
    <3> QED
      BY <1>5, <3>2, <3>3
  <2>2. Knows(a)' /\ Hubbed'
    BY <1>0, <2>1 DEF Knows, Hubbed, OnItsWay, Way
  <2> QED
    BY <1>0, <1>1, <2>1, <2>2, PanelMoves
<1> QED
  BY <1>2, <1>3, <1>4, <1>5

\* Using, sleeping and waking.
LEMMA UseSequential ==
  ASSUME IInv, SInv, NEW w \in Workers,
         UseHooks(w) \/ UseFind(w) \/ SleepRow(w) \/ WakeRow(w) \/ WakeHooks(w)
  PROVE  SInv' /\ Moves(w) /\ pc'[w].at \notin Closing /\ UNCHANGED <<rtHub, lis>>
<1>0. /\ w \in Actors /\ w \in Panel
      /\ UNCHANGED <<rtHub, lis, enabled, hooks, triggers, overlap>>
  BY DEF Actors, Panel, UseHooks, UseFind, SleepRow, WakeRow, WakeHooks, Branch, hub, config
<1>1. Triggered => Triggered'
  BY <1>0 DEF Triggered
<1>2. ASSUME pc[w].at # "off", Moves(w), pc'[w].at \notin Closing,
             Knows(w) => Knows(w)', Hubbed => Hubbed'
      PROVE  SInv'
  BY <1>0, <1>1, <1>2, PanelMoves
<1>3. CASE UseHooks(w)
  <2>1. PICK to \in {"off", "useFind"} : Goto(w, "useHooks", to) /\ (to = "useFind" => ~hooks)
    BY <1>3 DEF UseHooks, Branch
  <2>2. pc[w].at = "useHooks" /\ pc'[w].at = to /\ Moves(w)
    BY <1>0, <2>1, GotoMoves
  <2>3. Hubbed => Hubbed'
    BY <1>0, <1>3, <2>2, WayStays DEF Hubbed, UseHooks, Branch, config, Way
  <2>4. Knows(w)'
    BY <1>0, <2>1, <2>2 DEF Knows
  <2> QED
    BY <1>0, <1>2, <2>2, <2>3, <2>4 DEF Closing
<1>4. CASE UseFind(w)
  <2>1. pc[w].at = "useFind" /\ pc'[w].at \in {"off", "close"} /\ Moves(w)
    <3>1. pc[w] \in [at : Steps, hub : Hubs \cup {None}, tries : 0..Tries]
      BY <1>0 DEF IInv, PcGood, PcValue
    <3> QED
      BY <1>0, <1>4, <3>1 DEF UseFind, Moves, Off, IInv, PcGood
  <2>2. Hubbed => Hubbed'
    BY <1>0, <1>4, <2>1, WayStays DEF Hubbed, UseFind, config, Way
  <2>3. Knows(w) => Knows(w)'
    BY <1>0, <2>1 DEF Knows
  <2> QED
    BY <1>0, <1>2, <2>1, <2>2, <2>3 DEF Closing
<1>5. CASE SleepRow(w)
  <2>1. pc[w].at = "sleepRow" /\ pc'[w].at = "off" /\ Moves(w) /\ ~awake'
    BY <1>0, <1>5, GotoMoves DEF SleepRow
  <2>2. Knows(w)' /\ Hubbed'
    BY <2>1 DEF Knows, Hubbed
  <2> QED
    BY <1>0, <1>2, <2>1, <2>2 DEF Closing
<1>6. CASE WakeRow(w)
  <2>1. PICK to \in {"off", "wakeHooks"} : Goto(w, "wakeRow", to) /\ (to = "off" <=> awake)
    BY <1>6 DEF WakeRow
  <2>2. pc[w].at = "wakeRow" /\ pc'[w].at = to /\ Moves(w)
    BY <1>0, <2>1, GotoMoves
  <2>3. Hubbed => Hubbed'
    <3>1. to = "wakeHooks" => OnItsWay'
      BY <1>0, <2>2 DEF OnItsWay, Way
    <3>2. OnItsWay => OnItsWay'
      BY <1>0, <2>2, WayStays DEF Way
    <3> QED
      BY <1>0, <2>1, <3>1, <3>2 DEF Hubbed
  <2>4. Knows(w)'
    BY <2>2 DEF Knows
  <2> QED
    BY <1>0, <1>2, <2>2, <2>3, <2>4 DEF Closing
<1>7. CASE WakeHooks(w)
  <2>1. PICK to \in {"off", "fetch"} : Goto(w, "wakeHooks", to) /\ (to = "fetch" <=> hooks)
    BY <1>7 DEF WakeHooks, Branch
  <2>2. pc[w].at = "wakeHooks" /\ pc'[w].at = to /\ Moves(w)
    BY <1>0, <2>1, GotoMoves
  <2>3. Hubbed'
    BY <1>0, <2>1, <2>2 DEF Hubbed, OnItsWay, Way
  <2>4. Knows(w)'
    BY <2>2 DEF Knows
  <2> QED
    BY <1>0, <1>2, <2>2, <2>3, <2>4 DEF Closing
<1> QED
  BY <1>0, <1>3, <1>4, <1>5, <1>6, <1>7

\* The reaper's own steps.
LEMMA ReaperSequential ==
  ASSUME IInv, SInv, ReapSnapshot \/ ReapCheck \/ ReapHooks
  PROVE  SInv' /\ Moves(Reaper) /\ pc'[Reaper].at \notin Closing /\ UNCHANGED <<rtHub, lis>>
<1>0. Reaper \in Actors /\ Reaper \in Panel /\ UNCHANGED <<hub, config>>
  BY DEF Actors, Panel, ReapSnapshot, ReapCheck, ReapHooks, Branch
<1>1. CASE ReapSnapshot
  <2>1. pc[Reaper].at = "off" /\ pc'[Reaper].at = "reapCheck" /\ Moves(Reaper)
    <3>1. pc[Reaper] \in [at : Steps, hub : Hubs \cup {None}, tries : 0..Tries]
      BY <1>0 DEF IInv, PcGood, PcValue
    <3> QED
      BY <1>0, <1>1, <3>1 DEF ReapSnapshot, Moves, IInv, PcGood
  <2>2. overlap' = (overlap \/ ~Quiet)
    BY <1>1 DEF ReapSnapshot
  <2> QED
    BY <1>0, <2>1, <2>2, PanelBegins DEF Closing, hub
<1>2. CASE ReapCheck \/ ReapHooks
  <2>1. PICK from \in {"reapCheck", "reapHooks"}, to \in {"reapHooks", "off", "close"} :
          Goto(Reaper, from, to) /\ (to = "close" => ~hooks)
    BY <1>2 DEF ReapCheck, ReapHooks, Branch
  <2>2. pc[Reaper].at = from /\ pc'[Reaper].at = to /\ Moves(Reaper)
    BY <1>0, <2>1, GotoMoves
  <2>3. (Hubbed => Hubbed') /\ (Triggered => Triggered')
    BY <1>0, <2>2, WayStays DEF Hubbed, Triggered, hub, config, Way
  <2>4. Knows(Reaper)'
    BY <1>0, <2>1, <2>2 DEF Knows, config
  <2>5. overlap' = overlap
    BY <1>2 DEF ReapCheck, ReapHooks, Branch
  <2> QED
    BY <1>0, <2>2, <2>3, <2>4, <2>5, PanelMoves DEF Closing, hub
<1> QED
  BY <1>1, <1>2

LEMMA CrashDelivers ==
  ASSUME IInv, SInv, Crash
  PROVE  SInv' /\ MapOpen'
<1>1. \A a \in Actors : a # Main => pc'[a].at = "off"
  BY DEF Crash, Off
<1>2. pc'[Main].at = IF hooks /\ awake THEN "fetch" ELSE "off"
  BY DEF Crash, Off, Actors
<1>3. MapOpen'
  BY <1>1, <1>2 DEF Crash, MapOpen, Closing
<1>4. \A a \in Panel : a \in Actors /\ (a = Main \/ pc'[a].at = "off")
  BY <1>1 DEF Panel, Actors
<1>5. Alone' /\ \A a \in Panel : Knows(a)'
  BY <1>2, <1>4 DEF Alone, Knows
<1>6. Hubbed'
  BY <1>2 DEF Hubbed, OnItsWay, Way, Crash, config, Actors
<1>7. Triggered => Triggered'
  BY DEF Triggered, Crash, config
<1>8. overlap => overlap'
  BY DEF Crash
<1> QED
  BY <1>3, <1>5, <1>6, <1>7, <1>8 DEF SInv

LEMMA InitDelivers == Init => MapOpen /\ SInv
<1> SUFFICES ASSUME Init PROVE MapOpen /\ SInv
  OBVIOUS
<1>1. \A a \in Actors : pc[a].at = "off"
  BY DEF Init, Off
<1>2. MapOpen
  BY <1>1, RealtimeAssumption DEF Init, MapOpen, Closing
<1>3. \A a \in Panel : a \in Actors
  BY DEF Panel, Actors
<1>4. Alone /\ \A a \in Panel : Knows(a)
  BY <1>1, <1>3 DEF Alone, Knows
<1>5. Triggered
  BY Zenon DEF Init, Triggered
<1>6. Hubbed
  BY RealtimeAssumption DEF Init, Hubbed
<1> QED
  BY <1>2, <1>4, <1>5, <1>6 DEF SInv

LEMMA NextDelivers == IInv /\ MapOpen /\ SInv /\ [Next]_vars => MapOpen' /\ SInv'
<1> SUFFICES ASSUME IInv, MapOpen, SInv, [Next]_vars PROVE MapOpen' /\ SInv'
  OBVIOUS
<1>1. CASE \E a \in Conns \cup Workers \cup {Main} : Fetch(a) \/ Listened(a)
  <2>1. PICK a \in Conns \cup Workers \cup {Main} : Fetch(a) \/ Listened(a)
    BY <1>1
  <2>2. a \in Actors
    BY DEF Actors
  <2>3. Listened(a) => MapOpen'
    BY <2>2, ReturnMoves, MapRests DEF Listened, hub, Closing
  <2> QED
    BY <2>1, <2>2, <2>3, FetchMapOpen, FetchSequential, ListenedSequential
<1>2. CASE \E c \in Conns : Connect(c) \/ Join(c) \/ Disconnect(c)
  <2>1. PICK c \in Conns : Connect(c) \/ Join(c) \/ Disconnect(c)
    BY <1>2
  <2>2. c \in Actors
    BY DEF Actors
  <2>3. UNCHANGED <<rtHub, lis>>
    BY <2>1 DEF Connect, Join, Disconnect, hub
  <2>4. Moves(c) /\ pc'[c].at \notin Closing
    <3>1. pc[c] \in [at : Steps, hub : Hubs \cup {None}, tries : 0..Tries]
      BY <2>2 DEF IInv, PcGood, PcValue
    <3>2. CASE Join(c)
      BY <2>2, <3>1, <3>2 DEF Join, Register, Again, Off, Moves, Closing, IInv, PcGood
    <3>3. CASE Connect(c) \/ Disconnect(c)
      BY <2>2, <3>3, GotoMoves DEF Connect, Disconnect, Closing
    <3> QED
      BY <2>1, <3>2, <3>3
  <2> QED
    BY <2>1, <2>2, <2>3, <2>4, MapRests, ClientSequential
<1>3. CASE \E w \in Workers : Command(w) \/ WorkerStep(w)
  <2>1. PICK w \in Workers : Command(w) \/ WorkerStep(w)
    BY <1>3
  <2>2. w \in Actors /\ w \in Panel
    BY DEF Actors, Panel
  <2>3. CASE Command(w)
    <3>1. PICK to \in Steps \ Closing : Goto(w, "off", to)
      <4> SUFFICES \/ Goto(w, "off", "enTriggers") \/ Goto(w, "off", "disRow")
                   \/ Goto(w, "off", "crTriggers") \/ Goto(w, "off", "delRow")
                   \/ Goto(w, "off", "sleepTake") \/ Goto(w, "off", "wakeRow")
        BY DEF Steps, Closing
      <4> QED
        BY <2>3 DEF Command, enableRealtime, disableRealtime, createWebhook, deleteWebhook,
               sleepProject, wakeProject, Begin
    <3>2. UNCHANGED <<rtHub, lis>>
      BY <2>3 DEF Command, enableRealtime, disableRealtime, createWebhook, deleteWebhook,
             sleepProject, wakeProject, hub
    <3>3. Moves(w) /\ pc'[w].at \notin Closing
      BY <2>2, <3>1, GotoMoves
    <3> QED
      BY <2>2, <2>3, <3>2, <3>3, MapRests, CommandSequential
  <2>4. CASE \/ SetupTriggers(w, "enTriggers", "enRow") \/ SetupTriggers(w, "crTriggers", "crRow")
             \/ EnableRow(w) \/ DisableRow(w) \/ CreateRow(w) \/ DeleteRow(w)
             \/ ReadRealtime(w) \/ ReadHooks(w) \/ Reconcile(w)
    BY <2>2, <2>4, MapRests, RowSequential
  <2>5. CASE UseHooks(w) \/ UseFind(w) \/ SleepRow(w) \/ WakeRow(w) \/ WakeHooks(w)
    BY <2>2, <2>5, MapRests, UseSequential
  <2>6. CASE Close(w)
    <3>1. \E to \in {"take", "off"} : Goto(w, "close", to)
      BY <2>6 DEF Close
    <3>2. Moves(w) /\ pc'[w].at \notin Closing /\ UNCHANGED <<rtHub, lis>>
      BY <2>2, <2>6, <3>1, GotoMoves DEF Close, Closing
    <3> QED
      BY <2>2, <2>6, <3>2, MapRests, CloseSequential
  <2>7. CASE \/ Take(w, "take", "lisClose") \/ CloseListener(w, "lisClose", "off")
             \/ Take(w, "sleepTake", "sleepClose") \/ CloseListener(w, "sleepClose", "sleepRow")
    BY <2>2, <2>7, TakeMapOpen, CloseListenerMapOpen, CloseSequential DEF Closing
  <2> QED
    BY <2>1, <2>3, <2>4, <2>5, <2>6, <2>7 DEF WorkerStep
<1>4. CASE \E k \in Hubs : Connects(k) \/ Broadcast(k) \/ EmptyElapses(k)
  <2>1. PICK k \in Hubs : Connects(k) \/ Broadcast(k) \/ EmptyElapses(k)
    BY <1>4
  <2>2. UNCHANGED <<rtHub, config, pc, overlap>>
    BY <2>1 DEF Connects, Broadcast, EmptyElapses
  <2>3. lis' = lis \/ lis' = [lis EXCEPT ![k] = "listening"]
    BY <2>1 DEF Connects, Broadcast, EmptyElapses
  <2>4. \A j \in Hubs : lis'[j] = lis[j] \/ lis'[j] = "listening"
    BY <2>3 DEF IInv, HubTypes
  <2>5. \A a \in Actors : pc[a].hub # None => pc[a].hub \in Hubs
    BY DEF IInv, PcGood, PcValue
  <2>6. rtHub # None => rtHub \in Hubs
    BY DEF IInv, HubTypes
  <2>7. MapOpen'
    BY <2>2, <2>4, <2>5, <2>6 DEF MapOpen
  <2>8. SInv'
    BY <2>2 DEF SInv, Alone, Knows, Triggered, Hubbed, OnItsWay, config
  <2> QED
    BY <2>7, <2>8
<1>5. CASE ReaperStep
  <2>1. Reaper \in Actors /\ Reaper \in Panel
    BY DEF Actors, Panel
  <2>2. CASE ReapSnapshot \/ ReapCheck \/ ReapHooks
    BY <2>1, <2>2, MapRests, ReaperSequential
  <2>3. CASE Close(Reaper)
    <3>1. \E to \in {"take", "off"} : Goto(Reaper, "close", to)
      BY <2>3 DEF Close
    <3>2. Moves(Reaper) /\ pc'[Reaper].at \notin Closing /\ UNCHANGED <<rtHub, lis>>
      BY <2>1, <2>3, <3>1, GotoMoves DEF Close, Closing
    <3> QED
      BY <2>1, <2>3, <3>2, MapRests, CloseSequential
  <2>4. CASE Take(Reaper, "take", "lisClose") \/ CloseListener(Reaper, "lisClose", "off")
    BY <2>1, <2>4, TakeMapOpen, CloseListenerMapOpen, CloseSequential DEF Closing
  <2> QED
    BY <1>5, <2>2, <2>3, <2>4 DEF ReaperStep
<1>6. CASE Crash
  BY <1>6, CrashDelivers
<1>7. CASE UNCHANGED vars
  BY <1>7 DEF vars, MapOpen, SInv, Alone, Knows, Triggered, Hubbed, OnItsWay
<1> QED
  BY <1>1, <1>2, <1>3, <1>4, <1>5, <1>6, <1>7 DEF Next

\* Between two commands that did not overlap, the triggers are there if anybody
\* needs them, and an active project with webhooks has a hub that listens or
\* will (reconcileChangeTriggers, startWebhookPumps, wakeProject).
THEOREM CommandsDeliver == Spec => []SequentialDelivers
<1>1. IInv /\ MapOpen /\ SInv => SequentialDelivers
  <2> SUFFICES ASSUME IInv, MapOpen, SInv, Quiet, ~overlap,
                      \A c \in Conns : pc[c].at \in {"off", "open"}
               PROVE  /\ enabled \/ hooks => triggers
                      /\ hooks /\ awake => rtHub # None /\ lis[rtHub] # "closed"
    BY DEF SequentialDelivers
  <2>1. \A a \in Actors : pc[a].at \in {"off", "open"}
    BY DEF Quiet, Actors
  <2>2. ~OnItsWay
    BY <2>1 DEF OnItsWay, Way
  <2> QED
    BY <2>2 DEF SInv, Triggered, Hubbed, MapOpen
<1> QED
  BY <1>1, InitDelivers, NextDelivers, Invariance, PTL DEF Spec

=============================================================================
