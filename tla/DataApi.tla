------------------------------- MODULE DataApi -------------------------------
(***************************************************************************)
(* The Data API of ForgeBase: one lazily started PostgREST process per     *)
(* project, cached in pgrstProc, each on a local port of its own, found    *)
(* and started by ensurePostgREST, stopped by stopPostgREST (settings, key *)
(* rotation, pause, sleep, delete ...) and by the idle reaper.             *)
(*                                                                         *)
(* pgrstMu makes each access to the cache atomic. What is not atomic is    *)
(* everything around it: the readiness probe, the request proxied to the   *)
(* port, the SQL UPDATE before a stop, and the processes themselves, which *)
(* bind their port, crash and, once killed, die in their own time.         *)
(***************************************************************************)
EXTENDS Integers, Sequences, FiniteSets

CONSTANTS
  Slugs,                \* projects
  Workers,              \* HTTP handler goroutines
  Pids,                 \* pgrst objects and processes, never reused: the
                        \* bound on starts
  FirstPort, LastPort,  \* 3001 and 65000
  Pinned,               \* keep_awake projects, exempt from the reaper
  MaxOps,               \* bound on operator commands
  None

Ports == FirstPort..LastPort

ASSUME DataApiAssumption ==
  /\ FirstPort \in Nat /\ LastPort \in Nat /\ FirstPort <= LastPort
  /\ IsFiniteSet(Slugs)
  /\ Pinned \subseteq Slugs
  /\ MaxOps \in Nat
  /\ None \notin Slugs \cup Pids \cup Ports

VARIABLES
  pgrstProc,    \* slug -> cached pgrst object
  pgrstNext,    \* port counter
  pgrstFree,    \* ports released, reused last in first out
  object,       \* the pgrst objects: project, port, settings they run with
  process,      \* state of each object's OS process
  recent,       \* slugs whose cached object's lastReq is recent
  proven,       \* history: slugs whose cached object passed its probe
  enabled,      \* api_config.enabled
  settings,     \* version of api_config (secret, JWK Set, rows, schemas)
  database,     \* the project's database exists
  h,            \* what each handler does next, for which slug and object
  ops           \* operator commands issued so far

cache   == <<pgrstProc, pgrstNext, pgrstFree, recent, proven>>
config  == <<enabled, settings, database>>
vars    == <<pgrstProc, pgrstNext, pgrstFree, object, process, recent, proven,
             enabled, settings, database, h, ops>>

Idle      == [at |-> "idle", slug |-> None, pid |-> None]
Blank     == [slug |-> None, port |-> FirstPort, settings |-> 0]
Steps     == {"idle", "probe", "proxy", "stop", "dropStop", "dropDatabase", "dropRows"}
Lifetimes == {"unborn", "starting", "up", "killed", "gone"}

Cached   == {s \in Slugs : pgrstProc[s] # None}
Port(s)  == object[pgrstProc[s]].port
Live     == {Port(s) : s \in Cached}
Unborn   == {i \in Pids : process[i] = "unborn"}
NextPid  == CHOOSE i \in Unborn : TRUE
\* Processes that answer connections to port q; at most one can hold it.
Holders(q) == {i \in Pids : object[i].port = q /\ process[i] \in {"up", "killed"}}

TypeOK ==
  /\ pgrstProc \in [Slugs -> Pids \cup {None}]
  /\ pgrstNext \in FirstPort..(LastPort + 1)
  /\ pgrstFree \in Seq(Ports)
  /\ object \in [Pids -> [slug : Slugs \cup {None}, port : Ports, settings : Nat]]
  /\ process \in [Pids -> Lifetimes]
  /\ recent \subseteq Slugs
  /\ proven \subseteq Slugs
  /\ enabled \in [Slugs -> BOOLEAN]
  /\ settings \in [Slugs -> Nat]
  /\ database \in [Slugs -> BOOLEAN]
  /\ h \in [Workers -> [at : Steps, slug : Slugs \cup {None}, pid : Pids \cup {None}]]
  /\ ops \in 0..MaxOps

Init ==
  /\ pgrstProc = [s \in Slugs |-> None]
  /\ pgrstNext = FirstPort
  /\ pgrstFree = << >>
  /\ object = [i \in Pids |-> Blank]
  /\ process = [i \in Pids |-> "unborn"]
  /\ recent = {}
  /\ proven = {}
  /\ enabled \in [Slugs -> BOOLEAN]
  /\ settings = [s \in Slugs |-> 0]
  /\ database = [s \in Slugs |-> TRUE]
  /\ h = [w \in Workers |-> Idle]
  /\ ops = 0

-----------------------------------------------------------------------------
(***************************************************************************)
(* Ports and processes.                                                    *)
(***************************************************************************)
\* Steps of the counter, wrapping past LastPort, before it reaches port q.
Distance(q) == IF q >= pgrstNext THEN q - pgrstNext
               ELSE q - pgrstNext + (LastPort - FirstPort + 1)

\* The counter path without its "if pgrstNext > 65000" reset.
AllocUnwrapped(q) ==
  IF pgrstFree # << >>
  THEN /\ q = pgrstFree[Len(pgrstFree)]
       /\ pgrstFree' = SubSeq(pgrstFree, 1, Len(pgrstFree) - 1)
       /\ UNCHANGED pgrstNext
  ELSE /\ q \in Ports \ Live
       /\ pgrstNext' = pgrstNext + 1
       /\ UNCHANGED pgrstFree

\* allocPgrstPort returns q: the port freed last, else the first port from
\* the counter on that no live entry holds. (With every port live the code
\* would loop forever holding the lock; here the request does not happen.)
allocPgrstPort(q) ==
  IF pgrstFree # << >>
  THEN /\ q = pgrstFree[Len(pgrstFree)]
       /\ pgrstFree' = SubSeq(pgrstFree, 1, Len(pgrstFree) - 1)
       /\ UNCHANGED pgrstNext
  ELSE /\ q \in Ports \ Live
       /\ \A r \in Ports \ Live : Distance(q) <= Distance(r)
       /\ pgrstNext' = q + 1
       /\ UNCHANGED pgrstFree

\* SIGKILL: a process that serves dies later, in its own step.
Kill(S) ==
  process' = [i \in Pids |-> IF i \notin S THEN process[i]
                             ELSE IF process[i] = "up" THEN "killed"
                             ELSE IF process[i] = "starting" THEN "gone"
                             ELSE process[i]]

\* killAndReap, delete from the map, freePgrstPort.
Evict(s) ==
  /\ Kill({pgrstProc[s]})
  /\ pgrstProc' = [pgrstProc EXCEPT ![s] = None]
  /\ pgrstFree' = Append(pgrstFree, Port(s))
  /\ recent' = recent \ {s}
  /\ proven' = proven \ {s}
  /\ UNCHANGED <<pgrstNext, object>>

\* The entry leaves the map and its port is freed, but nobody kills it.
StopForgetsKill(s) ==
  IF pgrstProc[s] = None
  THEN UNCHANGED <<cache, object, process>>
  ELSE /\ pgrstProc' = [pgrstProc EXCEPT ![s] = None]
       /\ pgrstFree' = Append(pgrstFree, Port(s))
       /\ recent' = recent \ {s}
       /\ proven' = proven \ {s}
       /\ UNCHANGED <<pgrstNext, object, process>>

stopPostgREST(s) ==
  IF pgrstProc[s] = None
  THEN UNCHANGED <<cache, object, process>>
  ELSE Evict(s)

-----------------------------------------------------------------------------
(***************************************************************************)
(* serveAPI /rest/v1: ensurePostgREST, then the proxied request.           *)
(***************************************************************************)
Goto(w, from, to) ==
  /\ h[w].at = from
  /\ h' = [h EXCEPT ![w] = IF to = "idle" THEN Idle ELSE [@ EXCEPT !.at = to]]

Hit(w, s) ==
  /\ h[w] = Idle
  /\ pgrstProc[s] # None
  /\ h' = [h EXCEPT ![w] = [at |-> "proxy", slug |-> s, pid |-> pgrstProc[s]]]
  /\ UNCHANGED <<cache, object, process, config, ops>>

\* No entry: start a process and cache it, before it is known to be ready.
Claim(w, s) ==
  /\ h[w] = Idle
  /\ pgrstProc[s] = None
  /\ enabled[s]
  /\ Unborn # {}
  /\ \E q \in Ports : LET i == NextPid IN
       /\ allocPgrstPort(q)
       /\ object' = [object EXCEPT ![i] = [slug |-> s, port |-> q, settings |-> settings[s]]]
       /\ process' = [process EXCEPT ![i] = "starting"]
       /\ recent' = recent \cup {s}
       /\ pgrstProc' = [pgrstProc EXCEPT ![s] = i]
       /\ h' = [h EXCEPT ![w] = [at |-> "probe", slug |-> s, pid |-> i]]
  /\ UNCHANGED <<proven, config, ops>>

\* exec fails (no memory, no file descriptors): the port is not given back.
StartFails(w, s) ==
  /\ h[w] = Idle
  /\ pgrstProc[s] = None
  /\ enabled[s]
  /\ \E q \in Ports : allocPgrstPort(q)
  /\ ops < MaxOps
  /\ ops' = ops + 1
  /\ UNCHANGED <<pgrstProc, object, process, recent, proven, config, h>>

\* What a handler notes on its object matters while the object is cached.
Own(w) == {s \in Slugs : s = h[w].slug /\ pgrstProc[s] = h[w].pid}

\* Any 200 on the port counts as ready, whoever sent it.
ProbeAnyListener(w) ==
  /\ Goto(w, "probe", "proxy")
  /\ \E i \in Holders(object[h[w].pid].port) : database[object[i].slug]
  /\ proven' = proven \cup Own(w)
  /\ UNCHANGED <<pgrstProc, pgrstNext, pgrstFree, recent, object, process, config, ops>>

\* 200 means: whoever holds the port accepts this project's own token and
\* reaches its database.
ProbeOk(w) ==
  /\ Goto(w, "probe", "proxy")
  /\ \E i \in Holders(object[h[w].pid].port) : object[i].slug = h[w].slug
  /\ database[h[w].slug]
  /\ proven' = proven \cup Own(w)
  /\ UNCHANGED <<pgrstProc, pgrstNext, pgrstFree, recent, object, process, config, ops>>

\* Without "cur == p": whatever is cached for the slug goes, but it is this
\* handler's own process that is killed and its own port that is freed.
ProbeFailsUnchecked(w) ==
  LET s == h[w].slug  i == h[w].pid IN
  /\ Goto(w, "probe", "idle")
  /\ Kill({i})
  /\ pgrstProc' = [pgrstProc EXCEPT ![s] = None]
  /\ pgrstFree' = Append(pgrstFree, object[i].port)
  /\ recent' = recent \ {s}
  /\ proven' = proven \ {s}
  /\ UNCHANGED <<pgrstNext, object, config, ops>>

\* The error return alone, with the dead process left in the cache.
ProbeFailsKeepsEntry(w) ==
  /\ Goto(w, "probe", "idle")
  /\ UNCHANGED <<cache, object, process, config, ops>>

\* 40 probes without a 200: drop the entry if it still is this object.
ProbeFails(w) ==
  LET s == h[w].slug IN
  /\ Goto(w, "probe", "idle")
  /\ IF pgrstProc[s] = h[w].pid
     THEN Evict(s)
     ELSE UNCHANGED <<cache, object, process>>
  /\ UNCHANGED <<config, ops>>

\* The request goes to the object's port, whatever became of the object;
\* openapiJSON does the same without refreshing lastReq.
Proxy(w) ==
  /\ Goto(w, "proxy", "idle")
  /\ \/ recent' = recent \cup Own(w)
     \/ UNCHANGED recent
  /\ UNCHANGED <<pgrstProc, pgrstNext, pgrstFree, proven, object, process, config, ops>>

-----------------------------------------------------------------------------
(***************************************************************************)
(* Operators: settings and key changes, disable, enable, stop, delete.     *)
(***************************************************************************)
Command(w, s, next) ==
  /\ h[w] = Idle
  /\ database[s]
  /\ ops < MaxOps
  /\ ops' = ops + 1
  /\ h' = [h EXCEPT ![w] = [at |-> next, slug |-> s, pid |-> None]]

\* apiSettings without its stopPostgREST.
ChangeSettingsOnly(w, s) ==
  /\ Command(w, s, "idle")
  /\ settings' = [settings EXCEPT ![s] = @ + 1]
  /\ UNCHANGED <<cache, object, process, enabled, database>>

\* apiSettings and jwksToggle: UPDATE api_config, then stop the sidecar.
ChangeSettings(w, s) ==
  /\ Command(w, s, "stop")
  /\ settings' = [settings EXCEPT ![s] = @ + 1]
  /\ UNCHANGED <<cache, object, process, enabled, database>>

Disable(w, s) ==
  /\ enabled[s]
  /\ Command(w, s, "stop")
  /\ enabled' = [enabled EXCEPT ![s] = FALSE]
  /\ UNCHANGED <<cache, object, process, settings, database>>

\* enableAPI keeps an existing secret and stops nothing.
Enable(s) ==
  /\ ~enabled[s]
  /\ database[s]
  /\ ops < MaxOps
  /\ ops' = ops + 1
  /\ enabled' = [enabled EXCEPT ![s] = TRUE]
  /\ UNCHANGED <<cache, object, process, settings, database, h>>

\* The bare stop of pause, sleep, auto-suspend, expiry and branch reset.
StopOnly(s) ==
  /\ ops < MaxOps
  /\ ops' = ops + 1
  /\ stopPostgREST(s)
  /\ UNCHANGED <<config, h>>

Stop(w) ==
  /\ Goto(w, "stop", "idle")
  /\ stopPostgREST(h[w].slug)
  /\ UNCHANGED <<config, ops>>

\* dropProjectFully: stop, DROP DATABASE, then delete the api_config row.
Delete(w, s) ==
  /\ Command(w, s, "dropStop")
  /\ UNCHANGED <<cache, object, process, config>>

DropStop(w) ==
  /\ Goto(w, "dropStop", "dropDatabase")
  /\ stopPostgREST(h[w].slug)
  /\ UNCHANGED <<config, ops>>

DropDatabase(w) ==
  /\ Goto(w, "dropDatabase", "dropRows")
  /\ database' = [database EXCEPT ![h[w].slug] = FALSE]
  /\ UNCHANGED <<cache, object, process, enabled, settings, ops>>

DropRows(w) ==
  /\ Goto(w, "dropRows", "idle")
  /\ enabled' = [enabled EXCEPT ![h[w].slug] = FALSE]
  /\ UNCHANGED <<cache, object, process, settings, database, ops>>

-----------------------------------------------------------------------------
(***************************************************************************)
(* The idle reaper, the processes and time.                                *)
(***************************************************************************)
\* reapPostgREST: one sweep under the lock, in the map's random order.
Reap ==
  LET D == Cached \ (Pinned \cup recent) IN
  \E n \in 1..Cardinality(D) : \E order \in [1..n -> D] :
    /\ \A i, j \in 1..n : order[i] = order[j] => i = j
    /\ \A s \in D : \E i \in 1..n : order[i] = s
    /\ Kill({pgrstProc[s] : s \in D})
    /\ pgrstProc' = [s \in Slugs |-> IF s \in D THEN None ELSE pgrstProc[s]]
    /\ pgrstFree' = pgrstFree \o [i \in 1..n |-> Port(order[i])]
    /\ proven' = proven \ D
    /\ UNCHANGED <<pgrstNext, recent, object, config, h, ops>>

IdleWindowElapses(s) ==
  /\ s \in recent
  /\ recent' = recent \ {s}
  /\ UNCHANGED <<pgrstProc, pgrstNext, pgrstFree, proven, object, process, config, h, ops>>

\* PostgREST binds its port, or exits because another process holds it.
Bind(i) ==
  /\ process[i] = "starting"
  /\ process' = [process EXCEPT ![i] = IF Holders(object[i].port) = {} THEN "up"
                                       ELSE "gone"]
  /\ UNCHANGED <<cache, object, config, h, ops>>

Exit(i) ==
  /\ process[i] = "killed"
  /\ process' = [process EXCEPT ![i] = "gone"]
  /\ UNCHANGED <<cache, object, config, h, ops>>

\* It exits by itself (bad settings, out of memory); nobody waits for it.
Crash(i) ==
  /\ process[i] \in {"starting", "up"}
  /\ process' = [process EXCEPT ![i] = "gone"]
  /\ UNCHANGED <<cache, object, config, h, ops>>

HandlerStep(w) ==
  ProbeOk(w) \/ ProbeFails(w) \/ Proxy(w) \/ Stop(w)
  \/ DropStop(w) \/ DropDatabase(w) \/ DropRows(w)

Next ==
  \/ \E w \in Workers :
       \/ HandlerStep(w)
       \/ \E s \in Slugs :
            \/ Hit(w, s) \/ Claim(w, s) \/ StartFails(w, s)
            \/ ChangeSettings(w, s) \/ Disable(w, s) \/ Delete(w, s)
  \/ \E s \in Slugs : Enable(s) \/ StopOnly(s) \/ IdleWindowElapses(s)
  \/ Reap
  \/ \E i \in Pids : Bind(i) \/ Exit(i) \/ Crash(i)

(***************************************************************************)
(* A handler goroutine always takes its next step (the probe loop is       *)
(* bounded, the lock is held briefly), and the kernel schedules processes. *)
(* Clients, operators, crashes and the sampler's reap are owed nothing.    *)
(***************************************************************************)
Spec ==
  /\ Init /\ [][Next]_vars
  /\ \A w \in Workers : WF_vars(HandlerStep(w))
  /\ \A i \in Pids : WF_vars(Bind(i) \/ Exit(i))

-----------------------------------------------------------------------------
(***************************************************************************)
(* Properties.                                                             *)
(***************************************************************************)
\* No two projects are ever given the same port, a released port is in the
\* pool once, and never while a live entry serves on it (allocPgrstPort,
\* freePgrstPort and their four callers).
PortsExclusive ==
  /\ \A s, t \in Cached : Port(s) = Port(t) => s = t
  /\ \A i, j \in 1..Len(pgrstFree) : pgrstFree[i] = pgrstFree[j] => i = j
  /\ \A i \in 1..Len(pgrstFree) : pgrstFree[i] \notin Live

\* Every process that runs and has not been killed is somebody's cached
\* entry: no PostgREST is lost with nobody left to stop it.
NoStrayProcess ==
  \A i \in Pids :
    process[i] \in {"starting", "up"} => \E s \in Slugs : pgrstProc[s] = i

\* A project whose API was disabled, or whose settings or signing keys were
\* changed, is not served by a process started before the change, except
\* while the handler that made the change is about to stop it (deleted
\* projects are another matter).
ConfigFollowed ==
  \A s \in Cached :
    database[s] /\ (~enabled[s] \/ object[pgrstProc[s]].settings # settings[s])
      => \E w \in Workers : h[w].at = "stop" /\ h[w].slug = s

\* Once its readiness probe succeeded, a cached proxy never points at
\* another project's process, although ports are recycled while killed
\* processes may still hold them.
ProvenProxyIsOwn ==
  \A s \in Cached \cap proven :
    \A i \in Holders(Port(s)) : object[i].slug = s

\* "Don't cache a dead process": an entry whose process died before it was
\* ever ready leaves the cache, though requests keep it recent.
NeverUpIsDropped ==
  \A s \in Slugs :
    ~<>[](/\ pgrstProc[s] # None
          /\ s \notin proven
          /\ process[pgrstProc[s]] = "gone")

\* dropProjectFully "removes a single project/branch and ALL of its
\* resources: [...] and its lazily-started processes".
DeletedLeavesNoProcess ==
  \A s \in Slugs :
    /\ ~database[s] /\ ~enabled[s]
    /\ \A w \in Workers : h[w].slug # s
    => pgrstProc[s] = None

\* The cache, the port pool and the probe keep the promise of PortLease: the
\* ports are leased one to a project, an address changes only by being given
\* back, and counts as ready only while it is the one that was probed.
Addresses == [s \in Slugs |-> IF pgrstProc[s] = None THEN None ELSE Port(s)]
Leases == INSTANCE PortLease WITH lease <- Addresses, ready <- proven
KeepsLeases == Leases!LeaseSpec

=============================================================================
