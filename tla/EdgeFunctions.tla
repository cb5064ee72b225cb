----------------------------- MODULE EdgeFunctions -----------------------------
(***************************************************************************)
(* Invocations of edge functions (src/pgforge/edge.go, edgewarm.go): a     *)
(* slot of the project, a slot of the platform, then a warm Deno process   *)
(* that loaded the function's file and was given its secrets, or a process *)
(* for this request alone.  One function per project.                      *)
(***************************************************************************)
EXTENDS Naturals, FiniteSets, Sequences, SequencesExt

CONSTANTS
    Tenants,        \* projects, each with a function
    EdgeSlots,      \* values of EDGE_MAX_CONCURRENCY
    WarmMax,        \* EDGE_WARM_MAX
    MaxDeploys,     \* bound: versions of a function's file
    MaxSecrets,     \* bound: changes of a project's secrets
    EdgeClients     \* requests under way at once

ASSUME EdgeAssumption ==
    /\ EdgeSlots \subseteq Nat \ {0} /\ WarmMax \in Nat \ {0}
    /\ MaxDeploys \in Nat /\ MaxSecrets \in Nat
    /\ IsFiniteSet(Tenants) /\ IsFiniteSet(EdgeClients)

VARIABLES
    cap,        \* the value in force, until the panel restarts
    deploys,    \* versions of each function's file that there have been
    file,       \* the one that is there, 0 when there is none
    secrets,    \* version of each project's edge_secrets
    slugHeld,   \* slots taken of each project's channel
    slotsHeld,  \* slots taken of the platform's channel
    warm,       \* warmProcs, least recently used first
    starting,   \* the request that waits, holding warmMu, for its process
    call        \* what each request does

edgeVars == <<cap, deploys, file, secrets, slugHeld, slotsHeld, warm, starting, call>>

NoCall == [pc |-> "idle"]
NobodyStarts == "nobody"
ASSUME NobodyAssumption == NobodyStarts \notin EdgeClients
Versions == 0..MaxDeploys
SecretVersions == 0..MaxSecrets

\* saw: the file and secrets there were when the request came; stat, env: what
\* the handler read; code, given: what the process that answers has.
Calls == [pc : {"slug", "slot", "secrets", "stat", "warm", "starting", "alone", "served"},
          slug : Tenants, sawFile : Versions, sawEnv : SecretVersions,
          stat : Versions, env : SecretVersions, code : Versions, given : SecretVersions]
Procs == [slug : Tenants, mtime : Versions, env : SecretVersions, code : Versions,
          dead : BOOLEAN]

EdgeTypeOK ==
    /\ deploys \in [Tenants -> Versions]
    /\ file \in [Tenants -> Versions] /\ secrets \in [Tenants -> SecretVersions]
    /\ cap \in EdgeSlots
    /\ slugHeld \in [Tenants -> 0..Cardinality(EdgeClients)]
    /\ slotsHeld \in 0..Cardinality(EdgeClients)
    /\ ToSet(warm) \subseteq Procs
    /\ starting \in EdgeClients \cup {NobodyStarts}
    /\ call \in [EdgeClients -> Calls \cup {NoCall}]

EdgeInit ==
    /\ cap \in EdgeSlots
    /\ deploys = [s \in Tenants |-> 0]
    /\ file = [s \in Tenants |-> 0] /\ secrets = [s \in Tenants |-> 0]
    /\ slugHeld = [s \in Tenants |-> 0] /\ slotsHeld = 0
    /\ warm = <<>> /\ starting = NobodyStarts
    /\ call = [c \in EdgeClients |-> NoCall]

SlugSlots == IF cap \div 2 < 1 THEN 1 ELSE cap \div 2   \* edgeSlotFor
On(c, pc) == call[c] # NoCall /\ call[c].pc = pc
To(c, pc) == call' = [call EXCEPT ![c].pc = pc]
Of(s) == {p \in ToSet(warm) : p.slug = s}

\* warmProcs has one process of a slug.
Without(s) ==
    IF Of(s) = {} THEN warm
    ELSE RemoveAt(warm, CHOOSE i \in DOMAIN warm : warm[i].slug = s)

-----------------------------------------------------------------------------
(* serveFunction up to the process.                                        *)

Invoke(c, s) ==
    /\ call[c] = NoCall /\ file[s] # 0
    /\ call' = [call EXCEPT ![c] =
         [pc |-> "slug", slug |-> s, sawFile |-> file[s], sawEnv |-> secrets[s],
          stat |-> 0, env |-> 0, code |-> 0, given |-> 0]]
    /\ UNCHANGED <<cap, deploys, file, secrets, slugHeld, slotsHeld, warm, starting>>

TakeSlugSlot(c) ==
    /\ On(c, "slug") /\ slugHeld[call[c].slug] < SlugSlots
    /\ slugHeld' = [slugHeld EXCEPT ![call[c].slug] = @ + 1]
    /\ To(c, "slot")
    /\ UNCHANGED <<cap, deploys, file, secrets, slotsHeld, warm, starting>>

TakeSlot(c) ==
    /\ On(c, "slot") /\ slotsHeld < cap
    /\ slotsHeld' = slotsHeld + 1
    /\ To(c, "secrets")
    /\ UNCHANGED <<cap, deploys, file, secrets, slugHeld, warm, starting>>

\* Returning without the deferred release of the project's slot.
GiveUpHolding(c) ==
    /\ On(c, "slug") \/ On(c, "slot")
    /\ call' = [call EXCEPT ![c] = NoCall]
    /\ UNCHANGED <<cap, deploys, file, secrets, slugHeld, slotsHeld, warm, starting>>

\* Five seconds have passed, or the client is gone: the deferred releases run.
GiveUp(c) ==
    /\ On(c, "slug") \/ On(c, "slot")
    /\ slugHeld' = [slugHeld EXCEPT ![call[c].slug] =
                      IF On(c, "slot") THEN @ - 1 ELSE @]
    /\ call' = [call EXCEPT ![c] = NoCall]
    /\ UNCHANGED <<cap, deploys, file, secrets, slotsHeld, warm, starting>>

ReadSecrets(c) ==
    /\ On(c, "secrets")
    /\ call' = [call EXCEPT ![c].pc = "stat", ![c].env = secrets[call[c].slug]]
    /\ UNCHANGED <<cap, deploys, file, secrets, slugHeld, slotsHeld, warm, starting>>

\* warmProxy looks at the file before it has the lock.
Stat(c) ==
    LET s == call[c].slug IN
    /\ On(c, "stat")
    /\ call' = [call EXCEPT ![c].stat = file[s],
                            ![c].pc = IF file[s] = 0 THEN "alone" ELSE "warm"]
    /\ UNCHANGED <<cap, deploys, file, secrets, slugHeld, slotsHeld, warm, starting>>

-----------------------------------------------------------------------------
(* warmProxy, under warmMu.                                                *)

Fits(c) ==
    {p \in Of(call[c].slug) : ~p.dead /\ p.mtime = call[c].stat /\ p.env = call[c].env}

\* Its process becomes the one used last.
WarmHit(c) ==
    /\ On(c, "warm") /\ starting = NobodyStarts
    /\ \E p \in Fits(c) :
         /\ warm' = Append(Without(p.slug), p)
         /\ call' = [call EXCEPT ![c].pc = "served", ![c].code = p.code, ![c].given = p.env]
    /\ UNCHANGED <<cap, deploys, file, secrets, slugHeld, slotsHeld, starting>>

\* What stays in the map when the cap is to leave room for one.
Evict(procs) ==
    IF Len(procs) >= WarmMax
    THEN SubSeq(procs, Len(procs) - WarmMax + 2, Len(procs))
    ELSE procs

\* No process fits: the old one is killed, the least recently used beyond the
\* cap as well, a new one starts, and the lock is kept until it answers.
WarmStart(c) ==
    /\ On(c, "warm") /\ starting = NobodyStarts /\ Fits(c) = {}
    /\ warm' = Evict(Without(call[c].slug))
    /\ starting' = c
    /\ To(c, "starting")
    /\ UNCHANGED <<cap, deploys, file, secrets, slugHeld, slotsHeld>>

\* It has loaded the file as it is by now.
WarmReady(c) ==
    LET s == call[c].slug IN
    /\ On(c, "starting") /\ file[s] # 0
    /\ warm' = Append(warm, [slug |-> s, mtime |-> call[c].stat, env |-> call[c].env,
                             code |-> file[s], dead |-> FALSE])
    /\ starting' = NobodyStarts
    /\ call' = [call EXCEPT ![c].pc = "served", ![c].code = file[s],
                            ![c].given = call[c].env]
    /\ UNCHANGED <<cap, deploys, file, secrets, slugHeld, slotsHeld>>

\* No port, no start, no answer: the one-shot runner.
WarmFails(c) ==
    /\ On(c, "starting")
    /\ starting' = NobodyStarts
    /\ To(c, "alone")
    /\ UNCHANGED <<cap, deploys, file, secrets, slugHeld, slotsHeld, warm>>

RunAlone(c) ==
    /\ On(c, "alone")
    /\ call' = [call EXCEPT ![c].pc = "served", ![c].code = file[call[c].slug],
                            ![c].given = call[c].env]
    /\ UNCHANGED <<cap, deploys, file, secrets, slugHeld, slotsHeld, warm, starting>>

Answered(c) ==
    /\ On(c, "served")
    /\ slugHeld' = [slugHeld EXCEPT ![call[c].slug] = @ - 1]
    /\ slotsHeld' = slotsHeld - 1
    /\ call' = [call EXCEPT ![c] = NoCall]
    /\ UNCHANGED <<cap, deploys, file, secrets, warm, starting>>

-----------------------------------------------------------------------------
(* The rest of the world.                                                  *)

\* The process exits, or the proxy could not reach it.
WarmDies(s) ==
    /\ Of(s) # {} /\ \E p \in Of(s) : ~p.dead
    /\ warm' = [i \in DOMAIN warm |-> IF warm[i].slug = s
                                      THEN [warm[i] EXCEPT !.dead = TRUE] ELSE warm[i]]
    /\ UNCHANGED <<cap, deploys, file, secrets, slugHeld, slotsHeld, starting, call>>

\* warmReaper: dead, or not called for five minutes.
WarmReap(s) ==
    /\ starting = NobodyStarts /\ Of(s) # {}
    /\ warm' = Without(s)
    /\ UNCHANGED <<cap, deploys, file, secrets, slugHeld, slotsHeld, starting, call>>

Deploy(s) ==      \* saveFunction
    /\ deploys[s] < MaxDeploys
    /\ deploys' = [deploys EXCEPT ![s] = @ + 1]
    /\ file' = [file EXCEPT ![s] = deploys[s] + 1]
    /\ UNCHANGED <<cap, secrets, slugHeld, slotsHeld, warm, starting, call>>

ChangeSecrets(s) ==      \* addEdgeSecret, deleteEdgeSecret
    /\ secrets[s] < MaxSecrets
    /\ secrets' = [secrets EXCEPT ![s] = @ + 1]
    /\ UNCHANGED <<cap, deploys, file, slugHeld, slotsHeld, warm, starting, call>>

\* deleteFunction leaves the process to the reaper.
DeleteFunction(s) ==
    /\ file[s] # 0
    /\ file' = [file EXCEPT ![s] = 0]
    /\ UNCHANGED <<cap, deploys, secrets, slugHeld, slotsHeld, warm, starting, call>>

EdgeBoot ==
    /\ slugHeld' = [s \in Tenants |-> 0] /\ slotsHeld' = 0
    /\ warm' = <<>> /\ starting' = NobodyStarts
    /\ call' = [c \in EdgeClients |-> NoCall]
    /\ cap' \in EdgeSlots
    /\ UNCHANGED <<deploys, file, secrets>>

EdgeNext ==
    \/ \E c \in EdgeClients, s \in Tenants : Invoke(c, s)
    \/ \E c \in EdgeClients :
         \/ TakeSlugSlot(c) \/ TakeSlot(c) \/ GiveUp(c) \/ ReadSecrets(c) \/ Stat(c)
         \/ WarmHit(c) \/ WarmStart(c) \/ WarmReady(c) \/ WarmFails(c)
         \/ RunAlone(c) \/ Answered(c)
    \/ \E s \in Tenants :
         \/ WarmDies(s) \/ WarmReap(s) \/ Deploy(s) \/ ChangeSecrets(s)
         \/ DeleteFunction(s)
    \/ EdgeBoot

EdgeSpec == EdgeInit /\ [][EdgeNext]_edgeVars

-----------------------------------------------------------------------------
Holding(pcs) == {c \in EdgeClients : call[c] # NoCall /\ call[c].pc \in pcs}
Running == {"secrets", "stat", "warm", "starting", "alone", "served"}

\* No path through serveFunction leaks a slot or takes one too many: what the
\* channels hold are the requests that hold it, a project never runs more than
\* its share of the platform, and neither the warm processes nor the platform
\* exceed their caps, the process being started included.
EdgeBounded ==
    /\ slotsHeld = Cardinality(Holding(Running)) /\ slotsHeld <= cap
    /\ \A s \in Tenants :
         /\ slugHeld[s] = Cardinality({c \in Holding(Running \cup {"slot"}) : call[c].slug = s})
         /\ Cardinality({c \in Holding(Running) : call[c].slug = s}) <= SlugSlots
    /\ Len(warm) + (IF starting = NobodyStarts THEN 0 ELSE 1) <= WarmMax
    /\ \A s \in Tenants : Cardinality({i \in DOMAIN warm : warm[i].slug = s}) <= 1

\* A request is never answered by code or with secrets older than those that
\* were in force when it came, whatever other requests that had read older or
\* newer ones did to the shared process meanwhile.  (A function deleted and
\* not there any more answers as what it was.)
ServesFresh ==
    \A c \in Holding({"served"}) :
        /\ call[c].code # 0 => call[c].code >= call[c].sawFile
        /\ call[c].given >= call[c].sawEnv
=============================================================================
