-------------------------- MODULE ProjectLifecycle --------------------------
(***************************************************************************)
(* The life of one ForgeBase project row and of the things that must       *)
(* follow it: the LOGIN attribute of the project's Postgres role (shared   *)
(* cluster), the container and the .paused-<slug> lockout file (dedicated  *)
(* instance), and the sidecars (Data API process, LISTEN hub).             *)
(*                                                                         *)
(* HTTP handlers, the five-minute sampler, clone and point-in-time-restore *)
(* goroutines and the cold-start proxy all read and write this state, and  *)
(* no lock or transaction spans two of their statements: every SQL         *)
(* statement, docker command or in-memory stop is a step of its own.       *)
(***************************************************************************)
EXTENDS Naturals, FiniteSets

CONSTANTS
  Projects,      \* slugs
  Workers,       \* handler goroutines that may be in flight together
  InitModes,     \* modes a project may be created in
  InitStatuses,  \* statuses a project may start with
  Webhooks,      \* projects that have webhooks (hasWebhooks)
  Branches,      \* projects with a parent and an expiry date
  Ops,           \* the commands issued in this instance
  MaxStarts,     \* bound on commands and crashes
  NoProject

Modes    == {"shared", "instance"}
Statuses == {"active", "suspended", "paused", "cloning"}
AllOps   == {"pause", "resume", "sleep", "wake", "request", "migrate",
             "reset", "keepAwake", "refresh", "crash"}

ASSUME LifecycleAssumption ==
  /\ InitModes \subseteq Modes
  /\ InitStatuses \subseteq {"active", "cloning"}
  /\ Webhooks \subseteq Projects
  /\ Branches \subseteq Projects
  /\ Ops \subseteq AllOps
  /\ MaxStarts \in Nat
  /\ NoProject \notin Projects

VARIABLES
  status, mode,    \* projects.status, projects.mode
  fresh,           \* last_active is within the auto-suspend window
  keepAwake,       \* projects.keep_awake
  expired,         \* expires_at < now()
  login,           \* the role's LOGIN attribute on the shared cluster
  conns,           \* a client backend is connected to the shared database
  pausedFile,      \* .paused-<slug> exists
  parked,          \* no shared database has the slug's name: a migration
                   \* renamed it, or a branch reset dropped it
  inst,            \* the instance's subvolume and container exist
  running,         \* container pgi-<slug> runs
  sidecars,        \* subset of {"api", "hub"} alive for the project
  proxy,           \* pgproxy is past its lockout check, start not yet run
  h,               \* h[w]: the statement worker w executes next, and its slug
  sampler,         \* the sampler goroutine
  job,             \* the clone / restore goroutine of a project
  starts,          \* commands issued so far
  drift,           \* history: did overlapping or failing handlers touch p?
  locked           \* history: an operator's pause completed, no resume since

row    == <<status, mode, fresh, keepAwake, expired>>
infra  == <<login, conns, pausedFile, parked, inst, running, sidecars, proxy>>
vars   == <<status, mode, fresh, keepAwake, expired, login, conns, pausedFile,
            parked, inst, running, sidecars, proxy, h, sampler, job, starts, drift,
            locked>>

Idle == [at |-> "idle", p |-> NoProject]

(***************************************************************************)
(* Steps a handler or the sampler can be about to execute.                 *)
(***************************************************************************)
HandlerSteps ==
  {"idle", "pauseNologin", "pauseTerminate", "pauseFile", "pauseStop",
   "pauseSidecars", "pauseRow", "resumeLogin", "resumeFile", "resumeStart",
   "resumeRow", "sleepStop", "sleepSidecars", "sleepRow", "wakeRow",
   "wakeRowInst", "wakeLogin", "wakeStart", "wakeHub", "touchRow",
   "touchLogin", "touchHub", "serve", "migCreate", "migCopy", "migFlip",
   "migPark", "migRow", "resetStop", "resetDrop", "resetRow", "resetDelete",
   "resetBranch"}

SamplerSteps ==
  {"sync", "ps", "syncRow", "expire", "expLock", "expKill", "expSidecars",
   "expRow", "bump", "wake", "wakeHubs", "idle", "idleSidecars", "idleRow",
   "reap"}

Jobs == [kind : {"clone", "pitr"}, at : {"none", "dump", "load", "row"}]
NoJob == [kind |-> "clone", at |-> "none"]

TypeOK ==
  /\ status \in [Projects -> Statuses]
  /\ mode \in [Projects -> Modes]
  /\ fresh \in [Projects -> BOOLEAN]
  /\ keepAwake \in [Projects -> BOOLEAN]
  /\ expired \in [Projects -> BOOLEAN]
  /\ login \in [Projects -> BOOLEAN]
  /\ conns \in [Projects -> BOOLEAN]
  /\ pausedFile \in [Projects -> BOOLEAN]
  /\ parked \in [Projects -> BOOLEAN]
  /\ inst \in [Projects -> BOOLEAN]
  /\ running \in [Projects -> BOOLEAN]
  /\ sidecars \in [Projects -> SUBSET {"api", "hub"}]
  /\ proxy \in [Projects -> BOOLEAN]
  /\ h \in [Workers -> [at : HandlerSteps, p : Projects \cup {NoProject}]]
  /\ sampler \in [at : SamplerSteps,
                  todo : SUBSET (Projects \X Modes),
                  up : SUBSET Projects]
  /\ job \in [Projects -> Jobs]
  /\ starts \in 0..MaxStarts
  /\ drift \in [Projects -> {"none", "now", "past"}]
  /\ locked \in [Projects -> BOOLEAN]

Init ==
  /\ mode \in [Projects -> InitModes]
  /\ status \in [Projects -> InitStatuses]
  /\ \A p \in Projects : status[p] = "cloning" => mode[p] = "shared"
  /\ fresh = [p \in Projects |-> TRUE]
  /\ keepAwake = [p \in Projects |-> FALSE]
  /\ expired = [p \in Projects |-> FALSE]
  /\ login = [p \in Projects |-> TRUE]
  /\ conns = [p \in Projects |-> FALSE]
  /\ pausedFile = [p \in Projects |-> FALSE]
  /\ parked = [p \in Projects |-> FALSE]
  /\ inst = [p \in Projects |-> mode[p] = "instance"]
  /\ running = inst
  /\ sidecars = [p \in Projects |-> {}]
  /\ proxy = [p \in Projects |-> FALSE]
  /\ h = [w \in Workers |-> Idle]
  /\ sampler = [at |-> "sync", todo |-> {}, up |-> {}]
  /\ job \in [Projects -> Jobs]
  /\ \A p \in Projects :
       IF status[p] = "cloning" THEN job[p].at = "dump" ELSE job[p] = NoJob
  /\ starts = 0
  /\ drift = [p \in Projects |-> "none"]
  /\ locked = [p \in Projects |-> FALSE]

-----------------------------------------------------------------------------
(***************************************************************************)
(* History: which projects were touched by more than one actor at once.    *)
(***************************************************************************)
SamplerOn == {x[1] : x \in sampler.todo}

Busy(p) ==
  \/ \E w \in Workers : h[w].at # "idle" /\ h[w].p = p
  \/ p \in SamplerOn
  \/ job[p].at # "none"
  \/ proxy[p]

\* Drift after a new actor starts on p: "now" marks the current flight as
\* overlapped, "past" remembers an overlap nobody repaired yet.
DriftOnStart(p) == IF Busy(p) THEN "now"
                   ELSE IF drift[p] = "now" THEN "past" ELSE drift[p]
MarkStart(S)    == drift' = [p \in Projects |-> IF p \in S THEN DriftOnStart(p)
                                                ELSE drift[p]]
MarkFailure(p)  == drift' = [drift EXCEPT ![p] = "now"]
\* A pause or a resume that ran alone from start to end rewrites both the
\* row and the lockout, whatever earlier overlaps left behind.
MarkRepair(p)   == drift' = [drift EXCEPT ![p] = IF @ = "now" THEN @ ELSE "none"]

Begin(w, p, op, step) ==
  /\ op \in Ops
  /\ h[w].at = "idle"
  /\ starts < MaxStarts
  /\ starts' = starts + 1
  /\ h' = [h EXCEPT ![w] = [at |-> step, p |-> p]]
  /\ MarkStart({p})

Goto(w, from, to) ==
  /\ h[w].at = from
  /\ h' = [h EXCEPT ![w] = IF to = "idle" THEN Idle ELSE [@ EXCEPT !.at = to]]

\* A statement of a handler touches neither the sampler nor the jobs.
Elsewhere == UNCHANGED <<sampler, job, starts>>

\* Can a database client log in? Shared: the role has LOGIN. Instance: the
\* cold-start proxy finds no lockout file.
Reachable(p) == IF mode[p] = "shared" THEN login[p] /\ ~parked[p]
                ELSE ~pausedFile[p]

-----------------------------------------------------------------------------
(***************************************************************************)
(* pauseProject: the explicit hard lockout.                                *)
(***************************************************************************)
Pause(w, p) ==
  /\ Begin(w, p, "pause", IF mode[p] = "shared" THEN "pauseNologin"
                          ELSE "pauseFile")
  /\ UNCHANGED <<row, infra, sampler, job, locked>>

PauseNologin(w) ==
  /\ Goto(w, "pauseNologin", "pauseTerminate")
  /\ login' = [login EXCEPT ![h[w].p] = FALSE]
  /\ UNCHANGED <<row, conns, pausedFile, parked, inst, running, sidecars, proxy, drift, locked>>
  /\ Elsewhere

PauseTerminate(w) ==
  /\ Goto(w, "pauseTerminate", "pauseRow")
  /\ conns' = [conns EXCEPT ![h[w].p] = FALSE]
  /\ UNCHANGED <<row, login, pausedFile, parked, inst, running, sidecars, proxy, drift, locked>>
  /\ Elsewhere

PauseFile(w) ==
  /\ Goto(w, "pauseFile", "pauseStop")
  /\ pausedFile' = [pausedFile EXCEPT ![h[w].p] = TRUE]
  /\ UNCHANGED <<row, login, conns, parked, inst, running, sidecars, proxy, drift, locked>>
  /\ Elsewhere

\* docker stop; its failure or timeout is ignored by the handler.
PauseStop(w) ==
  /\ Goto(w, "pauseStop", "pauseSidecars")
  /\ \/ /\ running' = [running EXCEPT ![h[w].p] = FALSE]
        /\ UNCHANGED drift
     \/ /\ MarkFailure(h[w].p)
        /\ UNCHANGED running
  /\ UNCHANGED <<row, login, conns, pausedFile, parked, inst, sidecars, proxy, locked>>
  /\ Elsewhere

PauseSidecars(w) ==
  /\ Goto(w, "pauseSidecars", "pauseRow")
  /\ sidecars' = [sidecars EXCEPT ![h[w].p] = {}]
  /\ UNCHANGED <<row, login, conns, pausedFile, parked, inst, running, proxy, drift, locked>>
  /\ Elsewhere

PauseRow(w) ==
  /\ Goto(w, "pauseRow", "idle")
  /\ status' = [status EXCEPT ![h[w].p] = "paused"]
  /\ locked' = [locked EXCEPT ![h[w].p] = TRUE]
  /\ MarkRepair(h[w].p)
  /\ UNCHANGED <<mode, fresh, keepAwake, expired, infra>>
  /\ Elsewhere

(***************************************************************************)
(* resumeProject: lift the lockout, then mark the row active.              *)
(***************************************************************************)
Resume(w, p) ==
  /\ Begin(w, p, "resume", IF mode[p] = "shared" THEN "resumeLogin"
                           ELSE "resumeFile")
  /\ UNCHANGED <<row, infra, sampler, job, locked>>

ResumeLogin(w) ==
  /\ Goto(w, "resumeLogin", "resumeRow")
  /\ login' = [login EXCEPT ![h[w].p] = TRUE]
  /\ locked' = [locked EXCEPT ![h[w].p] = FALSE]
  /\ UNCHANGED <<row, conns, pausedFile, parked, inst, running, sidecars, proxy, drift>>
  /\ Elsewhere

ResumeFile(w) ==
  /\ Goto(w, "resumeFile", "resumeStart")
  /\ pausedFile' = [pausedFile EXCEPT ![h[w].p] = FALSE]
  /\ locked' = [locked EXCEPT ![h[w].p] = FALSE]
  /\ UNCHANGED <<row, login, conns, parked, inst, running, sidecars, proxy, drift>>
  /\ Elsewhere

\* A failed start returns at once: the file is gone, the row still paused.
ResumeStart(w) ==
  /\ \/ /\ Goto(w, "resumeStart", "resumeRow")
        /\ running' = [running EXCEPT ![h[w].p] = inst[h[w].p]]
        /\ UNCHANGED drift
     \/ /\ Goto(w, "resumeStart", "idle")
        /\ MarkFailure(h[w].p)
        /\ UNCHANGED running
  /\ UNCHANGED <<row, login, conns, pausedFile, parked, inst, sidecars, proxy, locked>>
  /\ Elsewhere

ResumeRow(w) ==
  /\ Goto(w, "resumeRow", "idle")
  /\ status' = [status EXCEPT ![h[w].p] = "active"]
  /\ fresh' = [fresh EXCEPT ![h[w].p] = @ \/ mode[h[w].p] = "instance"]
  /\ locked' = [locked EXCEPT ![h[w].p] = FALSE]
  /\ MarkRepair(h[w].p)
  /\ UNCHANGED <<mode, keepAwake, expired, infra>>
  /\ Elsewhere

\* ALTER ROLE failed: the handler returns an error and has changed nothing.
AlterRoleFails(w) ==
  /\ \/ Goto(w, "pauseNologin", "idle")
     \/ Goto(w, "resumeLogin", "idle")
  /\ UNCHANGED <<row, infra, drift, locked>>
  /\ Elsewhere

(***************************************************************************)
(* sleepProject: release resources, never block logins.                    *)
(***************************************************************************)
Sleep(w, p) ==
  /\ Begin(w, p, "sleep", IF mode[p] = "shared" THEN "sleepSidecars"
                          ELSE "sleepStop")
  /\ UNCHANGED <<row, infra, sampler, job, locked>>

SleepStop(w) ==
  /\ Goto(w, "sleepStop", "sleepSidecars")
  /\ running' = [running EXCEPT ![h[w].p] = FALSE]
  /\ UNCHANGED <<row, login, conns, pausedFile, parked, inst, sidecars, proxy, drift, locked>>
  /\ Elsewhere

SleepSidecars(w) ==
  /\ Goto(w, "sleepSidecars", "sleepRow")
  /\ sidecars' = [sidecars EXCEPT ![h[w].p] = {}]
  /\ UNCHANGED <<row, login, conns, pausedFile, parked, inst, running, proxy, drift, locked>>
  /\ Elsewhere

\* UPDATE ... SET status='suspended' without its AND status='active'.
SleepRowUnguarded(w) ==
  /\ Goto(w, "sleepRow", "idle")
  /\ status' = [status EXCEPT ![h[w].p] = "suspended"]
  /\ UNCHANGED <<mode, fresh, keepAwake, expired, infra, drift, locked>>
  /\ Elsewhere

SleepRow(w) ==
  /\ Goto(w, "sleepRow", "idle")
  /\ status' = [status EXCEPT ![h[w].p] = IF @ = "active" THEN "suspended" ELSE @]
  /\ UNCHANGED <<mode, fresh, keepAwake, expired, infra, drift, locked>>
  /\ Elsewhere

(***************************************************************************)
(* wakeProject: every side effect is gated on the row leaving 'suspended'. *)
(***************************************************************************)
Wake(w, p) ==
  /\ Begin(w, p, "wake", IF mode[p] = "shared" THEN "wakeRow" ELSE "wakeRowInst")
  /\ UNCHANGED <<row, infra, sampler, job, locked>>

\* The UPDATE ... WHERE status='suspended' RETURNING slug of both wakes.
WakeUpdate(w, from, next) ==
  /\ Goto(w, from, IF status[h[w].p] = "suspended" THEN next ELSE "idle")
  /\ status' = [status EXCEPT ![h[w].p] = IF @ = "suspended" THEN "active" ELSE @]
  /\ fresh' = [fresh EXCEPT ![h[w].p] = @ \/ status[h[w].p] = "suspended"]
  /\ UNCHANGED <<mode, keepAwake, expired, infra, drift, locked>>
  /\ Elsewhere

WakeRow(w)     == WakeUpdate(w, "wakeRow", "wakeLogin")
WakeRowInst(w) == WakeUpdate(w, "wakeRowInst", "wakeStart")

WakeLogin(w) ==
  /\ Goto(w, "wakeLogin", "wakeHub")
  /\ login' = [login EXCEPT ![h[w].p] = TRUE]
  /\ UNCHANGED <<row, conns, pausedFile, parked, inst, running, sidecars, proxy, drift, locked>>
  /\ Elsewhere

\* pg-instance.sh start does not look at the lockout file; it may fail.
WakeStart(w) ==
  /\ Goto(w, "wakeStart", "idle")
  /\ \/ running' = [running EXCEPT ![h[w].p] = inst[h[w].p]]
     \/ UNCHANGED running
  /\ UNCHANGED <<row, login, conns, pausedFile, parked, inst, sidecars, proxy, drift, locked>>
  /\ Elsewhere

StartHub(p) ==
  sidecars' = [sidecars EXCEPT ![p] = IF p \in Webhooks THEN @ \cup {"hub"} ELSE @]

WakeHub(w) ==
  /\ Goto(w, "wakeHub", "idle")
  /\ StartHub(h[w].p)
  /\ UNCHANGED <<row, login, conns, pausedFile, parked, inst, running, proxy, drift, locked>>
  /\ Elsewhere

(***************************************************************************)
(* serveAPI: touchAndResume, then the request itself.                      *)
(***************************************************************************)
Request(w, p) ==
  /\ Begin(w, p, "request", "touchRow")
  /\ UNCHANGED <<row, infra, sampler, job, locked>>

TouchRow(w) ==
  /\ Goto(w, "touchRow", IF status[h[w].p] = "suspended" THEN "touchLogin" ELSE "serve")
  /\ status' = [status EXCEPT ![h[w].p] = IF @ = "suspended" THEN "active" ELSE @]
  /\ fresh' = [fresh EXCEPT ![h[w].p] = TRUE]
  /\ UNCHANGED <<mode, keepAwake, expired, infra, drift, locked>>
  /\ Elsewhere

TouchLogin(w) ==
  /\ Goto(w, "touchLogin", "touchHub")
  /\ login' = [login EXCEPT ![h[w].p] = TRUE]
  /\ UNCHANGED <<row, conns, pausedFile, parked, inst, running, sidecars, proxy, drift, locked>>
  /\ Elsewhere

TouchHub(w) ==
  /\ Goto(w, "touchHub", "serve")
  /\ StartHub(h[w].p)
  /\ UNCHANGED <<row, login, conns, pausedFile, parked, inst, running, proxy, drift, locked>>
  /\ Elsewhere

\* /rest/v1 keeps the Data API process only if it reached the database;
\* /realtime/v1 opens the hub; other requests start nothing.
Serve(w) ==
  LET p == h[w].p IN
  /\ Goto(w, "serve", "idle")
  /\ \/ /\ Reachable(p)
        /\ mode[p] = "instance" => running[p]
        /\ sidecars' = [sidecars EXCEPT ![p] = @ \cup {"api"}]
     \/ sidecars' = [sidecars EXCEPT ![p] = @ \cup {"hub"}]
     \/ UNCHANGED sidecars
  /\ UNCHANGED <<row, login, conns, pausedFile, parked, inst, running, proxy, drift, locked>>
  /\ Elsewhere

(***************************************************************************)
(* migrateToInstance: create, copy, park the shared database, flip the row.*)
(***************************************************************************)
Migrate(w, p) ==
  /\ mode[p] = "shared"
  /\ Begin(w, p, "migrate", "migCreate")
  /\ UNCHANGED <<row, infra, sampler, job, locked>>

\* A subvolume left behind by an earlier attempt makes create fail; so does
\* a container that does not start, and that leaves its subvolume behind.
MigCreate(w) ==
  LET p == h[w].p IN
  /\ \/ /\ Goto(w, "migCreate", IF inst[p] THEN "idle" ELSE "migCopy")
        /\ running' = [running EXCEPT ![p] = @ \/ ~inst[p]]
     \/ /\ Goto(w, "migCreate", "idle")
        /\ UNCHANGED running
  /\ inst' = [inst EXCEPT ![p] = TRUE]
  /\ UNCHANGED <<row, login, conns, pausedFile, parked, sidecars, proxy, drift, locked>>
  /\ Elsewhere

\* pg_dump | pg_restore; a failed copy deletes the instance again.
MigCopy(w) ==
  LET p == h[w].p IN
  /\ \/ /\ Goto(w, "migCopy", "migFlip")
        /\ ~parked[p]
        /\ UNCHANGED <<inst, running>>
     \/ /\ Goto(w, "migCopy", "idle")
        /\ inst' = [inst EXCEPT ![p] = FALSE]
        /\ running' = [running EXCEPT ![p] = FALSE]
  /\ UNCHANGED <<row, login, conns, pausedFile, parked, sidecars, proxy, drift, locked>>
  /\ Elsewhere

\* Stop the sidecars, close the pool, terminate the remaining backends.
MigFlip(w) ==
  /\ Goto(w, "migFlip", "migPark")
  /\ sidecars' = [sidecars EXCEPT ![h[w].p] = {}]
  /\ conns' = [conns EXCEPT ![h[w].p] = FALSE]
  /\ UNCHANGED <<row, login, pausedFile, parked, inst, running, proxy, drift, locked>>
  /\ Elsewhere

\* ALTER DATABASE RENAME is refused while a client is connected again; the
\* handler then returns and leaves the new instance behind.
MigPark(w) ==
  LET p == h[w].p IN
  /\ Goto(w, "migPark", IF conns[p] \/ parked[p] THEN "idle" ELSE "migRow")
  /\ parked' = [parked EXCEPT ![p] = @ \/ ~conns[p]]
  /\ UNCHANGED <<row, login, conns, pausedFile, inst, running, sidecars, proxy, drift, locked>>
  /\ Elsewhere

MigRow(w) ==
  LET p == h[w].p IN
  /\ Goto(w, "migRow", "idle")
  /\ mode' = [mode EXCEPT ![p] = "instance"]
  /\ status' = [status EXCEPT ![p] = "active"]
  /\ fresh' = [fresh EXCEPT ![p] = TRUE]
  /\ locked' = [locked EXCEPT ![p] = FALSE]
  /\ UNCHANGED <<keepAwake, expired, infra, drift>>
  /\ Elsewhere

(***************************************************************************)
(* branchReset: drop the branch, copy it from its parent again.            *)
(***************************************************************************)
Reset(w, p) ==
  /\ p \in Branches
  /\ Begin(w, p, "reset", IF mode[p] = "shared" THEN "resetStop" ELSE "resetDelete")
  /\ UNCHANGED <<row, infra, sampler, job, locked>>

\* Stop the sidecars, close the pool, terminate the backends.
ResetStop(w) ==
  /\ Goto(w, "resetStop", "resetDrop")
  /\ sidecars' = [sidecars EXCEPT ![h[w].p] = {}]
  /\ conns' = [conns EXCEPT ![h[w].p] = FALSE]
  /\ UNCHANGED <<row, login, pausedFile, parked, inst, running, proxy, drift, locked>>
  /\ Elsewhere

\* DROP DATABASE is refused while a client is connected again.
ResetDrop(w) ==
  LET p == h[w].p IN
  /\ Goto(w, "resetDrop", IF conns[p] THEN "idle" ELSE "resetRow")
  /\ parked' = [parked EXCEPT ![p] = @ \/ ~conns[p]]
  /\ UNCHANGED <<row, login, conns, pausedFile, inst, running, sidecars, proxy, drift, locked>>
  /\ Elsewhere

\* A reset undoes only half of a pause: it activates the row of a locked-out
\* role, or starts the container behind the lockout file.
MarkHalfUndone(p) ==
  drift' = [drift EXCEPT ![p] = IF status[p] = "paused" THEN "now" ELSE @]

\* CREATE DATABASE ... TEMPLATE and the UPDATE; a failed copy leaves the
\* branch without a database.
ResetRow(w) ==
  LET p == h[w].p IN
  /\ Goto(w, "resetRow", "idle")
  /\ \/ /\ parked' = [parked EXCEPT ![p] = FALSE]
        /\ status' = [status EXCEPT ![p] = "active"]
        /\ locked' = [locked EXCEPT ![p] = FALSE]
        /\ MarkHalfUndone(p)
     \/ UNCHANGED <<parked, status, locked, drift>>
  /\ UNCHANGED <<mode, fresh, keepAwake, expired, login, conns, pausedFile, inst,
                 running, sidecars, proxy>>
  /\ Elsewhere

ResetDelete(w) ==
  /\ Goto(w, "resetDelete", "resetBranch")
  /\ inst' = [inst EXCEPT ![h[w].p] = FALSE]
  /\ running' = [running EXCEPT ![h[w].p] = FALSE]
  /\ UNCHANGED <<row, login, conns, pausedFile, parked, sidecars, proxy, drift, locked>>
  /\ Elsewhere

\* pg-instance.sh branch; it may fail before the snapshot or after the start.
ResetBranch(w) ==
  /\ Goto(w, "resetBranch", "idle")
  /\ \E made \in BOOLEAN :
       /\ inst' = [inst EXCEPT ![h[w].p] = made]
       /\ running' = [running EXCEPT ![h[w].p] = made]
  /\ MarkHalfUndone(h[w].p)
  /\ UNCHANGED <<row, login, conns, pausedFile, parked, sidecars, proxy, locked>>
  /\ Elsewhere

SetKeepAwake(p) ==
  /\ "keepAwake" \in Ops
  /\ starts < MaxStarts
  /\ starts' = starts + 1
  /\ keepAwake' = [keepAwake EXCEPT ![p] = ~@]
  /\ UNCHANGED <<status, mode, fresh, expired, infra, h, sampler, job, drift, locked>>

-----------------------------------------------------------------------------
(***************************************************************************)
(* Background jobs: runClone (clone, sync refresh) and runPITR.            *)
(***************************************************************************)
\* refreshSync re-runs the clone whatever the project's status. (The code
\* also accepts a second refresh while one runs; one job per project here.)
Refresh(p) ==
  /\ "refresh" \in Ops
  /\ starts < MaxStarts
  /\ job[p].at = "none"
  /\ starts' = starts + 1
  /\ job' = [job EXCEPT ![p] = [kind |-> "clone", at |-> "dump"]]
  /\ MarkStart({p})
  /\ UNCHANGED <<row, infra, h, sampler, locked>>

JobGoto(p, from, to) ==
  /\ job[p].at = from
  /\ job' = [job EXCEPT ![p] = IF to = "none" THEN NoJob ELSE [@ EXCEPT !.at = to]]
  /\ UNCHANGED <<mode, fresh, keepAwake, expired, infra, h, sampler, starts, drift, locked>>

\* The dump of the source may fail: the row keeps the status it has.
JobDump(p) ==
  /\ JobGoto(p, "dump", "load") \/ JobGoto(p, "dump", "none")
  /\ UNCHANGED status

\* pg_restore logs in on the shared cluster as the project's role. A clone
\* that finds no table afterwards ends in error (a refresh has emptied the
\* schema first, so nothing but a restore fills it); a PITR job goes on.
JobLoad(p) ==
  /\ \/ /\ job[p].kind = "pitr" \/ (mode[p] = "shared" /\ Reachable(p))
        /\ JobGoto(p, "load", "row")
     \/ /\ job[p].kind = "clone"
        /\ JobGoto(p, "load", "none")
  /\ UNCHANGED status

\* UPDATE projects SET status='active', whatever the status is by now.
JobRow(p) ==
  /\ JobGoto(p, "row", "none")
  /\ status' = [status EXCEPT ![p] = "active"]

JobStep == \E p \in Projects : JobDump(p) \/ JobLoad(p) \/ JobRow(p)

-----------------------------------------------------------------------------
(***************************************************************************)
(* pgproxy (a process of its own), the reaper timer, clients and time.     *)
(***************************************************************************)
Outside == UNCHANGED <<status, mode, keepAwake, login, pausedFile, parked, inst,
                       sidecars, h, sampler, job, starts, locked>>

\* coldStart: os.Stat of the lockout file, then pg-instance.sh start.
ProxyCheck(p) ==
  /\ mode[p] = "instance"
  /\ ~proxy[p]
  /\ ~pausedFile[p]
  /\ proxy' = [proxy EXCEPT ![p] = TRUE]
  /\ MarkStart({p})
  /\ UNCHANGED <<fresh, expired, conns, running>>
  /\ Outside

ProxyStart(p) ==
  /\ proxy[p]
  /\ proxy' = [proxy EXCEPT ![p] = FALSE]
  /\ \/ running' = [running EXCEPT ![p] = inst[p]]
     \/ UNCHANGED running
  /\ UNCHANGED <<fresh, expired, conns, drift>>
  /\ Outside

\* pg-instance.sh reap stops any container idle for 15 minutes.
InstanceReap(p) ==
  /\ running[p]
  /\ running' = [running EXCEPT ![p] = FALSE]
  /\ UNCHANGED <<fresh, expired, conns, proxy, drift>>
  /\ Outside

ClientConnect(p) ==
  /\ mode[p] = "shared"
  /\ login[p] /\ ~parked[p]
  /\ ~conns[p]
  /\ conns' = [conns EXCEPT ![p] = TRUE]
  /\ UNCHANGED <<fresh, expired, running, proxy, drift>>
  /\ Outside

ClientDisconnect(p) ==
  /\ conns[p]
  /\ conns' = [conns EXCEPT ![p] = FALSE]
  /\ UNCHANGED <<fresh, expired, running, proxy, drift>>
  /\ Outside

\* The auto-suspend window, or the expiry date of a branch, elapses.
WindowElapses(p) ==
  /\ fresh[p]
  /\ fresh' = [fresh EXCEPT ![p] = FALSE]
  /\ UNCHANGED <<expired, conns, running, proxy, drift>>
  /\ Outside

ExpiryElapses(p) ==
  /\ p \in Branches
  /\ ~expired[p]
  /\ expired' = [expired EXCEPT ![p] = TRUE]
  /\ UNCHANGED <<fresh, conns, running, proxy, drift>>
  /\ Outside

\* The control plane restarts (crash or self-update): every handler, the
\* sampler, the jobs and the child processes die; startWebhookPumps opens
\* the hubs of active projects only.
Crash ==
  /\ "crash" \in Ops
  /\ starts < MaxStarts
  /\ starts' = starts + 1
  /\ h' = [w \in Workers |-> Idle]
  /\ sampler' = [at |-> "sync", todo |-> {}, up |-> {}]
  /\ job' = [p \in Projects |-> NoJob]
  /\ sidecars' = [p \in Projects |->
                    IF p \in Webhooks /\ status[p] = "active" THEN {"hub"} ELSE {}]
  /\ drift' = [p \in Projects |-> IF Busy(p) THEN "now" ELSE drift[p]]
  /\ UNCHANGED <<row, login, conns, pausedFile, parked, inst, running, proxy, locked>>

-----------------------------------------------------------------------------
(***************************************************************************)
(* sampleOnce: syncInstanceStatus, expireBranches, autoSuspend, the reaps. *)
(***************************************************************************)
SamplerGoto(to, todo) == sampler' = [sampler EXCEPT !.at = to, !.todo = todo]
Head     == CHOOSE x \in sampler.todo : TRUE
Slug     == Head[1]
Rest     == sampler.todo \ {Head}
With(S)  == {<<p, mode[p]>> : p \in S}
\* After the last row of a list the pass moves on to its next phase.
Advance(again, next) == SamplerGoto(IF Rest = {} THEN next ELSE again, Rest)
Handlers == UNCHANGED <<h, job, starts>>

SelectRows(S, found, none) ==
  /\ SamplerGoto(IF S = {} THEN none ELSE found, With(S))
  /\ MarkStart(S)

\* SELECT the instance projects that are active or suspended ...
SyncSelect ==
  /\ sampler.at = "sync"
  /\ SelectRows({p \in Projects : mode[p] = "instance"
                                  /\ status[p] \in {"active", "suspended"}},
                "ps", "expire")
  /\ UNCHANGED <<row, infra, locked>>
  /\ Handlers

\* The "pgi-" prefix left on, no container name equals a slug.
PsSnapshotUntrimmed ==
  /\ sampler.at = "ps"
  /\ sampler' = [sampler EXCEPT !.at = "syncRow", !.up = {}]
  /\ UNCHANGED <<row, infra, drift, locked>>
  /\ Handlers

\* ... then docker ps ...
PsSnapshot ==
  /\ sampler.at = "ps"
  /\ sampler' = [sampler EXCEPT !.at = "syncRow",
                                !.up = {p \in Projects : running[p]}]
  /\ UNCHANGED <<row, infra, drift, locked>>
  /\ Handlers

PsFails ==
  /\ sampler.at = "ps"
  /\ SamplerGoto("expire", {})
  /\ UNCHANGED <<row, infra, drift, locked>>
  /\ Handlers

\* ... then one guarded UPDATE per project.
SyncRowUnguarded ==
  /\ sampler.at = "syncRow"
  /\ status' = [status EXCEPT ![Slug] = IF Slug \in sampler.up THEN "active"
                                        ELSE "suspended"]
  /\ sampler' = [sampler EXCEPT !.at = IF Rest = {} THEN "expire" ELSE "syncRow",
                                !.todo = Rest, !.up = IF Rest = {} THEN {} ELSE @]
  /\ UNCHANGED <<mode, fresh, keepAwake, expired, infra, drift, locked>>
  /\ Handlers

SyncRow ==
  /\ sampler.at = "syncRow"
  /\ status' = [status EXCEPT ![Slug] =
                  IF Slug \in sampler.up
                  THEN IF @ = "suspended" THEN "active" ELSE @
                  ELSE IF @ = "active" THEN "suspended" ELSE @]
  /\ fresh' = [fresh EXCEPT ![Slug] = @ \/ (Slug \in sampler.up /\ status[Slug] = "suspended")]
  /\ sampler' = [sampler EXCEPT !.at = IF Rest = {} THEN "expire" ELSE "syncRow",
                                !.todo = Rest, !.up = IF Rest = {} THEN {} ELSE @]
  /\ UNCHANGED <<mode, keepAwake, expired, infra, drift, locked>>
  /\ Handlers

\* expireBranches: lock out branches past their expiry, as a pause would.
ExpireSelect ==
  /\ sampler.at = "expire"
  /\ SelectRows({p \in Branches : expired[p] /\ status[p] \in {"active", "suspended"}},
                "expLock", "bump")
  /\ UNCHANGED <<row, infra, locked>>
  /\ Handlers

ExpLock ==
  /\ sampler.at = "expLock"
  /\ SamplerGoto("expKill", sampler.todo)
  /\ IF Head[2] = "instance"
     THEN /\ pausedFile' = [pausedFile EXCEPT ![Slug] = TRUE]
          /\ UNCHANGED login
     ELSE /\ login' = [login EXCEPT ![Slug] = FALSE]
          /\ UNCHANGED pausedFile
  /\ UNCHANGED <<row, conns, parked, inst, running, sidecars, proxy, drift, locked>>
  /\ Handlers

ExpKill ==
  /\ sampler.at = "expKill"
  /\ SamplerGoto("expSidecars", sampler.todo)
  /\ IF Head[2] = "instance"
     THEN /\ running' = [running EXCEPT ![Slug] = FALSE]
          /\ UNCHANGED conns
     ELSE /\ conns' = [conns EXCEPT ![Slug] = FALSE]
          /\ UNCHANGED running
  /\ UNCHANGED <<row, login, pausedFile, parked, inst, sidecars, proxy, drift, locked>>
  /\ Handlers

ExpSidecars ==
  /\ sampler.at = "expSidecars"
  /\ SamplerGoto("expRow", sampler.todo)
  /\ sidecars' = [sidecars EXCEPT ![Slug] = {}]
  /\ UNCHANGED <<row, login, conns, pausedFile, parked, inst, running, proxy, drift, locked>>
  /\ Handlers

ExpRow ==
  /\ sampler.at = "expRow"
  /\ Advance("expLock", "bump")
  /\ status' = [status EXCEPT ![Slug] = "paused"]
  /\ locked' = [locked EXCEPT ![Slug] = TRUE]
  /\ MarkRepair(Slug)
  /\ UNCHANGED <<mode, fresh, keepAwake, expired, infra>>
  /\ Handlers

\* autoSuspend 1): client connections count as activity.
Bump ==
  /\ sampler.at = "bump"
  /\ SamplerGoto("wake", {})
  /\ fresh' = [p \in Projects |-> fresh[p] \/ conns[p]]
  /\ UNCHANGED <<status, mode, keepAwake, expired, infra, drift, locked>>
  /\ Handlers

\* autoSuspend 2): one UPDATE wakes every sleeper with a direct connection.
DirectWakeNothing ==
  /\ sampler.at = "wake"
  /\ SamplerGoto("idle", {})
  /\ UNCHANGED <<row, infra, drift, locked>>
  /\ Handlers

DirectWake ==
  LET S == {p \in Projects : status[p] = "suspended" /\ conns[p]} IN
  /\ sampler.at = "wake"
  /\ SelectRows(S, "wakeHubs", "idle")
  /\ status' = [p \in Projects |-> IF p \in S THEN "active" ELSE status[p]]
  /\ fresh' = [p \in Projects |-> fresh[p] \/ p \in S]
  /\ UNCHANGED <<mode, keepAwake, expired, infra, locked>>
  /\ Handlers

DirectWakeHub ==
  /\ sampler.at = "wakeHubs"
  /\ Advance("wakeHubs", "idle")
  /\ StartHub(Slug)
  /\ UNCHANGED <<row, login, conns, pausedFile, parked, inst, running, proxy, drift, locked>>
  /\ Handlers

\* last_active compared the wrong way round.
IdleSelectFresh ==
  /\ sampler.at = "idle"
  /\ SelectRows({p \in Projects : status[p] = "active" /\ ~keepAwake[p]
                                  /\ mode[p] # "instance" /\ fresh[p]},
                "idleSidecars", "reap")
  /\ UNCHANGED <<row, infra, locked>>
  /\ Handlers

\* autoSuspend 3): list the idle projects once ...
IdleSelect ==
  /\ sampler.at = "idle"
  /\ SelectRows({p \in Projects : status[p] = "active" /\ ~keepAwake[p]
                                  /\ mode[p] # "instance" /\ ~fresh[p]},
                "idleSidecars", "reap")
  /\ UNCHANGED <<row, infra, locked>>
  /\ Handlers

IdleSidecars ==
  /\ sampler.at = "idleSidecars"
  /\ SamplerGoto("idleRow", sampler.todo)
  /\ sidecars' = [sidecars EXCEPT ![Slug] = {}]
  /\ UNCHANGED <<row, login, conns, pausedFile, parked, inst, running, proxy, drift, locked>>
  /\ Handlers

\* A status no other statement of the code knows.
IdleRowSleeping ==
  /\ sampler.at = "idleRow"
  /\ Advance("idleSidecars", "reap")
  /\ status' = [status EXCEPT ![Slug] = "sleeping"]
  /\ UNCHANGED <<mode, fresh, keepAwake, expired, infra, drift, locked>>
  /\ Handlers

\* ... and mark each row suspended, with no guard on its current status.
IdleRow ==
  /\ sampler.at = "idleRow"
  /\ Advance("idleSidecars", "reap")
  /\ status' = [status EXCEPT ![Slug] = "suspended"]
  /\ UNCHANGED <<mode, fresh, keepAwake, expired, infra, drift, locked>>
  /\ Handlers

\* reapPostgREST and reapRealtimeHubs: pinned projects are exempt, and so
\* are the hubs that serve webhooks. Which sidecars were idle is open.
Reap ==
  /\ sampler.at = "reap"
  /\ SamplerGoto("sync", {})
  /\ \E idle \in SUBSET {p \in Projects : ~keepAwake[p]} :
       sidecars' = [p \in Projects |->
                      IF p \notin idle THEN sidecars[p]
                      ELSE IF p \in Webhooks THEN sidecars[p] \ {"api"} ELSE {}]
  /\ UNCHANGED <<row, login, conns, pausedFile, parked, inst, running, proxy, drift, locked>>
  /\ Handlers

SamplerStep ==
  \/ SyncSelect \/ PsSnapshot \/ PsFails \/ SyncRow
  \/ ExpireSelect \/ ExpLock \/ ExpKill \/ ExpSidecars \/ ExpRow
  \/ Bump \/ DirectWake \/ DirectWakeHub
  \/ IdleSelect \/ IdleSidecars \/ IdleRow \/ Reap

HandlerStep(w) ==
  \/ PauseNologin(w) \/ PauseTerminate(w) \/ PauseFile(w) \/ PauseStop(w)
  \/ PauseSidecars(w) \/ PauseRow(w)
  \/ ResumeLogin(w) \/ ResumeFile(w) \/ ResumeStart(w) \/ ResumeRow(w)
  \/ AlterRoleFails(w)
  \/ SleepStop(w) \/ SleepSidecars(w) \/ SleepRow(w)
  \/ WakeRow(w) \/ WakeRowInst(w) \/ WakeLogin(w) \/ WakeStart(w) \/ WakeHub(w)
  \/ TouchRow(w) \/ TouchLogin(w) \/ TouchHub(w) \/ Serve(w)
  \/ MigCreate(w) \/ MigCopy(w) \/ MigFlip(w) \/ MigPark(w) \/ MigRow(w)
  \/ ResetStop(w) \/ ResetDrop(w) \/ ResetRow(w) \/ ResetDelete(w) \/ ResetBranch(w)

Command ==
  \/ \E w \in Workers, p \in Projects :
       \/ Pause(w, p) \/ Resume(w, p) \/ Sleep(w, p) \/ Wake(w, p)
       \/ Request(w, p) \/ Migrate(w, p) \/ Reset(w, p)
  \/ \E p \in Projects : SetKeepAwake(p) \/ Refresh(p)

Environment ==
  \/ \E p \in Projects :
       \/ ProxyCheck(p) \/ ProxyStart(p) \/ InstanceReap(p)
       \/ ClientConnect(p) \/ ClientDisconnect(p)
       \/ WindowElapses(p) \/ ExpiryElapses(p)
  \/ Crash

Next ==
  \/ Command
  \/ \E w \in Workers : HandlerStep(w)
  \/ JobStep
  \/ SamplerStep
  \/ Environment

(***************************************************************************)
(* The sampler is a goroutine looping on a ticker, so it always takes its  *)
(* next step; docker ps answers again and again. Clients, operators,       *)
(* crashes and the passing of time are owed no fairness.                   *)
(***************************************************************************)
Spec == Init /\ [][Next]_vars /\ WF_vars(SamplerStep) /\ SF_vars(PsSnapshot)

-----------------------------------------------------------------------------
(***************************************************************************)
(* Properties.                                                             *)
(***************************************************************************)
\* Row, lockout and resources tell the same story about p.
Consistent(p) ==
  /\ status[p] = "paused" <=> ~Reachable(p)
  /\ mode[p] = "instance" /\ status[p] = "paused" => ~running[p]
  /\ mode[p] = "shared" /\ status[p] = "suspended" => sidecars[p] = {}

\* No handler, sampler pass, restore job or cold start, run to its end on its
\* own, leaves the row at odds with the role's LOGIN, the lockout file, the
\* container or the sidecars, after any sequence of them; and one pause,
\* resume or expiry that runs alone repairs what overlapping or failing
\* handlers left behind (pauseProject, resumeProject, sleepProject,
\* wakeProject, touchAndResume, autoSuspend, expireBranches, runClone).
\* Two exceptions: a branch reset undoes half of a pause (MarkHalfUndone), and
\* a project without a database (a crash between the two last statements of
\* migrateToInstance, a branch reset that fails half-way) is repaired by psql.
QuiescentConsistent ==
  \A p \in Projects :
    ~Busy(p) /\ drift[p] = "none" /\ ~(parked[p] /\ mode[p] = "shared")
      => Consistent(p)

\* The writers that may take the row of p out of 'paused' in the next step.
Unpauser(p) ==
  \/ \E w \in Workers : h[w].p = p /\ h[w].at \in {"resumeRow", "migRow", "resetRow"}
  \/ job[p].at = "row"
  \/ sampler.at = "idleRow" /\ p \in SamplerOn

\* Whatever interleaves, only five writers can take a row out of 'paused':
\* Resume, a finished migration, a branch reset, a finished restore job, and
\* the sampler's unguarded auto-suspend UPDATE. Waking, request traffic, manual
\* sleep and the docker-ps reconciliation never do (conditional UPDATEs).
UnpausedOnlyBy ==
  [][\A p \in Projects :
       status[p] = "paused" /\ status'[p] # "paused" => Unpauser(p)]_vars

\* An idle, unpinned shared project is not left awake forever: the
\* auto-suspend loop finds it, whatever else runs (autoSuspend, step 3).
IdleSleeps ==
  \A p \in Projects :
    ~<>[](status[p] = "active" /\ mode[p] = "shared" /\ ~fresh[p] /\ ~keepAwake[p])

\* A sleeping project with a direct database connection is noticed and woken
\* by the sampler; no HTTP request is needed (autoSuspend, step 2).
DirectConnectionWakes ==
  \A p \in Projects : ~<>[](status[p] = "suspended" /\ conns[p])

\* The panel's status of a dedicated instance does not disagree with its
\* container forever (syncInstanceStatus).
PanelFollowsContainer ==
  \A p \in Projects :
    /\ ~<>[](mode[p] = "instance" /\ status[p] = "active" /\ ~running[p])
    /\ ~<>[](mode[p] = "instance" /\ status[p] = "suspended" /\ running[p])

\* "Paused projects never auto-resume" (touchAndResume's comment): between an
\* operator's completed pause and the next resume the project is not active.
PausedNeverAutoResumes ==
  \A p \in Projects : locked[p] => status[p] # "active"

\* "a failed migration leaves the project exactly as it was" (comment of
\* migrateToInstance): no half-made instance outlives the handler.
MigrationLeavesNothing ==
  \A p \in Projects :
    mode[p] = "shared" /\ ~Busy(p) => ~inst[p]

=============================================================================
