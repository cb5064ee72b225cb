------------------------------- MODULE SelfUpdate -------------------------------
(***************************************************************************)
(* The panel's update of itself (src/pgforge/update.go, infra.go): the     *)
(* check for a release, the launch, and the script that pulls, builds,     *)
(* swaps the binary, restarts, looks at the health and rolls back.  The    *)
(* script runs outside the panel and outlives its restart; all the panel   *)
(* knows of it is update.log.  Releases are numbers, 0 is none.            *)
(***************************************************************************)
EXTENDS Naturals, FiniteSets

CONSTANTS
    Newest,         \* bound: the last release upstream makes
    Broken,         \* releases that do not answer /healthz
    Updaters,       \* runs of update.sh, as many as may be alive at once
    Admins,         \* requests and the hourly check, who may launch one
    Pulls           \* attempts of git pull (5)

ASSUME UpdateAssumption ==
    Newest \in Nat \ {0} /\ Pulls \in Nat \ {0} /\ Broken \subseteq 2..Newest

VARIABLES
    upstream,       \* what main is at
    checkout,       \* what the repository directory is at
    binary,         \* bin/pgforged, .prev and /tmp/pgforged.upd
    release,        \* the release that runs
    updLog,         \* update.log: what it says, and no write for ten minutes
    updater,        \* each run of the script
    admin,          \* who has seen that no update is in flight
    seen,           \* updCheck.info: newest known, and whether it is ahead
    infra,          \* scripts and units on the box, infra_rev, reconciled
    lied,           \* history: an update was launched beside a live one
    cut             \* history: the host went down under an update

updateVars == <<upstream, checkout, binary, release, updLog, updater, admin, seen, infra,
            lied, cut>>

Releases == 0..Newest
Gone == [pc |-> "none", try |-> 0, ver |-> 0, own |-> TRUE]
Stages == {"none", "begin", "pull", "build", "keep", "swap", "restart", "health", "infra", "restore",
           "again", "clean"}

UpdateTypeOK ==
    /\ upstream \in Releases /\ checkout \in Releases /\ release \in Releases
    /\ binary \in [bin : Releases, prev : Releases, built : Releases]
    /\ updLog \in [says : SUBSET {"OK", "rolled back", "failed"}, exists : BOOLEAN, quiet : BOOLEAN]
    /\ updater \in [Updaters -> [pc : Stages, try : 0..Pulls, ver : Releases, own : BOOLEAN]]
    /\ admin \in [Admins -> BOOLEAN]
    /\ seen \in [latest : Releases, behind : BOOLEAN, notified : Releases]
    /\ infra \in [scripts : Releases, rev : Releases, done : BOOLEAN]
    /\ lied \in BOOLEAN /\ cut \in BOOLEAN

Alive == {u \in Updaters : updater[u].pc # "none"}
Unknown == [latest |-> 0, behind |-> FALSE, notified |-> 0]

UpdateInit ==
    /\ upstream = 1 /\ checkout = 1 /\ release = 1
    /\ binary = [bin |-> 1, prev |-> 0, built |-> 0]
    /\ updLog = [says |-> {}, exists |-> FALSE, quiet |-> FALSE]
    /\ updater = [u \in Updaters |-> Gone]
    /\ admin = [a \in Admins |-> FALSE]
    /\ seen = Unknown
    /\ infra = [scripts |-> 1, rev |-> 1, done |-> TRUE]
    /\ lied = FALSE /\ cut = FALSE

-----------------------------------------------------------------------------
(* What the panel learns and decides.                                      *)

\* updateStatus: the newest tag, or the changelog's first release when it is
\* newer or the tags did not answer (0).
updateStatus(tag, notes) ==
    LET latest == IF tag # 0 /\ (notes = 0 \/ notes < tag) THEN tag ELSE notes
    IN [latest |-> latest, behind |-> latest > release, notified |-> seen.notified]

PanelAnswers == release \notin Broken

\* startUpdateChecker's pass up to its launch: announced once for a release.
HourlyCheck(tag, notes) ==
    /\ PanelAnswers
    /\ LET info == updateStatus(tag, notes)
       IN seen' = IF info.behind THEN [info EXCEPT !.notified = info.latest] ELSE info
    /\ UNCHANGED <<upstream, checkout, binary, release, updLog, updater, admin, infra, lied, cut>>

\* systemPage with ?check=1, refreshUpdateCache: nothing is announced.
ManualCheck(tag, notes) ==
    /\ PanelAnswers
    /\ seen' = updateStatus(tag, notes)
    /\ UNCHANGED <<upstream, checkout, binary, release, updLog, updater, admin, infra, lied, cut>>

\* Told from the log alone: any line with one of the three words ends it.
updateInFlight == updLog.exists /\ ~updLog.quiet /\ updLog.says = {}

\* applyUpdate's first look, of a request; the hourly check looks only when a
\* newer release is known, auto_update is on and the hour is right.
AskUpdate(a) ==
    /\ PanelAnswers /\ ~admin[a] /\ ~updateInFlight
    /\ admin' = [admin EXCEPT ![a] = TRUE]
    /\ UNCHANGED <<upstream, checkout, binary, release, updLog, updater, seen, infra, lied, cut>>

\* Without the second look under updLaunchMu.
LaunchUnchecked(a) ==
    /\ admin[a] /\ admin' = [admin EXCEPT ![a] = FALSE]
    /\ \E u \in Updaters \ Alive :
         updater' = [updater EXCEPT ![u] = [pc |-> "begin", try |-> 0, ver |-> 0,
                                            own |-> \A o \in Alive : ~updater[o].own]]
    /\ updLog' = [says |-> {}, exists |-> TRUE, quiet |-> FALSE]
    /\ lied' = (lied \/ (Alive # {} /\ ~updateInFlight))
    /\ UNCHANGED <<upstream, checkout, binary, release, seen, infra, cut>>

\* launchUpdate: seed the log and start the script in a transient unit; when
\* the unit's name is taken, as a child in the panel's own control group.
Launch(a) ==
    /\ PanelAnswers
    /\ IF updateInFlight
       THEN /\ admin[a] /\ admin' = [admin EXCEPT ![a] = FALSE]
            /\ UNCHANGED <<upstream, checkout, binary, release, updLog, updater, seen, infra, lied, cut>>
       ELSE LaunchUnchecked(a)

-----------------------------------------------------------------------------
(* update.sh.  It has no set -e: a command that fails is passed over.      *)

Step(u, pc) == updater' = [updater EXCEPT ![u].pc = pc]
Exit(u) == updater' = [updater EXCEPT ![u] = Gone]
Says(word) == updLog' = [updLog EXCEPT !.says = @ \cup {word}, !.quiet = FALSE]
Writes == updLog' = [updLog EXCEPT !.quiet = FALSE]
At(u, pc) == updater[u].pc = pc

StartScript(u) ==
    /\ At(u, "begin") /\ Step(u, "pull")
    /\ updLog' = [says |-> {}, exists |-> TRUE, quiet |-> FALSE]
    /\ UNCHANGED <<upstream, checkout, binary, release, admin, seen, infra, lied, cut>>

Pull(u) ==
    /\ At(u, "pull") /\ Step(u, "build") /\ Writes
    /\ checkout' = upstream
    /\ UNCHANGED <<upstream, binary, release, admin, seen, infra, lied, cut>>

\* The word is in the log while the script is about to try again.
PullFails(u) ==
    /\ At(u, "pull") /\ Says("failed")
    /\ IF updater[u].try + 1 = Pulls THEN Exit(u)
       ELSE updater' = [updater EXCEPT ![u].try = @ + 1]
    /\ UNCHANGED <<upstream, checkout, binary, release, admin, seen, infra, lied, cut>>

Build(u) ==
    /\ At(u, "build") /\ Writes
    /\ updater' = [updater EXCEPT ![u].pc = "keep", ![u].ver = checkout]
    /\ binary' = [binary EXCEPT !.built = checkout]
    /\ UNCHANGED <<upstream, checkout, release, admin, seen, infra, lied, cut>>

BuildFails(u) ==
    /\ At(u, "build") /\ Says("failed") /\ Exit(u)
    /\ UNCHANGED <<upstream, checkout, binary, release, admin, seen, infra, lied, cut>>

\* cp -a pgforged pgforged.prev
KeepPrev(u) ==
    /\ At(u, "keep") /\ Step(u, "swap") /\ Writes
    /\ binary' = [binary EXCEPT !.prev = binary.bin]
    /\ UNCHANGED <<upstream, checkout, release, admin, seen, infra, lied, cut>>

\* install; the built file may be gone, and the script goes on.
Swap(u) ==
    /\ At(u, "swap") /\ Step(u, "restart") /\ Writes
    /\ binary' = [binary EXCEPT !.bin = IF binary.built = 0 THEN @ ELSE binary.built]
    /\ UNCHANGED <<upstream, checkout, release, admin, seen, infra, lied, cut>>

\* systemctl restart pgforged: memory is lost, children in its control group
\* are killed, whoever asked for the restart.
Restarts(u, pc) ==
    /\ updater' = [o \in Updaters |->
         IF ~updater[o].own THEN Gone
         ELSE IF o = u THEN [updater[o] EXCEPT !.pc = pc] ELSE updater[o]]
    /\ release' = binary.bin /\ seen' = Unknown
    /\ admin' = [a \in Admins |-> FALSE]
    /\ infra' = [infra EXCEPT !.done = FALSE]
    /\ Writes

RestartNew(u) ==
    /\ At(u, "restart") /\ Restarts(u, "health")
    /\ UNCHANGED <<upstream, checkout, binary, lied, cut>>

HealthOk(u) ==
    /\ At(u, "health") /\ PanelAnswers /\ Step(u, "infra") /\ Writes
    /\ UNCHANGED <<upstream, checkout, binary, release, admin, seen, infra, lied, cut>>

\* A healthy panel that needs more than four seconds fails it too.
HealthFails(u) ==
    /\ At(u, "health") /\ Step(u, "restore") /\ Says("failed")
    /\ UNCHANGED <<upstream, checkout, binary, release, admin, seen, infra, lied, cut>>

\* apply-infra.sh --safe from the checkout; it records the commit, which is no
\* revision any binary expects.  A failure is only a line in the log.
ApplyInfra(u) ==
    /\ At(u, "infra") /\ Step(u, "clean")
    /\ \/ /\ infra' = [infra EXCEPT !.scripts = checkout, !.rev = 0]
          /\ Says("OK")
       \/ /\ UNCHANGED infra
          /\ updLog' = [updLog EXCEPT !.says = @ \cup {"failed", "OK"}, !.quiet = FALSE]
    /\ UNCHANGED <<upstream, checkout, binary, release, admin, seen, lied, cut>>

\* install pgforged.prev
RestorePrev(u) ==
    /\ At(u, "restore") /\ Step(u, "again") /\ Writes
    /\ binary' = [binary EXCEPT !.bin = IF binary.prev = 0 THEN @ ELSE binary.prev]
    /\ UNCHANGED <<upstream, checkout, release, admin, seen, infra, lied, cut>>

RestartOld(u) ==
    /\ At(u, "again")
    /\ updater' = [o \in Updaters |->
         IF ~updater[o].own THEN Gone
         ELSE IF o = u THEN [updater[o] EXCEPT !.pc = "clean"] ELSE updater[o]]
    /\ release' = binary.bin /\ seen' = Unknown
    /\ admin' = [a \in Admins |-> FALSE]
    /\ infra' = [infra EXCEPT !.done = FALSE]
    /\ Says("rolled back")
    /\ UNCHANGED <<upstream, checkout, binary, lied, cut>>

\* rm -f /tmp/pgforged.upd, whoever built it
Clean(u) ==
    /\ At(u, "clean") /\ Exit(u) /\ Writes
    /\ binary' = [binary EXCEPT !.built = 0]
    /\ UNCHANGED <<upstream, checkout, release, admin, seen, infra, lied, cut>>

-----------------------------------------------------------------------------

\* reconcileInfra, once after each boot, for the revision this binary expects.
ReconcileInfra ==
    /\ ~infra.done
    /\ \/ infra' = IF infra.rev # release
                   THEN [scripts |-> checkout, rev |-> release, done |-> TRUE]
                   ELSE [infra EXCEPT !.done = TRUE]
       \/ infra' = [infra EXCEPT !.done = TRUE]      \* the script failed
    /\ UNCHANGED <<upstream, checkout, binary, release, updLog, updater, admin, seen, lied, cut>>

ReleaseMade ==
    /\ upstream < Newest /\ upstream' = upstream + 1
    /\ UNCHANGED <<checkout, binary, release, updLog, updater, admin, seen, infra, lied, cut>>

\* A build may say nothing for that long.
TenMinutesPass ==
    /\ updLog.exists /\ ~updLog.quiet /\ updLog' = [updLog EXCEPT !.quiet = TRUE]
    /\ UNCHANGED <<upstream, checkout, binary, release, updater, admin, seen, infra, lied, cut>>

HostReboots ==
    /\ updater' = [u \in Updaters |-> Gone]
    /\ release' = binary.bin /\ seen' = Unknown
    /\ admin' = [a \in Admins |-> FALSE]
    /\ infra' = [infra EXCEPT !.done = FALSE]
    /\ binary' = [binary EXCEPT !.built = 0]
    /\ cut' = (cut \/ Alive # {})
    /\ UNCHANGED <<upstream, checkout, updLog, lied>>

UpdateNext ==
    \* a release is tagged after main has it, and either may not answer
    \/ \E tag \in {0, upstream - 1, upstream}, notes \in {0, upstream} :
         HourlyCheck(tag, notes) \/ ManualCheck(tag, notes)
    \/ \E a \in Admins : AskUpdate(a) \/ Launch(a)
    \/ \E u \in Updaters :
         \/ StartScript(u) \/ Pull(u) \/ PullFails(u) \/ Build(u) \/ BuildFails(u)
         \/ KeepPrev(u) \/ Swap(u) \/ RestartNew(u) \/ HealthOk(u) \/ HealthFails(u)
         \/ ApplyInfra(u) \/ RestorePrev(u) \/ RestartOld(u) \/ Clean(u)
    \/ ReconcileInfra \/ ReleaseMade \/ TenMinutesPass \/ HostReboots

UpdateSpec == UpdateInit /\ [][UpdateNext]_updateVars

-----------------------------------------------------------------------------
\* Two clicks, or a click and the nightly check, start one script (update.go:
\* 299-303, 318-321): two are alive only when a log that said "failed" or "OK",
\* or nothing for ten minutes, told of a live one that it was over.  And as long
\* as that has not happened, and the host stayed up, the box is never left with
\* a release that does not answer: whenever no script is at work the panel that
\* serves answers and is the installed one, a script that is past its copy has
\* an answering release to go back to, and a log that says OK of a whole update
\* is right about the release that serves.  What the panel offers is newer than
\* what serves, whenever it was looked up.
UpdateEndsWell ==
    /\ Cardinality(Alive) > 1 => lied
    /\ seen.behind => seen.latest > release
    /\ ~lied /\ ~cut =>
         /\ Alive = {} => release = binary.bin /\ release \notin Broken
         /\ \A u \in Alive :
              /\ updater[u].pc \in {"swap", "restart", "health", "restore", "again"} =>
                   binary.prev \notin Broken \cup {0}
              /\ At(u, "clean") /\ "rolled back" \notin updLog.says =>
                   release = updater[u].ver /\ "OK" \in updLog.says
=============================================================================
