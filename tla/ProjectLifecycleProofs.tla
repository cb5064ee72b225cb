----------------------- MODULE ProjectLifecycleProofs -----------------------
(***************************************************************************)
(* For every set of projects and handlers and every bound: the lifecycle   *)
(* is well typed, a row leaves 'paused' only through the five writers that *)
(* UnpausedOnlyBy names, and of a project at rest the row, the login, the  *)
(* lockout file and the container agree (QuiescentConsistent).             *)
(***************************************************************************)
EXTENDS ProjectLifecycle, TLAPS

\* A handler in flight works on a project of the system.
InFlight == \A w \in Workers : h[w].at # "idle" => h[w].p \in Projects

\* In the middle of a list the sampler has a row to process.
SamplerBusy ==
  sampler.at \in {"ps", "syncRow", "expLock", "expKill", "expSidecars", "expRow",
                 "wakeHubs", "idleSidecars", "idleRow"} => sampler.todo # {}

IInv == TypeOK /\ InFlight /\ SamplerBusy

-----------------------------------------------------------------------------
(***************************************************************************)
(* The helpers of the handlers and of the sampler.                         *)
(***************************************************************************)
LEMMA GotoTypes ==
  ASSUME TypeOK, InFlight, NEW w \in Workers, NEW from, NEW to \in HandlerSteps,
         from # "idle", Goto(w, from, to)
  PROVE  /\ h[w].p \in Projects
         /\ h' \in [Workers -> [at : HandlerSteps, p : Projects \cup {NoProject}]]
         /\ InFlight'
BY DEF InFlight, TypeOK, Goto, Idle, HandlerSteps

LEMMA MarkStartTypes ==
  ASSUME TypeOK, NEW S, MarkStart(S)
  PROVE  drift' \in [Projects -> {"none", "now", "past"}]
<1>1. \A p \in Projects : drift[p] \in {"none", "now", "past"}
  BY DEF TypeOK
<1>2. \A p \in Projects : DriftOnStart(p) \in {"none", "now", "past"}
  BY <1>1 DEF DriftOnStart
<1> QED
  BY <1>1, <1>2 DEF MarkStart

LEMMA BeginTypes ==
  ASSUME TypeOK, InFlight, NEW w \in Workers, NEW p \in Projects, NEW op,
         NEW step \in HandlerSteps, Begin(w, p, op, step)
  PROVE  /\ h' \in [Workers -> [at : HandlerSteps, p : Projects \cup {NoProject}]]
         /\ InFlight'
         /\ starts' \in 0..MaxStarts
         /\ drift' \in [Projects -> {"none", "now", "past"}]
<1>1. /\ h' \in [Workers -> [at : HandlerSteps, p : Projects \cup {NoProject}]]
      /\ InFlight'
  BY DEF InFlight, TypeOK, Begin
<1>2. starts' \in 0..MaxStarts
  BY LifecycleAssumption DEF TypeOK, Begin
<1>3. drift' \in [Projects -> {"none", "now", "past"}]
  BY MarkStartTypes DEF Begin
<1> QED
  BY <1>1, <1>2, <1>3

\* The list is not empty, so its head is a project with the mode read.
LEMMA HeadTypes ==
  ASSUME IInv, NEW step, sampler.at = step,
         step \in {"ps", "syncRow", "expLock", "expKill", "expSidecars", "expRow",
                  "wakeHubs", "idleSidecars", "idleRow"}
  PROVE  /\ Head \in sampler.todo
         /\ Slug \in Projects
         /\ Slug \in SamplerOn
         /\ Rest \in SUBSET (Projects \X Modes)
<1>1. Head \in sampler.todo
  BY DEF IInv, SamplerBusy, Head
<1>2. sampler.todo \in SUBSET (Projects \X Modes)
  BY DEF IInv, TypeOK
<1> QED
  BY <1>1, <1>2 DEF Slug, Rest, SamplerOn

SamplerTypes == [at : SamplerSteps, todo : SUBSET (Projects \X Modes),
                 up : SUBSET Projects]

LEMMA AdvanceTypes ==
  ASSUME IInv, NEW again \in SamplerSteps, NEW next \in SamplerSteps,
         Rest \in SUBSET (Projects \X Modes),
         next \in {"sync", "expire", "bump", "wake", "idle", "reap"},
         Advance(again, next)
  PROVE  sampler' \in SamplerTypes /\ SamplerBusy'
<1>1. sampler \in SamplerTypes
  BY DEF IInv, TypeOK, SamplerTypes
<1>2. CASE Rest = {}
  BY <1>1, <1>2 DEF Advance, SamplerGoto, SamplerTypes, SamplerBusy
<1>3. CASE Rest # {}
  BY <1>1, <1>3 DEF Advance, SamplerGoto, SamplerTypes, SamplerBusy
<1> QED
  BY <1>2, <1>3

LEMMA SelectTypes ==
  ASSUME IInv, NEW found \in SamplerSteps, NEW none \in SamplerSteps,
         NEW S \in SUBSET Projects,
         none \in {"sync", "expire", "bump", "wake", "idle", "reap"},
         SelectRows(S, found, none)
  PROVE  /\ sampler' \in SamplerTypes
         /\ SamplerBusy'
         /\ drift' \in [Projects -> {"none", "now", "past"}]
<1>1. sampler \in SamplerTypes
  BY DEF IInv, TypeOK, SamplerTypes
<1>2. With(S) \in SUBSET (Projects \X Modes)
  BY DEF IInv, TypeOK, With
<1>3. sampler' \in SamplerTypes /\ SamplerBusy'
  <2>1. CASE S = {}
    BY <1>1, <1>2, <2>1 DEF SelectRows, SamplerGoto, SamplerTypes, SamplerBusy
  <2>2. CASE S # {}
    <3>1. With(S) # {}
      BY <2>2 DEF With
    <3> QED
      BY <1>1, <1>2, <2>2, <3>1 DEF SelectRows, SamplerGoto, SamplerTypes, SamplerBusy
  <2> QED
    BY <2>1, <2>2
<1>4. drift' \in [Projects -> {"none", "now", "past"}]
  BY MarkStartTypes DEF SelectRows, IInv
<1> QED
  BY <1>3, <1>4

-----------------------------------------------------------------------------
(***************************************************************************)
(* Every action preserves IInv.                                            *)
(***************************************************************************)
LEMMA HandlerTypes ==
  ASSUME IInv, NEW w \in Workers, HandlerStep(w)
  PROVE  IInv'
<1>0. TypeOK /\ InFlight /\ SamplerBusy
  BY DEF IInv
<1> SUFFICES TypeOK' /\ InFlight' /\ sampler' = sampler
  BY <1>0 DEF IInv, SamplerBusy
<1> USE DEF Elsewhere, row, infra
<1>1. CASE PauseNologin(w)
  BY <1>0, <1>1, GotoTypes DEF PauseNologin, HandlerSteps, TypeOK
<1>2. CASE PauseTerminate(w)
  BY <1>0, <1>2, GotoTypes DEF PauseTerminate, HandlerSteps, TypeOK
<1>3. CASE PauseFile(w)
  BY <1>0, <1>3, GotoTypes DEF PauseFile, HandlerSteps, TypeOK
<1>4. CASE PauseStop(w)
  <2>1. Goto(w, "pauseStop", "pauseSidecars")
    BY <1>4 DEF PauseStop
  <2>2. /\ h[w].p \in Projects
        /\ h' \in [Workers -> [at : HandlerSteps, p : Projects \cup {NoProject}]]
        /\ InFlight'
    BY <1>0, <2>1, GotoTypes DEF HandlerSteps
  <2>3. CASE UNCHANGED drift
    BY <1>0, <1>4, <2>2, <2>3 DEF PauseStop, TypeOK
  <2>4. CASE MarkFailure(h[w].p) /\ UNCHANGED running
    BY <1>0, <1>4, <2>2, <2>4 DEF PauseStop, TypeOK, MarkFailure
  <2> QED
    BY <1>4, <2>3, <2>4 DEF PauseStop
<1>5. CASE PauseSidecars(w)
  BY <1>0, <1>5, GotoTypes DEF PauseSidecars, HandlerSteps, TypeOK
<1>6. CASE PauseRow(w)
  BY <1>0, <1>6, GotoTypes DEF PauseRow, HandlerSteps, TypeOK, MarkRepair, Statuses
<1>7. CASE ResumeLogin(w)
  BY <1>0, <1>7, GotoTypes DEF ResumeLogin, HandlerSteps, TypeOK
<1>8. CASE ResumeFile(w)
  BY <1>0, <1>8, GotoTypes DEF ResumeFile, HandlerSteps, TypeOK
<1>9. CASE ResumeStart(w)
  <2>1. \E to \in HandlerSteps : Goto(w, "resumeStart", to)
    BY <1>9 DEF ResumeStart, HandlerSteps
  <2>2. /\ h[w].p \in Projects
        /\ h' \in [Workers -> [at : HandlerSteps, p : Projects \cup {NoProject}]]
        /\ InFlight'
    BY <1>0, <2>1, GotoTypes
  <2>3. CASE UNCHANGED drift
    BY <1>0, <1>9, <2>2, <2>3 DEF ResumeStart, TypeOK
  <2>4. CASE MarkFailure(h[w].p) /\ UNCHANGED running
    BY <1>0, <1>9, <2>2, <2>4 DEF ResumeStart, TypeOK, MarkFailure
  <2> QED
    BY <1>9, <2>3, <2>4 DEF ResumeStart
<1>10. CASE ResumeRow(w)
  BY <1>0, <1>10, GotoTypes DEF ResumeRow, HandlerSteps, TypeOK, MarkRepair, Statuses
<1>11. CASE AlterRoleFails(w)
  BY <1>0, <1>11, GotoTypes DEF AlterRoleFails, HandlerSteps, TypeOK
<1>12. CASE SleepStop(w)
  BY <1>0, <1>12, GotoTypes DEF SleepStop, HandlerSteps, TypeOK
<1>13. CASE SleepSidecars(w)
  BY <1>0, <1>13, GotoTypes DEF SleepSidecars, HandlerSteps, TypeOK
<1>14. CASE SleepRow(w)
  BY <1>0, <1>14, GotoTypes DEF SleepRow, HandlerSteps, TypeOK, Statuses
<1>15. CASE WakeRow(w)
  BY <1>0, <1>15, GotoTypes DEF WakeRow, HandlerSteps, TypeOK, WakeUpdate, Statuses
<1>16. CASE WakeRowInst(w)
  BY <1>0, <1>16, GotoTypes DEF WakeRowInst, HandlerSteps, TypeOK, WakeUpdate, Statuses
<1>17. CASE WakeLogin(w)
  BY <1>0, <1>17, GotoTypes DEF WakeLogin, HandlerSteps, TypeOK
<1>18. CASE WakeStart(w)
  BY <1>0, <1>18, GotoTypes DEF WakeStart, HandlerSteps, TypeOK
<1>19. CASE WakeHub(w)
  BY <1>0, <1>19, GotoTypes DEF WakeHub, HandlerSteps, TypeOK, StartHub
<1>20. CASE TouchRow(w)
  BY <1>0, <1>20, GotoTypes DEF TouchRow, HandlerSteps, TypeOK, Statuses
<1>21. CASE TouchLogin(w)
  BY <1>0, <1>21, GotoTypes DEF TouchLogin, HandlerSteps, TypeOK
<1>22. CASE TouchHub(w)
  BY <1>0, <1>22, GotoTypes DEF TouchHub, HandlerSteps, TypeOK, StartHub
<1>23. CASE Serve(w)
  <2>1. Goto(w, "serve", "idle")
    BY <1>23 DEF Serve
  <2>2. /\ h[w].p \in Projects
        /\ h' \in [Workers -> [at : HandlerSteps, p : Projects \cup {NoProject}]]
        /\ InFlight'
    BY <1>0, <2>1, GotoTypes DEF HandlerSteps
  <2>3. sidecars' \in [Projects -> SUBSET {"api", "hub"}]
    BY <1>0, <1>23, <2>2 DEF Serve, TypeOK
  <2>4. UNCHANGED <<row, login, conns, pausedFile, parked, inst, running, proxy,
                    drift, locked, sampler, job, starts>>
    BY <1>23 DEF Serve
  <2> QED
    BY <1>0, <2>2, <2>3, <2>4 DEF TypeOK
<1>24. CASE MigCreate(w)
  BY <1>0, <1>24, GotoTypes DEF MigCreate, HandlerSteps, TypeOK
<1>25. CASE MigCopy(w)
  BY <1>0, <1>25, GotoTypes DEF MigCopy, HandlerSteps, TypeOK
<1>26. CASE MigFlip(w)
  BY <1>0, <1>26, GotoTypes DEF MigFlip, HandlerSteps, TypeOK
<1>27. CASE MigPark(w)
  BY <1>0, <1>27, GotoTypes DEF MigPark, HandlerSteps, TypeOK
<1>28. CASE MigRow(w)
  BY <1>0, <1>28, GotoTypes DEF MigRow, HandlerSteps, TypeOK, Statuses, Modes
<1>29. CASE ResetStop(w)
  BY <1>0, <1>29, GotoTypes DEF ResetStop, HandlerSteps, TypeOK
<1>30. CASE ResetDrop(w)
  BY <1>0, <1>30, GotoTypes DEF ResetDrop, HandlerSteps, TypeOK
<1>31. CASE ResetRow(w)
  <2>1. Goto(w, "resetRow", "idle")
    BY <1>31 DEF ResetRow
  <2>2. /\ h[w].p \in Projects
        /\ h' \in [Workers -> [at : HandlerSteps, p : Projects \cup {NoProject}]]
        /\ InFlight'
    BY <1>0, <2>1, GotoTypes DEF HandlerSteps
  <2>3. CASE UNCHANGED <<parked, status, locked, drift>>
    BY <1>0, <1>31, <2>2, <2>3 DEF ResetRow, TypeOK
  <2>4. CASE /\ parked' = [parked EXCEPT ![h[w].p] = FALSE]
             /\ status' = [status EXCEPT ![h[w].p] = "active"]
             /\ locked' = [locked EXCEPT ![h[w].p] = FALSE]
             /\ MarkHalfUndone(h[w].p)
    BY <1>0, <1>31, <2>2, <2>4 DEF ResetRow, TypeOK, MarkHalfUndone, Statuses
  <2> QED
    BY <1>31, <2>3, <2>4 DEF ResetRow
<1>32. CASE ResetDelete(w)
  BY <1>0, <1>32, GotoTypes DEF ResetDelete, HandlerSteps, TypeOK
<1>33. CASE ResetBranch(w)
  BY <1>0, <1>33, GotoTypes DEF ResetBranch, HandlerSteps, TypeOK, MarkHalfUndone
<1> QED
  BY <1>1, <1>2, <1>3, <1>4, <1>5, <1>6, <1>7, <1>8, <1>9, <1>10, <1>11,
     <1>12, <1>13, <1>14, <1>15, <1>16, <1>17, <1>18, <1>19, <1>20, <1>21,
     <1>22, <1>23, <1>24, <1>25, <1>26, <1>27, <1>28, <1>29, <1>30, <1>31,
     <1>32, <1>33
  DEF HandlerStep

LEMMA CommandTypes ==
  ASSUME IInv, Command
  PROVE  IInv'
<1>0. TypeOK /\ InFlight /\ SamplerBusy
  BY DEF IInv
<1> SUFFICES TypeOK' /\ InFlight' /\ sampler' = sampler
  BY <1>0 DEF IInv, SamplerBusy
<1> USE DEF row, infra
<1>1. ASSUME NEW w \in Workers, NEW p \in Projects,
             \/ Pause(w, p) \/ Resume(w, p) \/ Sleep(w, p) \/ Wake(w, p)
             \/ Request(w, p) \/ Migrate(w, p) \/ Reset(w, p)
      PROVE  TypeOK' /\ InFlight' /\ sampler' = sampler
  <2>1. UNCHANGED <<row, infra, sampler, job, locked>>
    BY <1>1 DEF Pause, Resume, Sleep, Wake, Request, Migrate, Reset
  <2>2. \E op, step : step \in HandlerSteps /\ Begin(w, p, op, step)
    BY <1>1 DEF Pause, Resume, Sleep, Wake, Request, Migrate,
        Reset, HandlerSteps
  <2>3. /\ h' \in [Workers -> [at : HandlerSteps, p : Projects \cup {NoProject}]]
        /\ InFlight'
        /\ starts' \in 0..MaxStarts
        /\ drift' \in [Projects -> {"none", "now", "past"}]
    BY <1>0, <2>2, BeginTypes
  <2> QED
    BY <1>0, <2>1, <2>3 DEF TypeOK
<1>2. ASSUME NEW p \in Projects, SetKeepAwake(p)
      PROVE  TypeOK' /\ InFlight' /\ sampler' = sampler
  BY <1>0, <1>2, LifecycleAssumption DEF SetKeepAwake, TypeOK, InFlight
<1>3. ASSUME NEW p \in Projects, Refresh(p)
      PROVE  TypeOK' /\ InFlight' /\ sampler' = sampler
  <2>1. drift' \in [Projects -> {"none", "now", "past"}]
    BY <1>0, <1>3, MarkStartTypes DEF Refresh
  <2>2. starts' \in 0..MaxStarts /\ job' \in [Projects -> Jobs]
    BY <1>0, <1>3, LifecycleAssumption DEF Refresh, TypeOK, Jobs
  <2> QED
    BY <1>0, <1>3, <2>1, <2>2 DEF Refresh, TypeOK, InFlight
<1> QED
  BY <1>1, <1>2, <1>3 DEF Command

LEMMA JobTypes ==
  ASSUME IInv, JobStep
  PROVE  IInv'
<1>0. TypeOK /\ InFlight /\ SamplerBusy
  BY DEF IInv
<1>1. PICK p \in Projects : JobDump(p) \/ JobLoad(p) \/ JobRow(p)
  BY DEF JobStep
<1>2. PICK to \in {"none", "load", "row"} : \E from : JobGoto(p, from, to)
  BY <1>1 DEF JobDump, JobLoad, JobRow
<1>3. job' \in [Projects -> Jobs]
  BY <1>0, <1>2 DEF JobGoto, TypeOK, Jobs, NoJob
<1>4. status' \in [Projects -> Statuses]
  BY <1>0, <1>1 DEF JobDump, JobLoad, JobRow, TypeOK, Statuses
<1>5. UNCHANGED <<mode, fresh, keepAwake, expired, infra, h, sampler, starts,
                  drift, locked>>
  BY <1>2 DEF JobGoto
<1> QED
  BY <1>0, <1>3, <1>4, <1>5 DEF IInv, TypeOK, InFlight, SamplerBusy, infra

LEMMA EnvironmentTypes ==
  ASSUME IInv, Environment
  PROVE  IInv'
<1>0. TypeOK /\ InFlight /\ SamplerBusy
  BY DEF IInv
<1> USE DEF Outside, row, infra, IInv, InFlight, SamplerBusy, TypeOK
<1>1. ASSUME NEW p \in Projects, ProxyCheck(p)
      PROVE  IInv'
  <2>1. drift' \in [Projects -> {"none", "now", "past"}]
    BY <1>0, <1>1, MarkStartTypes DEF ProxyCheck
  <2> QED
    BY <1>0, <1>1, <2>1 DEF ProxyCheck
<1>2. ASSUME NEW p \in Projects, ProxyStart(p)
      PROVE  IInv'
  BY <1>0, <1>2 DEF ProxyStart
<1>3. ASSUME NEW p \in Projects, InstanceReap(p)
      PROVE  IInv'
  BY <1>0, <1>3 DEF InstanceReap
<1>4. ASSUME NEW p \in Projects, ClientConnect(p)
      PROVE  IInv'
  BY <1>0, <1>4 DEF ClientConnect
<1>5. ASSUME NEW p \in Projects, ClientDisconnect(p)
      PROVE  IInv'
  BY <1>0, <1>5 DEF ClientDisconnect
<1>6. ASSUME NEW p \in Projects, WindowElapses(p)
      PROVE  IInv'
  BY <1>0, <1>6 DEF WindowElapses
<1>7. ASSUME NEW p \in Projects, ExpiryElapses(p)
      PROVE  IInv'
  BY <1>0, <1>7 DEF ExpiryElapses
<1>8. CASE Crash
  <2>1. drift' \in [Projects -> {"none", "now", "past"}]
    BY <1>0, <1>8 DEF Crash
  <2>2. starts' \in 0..MaxStarts
    BY <1>0, <1>8, LifecycleAssumption DEF Crash
  <2>3. /\ sampler' \in SamplerTypes /\ SamplerBusy'
        /\ h' \in [Workers -> [at : HandlerSteps, p : Projects \cup {NoProject}]]
        /\ InFlight'
    BY <1>8 DEF Crash, Idle, HandlerSteps, SamplerSteps, SamplerTypes
  <2>4. job' \in [Projects -> Jobs] /\ sidecars' \in [Projects -> SUBSET {"api", "hub"}]
    BY <1>8 DEF Crash, NoJob, Jobs
  <2> QED
    BY <1>0, <1>8, <2>1, <2>2, <2>3, <2>4 DEF Crash, SamplerTypes
<1> QED
  BY <1>1, <1>2, <1>3, <1>4, <1>5, <1>6, <1>7, <1>8 DEF Environment

LEMMA SamplerStepTypes ==
  ASSUME IInv, SamplerStep
  PROVE  IInv'
<1>0. TypeOK /\ InFlight /\ SamplerBusy
  BY DEF IInv
<1>s. sampler \in SamplerTypes
  BY <1>0 DEF TypeOK, SamplerTypes
<1> USE DEF Handlers, row, infra
<1>1. CASE SyncSelect
  <2>1. PICK S \in SUBSET Projects : SelectRows(S, "ps", "expire")
    BY <1>1, LifecycleAssumption DEF SyncSelect
  <2>2. /\ sampler' \in SamplerTypes /\ SamplerBusy'
        /\ drift' \in [Projects -> {"none", "now", "past"}]
    BY <2>1, SelectTypes DEF SamplerSteps
  <2> QED
    BY <1>0, <1>1, <2>2 DEF SyncSelect, IInv, TypeOK, InFlight, SamplerTypes
<1>2. CASE PsSnapshot
  BY <1>0, <1>2 DEF PsSnapshot, IInv, TypeOK, InFlight, SamplerBusy, SamplerSteps
<1>3. CASE PsFails
  BY <1>0, <1>3 DEF PsFails, SamplerGoto, IInv, TypeOK, InFlight, SamplerBusy, SamplerSteps
<1>4. CASE SyncRow
  <2>1. Slug \in Projects /\ Rest \in SUBSET (Projects \X Modes)
    BY <1>4, HeadTypes DEF SyncRow
  <2>2. sampler' \in SamplerTypes /\ SamplerBusy'
    <3>1. CASE Rest = {}
      BY <1>4, <1>s, <2>1, <3>1 DEF SyncRow, SamplerTypes, SamplerBusy, SamplerSteps
    <3>2. CASE Rest # {}
      BY <1>4, <1>s, <2>1, <3>2 DEF SyncRow, SamplerTypes, SamplerBusy, SamplerSteps
    <3> QED
      BY <3>1, <3>2
  <2>3. status' \in [Projects -> Statuses] /\ fresh' \in [Projects -> BOOLEAN]
    BY <1>0, <1>4, <2>1 DEF SyncRow, TypeOK, Statuses
  <2> QED
    BY <1>0, <1>4, <2>2, <2>3 DEF SyncRow, IInv, TypeOK, InFlight, SamplerTypes
<1>5. CASE ExpireSelect
  <2>1. PICK S \in SUBSET Projects : SelectRows(S, "expLock", "bump")
    BY <1>5, LifecycleAssumption DEF ExpireSelect
  <2>2. /\ sampler' \in SamplerTypes /\ SamplerBusy'
        /\ drift' \in [Projects -> {"none", "now", "past"}]
    BY <2>1, SelectTypes DEF SamplerSteps
  <2> QED
    BY <1>0, <1>5, <2>2 DEF ExpireSelect, IInv, TypeOK, InFlight, SamplerTypes
<1>6. CASE ExpLock
  <2>1. Slug \in Projects
    BY <1>6, HeadTypes DEF ExpLock
  <2>2. sampler' \in SamplerTypes /\ SamplerBusy'
    BY <1>6, <1>0, <1>s DEF ExpLock, SamplerGoto, SamplerTypes, SamplerBusy, SamplerSteps
  <2> QED
    BY <1>0, <1>6, <2>1, <2>2 DEF ExpLock, IInv, TypeOK, InFlight, SamplerTypes
<1>7. CASE ExpKill
  <2>1. Slug \in Projects
    BY <1>7, HeadTypes DEF ExpKill
  <2>2. sampler' \in SamplerTypes /\ SamplerBusy'
    BY <1>7, <1>0, <1>s DEF ExpKill, SamplerGoto, SamplerTypes, SamplerBusy, SamplerSteps
  <2> QED
    BY <1>0, <1>7, <2>1, <2>2 DEF ExpKill, IInv, TypeOK, InFlight, SamplerTypes
<1>8. CASE ExpSidecars
  <2>1. Slug \in Projects
    BY <1>8, HeadTypes DEF ExpSidecars
  <2>2. sampler' \in SamplerTypes /\ SamplerBusy'
    BY <1>8, <1>0, <1>s DEF ExpSidecars, SamplerGoto, SamplerTypes, SamplerBusy, SamplerSteps
  <2> QED
    BY <1>0, <1>8, <2>1, <2>2 DEF ExpSidecars, IInv, TypeOK, InFlight, SamplerTypes
<1>9. CASE ExpRow
  <2>1. Slug \in Projects /\ Rest \in SUBSET (Projects \X Modes)
    BY <1>9, HeadTypes DEF ExpRow
  <2>2. sampler' \in SamplerTypes /\ SamplerBusy'
    BY <1>9, <2>1, AdvanceTypes DEF ExpRow, SamplerSteps
  <2> QED
    BY <1>0, <1>9, <2>1, <2>2
    DEF ExpRow, MarkRepair, Statuses, IInv, TypeOK, InFlight, SamplerTypes
<1>10. CASE Bump
  <2>1. sampler' \in SamplerTypes /\ SamplerBusy'
    BY <1>10, <1>s DEF Bump, SamplerGoto, SamplerTypes, SamplerBusy, SamplerSteps
  <2> QED
    BY <1>0, <1>10, <2>1 DEF Bump, IInv, TypeOK, InFlight, SamplerTypes
<1>11. CASE DirectWake
  <2>1. PICK S \in SUBSET Projects :
               /\ SelectRows(S, "wakeHubs", "idle")
               /\ status' = [p \in Projects |-> IF p \in S THEN "active" ELSE status[p]]
               /\ fresh' = [p \in Projects |-> fresh[p] \/ p \in S]
    BY <1>11 DEF DirectWake
  <2>2. /\ sampler' \in SamplerTypes /\ SamplerBusy'
        /\ drift' \in [Projects -> {"none", "now", "past"}]
    BY <2>1, SelectTypes DEF SamplerSteps
  <2>3. status' \in [Projects -> Statuses] /\ fresh' \in [Projects -> BOOLEAN]
    BY <1>0, <2>1 DEF TypeOK, Statuses
  <2> QED
    BY <1>0, <1>11, <2>2, <2>3 DEF DirectWake, IInv, TypeOK, InFlight, SamplerTypes
<1>12. CASE DirectWakeHub
  <2>1. Slug \in Projects /\ Rest \in SUBSET (Projects \X Modes)
    BY <1>12, HeadTypes DEF DirectWakeHub
  <2>2. sampler' \in SamplerTypes /\ SamplerBusy'
    BY <1>12, <2>1, AdvanceTypes DEF DirectWakeHub, SamplerSteps
  <2> QED
    BY <1>0, <1>12, <2>1, <2>2
    DEF DirectWakeHub, StartHub, IInv, TypeOK, InFlight, SamplerTypes
<1>13. CASE IdleSelect
  <2>1. PICK S \in SUBSET Projects : SelectRows(S, "idleSidecars", "reap")
    BY <1>13, LifecycleAssumption DEF IdleSelect
  <2>2. /\ sampler' \in SamplerTypes /\ SamplerBusy'
        /\ drift' \in [Projects -> {"none", "now", "past"}]
    BY <2>1, SelectTypes DEF SamplerSteps
  <2> QED
    BY <1>0, <1>13, <2>2 DEF IdleSelect, IInv, TypeOK, InFlight, SamplerTypes
<1>14. CASE IdleSidecars
  <2>1. Slug \in Projects
    BY <1>14, HeadTypes DEF IdleSidecars
  <2>2. sampler' \in SamplerTypes /\ SamplerBusy'
    BY <1>14, <1>0, <1>s DEF IdleSidecars, SamplerGoto, SamplerTypes, SamplerBusy, SamplerSteps
  <2> QED
    BY <1>0, <1>14, <2>1, <2>2 DEF IdleSidecars, IInv, TypeOK, InFlight, SamplerTypes
<1>15. CASE IdleRow
  <2>1. Slug \in Projects /\ Rest \in SUBSET (Projects \X Modes)
    BY <1>15, HeadTypes DEF IdleRow
  <2>2. sampler' \in SamplerTypes /\ SamplerBusy'
    BY <1>15, <2>1, AdvanceTypes DEF IdleRow, SamplerSteps
  <2> QED
    BY <1>0, <1>15, <2>1, <2>2
    DEF IdleRow, Statuses, IInv, TypeOK, InFlight, SamplerTypes
<1>16. CASE Reap
  <2>1. sampler' \in SamplerTypes /\ SamplerBusy'
    BY <1>16, <1>s DEF Reap, SamplerGoto, SamplerTypes, SamplerBusy, SamplerSteps
  <2> QED
    BY <1>0, <1>16, <2>1 DEF Reap, IInv, TypeOK, InFlight, SamplerTypes
<1> QED
  BY <1>1, <1>2, <1>3, <1>4, <1>5, <1>6, <1>7, <1>8, <1>9, <1>10, <1>11,
     <1>12, <1>13, <1>14, <1>15, <1>16
  DEF SamplerStep

LEMMA InitTypes == Init => IInv
<1> SUFFICES ASSUME Init PROVE IInv
  OBVIOUS
<1> USE DEF Init
<1>1. status \in [Projects -> Statuses] /\ mode \in [Projects -> Modes]
  BY LifecycleAssumption DEF Statuses
<1>2. h \in [Workers -> [at : HandlerSteps, p : Projects \cup {NoProject}]] /\ InFlight
  BY DEF Idle, HandlerSteps, InFlight
<1>3. sampler \in SamplerTypes /\ SamplerBusy
  BY DEF SamplerTypes, SamplerBusy, SamplerSteps
<1>4. inst \in [Projects -> BOOLEAN] /\ running \in [Projects -> BOOLEAN]
  OBVIOUS
<1>5. starts \in 0..MaxStarts
  BY LifecycleAssumption
<1> QED
  BY <1>1, <1>2, <1>3, <1>4, <1>5 DEF IInv, TypeOK, SamplerTypes

LEMMA StepTypes == IInv /\ [Next]_vars => IInv'
<1> SUFFICES ASSUME IInv, [Next]_vars PROVE IInv'
  OBVIOUS
<1>1. CASE UNCHANGED vars
  BY <1>1 DEF vars, IInv, TypeOK, InFlight, SamplerBusy
<1>2. CASE Next
  BY <1>2, HandlerTypes, CommandTypes, JobTypes, EnvironmentTypes, SamplerStepTypes
  DEF Next
<1> QED
  BY <1>1, <1>2

LEMMA Invariance == Spec => []IInv
  BY InitTypes, StepTypes, PTL DEF Spec

\* Every statement of every handler, sampler pass, job and cold start leaves
\* the state well typed, for any number of projects and handlers.
THEOREM TypeCorrect == Spec => []TypeOK
<1>1. IInv => TypeOK
  BY DEF IInv
<1> QED
  BY <1>1, Invariance, PTL

-----------------------------------------------------------------------------
(***************************************************************************)
(* Who can take a row out of 'paused'.                                     *)
(***************************************************************************)
LEMMA HandlerUnpauses ==
  ASSUME IInv, NEW w \in Workers, HandlerStep(w), NEW p \in Projects,
         status[p] = "paused", status'[p] # "paused"
  PROVE  Unpauser(p)
<1>0. TypeOK /\ InFlight
  BY DEF IInv
<1> USE DEF TypeOK, row, infra
<1>1. CASE ResumeRow(w)
  BY <1>0, <1>1 DEF ResumeRow, Goto, Unpauser
<1>2. CASE MigRow(w)
  BY <1>0, <1>2 DEF MigRow, Goto, Unpauser
<1>3. CASE PauseRow(w)
  BY <1>0, <1>3 DEF PauseRow
<1>4. CASE SleepRow(w)
  BY <1>0, <1>4 DEF SleepRow
<1>5. CASE WakeRow(w) \/ WakeRowInst(w)
  BY <1>0, <1>5 DEF WakeRow, WakeRowInst, WakeUpdate
<1>6. CASE TouchRow(w)
  BY <1>0, <1>6 DEF TouchRow
<1>7. CASE ResetRow(w)
  BY <1>0, <1>7 DEF ResetRow, Goto, Unpauser
\* No other statement of a handler writes projects.status.
<1>8. CASE \/ PauseNologin(w) \/ PauseTerminate(w) \/ PauseFile(w) \/ PauseStop(w)
           \/ PauseSidecars(w) \/ ResumeLogin(w) \/ ResumeFile(w) \/ ResumeStart(w)
           \/ AlterRoleFails(w) \/ SleepStop(w) \/ SleepSidecars(w)
  BY <1>8 DEF PauseNologin, PauseTerminate, PauseFile, PauseStop, PauseSidecars,
              ResumeLogin, ResumeFile, ResumeStart, AlterRoleFails, SleepStop,
              SleepSidecars
<1>9. CASE \/ WakeLogin(w) \/ WakeStart(w) \/ WakeHub(w) \/ TouchLogin(w)
           \/ TouchHub(w) \/ Serve(w) \/ MigCreate(w) \/ MigCopy(w)
           \/ MigFlip(w) \/ MigPark(w) \/ ResetStop(w) \/ ResetDrop(w)
           \/ ResetDelete(w) \/ ResetBranch(w)
  BY <1>9 DEF WakeLogin, WakeStart, WakeHub, TouchLogin, TouchHub, Serve,
              MigCreate, MigCopy, MigFlip, MigPark, ResetStop, ResetDrop,
              ResetDelete, ResetBranch
<1> QED
  BY <1>1, <1>2, <1>3, <1>4, <1>5, <1>6, <1>7, <1>8, <1>9
  DEF HandlerStep

LEMMA SamplerUnpauses ==
  ASSUME IInv, SamplerStep, NEW p \in Projects,
         status[p] = "paused", status'[p] # "paused"
  PROVE  Unpauser(p)
<1>0. TypeOK
  BY DEF IInv
<1> USE DEF row
<1>1. CASE IdleRow
  <2>1. Slug \in SamplerOn
    BY <1>1, HeadTypes DEF IdleRow
  <2>2. Slug = p
    BY <1>0, <1>1 DEF IdleRow, TypeOK
  <2> QED
    BY <1>1, <2>1, <2>2 DEF IdleRow, Unpauser
<1>2. CASE SyncRow
  BY <1>0, <1>2 DEF SyncRow, TypeOK
<1>3. CASE ExpRow
  BY <1>0, <1>3 DEF ExpRow, TypeOK
<1>4. CASE DirectWake
  BY <1>0, <1>4 DEF DirectWake, TypeOK
\* The rest of the pass leaves every status alone.
<1>5. CASE \/ SyncSelect \/ PsSnapshot \/ PsFails \/ ExpireSelect \/ ExpLock
           \/ ExpKill \/ ExpSidecars \/ Bump \/ DirectWakeHub \/ IdleSelect
           \/ IdleSidecars \/ Reap
  BY <1>5 DEF SyncSelect, PsSnapshot, PsFails, ExpireSelect, ExpLock, ExpKill,
              ExpSidecars, Bump, DirectWakeHub, IdleSelect, IdleSidecars, Reap
<1> QED
  BY <1>1, <1>2, <1>3, <1>4, <1>5 DEF SamplerStep

LEMMA StepUnpauses ==
  ASSUME IInv, Next, NEW p \in Projects,
         status[p] = "paused", status'[p] # "paused"
  PROVE  Unpauser(p)
<1>1. CASE Command
  BY <1>1 DEF Command, Pause, Resume, Sleep, Wake, Request, Migrate, Reset,
              SetKeepAwake, Refresh, row
<1>2. CASE \E w \in Workers : HandlerStep(w)
  BY <1>2, HandlerUnpauses
<1>3. CASE JobStep
  BY <1>3 DEF JobStep, JobDump, JobLoad, JobRow, JobGoto, IInv, TypeOK, Unpauser
<1>4. CASE SamplerStep
  BY <1>4, SamplerUnpauses
<1>5. CASE Environment
  BY <1>5 DEF Environment, ProxyCheck, ProxyStart, InstanceReap, ClientConnect,
              ClientDisconnect, WindowElapses, ExpiryElapses, Crash, Outside, row
<1> QED
  BY <1>1, <1>2, <1>3, <1>4, <1>5 DEF Next

\* However handlers, sampler, jobs and crashes interleave, only a resume, a
\* finished migration, a branch reset, a finished restore and the unguarded
\* auto-suspend UPDATE take a row out of 'paused' (the conditional UPDATEs of wakeProject,
\* touchAndResume, sleepProject and syncInstanceStatus never do).
THEOREM PausedLeftOnlyByFive == Spec => UnpausedOnlyBy
<1>1. IInv /\ [Next]_vars
        => [\A p \in Projects :
              status[p] = "paused" /\ status'[p] # "paused" => Unpauser(p)]_vars
  BY StepUnpauses
<1> QED
  BY <1>1, Invariance, PTL DEF Spec, UnpausedOnlyBy

-----------------------------------------------------------------------------
(***************************************************************************)
(* Why QuiescentConsistent holds. It speaks of projects at rest; what an   *)
(* inductive invariant has to say is where each actor stands in the middle *)
(* of its statements, as long as it is the only one on its project: a      *)
(* pause has locked out before it writes the row, a resume has lifted the  *)
(* lockout, a wake found the row suspended, and everybody else leaves a    *)
(* sound project sound at every statement.                                 *)
(***************************************************************************)
Lockout(p) == IF mode[p] = "shared" THEN ~login[p] ELSE pausedFile[p]

\* Consistent(p) of a project whose database may be missing.
Sound(p) ==
  /\ status[p] = "paused" <=> Lockout(p)
  /\ mode[p] = "instance" /\ status[p] = "paused" => ~running[p]
  /\ mode[p] = "shared" /\ status[p] = "suspended" => sidecars[p] = {}

HandlerOn(w, p) == h[w].at # "idle" /\ h[w].p = p

\* At most one actor works on p.
Alone(p) ==
  /\ \A w, v \in Workers : HandlerOn(w, p) /\ HandlerOn(v, p) => w = v
  /\ \A w \in Workers :
       HandlerOn(w, p) => p \notin SamplerOn /\ job[p].at = "none" /\ ~proxy[p]
  /\ p \in SamplerOn => job[p].at = "none" /\ ~proxy[p]
  /\ job[p].at # "none" => ~proxy[p]

SharedSteps   == {"pauseNologin", "pauseTerminate", "resumeLogin", "migCreate",
                  "migCopy", "migFlip", "migPark", "migRow"}
InstanceSteps == {"pauseFile", "resumeFile"}
LockedSteps   == {"pauseTerminate", "pauseStop", "pauseSidecars", "pauseRow"}
LiftedSteps   == {"resumeStart", "resumeRow"}
WokenSteps    == {"wakeLogin", "wakeStart", "wakeHub", "touchLogin", "touchHub"}

\* What a handler alone on p, about to execute the statement at, can rely on.
HandlerMid(at, p) ==
  /\ at \in SharedSteps => mode[p] = "shared"
  /\ at \in InstanceSteps => mode[p] = "instance"
  /\ at \in LockedSteps => Lockout(p)
  /\ at \in {"pauseSidecars", "pauseRow"} /\ mode[p] = "instance" => ~running[p]
  /\ at \in LiftedSteps => ~Lockout(p)
  /\ drift[p] = "none" =>
       /\ at \notin LockedSteps \cup LiftedSteps => Sound(p)
       /\ at \in WokenSteps => status[p] = "active"
       /\ at = "serve" => status[p] # "suspended"
       /\ at = "sleepRow" => sidecars[p] = {}

\* What the sampler, at step at with row hd in hand, can rely on for row x.
RowMid(at, hd, x) ==
  LET p == x[1] IN
  /\ mode[p] = x[2]
  /\ at \in {"expKill", "expSidecars", "expRow"} /\ hd = x => Lockout(p)
  /\ at \in {"expSidecars", "expRow"} /\ hd = x /\ x[2] = "instance" => ~running[p]
  /\ drift[p] = "none" =>
       /\ ~(at \in {"expKill", "expSidecars", "expRow"} /\ hd = x) => Sound(p)
       /\ at = "wakeHubs" => status[p] # "suspended"
       /\ at \in {"idleSidecars", "idleRow"} => status[p] = "active"
       /\ at = "idleRow" /\ hd = x => sidecars[p] = {}

JobMid(p) ==
  drift[p] = "none" =>
    /\ Sound(p)
    /\ job[p].at = "row" => ~Lockout(p)
    /\ job[p].at # "none" /\ job[p].kind = "pitr" => status[p] = "cloning"

ProxyMid(p) ==
  drift[p] = "none" => Sound(p) /\ mode[p] = "instance" /\ status[p] # "paused"

Settled(p) ==
  drift[p] # "now" =>
    /\ Alone(p)
    /\ \A w \in Workers : HandlerOn(w, p) => HandlerMid(h[w].at, p)
    /\ \A x \in sampler.todo : x[1] = p => RowMid(sampler.at, Head, x)
    /\ job[p].at # "none" => JobMid(p)
    /\ proxy[p] => ProxyMid(p)
    /\ ~Busy(p) /\ drift[p] = "none" => Sound(p)

\* Whatever overlaps: a shared project has no lockout file.
FileOfInstance ==
  /\ \A p \in Projects : mode[p] = "shared" => ~pausedFile[p]
  /\ \A w \in Workers : h[w].at = "pauseFile" => mode[h[w].p] = "instance"
  /\ \A x \in sampler.todo : x[2] = "instance" => mode[x[1]] = "instance"

\* The sampler's list is empty between its phases and names a project once.
ListKept ==
  /\ sampler.at \in {"sync", "expire", "bump", "wake", "idle", "reap"}
       => sampler.todo = {}
  /\ sampler.at \in {"ps", "syncRow"} => \A x \in sampler.todo : x[2] = "instance"
  /\ \A x, y \in sampler.todo : x[1] = y[1] => x = y

QInv == IInv /\ FileOfInstance /\ ListKept /\ \A p \in Projects : Settled(p)

-----------------------------------------------------------------------------
(***************************************************************************)
(* Projects that a step does not work on.                                  *)
(***************************************************************************)
SameProject(p) ==
  /\ status'[p] = status[p] /\ mode'[p] = mode[p] /\ login'[p] = login[p]
  /\ pausedFile'[p] = pausedFile[p] /\ drift'[p] = drift[p]
  /\ running'[p] => running[p]
  /\ sidecars'[p] \subseteq sidecars[p]

LEMMA SoundKept ==
  ASSUME NEW p, SameProject(p)
  PROVE  (Lockout(p)' <=> Lockout(p)) /\ (Sound(p) => Sound(p)')
<1>1. Lockout(p)' <=> Lockout(p)
  BY DEF SameProject, Lockout
<1> QED
  BY <1>1 DEF SameProject, Sound

LEMMA HandlerMidKept ==
  ASSUME NEW p, NEW at, SameProject(p), HandlerMid(at, p)
  PROVE  HandlerMid(at, p)'
BY SoundKept DEF SameProject, HandlerMid

LEMMA RowMidKept ==
  ASSUME NEW x, NEW at, NEW hd, SameProject(x[1]), RowMid(at, hd, x)
  PROVE  RowMid(at, hd, x)'
BY SoundKept DEF SameProject, RowMid

\* What another actor did elsewhere leaves p settled.
LEMMA Untouched ==
  ASSUME NEW p \in Projects, Settled(p), SameProject(p),
         job'[p] = job[p], proxy'[p] = proxy[p],
         \A w \in Workers : HandlerOn(w, p)' <=> HandlerOn(w, p),
         \A w \in Workers : HandlerOn(w, p) => h'[w].at = h[w].at,
         p \in SamplerOn' <=> p \in SamplerOn,
         \A x \in sampler'.todo :
            x[1] = p /\ drift[p] # "now" => RowMid(sampler.at, Head, x)'
  PROVE  Settled(p)'
<1> SUFFICES ASSUME drift'[p] # "now"
             PROVE  /\ Alone(p)'
                    /\ \A w \in Workers : HandlerOn(w, p)' => HandlerMid(h[w].at, p)'
                    /\ \A x \in sampler'.todo : x[1] = p => RowMid(sampler.at, Head, x)'
                    /\ job'[p].at # "none" => JobMid(p)'
                    /\ proxy'[p] => ProxyMid(p)'
                    /\ ~Busy(p)' /\ drift'[p] = "none" => Sound(p)'
  BY DEF Settled
<1>1. drift[p] # "now" /\ drift'[p] = drift[p]
  BY DEF SameProject
<1>2. /\ Alone(p)
      /\ \A w \in Workers : HandlerOn(w, p) => HandlerMid(h[w].at, p)
      /\ job[p].at # "none" => JobMid(p)
      /\ proxy[p] => ProxyMid(p)
      /\ ~Busy(p) /\ drift[p] = "none" => Sound(p)
  BY <1>1 DEF Settled
<1>3. Alone(p)'
  BY <1>2 DEF Alone
<1>4. ASSUME NEW w \in Workers, HandlerOn(w, p)'
      PROVE  HandlerMid(h[w].at, p)'
  <2>1. HandlerMid(h[w].at, p) /\ h'[w].at = h[w].at
    BY <1>2, <1>4
  <2> QED
    BY <2>1, SoundKept DEF HandlerMid, SameProject
<1>5. job'[p].at # "none" => JobMid(p)'
  BY <1>2, SoundKept DEF JobMid, SameProject
<1>6. proxy'[p] => ProxyMid(p)'
  BY <1>2, SoundKept DEF ProxyMid, SameProject
<1>7. Busy(p)' <=> Busy(p)
  BY DEF Busy, HandlerOn
<1> QED
  BY <1>1, <1>2, <1>3, <1>4, <1>5, <1>6, <1>7, SoundKept

LEMMA RowsKept ==
  ASSUME NEW p, SameProject(p), sampler' = sampler,
         NEW x, RowMid(sampler.at, Head, x), x[1] = p
  PROVE  RowMid(sampler.at, Head, x)'
<1>1. Head' = Head /\ sampler'.at = sampler.at
  BY DEF Head
<1> QED
  BY <1>1, SoundKept DEF RowMid, SameProject

-----------------------------------------------------------------------------
(***************************************************************************)
(* Handlers.                                                               *)
(***************************************************************************)
LEMMA GotoMoves ==
  ASSUME TypeOK, InFlight, NEW w \in Workers, NEW from, NEW to,
         from # "idle", Goto(w, from, to)
  PROVE  /\ h[w].at = from /\ h[w].p \in Projects
         /\ h'[w].at = to
         /\ to # "idle" => h'[w].p = h[w].p
         /\ \A v \in Workers : v # w => h'[v] = h[v]
BY DEF TypeOK, InFlight, Goto, Idle

\* A statement of a handler: on its own project it reaches the next statement
\* in the state that one relies on; the other projects do not notice.
LEMMA HandlerSettles ==
  ASSUME QInv, IInv', NEW w \in Workers, NEW from, NEW to, NEW p,
         p = h[w].p, from # "idle", to # "pauseFile", Goto(w, from, to),
         sampler' = sampler, job' = job, proxy' = proxy,
         \A q \in Projects : q # p => SameProject(q),
         mode[p] = "instance" => mode'[p] = "instance",
         mode'[p] = "shared" => ~pausedFile'[p],
         drift'[p] # "now" =>
            drift[p] # "now" /\ (HandlerMid(from, p) => HandlerMid(to, p)')
  PROVE  QInv'
<1>0. TypeOK /\ InFlight /\ FileOfInstance /\ ListKept
  BY DEF QInv, IInv
<1>1. /\ h[w].at = from /\ p \in Projects
      /\ h'[w].at = to
      /\ to # "idle" => h'[w].p = p
      /\ \A v \in Workers : v # w => h'[v] = h[v]
  BY <1>0, GotoMoves
<1>2. ListKept'
  BY <1>0 DEF ListKept
<1>3. \A q \in Projects : mode[q] = "instance" => mode'[q] = "instance"
  BY DEF SameProject
<1>4. FileOfInstance'
  <2>1. ASSUME NEW q \in Projects, mode'[q] = "shared"
        PROVE  ~pausedFile'[q]
    BY <1>0, <2>1 DEF FileOfInstance, SameProject
  <2>2. ASSUME NEW v \in Workers, h'[v].at = "pauseFile"
        PROVE  mode'[h'[v].p] = "instance"
    <3>1. v # w /\ h'[v] = h[v]
      BY <1>1, <2>2
    <3>2. h[v].p \in Projects
      BY <1>0, <2>2, <3>1 DEF InFlight
    <3> QED
      BY <1>0, <1>3, <2>2, <3>1, <3>2 DEF FileOfInstance
  <2>3. ASSUME NEW x \in sampler'.todo, x[2] = "instance"
        PROVE  mode'[x[1]] = "instance"
    <3>1. x \in Projects \X Modes
      BY <1>0, <2>3 DEF TypeOK
    <3> QED
      BY <1>0, <1>3, <2>3, <3>1 DEF FileOfInstance
  <2> QED
    BY <2>1, <2>2, <2>3 DEF FileOfInstance
<1>5. ASSUME NEW q \in Projects, q # p
      PROVE  Settled(q)'
  <2>1. Settled(q) /\ SameProject(q)
    BY <1>5 DEF QInv
  <2>2. ASSUME NEW v \in Workers
        PROVE  /\ HandlerOn(v, q)' <=> HandlerOn(v, q)
               /\ HandlerOn(v, q) => h'[v].at = h[v].at
    <3>1. CASE v = w
      BY <1>1, <1>5, <3>1 DEF HandlerOn
    <3>2. CASE v # w
      BY <1>1, <3>2 DEF HandlerOn
    <3> QED
      BY <3>1, <3>2
  <2>3. q \in SamplerOn' <=> q \in SamplerOn
    BY DEF SamplerOn
  <2>4. ASSUME NEW x \in sampler'.todo, x[1] = q, drift[q] # "now"
        PROVE  RowMid(sampler.at, Head, x)'
    <3>1. RowMid(sampler.at, Head, x)
      BY <2>1, <2>4 DEF Settled
    <3> QED
      BY <2>1, <2>4, <3>1, RowsKept
  <2> QED
    BY <2>1, <2>2, <2>3, <2>4, Untouched
<1>6. Settled(p)'
  <2> SUFFICES ASSUME drift'[p] # "now"
               PROVE  /\ Alone(p)'
                      /\ \A v \in Workers : HandlerOn(v, p)' => HandlerMid(h[v].at, p)'
                      /\ \A x \in sampler'.todo : x[1] = p => RowMid(sampler.at, Head, x)'
                      /\ job'[p].at # "none" => JobMid(p)'
                      /\ proxy'[p] => ProxyMid(p)'
                      /\ ~Busy(p)' /\ drift'[p] = "none" => Sound(p)'
    BY DEF Settled
  <2>1. drift[p] # "now" /\ Settled(p) /\ HandlerOn(w, p)
    BY <1>1 DEF QInv, HandlerOn
  <2>2. Alone(p) /\ HandlerMid(from, p)
    BY <1>1, <2>1 DEF Settled
  <2>3. HandlerMid(to, p)'
    BY <2>2
  <2>4. p \notin SamplerOn /\ job[p].at = "none" /\ ~proxy[p]
    BY <2>1, <2>2 DEF Alone
  <2>5. ASSUME NEW v \in Workers, HandlerOn(v, p)'
        PROVE  v = w /\ to # "idle"
    <3>1. CASE v # w
      BY <1>1, <2>1, <2>2, <2>5, <3>1 DEF HandlerOn, Alone
    <3>2. CASE v = w
      BY <1>1, <2>5, <3>2 DEF HandlerOn
    <3> QED
      BY <3>1, <3>2
  <2>6. p \notin SamplerOn'
    BY <2>4 DEF SamplerOn
  <2>7. Alone(p)'
    BY <2>4, <2>5, <2>6 DEF Alone
  <2>8. \A v \in Workers : HandlerOn(v, p)' => HandlerMid(h[v].at, p)'
    <3> SUFFICES ASSUME NEW v \in Workers, HandlerOn(v, p)'
                 PROVE  HandlerMid(h[v].at, p)'
      OBVIOUS
    <3>1. v = w /\ h'[w].at = to
      BY <1>1, <2>5
    <3> QED
      BY <2>3, <3>1 DEF HandlerMid
  <2>9. \A x \in sampler'.todo : x[1] # p
    BY <2>6 DEF SamplerOn
  <2>10. ~Busy(p)' /\ drift'[p] = "none" => Sound(p)'
    <3>1. CASE to = "idle"
      BY <2>3, <3>1 DEF HandlerMid, LockedSteps, LiftedSteps
    <3>2. CASE to # "idle"
      BY <1>1, <3>2 DEF Busy
    <3> QED
      BY <3>1, <3>2
  <2> QED
    BY <2>4, <2>7, <2>8, <2>9, <2>10
<1> QED
  BY <1>2, <1>4, <1>5, <1>6 DEF QInv

\* Every statement of a handler, one after the other.
LEMMA HandlerQuiet ==
  ASSUME QInv, NEW w \in Workers, HandlerStep(w)
  PROVE  QInv'
<1>0. TypeOK /\ InFlight /\ IInv'
  BY HandlerTypes DEF QInv, IInv
<1>p. PICK p \in Projects \cup {NoProject} : p = h[w].p
  BY <1>0 DEF TypeOK
<1>f. /\ p \in Projects /\ mode[p] = "shared" => ~pausedFile[p]
      /\ h[w].at = "pauseFile" => mode[p] = "instance"
  BY <1>p DEF QInv, FileOfInstance
<1> USE DEF Elsewhere, row, infra, SharedSteps, InstanceSteps, LockedSteps,
            LiftedSteps, WokenSteps
<1>1. CASE PauseNologin(w)
  <2>1. Goto(w, "pauseNologin", "pauseTerminate") /\ p \in Projects /\ UNCHANGED <<sampler, job, proxy>>
    BY <1>0, <1>p, <1>1, GotoMoves DEF PauseNologin
  <2>2. /\ login'[p] = FALSE
        /\ UNCHANGED <<status, mode, pausedFile, running, sidecars, drift>>
        /\ \A q \in Projects : q # p => SameProject(q)
    BY <1>0, <1>p, <1>1, <2>1 DEF PauseNologin, TypeOK, SameProject
  <2>3. HandlerMid("pauseNologin", p) => HandlerMid("pauseTerminate", p)'
    BY <1>f, <2>1, <2>2 DEF HandlerMid, Sound, Lockout
  <2> QED
    BY <1>0, <1>p, <1>f, <2>1, <2>2, <2>3, HandlerSettles
<1>2. CASE PauseTerminate(w)
  <2>1. Goto(w, "pauseTerminate", "pauseRow") /\ p \in Projects /\ UNCHANGED <<sampler, job, proxy>>
    BY <1>0, <1>p, <1>2, GotoMoves DEF PauseTerminate
  <2>2. /\ UNCHANGED <<status, mode, login, pausedFile, running, sidecars, drift>>
        /\ \A q \in Projects : q # p => SameProject(q)
    BY <1>0, <1>p, <1>2, <2>1 DEF PauseTerminate, TypeOK, SameProject
  <2>3. HandlerMid("pauseTerminate", p) => HandlerMid("pauseRow", p)'
    BY <1>f, <2>1, <2>2 DEF HandlerMid, Sound, Lockout
  <2> QED
    BY <1>0, <1>p, <1>f, <2>1, <2>2, <2>3, HandlerSettles
<1>3. CASE PauseFile(w)
  <2>1. Goto(w, "pauseFile", "pauseStop") /\ p \in Projects /\ UNCHANGED <<sampler, job, proxy>>
    BY <1>0, <1>p, <1>3, GotoMoves DEF PauseFile
  <2>2. /\ mode[p] = "instance"
        /\ pausedFile'[p] = TRUE
        /\ UNCHANGED <<status, mode, login, running, sidecars, drift>>
        /\ \A q \in Projects : q # p => SameProject(q)
    BY <1>0, <1>p, <1>f, <1>3, <2>1 DEF PauseFile, TypeOK, SameProject, Goto
  <2>3. HandlerMid("pauseFile", p) => HandlerMid("pauseStop", p)'
    BY <1>f, <2>1, <2>2 DEF HandlerMid, Sound, Lockout
  <2> QED
    BY <1>0, <1>p, <1>f, <2>1, <2>2, <2>3, HandlerSettles
<1>4. CASE PauseStop(w)
  <2>1. CASE running' = [running EXCEPT ![h[w].p] = FALSE] /\ UNCHANGED drift
    <3>1. Goto(w, "pauseStop", "pauseSidecars") /\ p \in Projects /\ UNCHANGED <<sampler, job, proxy>>
      BY <1>0, <1>p, <1>4, <2>1, GotoMoves DEF PauseStop, MarkFailure
    <3>2. /\ running'[p] = FALSE
          /\ UNCHANGED <<status, mode, login, pausedFile, sidecars, drift>>
          /\ \A q \in Projects : q # p => SameProject(q)
      BY <1>0, <1>p, <1>4, <2>1, <3>1 DEF PauseStop, MarkFailure, TypeOK, SameProject
    <3>3. HandlerMid("pauseStop", p) => HandlerMid("pauseSidecars", p)'
      BY <1>f, <2>1, <3>1, <3>2 DEF HandlerMid, Sound, Lockout
    <3> QED
      BY <1>0, <1>p, <1>f, <3>1, <3>2, <3>3, HandlerSettles
  <2>2. CASE MarkFailure(h[w].p) /\ UNCHANGED running
    <3>1. Goto(w, "pauseStop", "pauseSidecars") /\ p \in Projects /\ UNCHANGED <<sampler, job, proxy>>
      BY <1>0, <1>p, <1>4, <2>2, GotoMoves DEF PauseStop, MarkFailure
    <3>2. /\ drift'[p] = "now"
          /\ UNCHANGED <<status, mode, login, pausedFile, running, sidecars>>
          /\ \A q \in Projects : q # p => SameProject(q)
      BY <1>0, <1>p, <1>4, <2>2, <3>1 DEF PauseStop, MarkFailure, TypeOK, SameProject
    <3>3. drift'[p] # "now" =>
            drift[p] # "now" /\ (HandlerMid("pauseStop", p) => HandlerMid("pauseSidecars", p)')
      BY <1>f, <2>2, <3>1, <3>2 DEF HandlerMid, Sound, Lockout
    <3> QED
      BY <1>0, <1>p, <1>f, <3>1, <3>2, <3>3, HandlerSettles
  <2> QED
    BY <1>p, <1>4, <2>1, <2>2 DEF PauseStop, Goto
<1>5. CASE PauseSidecars(w)
  <2>1. Goto(w, "pauseSidecars", "pauseRow") /\ p \in Projects /\ UNCHANGED <<sampler, job, proxy>>
    BY <1>0, <1>p, <1>5, GotoMoves DEF PauseSidecars
  <2>2. /\ sidecars'[p] = {}
        /\ UNCHANGED <<status, mode, login, pausedFile, running, drift>>
        /\ \A q \in Projects : q # p => SameProject(q)
    BY <1>0, <1>p, <1>5, <2>1 DEF PauseSidecars, TypeOK, SameProject
  <2>3. HandlerMid("pauseSidecars", p) => HandlerMid("pauseRow", p)'
    BY <1>f, <2>1, <2>2 DEF HandlerMid, Sound, Lockout
  <2> QED
    BY <1>0, <1>p, <1>f, <2>1, <2>2, <2>3, HandlerSettles
<1>6. CASE PauseRow(w)
  <2>1. Goto(w, "pauseRow", "idle") /\ p \in Projects /\ UNCHANGED <<sampler, job, proxy>>
    BY <1>0, <1>p, <1>6, GotoMoves DEF PauseRow, MarkRepair
  <2>2. /\ status'[p] = "paused"
        /\ drift'[p] = IF drift[p] = "now" THEN "now" ELSE "none"
        /\ UNCHANGED <<mode, login, pausedFile, running, sidecars>>
        /\ \A q \in Projects : q # p => SameProject(q)
    BY <1>0, <1>p, <1>6, <2>1 DEF PauseRow, MarkRepair, TypeOK, SameProject
  <2>3. drift'[p] # "now" =>
          drift[p] # "now" /\ (HandlerMid("pauseRow", p) => HandlerMid("idle", p)')
    BY <1>f, <2>1, <2>2 DEF HandlerMid, Sound, Lockout
  <2> QED
    BY <1>0, <1>p, <1>f, <2>1, <2>2, <2>3, HandlerSettles
<1>7. CASE ResumeLogin(w)
  <2>1. Goto(w, "resumeLogin", "resumeRow") /\ p \in Projects /\ UNCHANGED <<sampler, job, proxy>>
    BY <1>0, <1>p, <1>7, GotoMoves DEF ResumeLogin
  <2>2. /\ login'[p] = TRUE
        /\ UNCHANGED <<status, mode, pausedFile, running, sidecars, drift>>
        /\ \A q \in Projects : q # p => SameProject(q)
    BY <1>0, <1>p, <1>7, <2>1 DEF ResumeLogin, TypeOK, SameProject
  <2>3. HandlerMid("resumeLogin", p) => HandlerMid("resumeRow", p)'
    BY <1>f, <2>1, <2>2 DEF HandlerMid, Sound, Lockout
  <2> QED
    BY <1>0, <1>p, <1>f, <2>1, <2>2, <2>3, HandlerSettles
<1>8. CASE ResumeFile(w)
  <2>1. Goto(w, "resumeFile", "resumeStart") /\ p \in Projects /\ UNCHANGED <<sampler, job, proxy>>
    BY <1>0, <1>p, <1>8, GotoMoves DEF ResumeFile
  <2>2. /\ pausedFile'[p] = FALSE
        /\ UNCHANGED <<status, mode, login, running, sidecars, drift>>
        /\ \A q \in Projects : q # p => SameProject(q)
    BY <1>0, <1>p, <1>8, <2>1 DEF ResumeFile, TypeOK, SameProject
  <2>3. HandlerMid("resumeFile", p) => HandlerMid("resumeStart", p)'
    BY <1>f, <2>1, <2>2 DEF HandlerMid, Sound, Lockout
  <2> QED
    BY <1>0, <1>p, <1>f, <2>1, <2>2, <2>3, HandlerSettles
<1>9. CASE ResumeStart(w)
  <2>1. CASE Goto(w, "resumeStart", "resumeRow") /\ UNCHANGED drift
    <3>1. Goto(w, "resumeStart", "resumeRow") /\ p \in Projects /\ UNCHANGED <<sampler, job, proxy>>
      BY <1>0, <1>p, <1>9, <2>1, GotoMoves DEF ResumeStart, MarkFailure
    <3>2. /\ UNCHANGED <<status, mode, login, pausedFile, sidecars, drift>>
          /\ \A q \in Projects : q # p => SameProject(q)
      BY <1>0, <1>p, <1>9, <2>1, <3>1 DEF ResumeStart, MarkFailure, TypeOK, SameProject
    <3>3. HandlerMid("resumeStart", p) => HandlerMid("resumeRow", p)'
      BY <1>f, <2>1, <3>1, <3>2 DEF HandlerMid, Sound, Lockout
    <3> QED
      BY <1>0, <1>p, <1>f, <3>1, <3>2, <3>3, HandlerSettles
  <2>2. CASE Goto(w, "resumeStart", "idle") /\ MarkFailure(h[w].p) /\ UNCHANGED running
    <3>1. Goto(w, "resumeStart", "idle") /\ p \in Projects /\ UNCHANGED <<sampler, job, proxy>>
      BY <1>0, <1>p, <1>9, <2>2, GotoMoves DEF ResumeStart, MarkFailure
    <3>2. /\ drift'[p] = "now"
          /\ UNCHANGED <<status, mode, login, pausedFile, running, sidecars>>
          /\ \A q \in Projects : q # p => SameProject(q)
      BY <1>0, <1>p, <1>9, <2>2, <3>1 DEF ResumeStart, MarkFailure, TypeOK, SameProject
    <3>3. drift'[p] # "now" =>
            drift[p] # "now" /\ (HandlerMid("resumeStart", p) => HandlerMid("idle", p)')
      BY <1>f, <2>2, <3>1, <3>2 DEF HandlerMid, Sound, Lockout
    <3> QED
      BY <1>0, <1>p, <1>f, <3>1, <3>2, <3>3, HandlerSettles
  <2> QED
    BY <1>p, <1>9, <2>1, <2>2 DEF ResumeStart, Goto
<1>10. CASE ResumeRow(w)
  <2>1. Goto(w, "resumeRow", "idle") /\ p \in Projects /\ UNCHANGED <<sampler, job, proxy>>
    BY <1>0, <1>p, <1>10, GotoMoves DEF ResumeRow, MarkRepair
  <2>2. /\ status'[p] = "active"
        /\ drift'[p] = IF drift[p] = "now" THEN "now" ELSE "none"
        /\ UNCHANGED <<mode, login, pausedFile, running, sidecars>>
        /\ \A q \in Projects : q # p => SameProject(q)
    BY <1>0, <1>p, <1>10, <2>1 DEF ResumeRow, MarkRepair, TypeOK, SameProject
  <2>3. drift'[p] # "now" =>
          drift[p] # "now" /\ (HandlerMid("resumeRow", p) => HandlerMid("idle", p)')
    BY <1>f, <2>1, <2>2 DEF HandlerMid, Sound, Lockout
  <2> QED
    BY <1>0, <1>p, <1>f, <2>1, <2>2, <2>3, HandlerSettles
<1>11. CASE AlterRoleFails(w)
  <2>1. CASE Goto(w, "pauseNologin", "idle")
    <3>1. Goto(w, "pauseNologin", "idle") /\ p \in Projects /\ UNCHANGED <<sampler, job, proxy>>
      BY <1>0, <1>p, <1>11, <2>1, GotoMoves DEF AlterRoleFails
    <3>2. /\ UNCHANGED <<status, mode, login, pausedFile, running, sidecars, drift>>
          /\ \A q \in Projects : q # p => SameProject(q)
      BY <1>0, <1>p, <1>11, <2>1, <3>1 DEF AlterRoleFails, TypeOK, SameProject
    <3>3. HandlerMid("pauseNologin", p) => HandlerMid("idle", p)'
      BY <1>f, <2>1, <3>1, <3>2 DEF HandlerMid, Sound, Lockout
    <3> QED
      BY <1>0, <1>p, <1>f, <3>1, <3>2, <3>3, HandlerSettles
  <2>2. CASE Goto(w, "resumeLogin", "idle")
    <3>1. Goto(w, "resumeLogin", "idle") /\ p \in Projects /\ UNCHANGED <<sampler, job, proxy>>
      BY <1>0, <1>p, <1>11, <2>2, GotoMoves DEF AlterRoleFails
    <3>2. /\ UNCHANGED <<status, mode, login, pausedFile, running, sidecars, drift>>
          /\ \A q \in Projects : q # p => SameProject(q)
      BY <1>0, <1>p, <1>11, <2>2, <3>1 DEF AlterRoleFails, TypeOK, SameProject
    <3>3. HandlerMid("resumeLogin", p) => HandlerMid("idle", p)'
      BY <1>f, <2>2, <3>1, <3>2 DEF HandlerMid, Sound, Lockout
    <3> QED
      BY <1>0, <1>p, <1>f, <3>1, <3>2, <3>3, HandlerSettles
  <2> QED
    BY <1>p, <1>11, <2>1, <2>2 DEF AlterRoleFails, Goto
<1>12. CASE SleepStop(w)
  <2>1. Goto(w, "sleepStop", "sleepSidecars") /\ p \in Projects /\ UNCHANGED <<sampler, job, proxy>>
    BY <1>0, <1>p, <1>12, GotoMoves DEF SleepStop
  <2>2. /\ running'[p] = FALSE
        /\ UNCHANGED <<status, mode, login, pausedFile, sidecars, drift>>
        /\ \A q \in Projects : q # p => SameProject(q)
    BY <1>0, <1>p, <1>12, <2>1 DEF SleepStop, TypeOK, SameProject
  <2>3. HandlerMid("sleepStop", p) => HandlerMid("sleepSidecars", p)'
    BY <1>f, <2>1, <2>2 DEF HandlerMid, Sound, Lockout
  <2> QED
    BY <1>0, <1>p, <1>f, <2>1, <2>2, <2>3, HandlerSettles
<1>13. CASE SleepSidecars(w)
  <2>1. Goto(w, "sleepSidecars", "sleepRow") /\ p \in Projects /\ UNCHANGED <<sampler, job, proxy>>
    BY <1>0, <1>p, <1>13, GotoMoves DEF SleepSidecars
  <2>2. /\ sidecars'[p] = {}
        /\ UNCHANGED <<status, mode, login, pausedFile, running, drift>>
        /\ \A q \in Projects : q # p => SameProject(q)
    BY <1>0, <1>p, <1>13, <2>1 DEF SleepSidecars, TypeOK, SameProject
  <2>3. HandlerMid("sleepSidecars", p) => HandlerMid("sleepRow", p)'
    BY <1>f, <2>1, <2>2 DEF HandlerMid, Sound, Lockout
  <2> QED
    BY <1>0, <1>p, <1>f, <2>1, <2>2, <2>3, HandlerSettles
<1>14. CASE SleepRow(w)
  <2>1. Goto(w, "sleepRow", "idle") /\ p \in Projects /\ UNCHANGED <<sampler, job, proxy>>
    BY <1>0, <1>p, <1>14, GotoMoves DEF SleepRow
  <2>2. /\ status'[p] = IF status[p] = "active" THEN "suspended" ELSE status[p]
        /\ UNCHANGED <<mode, login, pausedFile, running, sidecars, drift>>
        /\ \A q \in Projects : q # p => SameProject(q)
    BY <1>0, <1>p, <1>14, <2>1 DEF SleepRow, TypeOK, SameProject
  <2>3. HandlerMid("sleepRow", p) => HandlerMid("idle", p)'
    BY <1>f, <2>1, <2>2 DEF HandlerMid, Sound, Lockout
  <2> QED
    BY <1>0, <1>p, <1>f, <2>1, <2>2, <2>3, HandlerSettles
<1>15. CASE WakeRow(w)
  <2>1. CASE status[p] = "suspended"
    <3>1. Goto(w, "wakeRow", "wakeLogin") /\ p \in Projects /\ UNCHANGED <<sampler, job, proxy>>
      BY <1>0, <1>p, <1>15, <2>1, GotoMoves DEF WakeRow, WakeUpdate
    <3>2. /\ status'[p] = "active"
          /\ UNCHANGED <<mode, login, pausedFile, running, sidecars, drift>>
          /\ \A q \in Projects : q # p => SameProject(q)
      BY <1>0, <1>p, <1>15, <2>1, <3>1 DEF WakeRow, WakeUpdate, TypeOK, SameProject
    <3>3. HandlerMid("wakeRow", p) => HandlerMid("wakeLogin", p)'
      BY <1>f, <2>1, <3>1, <3>2 DEF HandlerMid, Sound, Lockout
    <3> QED
      BY <1>0, <1>p, <1>f, <3>1, <3>2, <3>3, HandlerSettles
  <2>2. CASE status[p] # "suspended"
    <3>1. Goto(w, "wakeRow", "idle") /\ p \in Projects /\ UNCHANGED <<sampler, job, proxy>>
      BY <1>0, <1>p, <1>15, <2>2, GotoMoves DEF WakeRow, WakeUpdate
    <3>2. /\ status'[p] = status[p]
          /\ UNCHANGED <<mode, login, pausedFile, running, sidecars, drift>>
          /\ \A q \in Projects : q # p => SameProject(q)
      BY <1>0, <1>p, <1>15, <2>2, <3>1 DEF WakeRow, WakeUpdate, TypeOK, SameProject
    <3>3. HandlerMid("wakeRow", p) => HandlerMid("idle", p)'
      BY <1>f, <2>2, <3>1, <3>2 DEF HandlerMid, Sound, Lockout
    <3> QED
      BY <1>0, <1>p, <1>f, <3>1, <3>2, <3>3, HandlerSettles
  <2> QED
    BY <1>p, <1>15, <2>1, <2>2 DEF WakeRow, Goto
<1>16. CASE WakeRowInst(w)
  <2>1. CASE status[p] = "suspended"
    <3>1. Goto(w, "wakeRowInst", "wakeStart") /\ p \in Projects /\ UNCHANGED <<sampler, job, proxy>>
      BY <1>0, <1>p, <1>16, <2>1, GotoMoves DEF WakeRowInst, WakeUpdate
    <3>2. /\ status'[p] = "active"
          /\ UNCHANGED <<mode, login, pausedFile, running, sidecars, drift>>
          /\ \A q \in Projects : q # p => SameProject(q)
      BY <1>0, <1>p, <1>16, <2>1, <3>1 DEF WakeRowInst, WakeUpdate, TypeOK, SameProject
    <3>3. HandlerMid("wakeRowInst", p) => HandlerMid("wakeStart", p)'
      BY <1>f, <2>1, <3>1, <3>2 DEF HandlerMid, Sound, Lockout
    <3> QED
      BY <1>0, <1>p, <1>f, <3>1, <3>2, <3>3, HandlerSettles
  <2>2. CASE status[p] # "suspended"
    <3>1. Goto(w, "wakeRowInst", "idle") /\ p \in Projects /\ UNCHANGED <<sampler, job, proxy>>
      BY <1>0, <1>p, <1>16, <2>2, GotoMoves DEF WakeRowInst, WakeUpdate
    <3>2. /\ status'[p] = status[p]
          /\ UNCHANGED <<mode, login, pausedFile, running, sidecars, drift>>
          /\ \A q \in Projects : q # p => SameProject(q)
      BY <1>0, <1>p, <1>16, <2>2, <3>1 DEF WakeRowInst, WakeUpdate, TypeOK, SameProject
    <3>3. HandlerMid("wakeRowInst", p) => HandlerMid("idle", p)'
      BY <1>f, <2>2, <3>1, <3>2 DEF HandlerMid, Sound, Lockout
    <3> QED
      BY <1>0, <1>p, <1>f, <3>1, <3>2, <3>3, HandlerSettles
  <2> QED
    BY <1>p, <1>16, <2>1, <2>2 DEF WakeRowInst, Goto
<1>17. CASE WakeLogin(w)
  <2>1. Goto(w, "wakeLogin", "wakeHub") /\ p \in Projects /\ UNCHANGED <<sampler, job, proxy>>
    BY <1>0, <1>p, <1>17, GotoMoves DEF WakeLogin
  <2>2. /\ login'[p] = TRUE
        /\ UNCHANGED <<status, mode, pausedFile, running, sidecars, drift>>
        /\ \A q \in Projects : q # p => SameProject(q)
    BY <1>0, <1>p, <1>17, <2>1 DEF WakeLogin, TypeOK, SameProject
  <2>3. HandlerMid("wakeLogin", p) => HandlerMid("wakeHub", p)'
    BY <1>f, <2>1, <2>2 DEF HandlerMid, Sound, Lockout
  <2> QED
    BY <1>0, <1>p, <1>f, <2>1, <2>2, <2>3, HandlerSettles
<1>18. CASE WakeStart(w)
  <2>1. Goto(w, "wakeStart", "idle") /\ p \in Projects /\ UNCHANGED <<sampler, job, proxy>>
    BY <1>0, <1>p, <1>18, GotoMoves DEF WakeStart
  <2>2. /\ UNCHANGED <<status, mode, login, pausedFile, sidecars, drift>>
        /\ \A q \in Projects : q # p => SameProject(q)
    BY <1>0, <1>p, <1>18, <2>1 DEF WakeStart, TypeOK, SameProject
  <2>3. HandlerMid("wakeStart", p) => HandlerMid("idle", p)'
    BY <1>f, <2>1, <2>2 DEF HandlerMid, Sound, Lockout
  <2> QED
    BY <1>0, <1>p, <1>f, <2>1, <2>2, <2>3, HandlerSettles
<1>19. CASE WakeHub(w)
  <2>1. Goto(w, "wakeHub", "idle") /\ p \in Projects /\ UNCHANGED <<sampler, job, proxy>>
    BY <1>0, <1>p, <1>19, GotoMoves DEF WakeHub, StartHub
  <2>2. /\ UNCHANGED <<status, mode, login, pausedFile, running, drift>>
        /\ \A q \in Projects : q # p => SameProject(q)
    BY <1>0, <1>p, <1>19, <2>1 DEF WakeHub, StartHub, TypeOK, SameProject
  <2>3. HandlerMid("wakeHub", p) => HandlerMid("idle", p)'
    BY <1>f, <2>1, <2>2 DEF HandlerMid, Sound, Lockout
  <2> QED
    BY <1>0, <1>p, <1>f, <2>1, <2>2, <2>3, HandlerSettles
<1>20. CASE TouchRow(w)
  <2>1. CASE status[p] = "suspended"
    <3>1. Goto(w, "touchRow", "touchLogin") /\ p \in Projects /\ UNCHANGED <<sampler, job, proxy>>
      BY <1>0, <1>p, <1>20, <2>1, GotoMoves DEF TouchRow
    <3>2. /\ status'[p] = "active"
          /\ UNCHANGED <<mode, login, pausedFile, running, sidecars, drift>>
          /\ \A q \in Projects : q # p => SameProject(q)
      BY <1>0, <1>p, <1>20, <2>1, <3>1 DEF TouchRow, TypeOK, SameProject
    <3>3. HandlerMid("touchRow", p) => HandlerMid("touchLogin", p)'
      BY <1>f, <2>1, <3>1, <3>2 DEF HandlerMid, Sound, Lockout
    <3> QED
      BY <1>0, <1>p, <1>f, <3>1, <3>2, <3>3, HandlerSettles
  <2>2. CASE status[p] # "suspended"
    <3>1. Goto(w, "touchRow", "serve") /\ p \in Projects /\ UNCHANGED <<sampler, job, proxy>>
      BY <1>0, <1>p, <1>20, <2>2, GotoMoves DEF TouchRow
    <3>2. /\ status'[p] = status[p]
          /\ UNCHANGED <<mode, login, pausedFile, running, sidecars, drift>>
          /\ \A q \in Projects : q # p => SameProject(q)
      BY <1>0, <1>p, <1>20, <2>2, <3>1 DEF TouchRow, TypeOK, SameProject
    <3>3. HandlerMid("touchRow", p) => HandlerMid("serve", p)'
      BY <1>f, <2>2, <3>1, <3>2 DEF HandlerMid, Sound, Lockout
    <3> QED
      BY <1>0, <1>p, <1>f, <3>1, <3>2, <3>3, HandlerSettles
  <2> QED
    BY <1>p, <1>20, <2>1, <2>2 DEF TouchRow, Goto
<1>21. CASE TouchLogin(w)
  <2>1. Goto(w, "touchLogin", "touchHub") /\ p \in Projects /\ UNCHANGED <<sampler, job, proxy>>
    BY <1>0, <1>p, <1>21, GotoMoves DEF TouchLogin
  <2>2. /\ login'[p] = TRUE
        /\ UNCHANGED <<status, mode, pausedFile, running, sidecars, drift>>
        /\ \A q \in Projects : q # p => SameProject(q)
    BY <1>0, <1>p, <1>21, <2>1 DEF TouchLogin, TypeOK, SameProject
  <2>3. HandlerMid("touchLogin", p) => HandlerMid("touchHub", p)'
    BY <1>f, <2>1, <2>2 DEF HandlerMid, Sound, Lockout
  <2> QED
    BY <1>0, <1>p, <1>f, <2>1, <2>2, <2>3, HandlerSettles
<1>22. CASE TouchHub(w)
  <2>1. Goto(w, "touchHub", "serve") /\ p \in Projects /\ UNCHANGED <<sampler, job, proxy>>
    BY <1>0, <1>p, <1>22, GotoMoves DEF TouchHub, StartHub
  <2>2. /\ UNCHANGED <<status, mode, login, pausedFile, running, drift>>
        /\ \A q \in Projects : q # p => SameProject(q)
    BY <1>0, <1>p, <1>22, <2>1 DEF TouchHub, StartHub, TypeOK, SameProject
  <2>3. HandlerMid("touchHub", p) => HandlerMid("serve", p)'
    BY <1>f, <2>1, <2>2 DEF HandlerMid, Sound, Lockout
  <2> QED
    BY <1>0, <1>p, <1>f, <2>1, <2>2, <2>3, HandlerSettles
<1>23. CASE Serve(w)
  <2>1. Goto(w, "serve", "idle") /\ p \in Projects /\ UNCHANGED <<sampler, job, proxy>>
    BY <1>0, <1>p, <1>23, GotoMoves DEF Serve
  <2>2. /\ UNCHANGED <<status, mode, login, pausedFile, running, drift>>
        /\ \A q \in Projects : q # p => SameProject(q)
    BY <1>0, <1>p, <1>23, <2>1 DEF Serve, TypeOK, SameProject
  <2>3. HandlerMid("serve", p) => HandlerMid("idle", p)'
    BY <1>f, <2>1, <2>2 DEF HandlerMid, Sound, Lockout
  <2> QED
    BY <1>0, <1>p, <1>f, <2>1, <2>2, <2>3, HandlerSettles
<1>24. CASE MigCreate(w)
  <2>1. CASE Goto(w, "migCreate", "idle")
    <3>1. Goto(w, "migCreate", "idle") /\ p \in Projects /\ UNCHANGED <<sampler, job, proxy>>
      BY <1>0, <1>p, <1>24, <2>1, GotoMoves DEF MigCreate
    <3>2. /\ UNCHANGED <<status, mode, login, pausedFile, sidecars, drift>>
          /\ \A q \in Projects : q # p => SameProject(q)
      BY <1>0, <1>p, <1>24, <2>1, <3>1 DEF MigCreate, TypeOK, SameProject
    <3>3. HandlerMid("migCreate", p) => HandlerMid("idle", p)'
      BY <1>f, <2>1, <3>1, <3>2 DEF HandlerMid, Sound, Lockout
    <3> QED
      BY <1>0, <1>p, <1>f, <3>1, <3>2, <3>3, HandlerSettles
  <2>2. CASE Goto(w, "migCreate", "migCopy")
    <3>1. Goto(w, "migCreate", "migCopy") /\ p \in Projects /\ UNCHANGED <<sampler, job, proxy>>
      BY <1>0, <1>p, <1>24, <2>2, GotoMoves DEF MigCreate
    <3>2. /\ UNCHANGED <<status, mode, login, pausedFile, sidecars, drift>>
          /\ \A q \in Projects : q # p => SameProject(q)
      BY <1>0, <1>p, <1>24, <2>2, <3>1 DEF MigCreate, TypeOK, SameProject
    <3>3. HandlerMid("migCreate", p) => HandlerMid("migCopy", p)'
      BY <1>f, <2>2, <3>1, <3>2 DEF HandlerMid, Sound, Lockout
    <3> QED
      BY <1>0, <1>p, <1>f, <3>1, <3>2, <3>3, HandlerSettles
  <2> QED
    BY <1>p, <1>24, <2>1, <2>2 DEF MigCreate, Goto
<1>25. CASE MigCopy(w)
  <2>1. CASE Goto(w, "migCopy", "migFlip")
    <3>1. Goto(w, "migCopy", "migFlip") /\ p \in Projects /\ UNCHANGED <<sampler, job, proxy>>
      BY <1>0, <1>p, <1>25, <2>1, GotoMoves DEF MigCopy
    <3>2. /\ UNCHANGED <<status, mode, login, pausedFile, sidecars, drift>>
          /\ \A q \in Projects : q # p => SameProject(q)
      BY <1>0, <1>p, <1>25, <2>1, <3>1 DEF MigCopy, TypeOK, SameProject
    <3>3. HandlerMid("migCopy", p) => HandlerMid("migFlip", p)'
      BY <1>f, <2>1, <3>1, <3>2 DEF HandlerMid, Sound, Lockout
    <3> QED
      BY <1>0, <1>p, <1>f, <3>1, <3>2, <3>3, HandlerSettles
  <2>2. CASE Goto(w, "migCopy", "idle")
    <3>1. Goto(w, "migCopy", "idle") /\ p \in Projects /\ UNCHANGED <<sampler, job, proxy>>
      BY <1>0, <1>p, <1>25, <2>2, GotoMoves DEF MigCopy
    <3>2. /\ UNCHANGED <<status, mode, login, pausedFile, sidecars, drift>>
          /\ \A q \in Projects : q # p => SameProject(q)
      BY <1>0, <1>p, <1>25, <2>2, <3>1 DEF MigCopy, TypeOK, SameProject
    <3>3. HandlerMid("migCopy", p) => HandlerMid("idle", p)'
      BY <1>f, <2>2, <3>1, <3>2 DEF HandlerMid, Sound, Lockout
    <3> QED
      BY <1>0, <1>p, <1>f, <3>1, <3>2, <3>3, HandlerSettles
  <2> QED
    BY <1>p, <1>25, <2>1, <2>2 DEF MigCopy, Goto
<1>26. CASE MigFlip(w)
  <2>1. Goto(w, "migFlip", "migPark") /\ p \in Projects /\ UNCHANGED <<sampler, job, proxy>>
    BY <1>0, <1>p, <1>26, GotoMoves DEF MigFlip
  <2>2. /\ sidecars'[p] = {}
        /\ UNCHANGED <<status, mode, login, pausedFile, running, drift>>
        /\ \A q \in Projects : q # p => SameProject(q)
    BY <1>0, <1>p, <1>26, <2>1 DEF MigFlip, TypeOK, SameProject
  <2>3. HandlerMid("migFlip", p) => HandlerMid("migPark", p)'
    BY <1>f, <2>1, <2>2 DEF HandlerMid, Sound, Lockout
  <2> QED
    BY <1>0, <1>p, <1>f, <2>1, <2>2, <2>3, HandlerSettles
<1>27. CASE MigPark(w)
  <2>1. CASE conns[p] \/ parked[p]
    <3>1. Goto(w, "migPark", "idle") /\ p \in Projects /\ UNCHANGED <<sampler, job, proxy>>
      BY <1>0, <1>p, <1>27, <2>1, GotoMoves DEF MigPark
    <3>2. /\ UNCHANGED <<status, mode, login, pausedFile, running, sidecars, drift>>
          /\ \A q \in Projects : q # p => SameProject(q)
      BY <1>0, <1>p, <1>27, <2>1, <3>1 DEF MigPark, TypeOK, SameProject
    <3>3. HandlerMid("migPark", p) => HandlerMid("idle", p)'
      BY <1>f, <2>1, <3>1, <3>2 DEF HandlerMid, Sound, Lockout
    <3> QED
      BY <1>0, <1>p, <1>f, <3>1, <3>2, <3>3, HandlerSettles
  <2>2. CASE ~(conns[p] \/ parked[p])
    <3>1. Goto(w, "migPark", "migRow") /\ p \in Projects /\ UNCHANGED <<sampler, job, proxy>>
      BY <1>0, <1>p, <1>27, <2>2, GotoMoves DEF MigPark
    <3>2. /\ UNCHANGED <<status, mode, login, pausedFile, running, sidecars, drift>>
          /\ \A q \in Projects : q # p => SameProject(q)
      BY <1>0, <1>p, <1>27, <2>2, <3>1 DEF MigPark, TypeOK, SameProject
    <3>3. HandlerMid("migPark", p) => HandlerMid("migRow", p)'
      BY <1>f, <2>2, <3>1, <3>2 DEF HandlerMid, Sound, Lockout
    <3> QED
      BY <1>0, <1>p, <1>f, <3>1, <3>2, <3>3, HandlerSettles
  <2> QED
    BY <1>p, <1>27, <2>1, <2>2 DEF MigPark, Goto
<1>28. CASE MigRow(w)
  <2>1. Goto(w, "migRow", "idle") /\ p \in Projects /\ UNCHANGED <<sampler, job, proxy>>
    BY <1>0, <1>p, <1>28, GotoMoves DEF MigRow
  <2>2. /\ mode'[p] = "instance"
        /\ status'[p] = "active"
        /\ UNCHANGED <<login, pausedFile, running, sidecars, drift>>
        /\ \A q \in Projects : q # p => SameProject(q)
    BY <1>0, <1>p, <1>28, <2>1 DEF MigRow, TypeOK, SameProject
  <2>3. HandlerMid("migRow", p) => HandlerMid("idle", p)'
    BY <1>f, <2>1, <2>2 DEF HandlerMid, Sound, Lockout
  <2> QED
    BY <1>0, <1>p, <1>f, <2>1, <2>2, <2>3, HandlerSettles
<1>29. CASE ResetStop(w)
  <2>1. Goto(w, "resetStop", "resetDrop") /\ p \in Projects /\ UNCHANGED <<sampler, job, proxy>>
    BY <1>0, <1>p, <1>29, GotoMoves DEF ResetStop
  <2>2. /\ sidecars'[p] = {}
        /\ UNCHANGED <<status, mode, login, pausedFile, running, drift>>
        /\ \A q \in Projects : q # p => SameProject(q)
    BY <1>0, <1>p, <1>29, <2>1 DEF ResetStop, TypeOK, SameProject
  <2>3. HandlerMid("resetStop", p) => HandlerMid("resetDrop", p)'
    BY <1>f, <2>1, <2>2 DEF HandlerMid, Sound, Lockout
  <2> QED
    BY <1>0, <1>p, <1>f, <2>1, <2>2, <2>3, HandlerSettles
<1>30. CASE ResetDrop(w)
  <2>1. CASE conns[p]
    <3>1. Goto(w, "resetDrop", "idle") /\ p \in Projects /\ UNCHANGED <<sampler, job, proxy>>
      BY <1>0, <1>p, <1>30, <2>1, GotoMoves DEF ResetDrop
    <3>2. /\ UNCHANGED <<status, mode, login, pausedFile, running, sidecars, drift>>
          /\ \A q \in Projects : q # p => SameProject(q)
      BY <1>0, <1>p, <1>30, <2>1, <3>1 DEF ResetDrop, TypeOK, SameProject
    <3>3. HandlerMid("resetDrop", p) => HandlerMid("idle", p)'
      BY <1>f, <2>1, <3>1, <3>2 DEF HandlerMid, Sound, Lockout
    <3> QED
      BY <1>0, <1>p, <1>f, <3>1, <3>2, <3>3, HandlerSettles
  <2>2. CASE ~conns[p]
    <3>1. Goto(w, "resetDrop", "resetRow") /\ p \in Projects /\ UNCHANGED <<sampler, job, proxy>>
      BY <1>0, <1>p, <1>30, <2>2, GotoMoves DEF ResetDrop
    <3>2. /\ UNCHANGED <<status, mode, login, pausedFile, running, sidecars, drift>>
          /\ \A q \in Projects : q # p => SameProject(q)
      BY <1>0, <1>p, <1>30, <2>2, <3>1 DEF ResetDrop, TypeOK, SameProject
    <3>3. HandlerMid("resetDrop", p) => HandlerMid("resetRow", p)'
      BY <1>f, <2>2, <3>1, <3>2 DEF HandlerMid, Sound, Lockout
    <3> QED
      BY <1>0, <1>p, <1>f, <3>1, <3>2, <3>3, HandlerSettles
  <2> QED
    BY <1>p, <1>30, <2>1, <2>2 DEF ResetDrop, Goto
<1>31. CASE ResetRow(w)
  <2>1. CASE UNCHANGED <<status, drift>>
    <3>1. Goto(w, "resetRow", "idle") /\ p \in Projects /\ UNCHANGED <<sampler, job, proxy>>
      BY <1>0, <1>p, <1>31, <2>1, GotoMoves DEF ResetRow, MarkHalfUndone
    <3>2. /\ UNCHANGED <<status, mode, login, pausedFile, running, sidecars, drift>>
          /\ \A q \in Projects : q # p => SameProject(q)
      BY <1>0, <1>p, <1>31, <2>1, <3>1 DEF ResetRow, MarkHalfUndone, TypeOK, SameProject
    <3>3. HandlerMid("resetRow", p) => HandlerMid("idle", p)'
      BY <1>f, <2>1, <3>1, <3>2 DEF HandlerMid, Sound, Lockout
    <3> QED
      BY <1>0, <1>p, <1>f, <3>1, <3>2, <3>3, HandlerSettles
  <2>2. CASE status' = [status EXCEPT ![p] = "active"] /\ MarkHalfUndone(p)
    <3>1. Goto(w, "resetRow", "idle") /\ p \in Projects /\ UNCHANGED <<sampler, job, proxy>>
      BY <1>0, <1>p, <1>31, <2>2, GotoMoves DEF ResetRow, MarkHalfUndone
    <3>2. /\ status'[p] = "active"
          /\ drift'[p] = IF status[p] = "paused" THEN "now" ELSE drift[p]
          /\ UNCHANGED <<mode, login, pausedFile, running, sidecars>>
          /\ \A q \in Projects : q # p => SameProject(q)
      BY <1>0, <1>p, <1>31, <2>2, <3>1 DEF ResetRow, MarkHalfUndone, TypeOK, SameProject
    <3>3. drift'[p] # "now" =>
            drift[p] # "now" /\ (HandlerMid("resetRow", p) => HandlerMid("idle", p)')
      BY <1>f, <2>2, <3>1, <3>2 DEF HandlerMid, Sound, Lockout
    <3> QED
      BY <1>0, <1>p, <1>f, <3>1, <3>2, <3>3, HandlerSettles
  <2> QED
    BY <1>p, <1>31, <2>1, <2>2 DEF ResetRow, Goto
<1>32. CASE ResetDelete(w)
  <2>1. Goto(w, "resetDelete", "resetBranch") /\ p \in Projects /\ UNCHANGED <<sampler, job, proxy>>
    BY <1>0, <1>p, <1>32, GotoMoves DEF ResetDelete
  <2>2. /\ running'[p] = FALSE
        /\ UNCHANGED <<status, mode, login, pausedFile, sidecars, drift>>
        /\ \A q \in Projects : q # p => SameProject(q)
    BY <1>0, <1>p, <1>32, <2>1 DEF ResetDelete, TypeOK, SameProject
  <2>3. HandlerMid("resetDelete", p) => HandlerMid("resetBranch", p)'
    BY <1>f, <2>1, <2>2 DEF HandlerMid, Sound, Lockout
  <2> QED
    BY <1>0, <1>p, <1>f, <2>1, <2>2, <2>3, HandlerSettles
<1>33. CASE ResetBranch(w)
  <2>1. Goto(w, "resetBranch", "idle") /\ p \in Projects /\ UNCHANGED <<sampler, job, proxy>>
    BY <1>0, <1>p, <1>33, GotoMoves DEF ResetBranch, MarkHalfUndone
  <2>2. /\ drift'[p] = IF status[p] = "paused" THEN "now" ELSE drift[p]
        /\ UNCHANGED <<status, mode, login, pausedFile, sidecars>>
        /\ \A q \in Projects : q # p => SameProject(q)
    BY <1>0, <1>p, <1>33, <2>1 DEF ResetBranch, MarkHalfUndone, TypeOK, SameProject
  <2>3. drift'[p] # "now" =>
          drift[p] # "now" /\ (HandlerMid("resetBranch", p) => HandlerMid("idle", p)')
    BY <1>f, <2>1, <2>2 DEF HandlerMid, Sound, Lockout
  <2> QED
    BY <1>0, <1>p, <1>f, <2>1, <2>2, <2>3, HandlerSettles
<1> QED
  BY <1>1, <1>2, <1>3, <1>4, <1>5, <1>6, <1>7, <1>8, <1>9, <1>10, <1>11, <1>12,
     <1>13, <1>14, <1>15, <1>16, <1>17, <1>18, <1>19, <1>20, <1>21, <1>22,
     <1>23, <1>24, <1>25, <1>26, <1>27, <1>28, <1>29, <1>30, <1>31, <1>32, <1>33
  DEF HandlerStep

-----------------------------------------------------------------------------
(***************************************************************************)
(* Commands, jobs, the proxy, clients and time.                            *)
(***************************************************************************)
\* A new actor leaves drift at "none" only if nobody was at work on p.
LEMMA StartFresh ==
  ASSUME NEW p, DriftOnStart(p) # "now"
  PROVE  ~Busy(p) /\ (DriftOnStart(p) = "none" => drift[p] = "none")
BY DEF DriftOnStart

LEMMA RestIsSound ==
  ASSUME QInv, NEW p \in Projects, ~Busy(p), drift[p] = "none"
  PROVE  Sound(p)
BY DEF QInv, Settled

\* Nothing but rows, resources and time moved; no project noticed.
LEMMA QuietElsewhere ==
  ASSUME QInv, NEW p \in Projects, SameProject(p),
         UNCHANGED <<h, sampler, job, proxy>>
  PROVE  Settled(p)'
<1>1. Settled(p)
  BY DEF QInv
<1>2. \A w \in Workers : (HandlerOn(w, p)' <=> HandlerOn(w, p)) /\ h'[w].at = h[w].at
  BY DEF HandlerOn
<1>3. p \in SamplerOn' <=> p \in SamplerOn
  BY DEF SamplerOn
<1>4. ASSUME NEW x \in sampler'.todo, x[1] = p, drift[p] # "now"
      PROVE  RowMid(sampler.at, Head, x)'
  <2>1. RowMid(sampler.at, Head, x)
    BY <1>1, <1>4 DEF Settled
  <2> QED
    BY <1>4, <2>1, RowsKept
<1> QED
  BY <1>1, <1>2, <1>3, <1>4, Untouched

LEMMA BeginSettles ==
  ASSUME QInv, IInv', NEW w \in Workers, NEW p \in Projects, NEW op, NEW step,
         step \notin {"idle"} \cup LockedSteps \cup LiftedSteps \cup WokenSteps
                     \cup {"serve", "sleepRow"},
         step \in SharedSteps => mode[p] = "shared",
         step \in InstanceSteps => mode[p] = "instance",
         Begin(w, p, op, step), UNCHANGED <<row, infra, sampler, job>>
  PROVE  QInv'
<1> USE DEF row, infra
<1>0. TypeOK /\ InFlight /\ FileOfInstance /\ ListKept
  BY DEF QInv, IInv
<1>1. /\ h[w].at = "idle" /\ h'[w] = [at |-> step, p |-> p]
      /\ \A v \in Workers : v # w => h'[v] = h[v]
      /\ drift'[p] = DriftOnStart(p)
      /\ \A q \in Projects : q # p => SameProject(q)
  BY <1>0 DEF Begin, MarkStart, TypeOK, SameProject
<1>2. ListKept' /\ FileOfInstance'
  <2>1. \A v \in Workers : h'[v].at = "pauseFile" => mode'[h'[v].p] = "instance"
    BY <1>0, <1>1 DEF FileOfInstance, InstanceSteps
  <2> QED
    BY <1>0, <2>1 DEF ListKept, FileOfInstance
<1>3. ASSUME NEW q \in Projects, q # p
      PROVE  Settled(q)'
  <2>1. Settled(q) /\ SameProject(q)
    BY <1>1, <1>3 DEF QInv
  <2>2. ASSUME NEW v \in Workers
        PROVE  /\ HandlerOn(v, q)' <=> HandlerOn(v, q)
               /\ HandlerOn(v, q) => h'[v].at = h[v].at
    <3>1. CASE v = w
      BY <1>1, <1>3, <3>1 DEF HandlerOn
    <3>2. CASE v # w
      BY <1>1, <3>2 DEF HandlerOn
    <3> QED
      BY <3>1, <3>2
  <2>3. q \in SamplerOn' <=> q \in SamplerOn
    BY DEF SamplerOn
  <2>4. ASSUME NEW x \in sampler'.todo, x[1] = q, drift[q] # "now"
        PROVE  RowMid(sampler.at, Head, x)'
    <3>1. RowMid(sampler.at, Head, x)
      BY <2>1, <2>4 DEF Settled
    <3> QED
      BY <2>1, <2>4, <3>1, RowsKept
  <2> QED
    BY <2>1, <2>2, <2>3, <2>4, Untouched
<1>4. Settled(p)'
  <2> SUFFICES ASSUME drift'[p] # "now" PROVE Settled(p)'
    BY DEF Settled
  <2>1. ~Busy(p) /\ (drift'[p] = "none" => Sound(p))
    BY <1>1, StartFresh, RestIsSound
  <2>2. /\ p \notin SamplerOn' /\ job'[p].at = "none" /\ ~proxy'[p]
        /\ \A v \in Workers : HandlerOn(v, p)' => v = w
    BY <1>1, <2>1 DEF Busy, SamplerOn, HandlerOn
  <2>3. Alone(p)'
    BY <2>2 DEF Alone, SamplerOn
  <2>4. Lockout(p)' = Lockout(p) /\ (Sound(p) => Sound(p)')
    BY DEF Lockout, Sound
  <2>s. mode'[p] = mode[p]
    OBVIOUS
  <2>m. HandlerMid(step, p)'
    BY <2>1, <2>4, <2>s DEF HandlerMid, LockedSteps, LiftedSteps
  <2>5. ASSUME NEW v \in Workers, HandlerOn(v, p)'
        PROVE  HandlerMid(h[v].at, p)'
    <3>1. h'[v].at = step
      BY <1>1, <2>2, <2>5
    <3> QED
      BY <2>m, <3>1 DEF HandlerMid
  <2>6. Busy(p)' /\ (\A x \in sampler'.todo : x[1] # p)
    BY <1>1, <2>2 DEF Busy, SamplerOn
  <2> QED
    BY <2>2, <2>3, <2>5, <2>6 DEF Settled
<1> QED
  BY <1>2, <1>3, <1>4 DEF QInv

LEMMA CommandQuiet ==
  ASSUME QInv, Command
  PROVE  QInv'
<1>0. TypeOK /\ InFlight /\ IInv' /\ FileOfInstance /\ ListKept
  BY CommandTypes DEF QInv, IInv
<1> USE DEF LockedSteps, LiftedSteps, WokenSteps, SharedSteps, InstanceSteps
<1>1. ASSUME NEW w \in Workers, NEW p \in Projects,
             \/ Pause(w, p) \/ Resume(w, p) \/ Sleep(w, p) \/ Wake(w, p)
             \/ Request(w, p) \/ Migrate(w, p) \/ Reset(w, p)
      PROVE  QInv'
  <2>0. mode[p] \in {"shared", "instance"}
    BY <1>0 DEF TypeOK, Modes
  <2>1. UNCHANGED <<row, infra, sampler, job>>
    BY <1>1 DEF Pause, Resume, Sleep, Wake, Request, Migrate, Reset
  <2>2. CASE Pause(w, p)
    <3>1. CASE mode[p] = "shared"
      BY <1>0, <2>1, <2>2, <3>1, BeginSettles DEF Pause
    <3>2. CASE mode[p] = "instance"
      BY <1>0, <2>1, <2>2, <3>2, BeginSettles DEF Pause
    <3> QED
      BY <2>0, <3>1, <3>2
  <2>3. CASE Resume(w, p)
    <3>1. CASE mode[p] = "shared"
      BY <1>0, <2>1, <2>3, <3>1, BeginSettles DEF Resume
    <3>2. CASE mode[p] = "instance"
      BY <1>0, <2>1, <2>3, <3>2, BeginSettles DEF Resume
    <3> QED
      BY <2>0, <3>1, <3>2
  <2>4. CASE Sleep(w, p)
    BY <1>0, <2>1, <2>4, BeginSettles DEF Sleep
  <2>5. CASE Wake(w, p)
    BY <1>0, <2>1, <2>5, BeginSettles DEF Wake
  <2>6. CASE Request(w, p)
    BY <1>0, <2>1, <2>6, BeginSettles DEF Request
  <2>7. CASE Migrate(w, p)
    BY <1>0, <2>1, <2>7, BeginSettles DEF Migrate
  <2>8. CASE Reset(w, p)
    BY <1>0, <2>1, <2>8, BeginSettles DEF Reset
  <2> QED
    BY <1>1, <2>2, <2>3, <2>4, <2>5, <2>6, <2>7, <2>8
<1>2. ASSUME NEW p \in Projects, SetKeepAwake(p)
      PROVE  QInv'
  <2>1. UNCHANGED <<status, mode, infra, h, sampler, job, drift>>
    BY <1>2 DEF SetKeepAwake
  <2>2. FileOfInstance' /\ ListKept'
    BY <1>0, <2>1 DEF FileOfInstance, ListKept, infra
  <2>3. \A q \in Projects : Settled(q)'
    BY <2>1, QuietElsewhere DEF SameProject, infra
  <2> QED
    BY <1>0, <2>2, <2>3 DEF QInv
<1>3. ASSUME NEW p \in Projects, Refresh(p)
      PROVE  QInv'
  <2>1. /\ UNCHANGED <<row, infra, h, sampler>>
        /\ job'[p] = [kind |-> "clone", at |-> "dump"]
        /\ \A q \in Projects : q # p => job'[q] = job[q] /\ drift'[q] = drift[q]
        /\ drift'[p] = DriftOnStart(p)
    BY <1>0, <1>3 DEF Refresh, MarkStart, TypeOK
  <2>2. FileOfInstance' /\ ListKept'
    BY <1>0, <2>1 DEF FileOfInstance, ListKept, infra, row
  <2>3. ASSUME NEW q \in Projects, q # p
        PROVE  Settled(q)'
    <3>1. Settled(q) /\ SameProject(q)
      BY <2>1, <2>3 DEF QInv, SameProject, row, infra
    <3>2. ASSUME NEW x \in sampler'.todo, x[1] = q, drift[q] # "now"
          PROVE  RowMid(sampler.at, Head, x)'
      <4>1. RowMid(sampler.at, Head, x)
        BY <2>1, <3>1, <3>2 DEF Settled
      <4> QED
        BY <2>1, <3>1, <3>2, <4>1, RowsKept
    <3>3. proxy'[q] = proxy[q] /\ (q \in SamplerOn' <=> q \in SamplerOn)
      BY <2>1 DEF infra, SamplerOn
    <3>4. \A w \in Workers : (HandlerOn(w, q)' <=> HandlerOn(w, q)) /\ h'[w].at = h[w].at
      BY <2>1 DEF HandlerOn
    <3> QED
      BY <2>1, <2>3, <3>1, <3>2, <3>3, <3>4, Untouched
  <2>4. Settled(p)'
    <3> SUFFICES ASSUME drift'[p] # "now" PROVE Settled(p)'
      BY DEF Settled
    <3>1. ~Busy(p) /\ (drift'[p] = "none" => Sound(p))
      BY <2>1, StartFresh, RestIsSound
    <3>2. /\ p \notin SamplerOn' /\ ~proxy'[p]
          /\ \A v \in Workers : ~HandlerOn(v, p)'
      BY <2>1, <3>1 DEF Busy, SamplerOn, HandlerOn, infra
    <3>3. Alone(p)' /\ (\A x \in sampler'.todo : x[1] # p)
      BY <3>2 DEF Alone, SamplerOn
    <3>4. Sound(p) => Sound(p)'
      BY <2>1 DEF Lockout, Sound, row, infra
    <3>5. JobMid(p)' /\ Busy(p)'
      BY <2>1, <3>1, <3>4 DEF JobMid, Busy
    <3> QED
      BY <3>2, <3>3, <3>5 DEF Settled
  <2> QED
    BY <1>0, <2>2, <2>3, <2>4 DEF QInv
<1> QED
  BY <1>1, <1>2, <1>3 DEF Command

\* A statement of a job: it keeps what the job alone on p relies on.
LEMMA JobSettles ==
  ASSUME QInv, IInv', NEW p \in Projects, NEW from, NEW to,
         from # "none", JobGoto(p, from, to),
         \A q \in Projects : q # p => status'[q] = status[q],
         drift[p] # "now" /\ JobMid(p) => JobMid(p)'
  PROVE  QInv'
<1>0. TypeOK /\ FileOfInstance /\ ListKept
  BY DEF QInv, IInv
<1>1. /\ UNCHANGED <<mode, infra, h, sampler, drift>>
      /\ job[p].at = from
      /\ \A q \in Projects : q # p => job'[q] = job[q] /\ SameProject(q)
  BY <1>0 DEF JobGoto, TypeOK, SameProject, infra
<1>2. FileOfInstance' /\ ListKept'
  BY <1>0, <1>1 DEF FileOfInstance, ListKept, infra
<1>3. \A w \in Workers, q \in Projects :
        (HandlerOn(w, q)' <=> HandlerOn(w, q)) /\ h'[w].at = h[w].at
  BY <1>1 DEF HandlerOn
<1>4. \A q \in Projects : proxy'[q] = proxy[q] /\ (q \in SamplerOn' <=> q \in SamplerOn)
  BY <1>1 DEF infra, SamplerOn
<1>5. ASSUME NEW q \in Projects, q # p
      PROVE  Settled(q)'
  <2>1. Settled(q) /\ SameProject(q)
    BY <1>1, <1>5 DEF QInv
  <2>2. ASSUME NEW x \in sampler'.todo, x[1] = q, drift[q] # "now"
        PROVE  RowMid(sampler.at, Head, x)'
    <3>1. RowMid(sampler.at, Head, x)
      BY <1>1, <2>1, <2>2 DEF Settled
    <3> QED
      BY <1>1, <2>1, <2>2, <3>1, RowsKept
  <2> QED
    BY <1>1, <1>3, <1>4, <1>5, <2>1, <2>2, Untouched
<1>6. Settled(p)'
  <2> SUFFICES ASSUME drift'[p] # "now" PROVE Settled(p)'
    BY DEF Settled
  <2>1. drift[p] # "now" /\ Settled(p)
    BY <1>1 DEF QInv
  <2>2. Alone(p) /\ JobMid(p)
    BY <1>1, <2>1 DEF Settled
  <2>3. p \notin SamplerOn' /\ ~proxy'[p] /\ \A v \in Workers : ~HandlerOn(v, p)'
    BY <1>1, <1>3, <1>4, <2>2 DEF Alone
  <2>4. Alone(p)' /\ (\A x \in sampler'.todo : x[1] # p)
    BY <2>3 DEF Alone, SamplerOn
  <2>5. JobMid(p)'
    BY <2>1, <2>2
  <2> QED
    BY <2>3, <2>4, <2>5 DEF Settled, JobMid
<1> QED
  BY <1>2, <1>5, <1>6 DEF QInv

LEMMA JobQuiet ==
  ASSUME QInv, JobStep
  PROVE  QInv'
<1>0. TypeOK /\ IInv'
  BY JobTypes DEF QInv, IInv
<1>1. PICK p \in Projects : JobDump(p) \/ JobLoad(p) \/ JobRow(p)
  BY DEF JobStep
<1> USE DEF infra
<1>2. ASSUME NEW to \in {"load", "none"}, JobGoto(p, "dump", to), UNCHANGED status
      PROVE  QInv'
  <2>1. drift[p] # "now" /\ JobMid(p) => JobMid(p)'
    BY <1>0, <1>2 DEF JobGoto, TypeOK, Jobs, NoJob, JobMid, Sound, Lockout
  <2> QED
    BY <1>0, <1>2, <2>1, JobSettles
<1>3. CASE JobLoad(p) /\ JobGoto(p, "load", "row")
  <2>1. drift[p] # "now" /\ JobMid(p) => JobMid(p)'
    BY <1>0, <1>3 DEF JobLoad, Reachable, JobGoto, TypeOK, Jobs, NoJob, JobMid, Sound,
                      Lockout
  <2> QED
    BY <1>0, <1>3, <2>1, JobSettles DEF JobLoad
<1>4. CASE JobLoad(p) /\ JobGoto(p, "load", "none")
  <2>1. drift[p] # "now" /\ JobMid(p) => JobMid(p)'
    BY <1>0, <1>4 DEF JobLoad, JobGoto, TypeOK, Jobs, NoJob, JobMid, Sound, Lockout
  <2> QED
    BY <1>0, <1>4, <2>1, JobSettles DEF JobLoad
<1>5. CASE JobRow(p)
  <2>1. /\ status'[p] = "active"
        /\ \A q \in Projects : q # p => status'[q] = status[q]
    BY <1>0, <1>5 DEF JobRow, TypeOK
  <2>2. drift[p] # "now" /\ JobMid(p) => JobMid(p)'
    BY <1>0, <1>5, <2>1 DEF JobRow, JobGoto, TypeOK, Jobs, NoJob, JobMid, Sound, Lockout
  <2> QED
    BY <1>0, <1>5, <2>1, <2>2, JobSettles DEF JobRow
<1> QED
  BY <1>1, <1>2, <1>3, <1>4, <1>5 DEF JobDump, JobLoad

LEMMA EnvironmentQuiet ==
  ASSUME QInv, Environment
  PROVE  QInv'
<1>0. TypeOK /\ InFlight /\ IInv' /\ FileOfInstance /\ ListKept
  BY EnvironmentTypes DEF QInv, IInv
<1> USE DEF Outside
<1>1. ASSUME NEW p \in Projects, ProxyCheck(p) \/ ProxyStart(p)
      PROVE  QInv'
  <2>1. /\ UNCHANGED <<status, mode, login, pausedFile, sidecars, h, sampler, job>>
        /\ \A q \in Projects : q # p => proxy'[q] = proxy[q] /\ SameProject(q)
    BY <1>0, <1>1 DEF ProxyCheck, ProxyStart, TypeOK, SameProject, MarkStart
  <2>2. FileOfInstance' /\ ListKept'
    BY <1>0, <2>1 DEF FileOfInstance, ListKept
  <2>3. \A w \in Workers, q \in Projects :
          (HandlerOn(w, q)' <=> HandlerOn(w, q)) /\ h'[w].at = h[w].at
    BY <2>1 DEF HandlerOn
  <2>4. SamplerOn' = SamplerOn
    BY <2>1 DEF SamplerOn
  <2>5. ASSUME NEW q \in Projects, q # p
        PROVE  Settled(q)'
    <3>1. Settled(q) /\ SameProject(q)
      BY <2>1, <2>5 DEF QInv
    <3>2. ASSUME NEW x \in sampler'.todo, x[1] = q, drift[q] # "now"
          PROVE  RowMid(sampler.at, Head, x)'
      <4>1. RowMid(sampler.at, Head, x)
        BY <2>1, <3>1, <3>2 DEF Settled
      <4> QED
        BY <2>1, <3>1, <3>2, <4>1, RowsKept
    <3> QED
      BY <2>1, <2>3, <2>4, <2>5, <3>1, <3>2, Untouched
  <2>6. Lockout(p)' = Lockout(p)
    BY <2>1 DEF Lockout
  <2>7. CASE ProxyCheck(p)
    <3> SUFFICES ASSUME drift'[p] # "now" PROVE Settled(p)'
      BY <1>0, <2>2, <2>5 DEF Settled, QInv
    <3>1. drift'[p] = DriftOnStart(p) /\ running' = running /\ mode[p] = "instance"
          /\ ~pausedFile[p]
      BY <1>0, <2>7 DEF ProxyCheck, MarkStart, TypeOK
    <3>2. ~Busy(p) /\ (drift'[p] = "none" => Sound(p))
      BY <3>1, StartFresh, RestIsSound
    <3>3. /\ p \notin SamplerOn' /\ job'[p].at = "none"
          /\ \A v \in Workers : ~HandlerOn(v, p)'
      BY <2>1, <2>3, <2>4, <3>2 DEF Busy, HandlerOn
    <3>4. Alone(p)' /\ (\A x \in sampler'.todo : x[1] # p)
      BY <3>3 DEF Alone, SamplerOn
    <3>5. Sound(p) => Sound(p)' /\ status'[p] # "paused"
      BY <2>1, <2>6, <3>1 DEF Sound, Lockout
    <3>6. ProxyMid(p)' /\ Busy(p)'
      BY <1>0, <2>1, <2>7, <3>1, <3>2, <3>5 DEF ProxyMid, Busy, ProxyCheck, TypeOK
    <3> QED
      BY <3>3, <3>4, <3>6 DEF Settled
  <2>8. CASE ProxyStart(p)
    <3> SUFFICES ASSUME drift'[p] # "now" PROVE Settled(p)'
      BY <1>0, <2>2, <2>5 DEF Settled, QInv
    <3>1. proxy[p] /\ ~proxy'[p] /\ drift' = drift
      BY <1>0, <2>8 DEF ProxyStart, TypeOK
    <3>2. Alone(p) /\ ProxyMid(p)
      BY <3>1 DEF QInv, Settled
    <3>3. /\ p \notin SamplerOn' /\ job'[p].at = "none"
          /\ \A v \in Workers : ~HandlerOn(v, p)'
      BY <2>1, <2>3, <2>4, <3>1, <3>2 DEF Alone
    <3>4. Alone(p)' /\ (\A x \in sampler'.todo : x[1] # p)
      BY <3>3 DEF Alone, SamplerOn
    <3>5. drift'[p] = "none" => Sound(p)'
      BY <2>1, <2>6, <3>1, <3>2 DEF ProxyMid, Sound
    <3> QED
      BY <3>1, <3>3, <3>4, <3>5 DEF Settled
  <2> QED
    BY <1>1, <2>7, <2>8
<1>2. ASSUME NEW p \in Projects,
             \/ InstanceReap(p) \/ ClientConnect(p) \/ ClientDisconnect(p)
             \/ WindowElapses(p) \/ ExpiryElapses(p)
      PROVE  QInv'
  <2>1. UNCHANGED <<status, mode, login, pausedFile, sidecars, h, sampler, job, proxy, drift>>
    BY <1>2 DEF InstanceReap, ClientConnect, ClientDisconnect, WindowElapses, ExpiryElapses
  <2>2. \A q \in Projects : running'[q] => running[q]
    BY <1>0, <1>2 DEF InstanceReap, ClientConnect, ClientDisconnect, WindowElapses,
                      ExpiryElapses, TypeOK
  <2>3. FileOfInstance' /\ ListKept'
    BY <1>0, <2>1 DEF FileOfInstance, ListKept
  <2>4. \A q \in Projects : Settled(q)'
    BY <2>1, <2>2, QuietElsewhere DEF SameProject
  <2> QED
    BY <1>0, <2>3, <2>4 DEF QInv
<1>3. CASE Crash
  <2>1. /\ UNCHANGED <<status, mode, login, pausedFile, running, proxy>>
        /\ \A w \in Workers : h'[w].at = "idle"
        /\ sampler'.at = "sync" /\ sampler'.todo = {}
        /\ \A p \in Projects : job'[p].at = "none"
    BY <1>3 DEF Crash, Idle, NoJob, row
  <2>2. FileOfInstance' /\ ListKept'
    BY <1>0, <2>1 DEF FileOfInstance, ListKept
  <2>3. ASSUME NEW p \in Projects, drift'[p] # "now"
        PROVE  Settled(p)'
    <3>1. ~Busy(p) /\ drift'[p] = drift[p]
      BY <1>3, <2>3 DEF Crash
    <3>2. ~proxy'[p]
      BY <2>1, <3>1 DEF Busy
    <3>3. (\A w \in Workers : ~HandlerOn(w, p)') /\ p \notin SamplerOn'
      BY <2>1 DEF HandlerOn, SamplerOn
    <3>4. Alone(p)'
      BY <3>3, <3>2, <2>1 DEF Alone
    <3>5. drift'[p] = "none" => Sound(p)'
      <4>1. drift[p] = "none" => Sound(p)
        BY <3>1, RestIsSound
      <4>2. status[p] = "suspended" => sidecars'[p] = {}
        BY <1>3 DEF Crash
      <4> QED
        BY <2>1, <3>1, <4>1, <4>2 DEF Sound, Lockout
    <3> QED
      BY <2>1, <3>2, <3>3, <3>4, <3>5 DEF Settled
  <2> QED
    BY <1>0, <2>2, <2>3 DEF QInv, Settled
<1> QED
  BY <1>1, <1>2, <1>3 DEF Environment

-----------------------------------------------------------------------------
(***************************************************************************)
(* The sampler's pass.                                                     *)
(***************************************************************************)
BetweenPhases == {"sync", "expire", "bump", "wake", "idle", "reap"}

\* What no step of the sampler does.
LEMMA HandlersKept ==
  ASSUME Handlers, NEW p
  PROVE  /\ \A w \in Workers : (HandlerOn(w, p)' <=> HandlerOn(w, p)) /\ h'[w].at = h[w].at
         /\ job' = job
BY DEF Handlers, HandlerOn

\* With an empty list the sampler is at work on no project.
LEMMA BetweenPhasesQuiet ==
  ASSUME QInv, IInv', sampler.at \in BetweenPhases, sampler'.at \in BetweenPhases,
         sampler'.todo = {}, Handlers, proxy' = proxy,
         \A q \in Projects : SameProject(q)
  PROVE  QInv'
<1>0. TypeOK /\ FileOfInstance /\ ListKept /\ sampler.todo = {}
  BY DEF QInv, IInv, ListKept, BetweenPhases
<1>1. FileOfInstance'
  BY <1>0 DEF FileOfInstance, SameProject, Handlers, QInv, IInv, InFlight
<1>2. ListKept'
  BY DEF ListKept, BetweenPhases
<1>3. ASSUME NEW q \in Projects PROVE Settled(q)'
  <2>1. Settled(q) /\ SameProject(q)
    BY DEF QInv
  <2>2. q \in SamplerOn' <=> q \in SamplerOn
    BY <1>0 DEF SamplerOn
  <2> QED
    BY <2>1, <2>2, HandlersKept, Untouched
<1> QED
  BY <1>1, <1>2, <1>3 DEF QInv

\* SELECT: the listed projects start being worked on.
LEMMA SelectSettles ==
  ASSUME QInv, IInv', sampler.at \in BetweenPhases, NEW S \in SUBSET Projects,
         NEW found \in {"ps", "expLock", "wakeHubs", "idleSidecars"},
         NEW none \in BetweenPhases, SelectRows(S, found, none), Handlers,
         UNCHANGED <<mode, infra>>,
         \A q \in Projects : q \notin S => status'[q] = status[q],
         \A q \in S : Sound(q) => Sound(q)',
         \A q \in S : found = "ps" => mode[q] = "instance",
         \A q \in S : found = "wakeHubs" => status'[q] # "suspended",
         \A q \in S : found = "idleSidecars" => status'[q] = "active"
  PROVE  QInv'
<1> USE DEF infra
<1>0. TypeOK /\ FileOfInstance /\ ListKept /\ sampler.todo = {}
  BY DEF QInv, IInv, ListKept, BetweenPhases
<1>1. /\ sampler'.todo = With(S)
      /\ sampler'.at = IF S = {} THEN none ELSE found
      /\ \A q \in Projects : q \in S => drift'[q] = DriftOnStart(q)
      /\ \A q \in Projects : q \notin S => SameProject(q)
  BY <1>0 DEF SelectRows, SamplerGoto, MarkStart, SameProject, TypeOK
<1>2. \A x : x \in With(S) <=> \E q \in S : x = <<q, mode[q]>>
  BY DEF With
<1>3. ListKept'
  <2>1. CASE S = {}
    BY <1>1, <1>2, <2>1 DEF ListKept, BetweenPhases
  <2>2. CASE S # {}
    BY <1>1, <1>2, <2>2 DEF ListKept, BetweenPhases
  <2> QED
    BY <2>1, <2>2
<1>4. FileOfInstance'
  BY <1>0, <1>1, <1>2 DEF FileOfInstance, Handlers
<1>5. ASSUME NEW q \in Projects
      PROVE  (q \in SamplerOn' <=> q \in S) /\ q \notin SamplerOn
  <2>1. q \in S => <<q, mode[q]>> \in sampler'.todo /\ <<q, mode[q]>>[1] = q
    BY <1>1, <1>2
  <2>2. \A x \in sampler'.todo : x[1] = q => q \in S
    BY <1>1, <1>2
  <2> QED
    BY <1>0, <2>1, <2>2 DEF SamplerOn
<1>6. ASSUME NEW q \in Projects, q \notin S
      PROVE  Settled(q)'
  <2>1. Settled(q) /\ SameProject(q)
    BY <1>1, <1>6 DEF QInv
  <2>2. \A x \in sampler'.todo : x[1] # q
    BY <1>1, <1>2, <1>6
  <2> QED
    BY <1>5, <1>6, <2>1, <2>2, HandlersKept, Untouched
<1>7. ASSUME NEW q \in S
      PROVE  Settled(q)'
  <2> SUFFICES ASSUME drift'[q] # "now" PROVE Settled(q)'
    BY DEF Settled
  <2>0. q \in Projects
    OBVIOUS
  <2>1. ~Busy(q) /\ (drift'[q] = "none" => Sound(q)')
    BY <1>1, <2>0, StartFresh, RestIsSound
  <2>2. /\ job'[q].at = "none" /\ ~proxy'[q]
        /\ \A v \in Workers : ~HandlerOn(v, q)'
    BY <2>1, HandlersKept DEF Busy, HandlerOn
  <2>3. Alone(q)' /\ Busy(q)'
    BY <1>5, <2>0, <2>2 DEF Alone, Busy
  <2>4. ASSUME NEW x \in sampler'.todo, x[1] = q
        PROVE  RowMid(sampler.at, Head, x)'
    <3>1. x = <<q, mode'[q]>> /\ sampler'.at = found
      BY <1>1, <1>2, <2>4
    <3> QED
      BY <2>1, <3>1 DEF RowMid
  <2> QED
    BY <2>2, <2>3, <2>4 DEF Settled
<1> QED
  BY <1>3, <1>4, <1>6, <1>7 DEF QInv

\* The head of the list is a project, on the list once.
LEMMA HeadOfList ==
  ASSUME QInv, sampler.at \notin BetweenPhases
  PROVE  /\ Head \in sampler.todo /\ Head = <<Slug, Head[2]>>
         /\ Slug \in Projects /\ Slug \in SamplerOn
         /\ \A x \in sampler.todo : x \in Projects \X Modes /\ (x[1] = Slug => x = Head)
<1>1. IInv /\ ListKept /\ sampler.at \in SamplerSteps /\ sampler.todo \in SUBSET (Projects \X Modes)
  BY DEF QInv, IInv, TypeOK
<1>2. /\ Head \in sampler.todo /\ Slug \in Projects /\ Slug \in SamplerOn
  BY <1>1, HeadTypes DEF SamplerSteps, BetweenPhases
<1> QED
  BY <1>1, <1>2 DEF ListKept, Slug

\* A step on the head of the list that keeps it on the list.
LEMMA RowStays ==
  ASSUME QInv, IInv', NEW p, p = Slug, NEW from, NEW to, from \notin BetweenPhases,
         to \notin BetweenPhases \cup {"ps"},
         sampler.at = from, sampler'.at = to, sampler'.todo = sampler.todo,
         Handlers, proxy' = proxy, mode' = mode,
         to = "syncRow" => from = "ps",
         \A q \in Projects : pausedFile'[q] # pausedFile[q] => mode[q] = "instance",
         \A q \in Projects : q # p => SameProject(q),
         \A hd, x : x # hd /\ RowMid(from, hd, x) => RowMid(to, hd, x),
         NEW hd, hd = Head,
         drift'[p] = drift[p],
         drift[p] # "now" /\ RowMid(from, hd, hd) => RowMid(to, hd, hd)'
  PROVE  QInv'
<1>0. TypeOK /\ FileOfInstance /\ ListKept
  BY DEF QInv, IInv
<1>1. /\ hd \in sampler.todo /\ hd[1] = p /\ p \in Projects /\ p \in SamplerOn
      /\ \A x \in sampler.todo : x \in Projects \X Modes /\ (x[1] = p => x = hd)
  BY HeadOfList DEF Slug
<1>2. Head' = hd
  BY DEF Head
<1>3. FileOfInstance' /\ ListKept'
  <2>1. FileOfInstance'
    BY <1>0 DEF FileOfInstance, Handlers
  <2>2. ListKept'
    BY <1>0 DEF ListKept, BetweenPhases
  <2> QED
    BY <2>1, <2>2
<1>4. SamplerOn' = SamplerOn
  BY DEF SamplerOn
<1>5. ASSUME NEW q \in Projects, q # p
      PROVE  Settled(q)'
  <2>1. Settled(q) /\ SameProject(q)
    BY <1>5 DEF QInv
  <2>2. ASSUME NEW x \in sampler'.todo, x[1] = q, drift[q] # "now"
        PROVE  RowMid(sampler.at, Head, x)'
    <3>1. RowMid(from, hd, x) /\ x # hd
      BY <1>1, <1>5, <2>1, <2>2 DEF Settled
    <3>2. RowMid(to, hd, x)
      BY <3>1
    <3>3. RowMid(to, hd, x)'
      BY <2>1, <2>2, <3>2, RowMidKept
    <3> QED
      BY <1>2, <3>3 DEF RowMid
  <2> QED
    BY <1>4, <2>1, <2>2, HandlersKept, Untouched
<1>6. Settled(p)'
  <2> SUFFICES ASSUME drift'[p] # "now" PROVE Settled(p)'
    BY DEF Settled
  <2>1. drift[p] # "now" /\ Settled(p)
    BY <1>1 DEF QInv
  <2>2. Alone(p) /\ RowMid(from, hd, hd)
    BY <1>1, <2>1 DEF Settled
  <2>3. /\ \A v \in Workers : ~HandlerOn(v, p)'
        /\ job'[p].at = "none" /\ ~proxy'[p] /\ p \in SamplerOn'
    BY <1>1, <1>4, <2>2, HandlersKept DEF Alone
  <2>4. Alone(p)' /\ Busy(p)'
    BY <2>3 DEF Alone, Busy
  <2>5. RowMid(to, hd, hd)'
    BY <2>1, <2>2
  <2>6. ASSUME NEW x \in sampler'.todo, x[1] = p
        PROVE  RowMid(sampler.at, Head, x)'
    <3>1. x = hd
      BY <1>1, <2>6
    <3> QED
      BY <1>2, <2>5, <3>1 DEF RowMid
  <2> QED
    BY <2>3, <2>4, <2>6 DEF Settled
<1> QED
  BY <1>3, <1>5, <1>6 DEF QInv

LEMMA ListAfterRow ==
  ASSUME ListKept, NEW from, NEW again, NEW next \in BetweenPhases,
         again \notin BetweenPhases,
         again \in {"ps", "syncRow"} => from \in {"ps", "syncRow"},
         sampler.at = from, sampler'.at = IF Rest = {} THEN next ELSE again,
         sampler'.todo = Rest, \A x \in sampler'.todo : x \in sampler.todo
  PROVE  ListKept'
<1>1. \A x, y \in sampler'.todo : x[1] = y[1] => x = y
  BY DEF ListKept
<1>2. CASE Rest = {}
  <2>1. sampler'.at = next /\ sampler'.todo = {}
    BY <1>2
  <2> QED
    BY <2>1 DEF ListKept
<1>3. CASE Rest # {}
  <2>1. sampler'.at = again
    BY <1>3
  <2>2. again \in {"ps", "syncRow"} => \A x \in sampler'.todo : x[2] = "instance"
    BY DEF ListKept
  <2> QED
    BY <1>1, <2>1, <2>2 DEF ListKept, BetweenPhases
<1> QED
  BY <1>2, <1>3

\* A step on the head of the list that takes it off the list.
LEMMA RowLeaves ==
  ASSUME QInv, IInv', NEW p, p = Slug, NEW from, NEW again, NEW next \in BetweenPhases,
         from \notin BetweenPhases, again \notin BetweenPhases,
         again \in {"ps", "syncRow"} => from \in {"ps", "syncRow"},
         sampler.at = from, sampler'.at = IF Rest = {} THEN next ELSE again,
         sampler'.todo = Rest, Handlers, UNCHANGED <<mode, pausedFile, proxy>>,
         \A q \in Projects : q # p => SameProject(q),
         \A hd, hd2, x : x # hd /\ RowMid(from, hd, x) => RowMid(again, hd2, x),
         NEW hd, hd = Head,
         drift[p] = "now" => drift'[p] = "now",
         drift[p] # "now" /\ RowMid(from, hd, hd) => (drift'[p] = "none" => Sound(p)')
  PROVE  QInv'
<1>0. TypeOK /\ FileOfInstance /\ ListKept
  BY DEF QInv, IInv
<1>1. /\ hd \in sampler.todo /\ hd[1] = p /\ p \in Projects /\ p \in SamplerOn
      /\ \A x \in sampler.todo : x \in Projects \X Modes /\ (x[1] = p => x = hd)
  BY HeadOfList DEF Slug
<1>2. \A x : x \in sampler'.todo <=> x \in sampler.todo /\ x # hd
  BY DEF Rest
<1>3. FileOfInstance' /\ ListKept'
  <2>1. FileOfInstance'
    BY <1>0, <1>2 DEF FileOfInstance, Handlers
  <2>2. ListKept'
    BY <1>0, <1>2, ListAfterRow
  <2> QED
    BY <2>1, <2>2
<1>4. \A q \in Projects : q \in SamplerOn' <=> q \in SamplerOn /\ q # p
  BY <1>1, <1>2 DEF SamplerOn
<1>5. ASSUME NEW q \in Projects, q # p
      PROVE  Settled(q)'
  <2>1. Settled(q) /\ SameProject(q)
    BY <1>5 DEF QInv
  <2>2. ASSUME NEW x \in sampler'.todo, x[1] = q, drift[q] # "now"
        PROVE  RowMid(sampler.at, Head, x)'
    <3>1. RowMid(from, hd, x) /\ x # hd /\ sampler'.at = again
      BY <1>2, <2>1, <2>2 DEF Settled
    <3>2. PICK hd2 : hd2 = Head'
      OBVIOUS
    <3>3. RowMid(again, hd2, x)
      BY <3>1
    <3>4. RowMid(again, hd2, x)'
      BY <2>1, <2>2, <3>3, RowMidKept
    <3> QED
      BY <3>1, <3>2, <3>4 DEF RowMid
  <2> QED
    BY <1>4, <1>5, <2>1, <2>2, HandlersKept, Untouched
<1>6. Settled(p)'
  <2> SUFFICES ASSUME drift'[p] # "now" PROVE Settled(p)'
    BY DEF Settled
  <2>1. drift[p] # "now" /\ Settled(p)
    BY <1>1 DEF QInv
  <2>2. Alone(p) /\ RowMid(from, hd, hd)
    BY <1>1, <2>1 DEF Settled
  <2>3. /\ \A v \in Workers : ~HandlerOn(v, p)'
        /\ job'[p].at = "none" /\ ~proxy'[p] /\ p \notin SamplerOn'
    BY <1>1, <1>4, <2>2, HandlersKept DEF Alone
  <2>4. Alone(p)'
    BY <2>3 DEF Alone
  <2>5. drift'[p] = "none" => Sound(p)'
    BY <2>1, <2>2
  <2>6. \A x \in sampler'.todo : x[1] # p
    BY <2>3 DEF SamplerOn
  <2> QED
    BY <2>3, <2>4, <2>5, <2>6 DEF Settled
<1> QED
  BY <1>3, <1>5, <1>6 DEF QInv

LEMMA SamplerQuiet ==
  ASSUME QInv, SamplerStep
  PROVE  QInv'
<1>0. TypeOK /\ IInv' /\ IInv /\ FileOfInstance /\ ListKept
  BY SamplerStepTypes DEF QInv, IInv
<1>a. /\ sampler \in SamplerTypes
      /\ \A q \in Projects : status[q] \in Statuses /\ mode[q] \in Modes
  BY <1>0 DEF TypeOK, SamplerTypes
<1>h. PICK hd : hd = Head
  OBVIOUS
<1>s. PICK p : p = Slug
  OBVIOUS
<1>l. sampler.at \notin BetweenPhases =>
        /\ hd \in sampler.todo /\ hd = <<p, hd[2]>> /\ p \in Projects /\ hd[2] \in Modes
        /\ hd[2] = "instance" => mode[p] = "instance"
  <2> SUFFICES ASSUME sampler.at \notin BetweenPhases
               PROVE  /\ hd \in sampler.todo /\ hd = <<p, hd[2]>> /\ p \in Projects
                      /\ hd[2] \in Modes
                      /\ hd[2] = "instance" => mode[p] = "instance"
    OBVIOUS
  <2>1. hd \in sampler.todo /\ hd = <<p, hd[2]>> /\ p \in Projects /\ hd \in Projects \X Modes
    BY <1>h, <1>s, HeadOfList
  <2> QED
    BY <1>0, <2>1 DEF FileOfInstance
<1> USE DEF BetweenPhases, Handlers, row
<1>1. CASE SyncSelect
  BY <1>0, <1>1, SelectSettles DEF SyncSelect, Sound, Lockout, infra
<1>2. CASE PsSnapshot
  <2>1. /\ sampler.at = "ps" /\ sampler'.at = "syncRow" /\ sampler'.todo = sampler.todo
        /\ \A q \in Projects : SameProject(q)
    BY <1>a, <1>2 DEF PsSnapshot, SamplerTypes, SameProject, infra
  <2>2. RowMid("ps", hd, hd) => RowMid("syncRow", hd, hd)'
    BY <1>2 DEF PsSnapshot, RowMid, Sound, Lockout, infra
  <2>3. \A hd1, x : x # hd1 /\ RowMid("ps", hd1, x) => RowMid("syncRow", hd1, x)
    BY DEF RowMid
  <2> QED
    BY <1>0, <1>2, <1>h, <1>s, <1>l, <2>1, <2>2, <2>3, RowStays DEF PsSnapshot, infra, SameProject
<1>3. CASE PsFails
  <2>1. /\ sampler'.at = "expire" /\ sampler'.todo = {} /\ UNCHANGED <<row, infra, drift, h, job>>
        /\ sampler.at = "ps"
    BY <1>a, <1>3 DEF PsFails, SamplerGoto, SamplerTypes
  <2>2. FileOfInstance' /\ ListKept'
    BY <1>0, <2>1 DEF FileOfInstance, ListKept, infra
  <2>3. ASSUME NEW q \in Projects, drift'[q] # "now"
        PROVE  Settled(q)'
    <3>1. Settled(q) /\ SameProject(q) /\ drift[q] # "now"
      BY <2>1, <2>3 DEF QInv, SameProject, infra
    <3>2. CASE q \notin SamplerOn
      <4>1. q \notin SamplerOn' /\ \A x \in sampler'.todo : x[1] # q
        BY <2>1 DEF SamplerOn
      <4> QED
        BY <1>3, <2>1, <3>1, <3>2, <4>1, HandlersKept, Untouched DEF PsFails, infra
    <3>3. CASE q \in SamplerOn
      <4>1. PICK x \in sampler.todo : x[1] = q
        BY <3>3 DEF SamplerOn
      <4>2. Alone(q) /\ RowMid("ps", Head, x)
        BY <2>1, <3>1, <4>1 DEF Settled
      <4>3. /\ \A v \in Workers : ~HandlerOn(v, q)'
            /\ job'[q].at = "none" /\ ~proxy'[q]
        BY <2>1, <3>3, <4>2 DEF Alone, HandlerOn, infra
      <4>4. q \notin SamplerOn' /\ \A y \in sampler'.todo : y[1] # q
        BY <2>1 DEF SamplerOn
      <4>5. drift'[q] = "none" => Sound(q)'
        BY <3>1, <4>1, <4>2, SoundKept DEF RowMid, SameProject
      <4>6. Alone(q)'
        BY <4>3, <4>4 DEF Alone
      <4> QED
        BY <4>3, <4>4, <4>5, <4>6 DEF Settled
    <3> QED
      BY <3>2, <3>3
  <2> QED
    BY <1>0, <2>2, <2>3 DEF QInv, Settled
<1>4. CASE SyncRow
  <2>1. /\ sampler.at = "syncRow" /\ sampler'.at = (IF Rest = {} THEN "expire" ELSE "syncRow")
        /\ sampler'.todo = Rest
    BY <1>a, <1>4 DEF SyncRow, SamplerTypes
  <2>2. /\ \A q \in Projects : q # p => SameProject(q)
        /\ status'[p] = "paused" <=> status[p] = "paused"
    BY <1>0, <1>4, <1>s, <1>l, <2>1 DEF SyncRow, SameProject, infra, TypeOK
  <2>3. hd[2] = "instance" /\ mode[p] = "instance"
    BY <1>0, <1>l, <2>1 DEF ListKept
  <2>4. RowMid("syncRow", hd, hd) => (drift'[p] = "none" => Sound(p)')
    BY <1>4, <1>l, <2>1, <2>2, <2>3 DEF SyncRow, RowMid, Sound, Lockout, infra
  <2>5. \A hd1, hd2, x : x # hd1 /\ RowMid("syncRow", hd1, x) => RowMid("syncRow", hd2, x)
    BY DEF RowMid
  <2> QED
    BY <1>0, <1>4, <1>h, <1>s, <2>1, <2>2, <2>4, <2>5, RowLeaves DEF SyncRow, infra
<1>5. CASE ExpireSelect
  <2>1. PICK S \in SUBSET Projects : SelectRows(S, "expLock", "bump")
    BY <1>5, LifecycleAssumption DEF ExpireSelect
  <2> QED
    BY <1>0, <1>5, <2>1, SelectSettles DEF ExpireSelect, Sound, Lockout, infra
<1>6. CASE ExpLock
  <2>1. /\ sampler.at = "expLock" /\ sampler'.at = "expKill" /\ sampler'.todo = sampler.todo
    BY <1>a, <1>6 DEF ExpLock, SamplerGoto, SamplerTypes
  <2>2. /\ \A q \in Projects : q # p => SameProject(q)
        /\ \A q \in Projects : q # p => pausedFile'[q] = pausedFile[q]
        /\ pausedFile'[p] # pausedFile[p] => hd[2] = "instance"
        /\ IF hd[2] = "instance" THEN pausedFile'[p] = TRUE ELSE login'[p] = FALSE
    BY <1>0, <1>6, <1>h, <1>s, <1>l, <2>1 DEF ExpLock, SameProject, TypeOK
  <2>3. RowMid("expLock", hd, hd) => RowMid("expKill", hd, hd)'
    BY <1>6, <1>a, <1>l, <2>1, <2>2 DEF ExpLock, RowMid, Lockout, Modes
  <2>4. \A hd1, x : x # hd1 /\ RowMid("expLock", hd1, x) => RowMid("expKill", hd1, x)
    BY DEF RowMid
  <2> QED
    BY <1>0, <1>6, <1>h, <1>s, <1>l, <2>1, <2>2, <2>3, <2>4, RowStays DEF ExpLock
<1>7. CASE ExpKill
  <2>1. /\ sampler.at = "expKill" /\ sampler'.at = "expSidecars" /\ sampler'.todo = sampler.todo
    BY <1>a, <1>7 DEF ExpKill, SamplerGoto, SamplerTypes
  <2>2. /\ \A q \in Projects : q # p => SameProject(q)
        /\ hd[2] = "instance" => ~running'[p]
    BY <1>0, <1>7, <1>h, <1>s, <1>l, <2>1 DEF ExpKill, SameProject, TypeOK
  <2>3. RowMid("expKill", hd, hd) => RowMid("expSidecars", hd, hd)'
    BY <1>7, <1>l, <2>1, <2>2 DEF ExpKill, RowMid, Lockout
  <2>4. \A hd1, x : x # hd1 /\ RowMid("expKill", hd1, x) => RowMid("expSidecars", hd1, x)
    BY DEF RowMid
  <2> QED
    BY <1>0, <1>7, <1>h, <1>s, <1>l, <2>1, <2>2, <2>3, <2>4, RowStays DEF ExpKill
<1>8. CASE ExpSidecars
  <2>1. /\ sampler.at = "expSidecars" /\ sampler'.at = "expRow" /\ sampler'.todo = sampler.todo
    BY <1>a, <1>8 DEF ExpSidecars, SamplerGoto, SamplerTypes
  <2>2. /\ \A q \in Projects : q # p => SameProject(q)
    BY <1>0, <1>8, <1>h, <1>s, <1>l, <2>1 DEF ExpSidecars, SameProject, TypeOK
  <2>3. RowMid("expSidecars", hd, hd) => RowMid("expRow", hd, hd)'
    BY <1>8, <1>l, <2>1 DEF ExpSidecars, RowMid, Lockout
  <2>4. \A hd1, x : x # hd1 /\ RowMid("expSidecars", hd1, x) => RowMid("expRow", hd1, x)
    BY DEF RowMid
  <2> QED
    BY <1>0, <1>8, <1>h, <1>s, <1>l, <2>1, <2>2, <2>3, <2>4, RowStays DEF ExpSidecars
<1>9. CASE ExpRow
  <2>1. /\ sampler.at = "expRow" /\ sampler'.at = (IF Rest = {} THEN "bump" ELSE "expLock")
        /\ sampler'.todo = Rest
    BY <1>a, <1>9 DEF ExpRow, Advance, SamplerGoto, SamplerTypes
  <2>2. /\ \A q \in Projects : q # p => SameProject(q)
        /\ status'[p] = "paused"
        /\ drift[p] = "now" => drift'[p] = "now"
    BY <1>0, <1>9, <1>s, <1>l, <2>1 DEF ExpRow, SameProject, infra, TypeOK, MarkRepair
  <2>3. RowMid("expRow", hd, hd) => Sound(p)'
    BY <1>9, <1>l, <2>1, <2>2 DEF ExpRow, RowMid, Sound, Lockout, infra
  <2>4. \A hd1, hd2, x : x # hd1 /\ RowMid("expRow", hd1, x) => RowMid("expLock", hd2, x)
    BY DEF RowMid
  <2> QED
    BY <1>0, <1>9, <1>h, <1>s, <2>1, <2>2, <2>3, <2>4, RowLeaves DEF ExpRow, infra
<1>10. CASE Bump
  <2>1. sampler.at = "bump" /\ sampler'.at = "wake" /\ sampler'.todo = {}
    BY <1>a, <1>10 DEF Bump, SamplerGoto, SamplerTypes
  <2> QED
    BY <1>0, <1>10, <2>1, BetweenPhasesQuiet DEF Bump, infra, SameProject
<1>11. CASE DirectWake
  <2>1. PICK S \in SUBSET Projects :
               /\ S = {q \in Projects : status[q] = "suspended" /\ conns[q]}
               /\ SelectRows(S, "wakeHubs", "idle")
               /\ status' = [q \in Projects |-> IF q \in S THEN "active" ELSE status[q]]
    BY <1>11 DEF DirectWake
  <2>2. sampler.at = "wake" /\ UNCHANGED <<mode, infra>>
    BY <1>11 DEF DirectWake
  <2>3. \A q \in S : status[q] = "suspended" /\ status'[q] = "active"
    BY <2>1
  <2>4. \A q \in Projects : q \notin S => status'[q] = status[q]
    BY <2>1
  <2>5. \A q \in S : Sound(q) => Sound(q)'
    BY <2>2, <2>3 DEF Sound, Lockout, infra
  <2> QED
    BY <1>0, <1>11, <2>1, <2>2, <2>3, <2>4, <2>5, SelectSettles DEF DirectWake
<1>12. CASE DirectWakeHub
  <2>1. /\ sampler.at = "wakeHubs" /\ sampler'.at = (IF Rest = {} THEN "idle" ELSE "wakeHubs")
        /\ sampler'.todo = Rest
    BY <1>a, <1>12 DEF DirectWakeHub, Advance, SamplerGoto, SamplerTypes
  <2>2. \A q \in Projects : q # p => SameProject(q)
    BY <1>0, <1>12, <1>s, <1>l, <2>1 DEF DirectWakeHub, StartHub, SameProject, TypeOK
  <2>3. RowMid("wakeHubs", hd, hd) => (drift'[p] = "none" => Sound(p)')
    BY <1>12, <1>l, <2>1 DEF DirectWakeHub, RowMid, Sound, Lockout
  <2>4. \A hd1, hd2, x : x # hd1 /\ RowMid("wakeHubs", hd1, x) => RowMid("wakeHubs", hd2, x)
    BY DEF RowMid
  <2> QED
    BY <1>0, <1>12, <1>h, <1>s, <2>1, <2>2, <2>3, <2>4, RowLeaves DEF DirectWakeHub
<1>13. CASE IdleSelect
  <2>1. PICK S \in SUBSET Projects :
               /\ S = {q \in Projects : status[q] = "active" /\ ~keepAwake[q]
                                        /\ mode[q] # "instance" /\ ~fresh[q]}
               /\ SelectRows(S, "idleSidecars", "reap")
    BY <1>13 DEF IdleSelect
  <2> QED
    BY <1>0, <1>13, <2>1, SelectSettles DEF IdleSelect, Sound, Lockout, infra
<1>14. CASE IdleSidecars
  <2>1. /\ sampler.at = "idleSidecars" /\ sampler'.at = "idleRow" /\ sampler'.todo = sampler.todo
    BY <1>a, <1>14 DEF IdleSidecars, SamplerGoto, SamplerTypes
  <2>2. /\ \A q \in Projects : q # p => SameProject(q)
        /\ sidecars'[p] = {}
    BY <1>0, <1>14, <1>h, <1>s, <1>l, <2>1 DEF IdleSidecars, SameProject, TypeOK
  <2>3. RowMid("idleSidecars", hd, hd) => RowMid("idleRow", hd, hd)'
    BY <1>14, <1>l, <2>1, <2>2 DEF IdleSidecars, RowMid, Sound, Lockout
  <2>4. \A hd1, x : x # hd1 /\ RowMid("idleSidecars", hd1, x) => RowMid("idleRow", hd1, x)
    BY DEF RowMid
  <2> QED
    BY <1>0, <1>14, <1>h, <1>s, <1>l, <2>1, <2>2, <2>3, <2>4, RowStays DEF IdleSidecars
<1>15. CASE IdleRow
  <2>1. /\ sampler.at = "idleRow" /\ sampler'.at = (IF Rest = {} THEN "reap" ELSE "idleSidecars")
        /\ sampler'.todo = Rest
    BY <1>a, <1>15 DEF IdleRow, Advance, SamplerGoto, SamplerTypes
  <2>2. /\ \A q \in Projects : q # p => SameProject(q)
        /\ status'[p] = "suspended"
    BY <1>0, <1>15, <1>s, <1>l, <2>1 DEF IdleRow, SameProject, infra, TypeOK
  <2>3. RowMid("idleRow", hd, hd) => (drift'[p] = "none" => Sound(p)')
    BY <1>15, <1>l, <2>1, <2>2 DEF IdleRow, RowMid, Sound, Lockout, infra
  <2>4. \A hd1, hd2, x : x # hd1 /\ RowMid("idleRow", hd1, x) => RowMid("idleSidecars", hd2, x)
    BY DEF RowMid
  <2> QED
    BY <1>0, <1>15, <1>h, <1>s, <2>1, <2>2, <2>3, <2>4, RowLeaves DEF IdleRow, infra
<1>16. CASE Reap
  <2>1. sampler.at = "reap" /\ sampler'.at = "sync" /\ sampler'.todo = {}
    BY <1>a, <1>16 DEF Reap, SamplerGoto, SamplerTypes
  <2>2. \A q \in Projects : sidecars'[q] \subseteq sidecars[q]
    BY <1>16 DEF Reap
  <2> QED
    BY <1>0, <1>16, <2>1, <2>2, BetweenPhasesQuiet DEF Reap, SameProject
<1> QED
  BY <1>1, <1>2, <1>3, <1>4, <1>5, <1>6, <1>7, <1>8, <1>9, <1>10, <1>11,
     <1>12, <1>13, <1>14, <1>15, <1>16
  DEF SamplerStep

-----------------------------------------------------------------------------
LEMMA InitQuiet == Init => QInv
<1> SUFFICES ASSUME Init PROVE QInv
  OBVIOUS
<1>1. IInv
  BY InitTypes
<1>2. FileOfInstance /\ ListKept
  BY DEF Init, Idle, FileOfInstance, ListKept
<1>3. ASSUME NEW p \in Projects PROVE Settled(p)
  <2>1. /\ \A w \in Workers : ~HandlerOn(w, p)
        /\ p \notin SamplerOn /\ (\A x \in sampler.todo : x[1] # p) /\ ~proxy[p]
    BY DEF Init, Idle, HandlerOn, SamplerOn
  <2>2. status[p] \in {"active", "cloning"} /\ mode[p] \in Modes
    BY LifecycleAssumption DEF Init
  <2>3. Sound(p)
    BY <2>2 DEF Init, Sound, Lockout
  <2>4. job[p].at # "none" => JobMid(p)
    BY <2>3 DEF Init, NoJob, JobMid
  <2> QED
    BY <2>1, <2>3, <2>4 DEF Settled, Alone
<1> QED
  BY <1>1, <1>2, <1>3 DEF QInv

LEMMA StepQuiet == QInv /\ [Next]_vars => QInv'
<1> SUFFICES ASSUME QInv, [Next]_vars PROVE QInv'
  OBVIOUS
<1>1. CASE UNCHANGED vars
  <2>1. IInv' /\ UNCHANGED <<row, infra, h, sampler, job, drift>>
    BY <1>1, StepTypes DEF vars, QInv, row, infra
  <2>2. FileOfInstance' /\ ListKept'
    BY <2>1 DEF QInv, FileOfInstance, ListKept, row, infra
  <2>3. \A p \in Projects : Settled(p)'
    BY <2>1, QuietElsewhere DEF SameProject, row, infra
  <2> QED
    BY <2>1, <2>2, <2>3 DEF QInv
<1>2. CASE Next
  BY <1>2, HandlerQuiet, CommandQuiet, JobQuiet, EnvironmentQuiet, SamplerQuiet DEF Next
<1> QED
  BY <1>1, <1>2

\* Whatever handlers, sampler passes, restore jobs, cold starts and crashes have
\* done before, a project at rest that no overlap or failure left adrift tells
\* one story in its row, its role's LOGIN or lockout file, its container and its
\* sidecars, for any number of projects, handlers and commands.
THEOREM RestingProjectsAgree == Spec => []QuiescentConsistent
<1>1. ASSUME QInv PROVE QuiescentConsistent
  <2> SUFFICES ASSUME NEW p \in Projects, ~Busy(p), drift[p] = "none",
                      ~(parked[p] /\ mode[p] = "shared")
               PROVE  Consistent(p)
    BY DEF QuiescentConsistent
  <2>1. Sound(p)
    BY <1>1, RestIsSound
  <2>2. mode[p] \in {"shared", "instance"}
    BY <1>1 DEF QInv, IInv, TypeOK, Modes
  <2> QED
    BY <2>1, <2>2 DEF Sound, Lockout, Consistent, Reachable
<1> QED
  BY <1>1, InitQuiet, StepQuiet, PTL DEF Spec

=============================================================================
