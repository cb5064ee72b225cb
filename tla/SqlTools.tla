-------------------------------- MODULE SqlTools --------------------------------
(***************************************************************************)
(* What the panel keeps about SQL it runs for a project: the history of    *)
(* migrations inside the project's database (src/pgforge/migrations.go),   *)
(* the jobs pg_cron runs in it (cron.go), the snippets and the last runs   *)
(* of the editor (editor.go).                                              *)
(***************************************************************************)
EXTENDS Naturals, FiniteSets

CONSTANTS
    SqlUsers,       \* requests at once, each of a user of its own
    JobNames,
    JobLimit,       \* jobs of a project (50)
    HistoryLimit,   \* runs that are kept (200)
    LastInstant,    \* bound: seconds
    MaxSql          \* bound: migrations, jobs and runs made

ASSUME SqlAssumption ==
    /\ IsFiniteSet(SqlUsers) /\ {JobLimit, HistoryLimit, LastInstant, MaxSql} \subseteq Nat
    /\ JobLimit > 0

VARIABLES
    instant,    \* the panel's clock
    tools,      \* a request: where it is, and what it holds
    applied,    \* migrations whose effects are in the database
    migrations,   \* forgebase.migrations, with the effects that were there when
                \* the migration took its version
    jobs,       \* cron.job: [id, name, active]
    ran,        \* sql_history: the runs kept, by when they were inserted
    ids,       \* ids given so far
    ownCommit,  \* history: migrations that held a COMMIT of their own
    unread      \* history: jobs could not be counted, or a trim was cut off

sqlVars == <<instant, tools, applied, migrations, jobs, ran, ids, ownCommit, unread>>

AtEase == [pc |-> "idle", id |-> 0, version |-> 0, after |-> {}]
Using(pc, id) == [AtEase EXCEPT !.pc = pc, !.id = id]

SqlTypeOK ==
    /\ instant \in 0..LastInstant /\ ids \in 0..MaxSql
    /\ tools \in [SqlUsers -> [pc : {"idle", "begin", "sql", "record", "commit", "schedule",
                                     "toggle", "unschedule", "trim"},
                               id : 0..MaxSql, version : 0..LastInstant,
                               after : SUBSET (1..MaxSql)]]
    /\ applied \subseteq 1..ids /\ ownCommit \subseteq 1..ids /\ ran \subseteq 1..ids
    /\ \A m \in migrations : m.id \in 1..ids /\ m.version \in 0..LastInstant
    /\ \A j \in jobs : j.id \in 1..ids /\ j.name \in JobNames
    /\ unread \subseteq {"jobs", "trim"}

SqlInit ==
    /\ instant = 0 /\ tools = [u \in SqlUsers |-> AtEase]
    /\ applied = {} /\ migrations = {} /\ jobs = {} /\ ran = {}
    /\ ids = 0 /\ ownCommit = {} /\ unread = {}

InstantPasses ==
    /\ instant < LastInstant /\ instant' = instant + 1
    /\ UNCHANGED <<tools, applied, migrations, jobs, ran, ids, ownCommit, unread>>

AtStep(u, pc) == tools[u].pc = pc
Ends(u) == tools' = [tools EXCEPT ![u] = AtEase]
Makes1 == ids < MaxSql /\ ids' = ids + 1

-----------------------------------------------------------------------------
(* applyMigration                                                          *)

\* The version is the second the request is in, taken before Begin.
TakeVersion(u) ==
    /\ AtStep(u, "idle") /\ Makes1
    /\ tools' = [tools EXCEPT ![u] = [pc |-> "begin", id |-> ids', version |-> instant, after |-> applied]]
    /\ UNCHANGED <<instant, applied, migrations, jobs, ran, ownCommit, unread>>

BeginMigration(u) ==
    /\ AtStep(u, "begin")
    /\ \/ tools' = [tools EXCEPT ![u].pc = "sql"]
       \/ Ends(u)
    /\ UNCHANGED <<instant, applied, migrations, jobs, ran, ids, ownCommit, unread>>

\* The SQL: it fails, and nothing is applied, or it is in the transaction,
\* unless it ends that transaction itself.
RunMigration(u) ==
    /\ AtStep(u, "sql")
    /\ \/ Ends(u) /\ UNCHANGED <<applied, ownCommit>>
       \/ /\ tools' = [tools EXCEPT ![u].pc = "record"]
          /\ \/ UNCHANGED <<applied, ownCommit>>
             \/ /\ applied' = applied \cup {tools[u].id}
                /\ ownCommit' = ownCommit \cup {tools[u].id}
    /\ UNCHANGED <<instant, migrations, jobs, ran, ids, unread>>

\* A row of the version that is there, or that another transaction is about to
\* commit: the insert waits for it.
Conflicts(u) == \E m \in migrations : m.version = tools[u].version
Awaited(u) == \E v \in SqlUsers \ {u} : AtStep(v, "commit") /\ tools[v].version = tools[u].version

RecordMigration(u) ==
    /\ AtStep(u, "record") /\ ~Awaited(u)
    /\ \/ ~Conflicts(u) /\ tools' = [tools EXCEPT ![u].pc = "commit"]
       \/ Ends(u)                               \* Rollback
    /\ UNCHANGED <<instant, applied, migrations, jobs, ran, ids, ownCommit, unread>>

CommitMigration(u) ==
    /\ AtStep(u, "commit") /\ Ends(u)
    /\ \/ /\ applied' = applied \cup {tools[u].id}
          /\ migrations' = IF Conflicts(u) THEN migrations ELSE
               migrations \cup {[id |-> tools[u].id, version |-> tools[u].version, after |-> tools[u].after]}
       \/ UNCHANGED <<applied, migrations>>
    /\ UNCHANGED <<instant, jobs, ran, ids, ownCommit, unread>>

-----------------------------------------------------------------------------
(* cron.go                                                                 *)

\* cronCreate counts the jobs, and no jobs when it cannot read them ...
cronCreate(u) ==
    /\ AtStep(u, "idle") /\ tools' = [tools EXCEPT ![u] = Using("schedule", 0)]
    /\ \/ Cardinality(jobs) < JobLimit /\ UNCHANGED unread
       \/ unread' = unread \cup {"jobs"}
    /\ UNCHANGED <<instant, applied, migrations, jobs, ran, ids, ownCommit>>

\* ... and schedules: a name that is there is scheduled anew under its id.
Schedule(u, name) ==
    /\ AtStep(u, "schedule") /\ Ends(u)
    /\ LET same == {j \in jobs : j.name = name} IN
       IF same # {}
       THEN /\ jobs' = (jobs \ same) \cup {[j EXCEPT !.active = TRUE] : j \in same}
            /\ UNCHANGED ids
       ELSE Makes1 /\ jobs' = jobs \cup {[id |-> ids', name |-> name, active |-> TRUE]}
    /\ UNCHANGED <<instant, applied, migrations, ran, ownCommit, unread>>

\* cronOwns: the job is this project's, when it is looked at.
cronToggle(u) ==
    /\ AtStep(u, "idle")
    /\ \E j \in jobs, next \in {"toggle", "unschedule"} :
         tools' = [tools EXCEPT ![u] = Using(next, j.id)]
    /\ UNCHANGED <<instant, applied, migrations, jobs, ran, ids, ownCommit, unread>>

\* cron.alter_job, cron.unschedule: an error if the id is gone.
Alter(u) ==
    /\ AtStep(u, "toggle") /\ Ends(u)
    /\ \E active \in BOOLEAN :
         jobs' = {IF j.id = tools[u].id THEN [j EXCEPT !.active = active] ELSE j : j \in jobs}
    /\ UNCHANGED <<instant, applied, migrations, ran, ids, ownCommit, unread>>

cronDelete(u) ==
    /\ AtStep(u, "unschedule") /\ Ends(u)
    /\ jobs' = {j \in jobs : j.id # tools[u].id}
    /\ UNCHANGED <<instant, applied, migrations, ran, ids, ownCommit, unread>>

-----------------------------------------------------------------------------
(* The editor's history                                                    *)

InsertRun(u) ==
    /\ AtStep(u, "idle") /\ Makes1
    /\ ran' = ran \cup {ids'} /\ tools' = [tools EXCEPT ![u] = Using("trim", ids')]
    /\ UNCHANGED <<instant, applied, migrations, jobs, ownCommit, unread>>

Newer(r) == {q \in ran : q > r}
TrimRuns(u) ==
    /\ AtStep(u, "trim") /\ Ends(u)
    /\ \/ ran' = {r \in ran : Cardinality(Newer(r)) < HistoryLimit} /\ UNCHANGED unread
       \/ unread' = unread \cup {"trim"} /\ UNCHANGED ran
    /\ UNCHANGED <<instant, applied, migrations, jobs, ids, ownCommit>>

\* The panel stops: PostgreSQL rolls back what was not committed.
ToolsStop ==
    /\ \E u \in SqlUsers : ~AtStep(u, "idle")
    /\ tools' = [u \in SqlUsers |-> AtEase]
    /\ unread' = unread \cup (IF \E u \in SqlUsers : AtStep(u, "trim") THEN {"trim"} ELSE {})
    /\ UNCHANGED <<instant, applied, migrations, jobs, ran, ids, ownCommit>>

SqlNext ==
    \/ InstantPasses \/ ToolsStop
    \/ \E u \in SqlUsers :
         \/ TakeVersion(u) \/ BeginMigration(u) \/ RunMigration(u) \/ RecordMigration(u) \/ CommitMigration(u)
         \/ cronCreate(u) \/ cronToggle(u) \/ Alter(u) \/ cronDelete(u)
         \/ \E name \in JobNames : Schedule(u, name)
         \/ InsertRun(u) \/ TrimRuns(u)

SqlSpec == SqlInit /\ [][SqlNext]_sqlVars

-----------------------------------------------------------------------------
\* "either the schema change lands together with its history row, or neither
\* does" (migrations.go:70), whoever else migrates in the same second, unless
\* the SQL ends the transaction itself; and "the full ordered history as one
\* runnable .sql file" (migrations.go:121) puts a migration after all that was
\* there when it was handed in: versions are seconds, and the key refuses a
\* second one.  What came while it waited for a connection may follow it.  The
\* requests that passed the count of jobs together exceed it by one each at
\* most, one name is one job, and the runs kept are the newest.
SqlKept ==
    /\ applied \ ownCommit \subseteq {m.id : m \in migrations}
    /\ {m.id : m \in migrations} \subseteq applied
    /\ \A m, n \in migrations : m.id \in n.after => m.version < n.version
    /\ "jobs" \notin unread => Cardinality(jobs) <= JobLimit + Cardinality(SqlUsers) - 1
    /\ \A i, j \in jobs : i.name = j.name => i = j
    /\ "trim" \notin unread /\ (\A u \in SqlUsers : ~AtStep(u, "trim")) =>
         Cardinality(ran) <= HistoryLimit
=============================================================================
