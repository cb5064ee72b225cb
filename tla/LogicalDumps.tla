------------------------------ MODULE LogicalDumps ------------------------------
(***************************************************************************)
(* The nightly pg_dump of one database (scripts/backup.sh, layers 1 and    *)
(* 1b): taken when its signature differs from the one saved with the last  *)
(* dump, kept in tiers, aged out, moved away when the project is deleted.  *)
(* Contents are version numbers; a night is the date in a dump's name.     *)
(***************************************************************************)
EXTENDS Naturals, FiniteSets

CONSTANTS
    Nights,         \* bound: nights
    MaxWrites,      \* bound: changes of the database
    KeepDaily,      \* dump_keep_daily
    ForceDays,      \* force_dump_days
    Ceiling         \* retention_days, raised to reach past the tier

ASSUME DumpAssumption ==
    /\ Nights \in Nat /\ MaxWrites \in Nat \ {0}
    /\ KeepDaily \in Nat \ {0} /\ ForceDays \in Nat \ {0}
    /\ Ceiling \in Nat /\ Ceiling >= KeepDaily + ForceDays

VARIABLES
    kind,       \* "shared", or "instance": a container of its own
    awake,      \* the container runs; a shared database always does
    version,    \* what the database holds, and its counters
    night,      \* the date
    dumps,      \* files <slug>-<date>.dump
    sig,        \* .state/<slug>.sig, 0 when there is none
    script,     \* backup.sh at this database
    captured,   \* history: the version the last night that went well vouches for
    spoiled     \* history: the last dump failed or was killed, or there was none

dumpVars == <<kind, awake, version, night, dumps, sig, script, captured, spoiled>>

Waiting == [pc |-> "idle", saw |-> 0, ver |-> 0]

DumpsTypeOK ==
    /\ kind \in {"shared", "instance"} /\ awake \in BOOLEAN
    /\ version \in 1..MaxWrites /\ night \in 0..Nights
    /\ dumps \subseteq [date : 0..Nights, ver : 1..MaxWrites, whole : BOOLEAN]
    /\ \A d, o \in dumps : d.date = o.date => d = o
    /\ sig \in 0..MaxWrites /\ captured \in 0..MaxWrites /\ spoiled \in BOOLEAN
    /\ script \in [pc : {"idle", "look", "judge", "dump", "save", "prune"},
                   saw : 0..MaxWrites, ver : 0..MaxWrites]

DumpsInit ==
    /\ kind \in {"shared", "instance"} /\ awake = TRUE
    /\ version = 1 /\ night = 0 /\ dumps = {} /\ sig = 0
    /\ script = Waiting /\ captured = 0 /\ spoiled = FALSE

ScriptTo(pc) == script' = [script EXCEPT !.pc = pc]
NewestDump == CHOOSE d \in dumps : \A o \in dumps : o.date <= d.date
Dated(d) == {o \in dumps : o.date = d}

-----------------------------------------------------------------------------

\* A change moves the counters or the schema, and with them the signature.
Write ==
    /\ awake /\ version < MaxWrites
    /\ version' = version + 1
    /\ UNCHANGED <<kind, awake, night, dumps, sig, script, captured, spoiled>>

\* The reaper stops an idle instance, a connection starts it.
Nap ==
    /\ kind = "instance" /\ awake' = ~awake
    /\ UNCHANGED <<kind, version, night, dumps, sig, script, captured, spoiled>>

NightFalls ==
    /\ script.pc = "idle" /\ night < Nights /\ night' = night + 1
    /\ UNCHANGED <<kind, awake, version, dumps, sig, script, captured, spoiled>>

\* tier_prune keeps the newest KeepDaily files, find removes what is older
\* than the ceiling whatever the tier kept; no weekly tier by default.
Pruned ==
    {d \in dumps : /\ Cardinality({o \in dumps : o.date > d.date}) < KeepDaily
                   /\ night - d.date <= Ceiling}

\* prune_all comes first, and again at the end.
ScriptStart ==
    /\ script.pc = "idle"
    /\ dumps' = Pruned /\ ScriptTo("look")
    /\ UNCHANGED <<kind, awake, version, night, sig, captured, spoiled>>

\* A stopped instance is passed over.  The signature is taken first.
Look ==
    /\ script.pc = "look"
    /\ script' = IF awake THEN [pc |-> "judge", saw |-> version, ver |-> 0]
                 ELSE [Waiting EXCEPT !.pc = "prune"]
    /\ spoiled' = (spoiled \/ ~awake)
    /\ UNCHANGED <<kind, awake, version, night, dumps, sig, captured>>

Unchanged ==
    /\ dumps # {} /\ sig = script.saw
    /\ night - NewestDump.date < ForceDays

Skip ==
    /\ script.pc = "judge" /\ Unchanged
    /\ captured' = script.saw
    /\ ScriptTo("prune")
    /\ UNCHANGED <<kind, awake, version, night, dumps, sig, spoiled>>

\* pg_dump takes its snapshot, and the file of this date is truncated.
DumpBegins ==
    /\ script.pc = "judge" /\ ~Unchanged
    /\ script' = [script EXCEPT !.pc = "dump", !.ver = version]
    /\ dumps' = (dumps \ Dated(night)) \cup {[date |-> night, ver |-> version, whole |-> FALSE]}
    /\ UNCHANGED <<kind, awake, version, night, sig, captured, spoiled>>

\* The file is removed when pg_dump failed, or what it went to is gone.
DumpEnds ==
    /\ script.pc = "dump"
    /\ \/ /\ dumps' = {[d EXCEPT !.whole = @ \/ d.date = night] : d \in dumps}
          /\ ScriptTo("save") /\ UNCHANGED spoiled
       \/ /\ dumps' = dumps \ Dated(night)
          /\ ScriptTo("prune") /\ spoiled' = TRUE
    /\ UNCHANGED <<kind, awake, version, night, sig, captured>>

SaveSignature ==
    /\ script.pc = "save"
    /\ sig' = script.saw /\ captured' = script.saw /\ spoiled' = FALSE
    /\ ScriptTo("prune")
    /\ UNCHANGED <<kind, awake, version, night, dumps>>

ScriptEnds ==
    /\ script.pc = "prune"
    /\ dumps' = Pruned /\ script' = Waiting
    /\ UNCHANGED <<kind, awake, version, night, sig, captured, spoiled>>

\* The host restarts: a truncated file stays, and looks like any other.
ScriptKilled ==
    /\ script.pc # "idle"
    /\ script' = Waiting /\ spoiled' = TRUE
    /\ UNCHANGED <<kind, awake, version, night, dumps, sig, captured>>

\* trashProjectDumps, then a project of the same name: nothing of the old one
\* is left to be mistaken for it.  Not while the script is at the database.
Recreate ==
    /\ script.pc = "idle"
    /\ dumps' = {} /\ sig' = 0 /\ version' = 1 /\ awake' = TRUE
    /\ captured' = 0 /\ spoiled' = FALSE
    /\ UNCHANGED <<kind, night, script>>

DumpsNext ==
    \/ Write \/ Nap \/ NightFalls
    \/ ScriptStart \/ Look \/ Skip \/ DumpBegins \/ DumpEnds \/ SaveSignature
    \/ ScriptEnds \/ ScriptKilled
    \/ Recreate

DumpsSpec == DumpsInit /\ [][DumpsNext]_dumpVars

-----------------------------------------------------------------------------
\* Once a night has gone well a whole dump holds at least what the database
\* held when the script looked at it, and the saved signature is never ahead
\* of the dumps, so that no change is skipped: writes that race the dump,
\* nights that skip, failures before it and the pruning of the tiers included.
\* Not claimed from a failed or killed dump to the next that succeeds (a dump
\* forced on an unchanged database and killed leaves a truncated file that the
\* next nights take for the newest dump), nor for an instance that was asleep:
\* the comment at backup.sh:258 calls its last dump current, though it may
\* have been written to since.
DumpVouches ==
    (script.pc = "idle" /\ ~spoiled /\ captured # 0) =>
        \E d \in dumps : d.whole /\ d.ver >= captured /\ d.ver >= sig
=============================================================================
