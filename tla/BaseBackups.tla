------------------------------ MODULE BaseBackups ------------------------------
(***************************************************************************)
(* Point-in-time recovery: the WAL archive, the basebackups, and the three *)
(* scripts that meet over them without a lock: scripts/backup.sh, nightly  *)
(* or by hand, scripts/wal-prune.sh, every 15 minutes, and                 *)
(* scripts/pitr-restore.sh, which picks a basebackup by name.  Time is     *)
(* counted in archived segments.                                           *)
(***************************************************************************)
EXTENDS Naturals, FiniteSets, FiniteSetsExt

CONSTANTS
    LastSegment,    \* bound: segments archived
    DayLength,      \* segments per day
    KeepBase,       \* basebackup_keep
    CompactGap      \* at least this between two compactions

ASSUME BaseAssumption ==
    /\ LastSegment \in Nat /\ DayLength \in Nat \ {0}
    /\ KeepBase \in Nat \ {0} /\ CompactGap \in Nat

VARIABLES
    segment,    \* the segment being written; those before it were archived
    wal,        \* the archive
    bases,      \* directories physical/base-*
    nightly,    \* backup.sh
    hygiene,    \* wal-prune.sh
    stamp,      \* last_auto_basebackup
    trimmed,    \* history: segments below were dropped by size alone
    muddled     \* history: two basebackups got in each other's way

baseVars == <<segment, wal, bases, nightly, hygiene, stamp, trimmed, muddled>>

Day == segment \div DayLength

\* base-<date> has clock 0, base-<date>-<time> the time plus one.  A killed
\* pg_basebackup leaves a directory without backup_manifest.
Names == [day : 0..(LastSegment \div DayLength), clock : 0..DayLength]
NoName == [day |-> 0, clock |-> 0]
Dirs == [name : Names, start : 0..LastSegment, end : 0..LastSegment, manifest : BOOLEAN]

\* Directories sort by name: a date before the same date with a time.
Before(m, n) == m.day < n.day \/ (m.day = n.day /\ m.clock < n.clock)
NamedFirst(dirs) == CHOOSE b \in dirs : \A o \in dirs \ {b} : Before(b.name, o.name)
NamedLast(dirs)  == CHOOSE b \in dirs : \A o \in dirs \ {b} : Before(o.name, b.name)
Valid == {b \in bases : b.manifest}

BasesTypeOK ==
    /\ segment \in 0..LastSegment /\ wal \subseteq 0..(LastSegment - 1)
    /\ bases \subseteq Dirs
    /\ nightly \in [pc : {"idle", "retain", "cut", "base", "basing", "retain2", "cut2"},
                    day : 0..LastSegment, keep : 1..KeepBase]
    /\ hygiene \in [pc : {"idle", "compact", "compacting", "keep", "anchor", "trim"},
                    name : Names]
    /\ stamp \in 0..LastSegment /\ trimmed \in 0..LastSegment
    /\ muddled \in BOOLEAN

NotTonight == [pc |-> "idle", day |-> 0, keep |-> KeepBase]
NotNow     == [pc |-> "idle", name |-> NoName]

BasesInit ==
    /\ segment = 0 /\ wal = {} /\ bases = {} /\ stamp = 0
    /\ nightly = NotTonight /\ hygiene = NotNow
    /\ trimmed = 0 /\ muddled = FALSE

NightlyTo(pc) == nightly' = [nightly EXCEPT !.pc = pc]
HygieneTo(pc) == hygiene' = [hygiene EXCEPT !.pc = pc]

\* archive-wal.sh puts a segment away whole or not at all.
ArchiveSegment ==
    /\ segment < LastSegment
    /\ wal' = wal \cup {segment} /\ segment' = segment + 1
    /\ UNCHANGED <<bases, nightly, hygiene, stamp, trimmed, muddled>>

\* Its panic guard drops the oldest segments.
PanicTrim ==
    /\ wal # {}
    /\ trimmed' = Max({trimmed, Min(wal) + 1})
    /\ wal' = wal \ {Min(wal)}
    /\ UNCHANGED <<segment, bases, nightly, hygiene, stamp, muddled>>

-----------------------------------------------------------------------------
(* What both scripts do.                                                   *)

\* Cutting to the end of a basebackup, where it is consistent.
CutToEnd(b) == {s \in wal : b.manifest => s >= b.end}

\* pg_archivecleanup up to the start of a basebackup; a directory without a
\* manifest names no segment, and nothing is removed.
CutTo(b) == {s \in wal : b.manifest => s >= b.start}

\* The routine cut, and the cut to the newest when the disk is nearly full.
CutByName(full) ==
    wal' = IF bases = {} THEN wal
           ELSE IF full THEN CutTo(NamedFirst(bases)) \cap CutTo(NamedLast(bases))
           ELSE CutTo(NamedFirst(bases))

\* rm -rf of what has the name, then a new directory.
StartBase(name) ==
    LET old == {b \in bases : b.name = name} IN
    /\ bases' = (bases \ old) \cup
         {[name |-> name, start |-> segment, end |-> segment, manifest |-> FALSE]}
    /\ muddled' = (muddled \/ old # {})

\* pg_basebackup ends: the directory is complete, gone, or was taken away.  No
\* two are completed at the same moment.
EndBase(name) ==
    LET mine == {b \in bases : b.name = name /\ ~b.manifest} IN
    /\ \A b \in Valid : b.end # segment
    /\ bases' = (bases \ mine) \cup {[b EXCEPT !.manifest = TRUE, !.end = segment] : b \in mine}
    /\ muddled' = (muddled \/ \E b \in mine, o \in bases \ mine :
                                 Before(b.name, o.name) \/ (o.manifest /\ o.start > b.start))

FailBase(name) ==
    /\ bases' = bases \ {b \in bases : b.name = name /\ ~b.manifest}
    /\ UNCHANGED muddled

-----------------------------------------------------------------------------
(* backup.sh: prune_all, dumps, pg_basebackup, prune_all.                  *)

\* The date is taken once; a nearly full database disk keeps one basebackup.
NightlyStart ==
    /\ nightly.pc = "idle"
    /\ \E keep \in {1, KeepBase} :
         nightly' = [pc |-> "retain", day |-> Day, keep |-> keep]
    /\ UNCHANGED <<segment, wal, bases, hygiene, stamp, trimmed, muddled>>

\* ls -dt: by the time of the directory.
Rank(b) == Cardinality({o \in Valid : o.end > b.end})

\* The newest valid ones stay; what has no manifest after two hours goes.
Retain(keep) ==
    \E stale \in SUBSET {b \in bases \ Valid : b.start < segment} :
        bases' = bases \ ({b \in Valid : Rank(b) >= keep} \cup stale)

NightlyRetain ==
    /\ nightly.pc \in {"retain", "retain2"}
    /\ Retain(nightly.keep)
    /\ NightlyTo(IF nightly.pc = "retain" THEN "cut" ELSE "cut2")
    /\ UNCHANGED <<segment, wal, hygiene, stamp, trimmed, muddled>>

NightlyCut ==
    /\ nightly.pc \in {"cut", "cut2"}
    /\ \E full \in BOOLEAN : CutByName(full)
    /\ IF nightly.pc = "cut" THEN NightlyTo("base") ELSE nightly' = NotTonight
    /\ UNCHANGED <<segment, bases, hygiene, stamp, trimmed, muddled>>

NightlyBase ==
    /\ nightly.pc = "base"
    /\ StartBase([day |-> nightly.day, clock |-> 0])
    /\ NightlyTo("basing")
    /\ UNCHANGED <<segment, wal, hygiene, stamp, trimmed>>

NightlyBased ==
    LET name == [day |-> nightly.day, clock |-> 0] IN
    /\ nightly.pc = "basing"
    /\ EndBase(name) \/ FailBase(name)
    /\ NightlyTo("retain2")
    /\ UNCHANGED <<segment, wal, hygiene, stamp, trimmed>>

-----------------------------------------------------------------------------
(* wal-prune.sh: cut, compaction, cap.                                     *)

HygieneStart ==
    /\ hygiene.pc = "idle"
    /\ \E full \in BOOLEAN : CutByName(full)
    /\ HygieneTo("compact")
    /\ UNCHANGED <<segment, bases, nightly, stamp, trimmed, muddled>>

\* The archive is over three quarters of the cap, the last compaction long
\* ago, and the disk has room: a basebackup named by date and time.
Compact ==
    LET name == [day |-> Day, clock |-> (segment % DayLength) + 1] IN
    /\ hygiene.pc = "compact" /\ segment - stamp >= CompactGap
    /\ StartBase(name)
    /\ hygiene' = [pc |-> "compacting", name |-> name]
    /\ UNCHANGED <<segment, wal, nightly, stamp, trimmed>>

Compacted ==
    /\ hygiene.pc = "compacting"
    /\ \/ EndBase(hygiene.name) /\ stamp' = segment /\ HygieneTo("keep")
       \/ FailBase(hygiene.name) /\ UNCHANGED stamp /\ HygieneTo("trim")
    /\ UNCHANGED <<segment, wal, nightly, trimmed>>

\* The last KeepBase valid ones by name stay.
CompactKeeps ==
    /\ hygiene.pc = "keep"
    /\ bases' = bases \ {b \in Valid :
         Cardinality({o \in Valid : Before(b.name, o.name)}) >= KeepBase}
    /\ HygieneTo("anchor")
    /\ UNCHANGED <<segment, wal, nightly, stamp, trimmed, muddled>>

\* The archive is cut to the new one, whichever others are kept.
CompactAnchors ==
    /\ hygiene.pc = "anchor"
    /\ \/ \E b \in bases : b.name = hygiene.name /\ wal' = CutTo(b)
       \/ UNCHANGED wal /\ \A b \in bases : b.name # hygiene.name
    /\ HygieneTo("trim")
    /\ UNCHANGED <<segment, bases, nightly, stamp, trimmed, muddled>>

\* Still over the cap: the oldest segments go, as many as it takes.
HygieneTrims ==
    /\ hygiene.pc \in {"compact", "trim"}
    /\ \E upTo \in {trimmed} \cup {s + 1 : s \in wal} :
         /\ wal' = {s \in wal : s >= upTo}
         /\ trimmed' = Max({trimmed, upTo})
    /\ hygiene' = NotNow
    /\ UNCHANGED <<segment, bases, nightly, stamp, muddled>>

\* The host restarts: a basebackup under way stays as a partial directory.
HostBoot ==
    /\ nightly.pc # "idle" \/ hygiene.pc # "idle"
    /\ nightly' = NotTonight /\ hygiene' = NotNow
    /\ UNCHANGED <<segment, wal, bases, stamp, trimmed, muddled>>

BasesNext ==
    \/ ArchiveSegment \/ PanicTrim
    \/ NightlyStart \/ NightlyRetain \/ NightlyCut \/ NightlyBase \/ NightlyBased
    \/ HygieneStart \/ Compact \/ Compacted \/ CompactKeeps \/ CompactAnchors
    \/ HygieneTrims
    \/ HostBoot

BasesSpec == BasesInit /\ [][BasesNext]_baseVars

-----------------------------------------------------------------------------
(* pitr-restore.sh: the last basebackup by name that started at or before  *)
(* the target, whether it has a manifest or not, and the WAL from there.   *)

Candidates(target) == {b \in bases : b.start <= target}

Restores(target) ==
    /\ Candidates(target) # {}
    /\ LET b == NamedLast(Candidates(target))
       IN b.manifest /\ b.start..target \subseteq wal

\* The latest instant there is an archive of.  The basebackups started before
\* it, one after everything that was dropped for its size; none is unfinished.
Latest == segment - 1
Recoverable ==
    /\ segment > 0 /\ bases = Valid
    /\ \A b \in bases : b.start <= Latest
    /\ \E b \in bases : b.start >= trimmed

\* The present can be recovered, whatever the two scripts, their crashes, full
\* disks and failed basebackups did in whatever order.  Not claimed when a
\* basebackup replaced one of its name, or was completed out of the order of
\* the names or of the starts (run pitr_order), or while one is unfinished.
PresentRestorable == (Recoverable /\ ~muddled) => Restores(Latest)

\* The two scripts one after the other (run pitr_order needs no overlap).
OneScript == nightly.pc = "idle" \/ hygiene.pc = "idle"

\* wal-prune.sh:98: after a compaction "point-in-time recovery stays
\* CONTINUOUS".  With no segment dropped for its size the present can be
\* recovered.
StaysContinuous == (Recoverable /\ trimmed = 0) => Restores(Latest)
=============================================================================
