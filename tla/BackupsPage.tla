------------------------------ MODULE BackupsPage ------------------------------
(***************************************************************************)
(* The Backups page of one project in the shared cluster: a retention      *)
(* number, dumps made and restored by hand (src/pgforge/admin.go), restores *)
(* from the remote into new projects (offbox.go), and what a boot does with *)
(* the number and with the dumps of databases that are gone (infra.go).    *)
(* Requests run at once and nothing locks a database, a file or a row.     *)
(* The nights are in LogicalDumps.  A content is a version number.         *)
(***************************************************************************)
EXTENDS Naturals, FiniteSets

CONSTANTS
    PageClients,    \* requests being served at once
    LastStamp,      \* bound: seconds; a file name holds one
    MaxVersion,     \* bound: contents of the database
    MaxLives,       \* bound: databases of this name, one after the other
    MaxRestarts     \* bound: restarts of the panel

ASSUME PageAssumption ==
    /\ {MaxVersion, MaxLives, MaxRestarts} \subseteq Nat
    /\ LastStamp \in Nat /\ LastStamp >= 2

VARIABLES
    chosen,     \* the number in settings
    knob,       \* the number in /opt/pgforge/<key>, which backup.sh reads
    life,       \* which database of the name this is, 0 between two
    lives,      \* how many there were
    holds,      \* its content
    half,       \* a restore has dropped and not put back everything
    nowAt,      \* the second
    partials,   \* the seconds of <slug>-<second>.dump.partial files
    dumpFiles,  \* <slug>-<second>.dump
    trash,      \* dumps/.trash
    marker,     \* orphan_sweep_done
    page,       \* what each request, and its goroutine, does next
    boot,       \* reconcileInfra, a goroutine beside the requests
    restarts,
    clone,      \* the project each request restores into
    pulled,     \* the downloaded file, at one path for all who restore it
    excused     \* history: what the properties make an exception of

numberVars == <<chosen, knob>>
baseOfVars == <<life, lives, holds, half>>
fileVars == <<nowAt, partials, dumpFiles, trash, marker>>
awayVars == <<clone, pulled>>
pageVars == <<numberVars, baseOfVars, fileVars, awayVars, page, boot, restarts, excused>>

PageRest == [pc |-> "idle", n |-> 0, ver |-> 0, ok |-> TRUE]
DumpFile == [at : 1..LastStamp, life : 0..MaxLives, ver : 0..MaxVersion, ok : BOOLEAN]
BootAgain == [pc |-> "mirror", n |-> 0, saw |-> {}]

PageTypeOK ==
    /\ chosen \in 1..2 /\ knob \in 1..2
    /\ lives \in 0..MaxLives /\ life \in {0, lives}
    /\ holds \in 0..MaxVersion /\ half \in BOOLEAN
    /\ nowAt \in 1..LastStamp /\ partials \subseteq 1..LastStamp
    /\ dumpFiles \subseteq DumpFile /\ trash \subseteq DumpFile
    /\ \A f, g \in dumpFiles : f.at = g.at => f = g
    /\ marker \in BOOLEAN /\ pulled \in BOOLEAN /\ restarts \in 0..MaxRestarts
    /\ page \in [PageClients ->
         [pc : {"idle", "knob", "dump", "restore", "fetch", "load"},
          n : 0..LastStamp, ver : 0..MaxVersion, ok : BOOLEAN]]
    /\ boot \in [pc : {"mirror", "write", "look", "ask", "move", "done"},
                 n : 0..2, saw : SUBSET (1..LastStamp)]
    /\ clone \in [PageClients -> {"none", "cloning", "active"}]
    /\ excused \subseteq {"crossed", "twins", "restores", "warned", "cut", "midway",
                      "retaken"}

\* A database of an earlier life is gone and left a dump.
PageInit ==
    /\ chosen = 1 /\ knob \in 1..2
    /\ life = 0 /\ lives = 0 /\ holds = 0 /\ half = FALSE
    /\ nowAt = 2 /\ partials = {} /\ trash = {} /\ marker = FALSE
    /\ dumpFiles = {[at |-> 1, life |-> 0, ver |-> 0, ok |-> TRUE]}
    /\ page = [c \in PageClients |-> PageRest]
    /\ boot = BootAgain /\ restarts = 0
    /\ clone = [c \in PageClients |-> "none"] /\ pulled = FALSE
    /\ excused = {}

PageDoes(c, pc, n, v, ok) ==
    page' = [page EXCEPT ![c] = [pc |-> pc, n |-> n, ver |-> v, ok |-> ok]]
PageRests(c) == page' = [page EXCEPT ![c] = PageRest]
AtPage(pc) == {c \in PageClients : page[c].pc = pc}
Excuse(kind, applies) == excused' = excused \cup (IF applies THEN {kind} ELSE {})

-----------------------------------------------------------------------------
(* The number: the row first, then the file.                               *)

SetTiers(c, n) ==
    /\ page[c] = PageRest
    /\ chosen' = n /\ PageDoes(c, "knob", n, 0, TRUE)
    /\ Excuse("crossed", AtPage("knob") # {} \/ boot.pc = "write")
    /\ UNCHANGED <<knob, baseOfVars, fileVars, awayVars, boot, restarts>>

WriteKnob(c) ==
    /\ page[c].pc = "knob"
    /\ knob' = page[c].n /\ PageRests(c)
    /\ UNCHANGED <<chosen, baseOfVars, fileVars, awayVars, boot, restarts, excused>>

\* Every boot copies the row to the file.
MirrorReads ==
    /\ boot.pc = "mirror"
    /\ boot' = [boot EXCEPT !.pc = "write", !.n = chosen]
    /\ UNCHANGED <<numberVars, baseOfVars, fileVars, awayVars, page, restarts, excused>>

MirrorWrites ==
    /\ boot.pc = "write"
    /\ knob' = boot.n
    /\ boot' = [boot EXCEPT !.pc = IF marker THEN "done" ELSE "look", !.n = 0]
    /\ UNCHANGED <<chosen, baseOfVars, fileVars, awayVars, page, restarts, excused>>

-----------------------------------------------------------------------------
(* Once per box: dumps of databases that are gone go to the trash.         *)

\* The directory is read before the databases are.
SweepLooks ==
    /\ boot.pc = "look"
    /\ boot' = [boot EXCEPT !.pc = "ask", !.saw = {f.at : f \in dumpFiles}]
    /\ UNCHANGED <<numberVars, baseOfVars, fileVars, awayVars, page, restarts, excused>>

SweepAsks ==
    /\ boot.pc = "ask"
    /\ boot' = [boot EXCEPT !.pc = "move", !.saw = IF life = 0 THEN @ ELSE {}]
    /\ UNCHANGED <<numberVars, baseOfVars, fileVars, awayVars, page, restarts, excused>>

SweepMoves ==
    /\ boot.pc = "move"
    /\ LET seen == {f \in dumpFiles : f.at \in boot.saw}
       IN  dumpFiles' = dumpFiles \ seen /\ trash' = trash \cup seen
    /\ marker' = TRUE
    /\ boot' = [BootAgain EXCEPT !.pc = "done"]
    /\ UNCHANGED <<numberVars, baseOfVars, awayVars, nowAt, partials, page, restarts,
                   excused>>

-----------------------------------------------------------------------------
(* The database: created, written to, dropped with its dumps.              *)

Created ==
    /\ life = 0 /\ lives < MaxLives
    /\ life' = lives + 1 /\ lives' = lives + 1 /\ holds' = 0
    /\ UNCHANGED <<half, numberVars, fileVars, awayVars, page, boot, restarts, excused>>

\* Not while a dump or a restore is at it: dropping terminates both.
Dropped ==
    /\ life # 0 /\ AtPage("dump") \cup AtPage("restore") = {}
    /\ life' = 0 /\ holds' = 0 /\ half' = FALSE
    /\ trash' = trash \cup dumpFiles /\ dumpFiles' = {}
    /\ UNCHANGED <<lives, numberVars, nowAt, partials, marker, awayVars, page, boot,
                   restarts, excused>>

Written ==
    /\ life # 0 /\ holds < MaxVersion /\ holds' = holds + 1
    /\ UNCHANGED <<life, lives, half, numberVars, fileVars, awayVars, page, boot,
                   restarts, excused>>

NowAdvances ==
    /\ nowAt < LastStamp /\ nowAt' = nowAt + 1
    /\ UNCHANGED <<numberVars, baseOfVars, partials, dumpFiles, trash, marker,
                   awayVars, page, boot, restarts, excused>>

-----------------------------------------------------------------------------
(* backupNow: pg_dump into <name>.partial, then a rename.                  *)

\* Two requests of one second write to the same file.
BackupBegins(c) ==
    /\ page[c] = PageRest /\ life # 0
    /\ LET twin == \E d \in AtPage("dump") : page[d].n = nowAt
       IN  /\ page' = [d \in PageClients |->
                         IF d = c THEN [pc |-> "dump", n |-> nowAt, ver |-> holds,
                                        ok |-> ~half /\ ~twin]
                         ELSE IF page[d].pc = "dump" /\ page[d].n = nowAt
                              THEN [page[d] EXCEPT !.ok = FALSE] ELSE page[d]]
           /\ excused' = excused \cup (IF twin THEN {"twins"} ELSE {})
                                 \cup (IF half THEN {"midway"} ELSE {})
    /\ partials' = partials \cup {nowAt}
    /\ UNCHANGED <<numberVars, baseOfVars, nowAt, dumpFiles, trash, marker, awayVars,
                   boot, restarts>>

\* Renamed when pg_dump went well and left something, removed when it did not.
\* A twin that is through has taken the file away.  The sweep may be about to
\* move a file of this name, which it saw before the last database went.
BackupEnds(c) ==
    /\ page[c].pc = "dump"
    /\ \/ /\ page[c].n \in partials
          /\ dumpFiles' = {f \in dumpFiles : f.at # page[c].n} \cup
               {[at |-> page[c].n, life |-> life, ver |-> page[c].ver, ok |-> page[c].ok]}
          /\ Excuse("retaken", boot.pc = "move" /\ page[c].n \in boot.saw)
       \/ UNCHANGED <<dumpFiles, excused>>
    /\ partials' = partials \ {page[c].n}
    /\ PageRests(c)
    /\ UNCHANGED <<numberVars, baseOfVars, nowAt, trash, marker, awayVars, boot,
                   restarts>>

-----------------------------------------------------------------------------
(* restoreBackup: pg_restore --clean, in no transaction.                   *)

RestoreBegins(c, f) ==
    /\ page[c] = PageRest /\ life # 0
    /\ PageDoes(c, "restore", f.at, f.ver, f.ok)
    /\ half' = TRUE
    /\ Excuse("restores", AtPage("restore") # {})
    /\ UNCHANGED <<life, lives, holds, numberVars, fileVars, awayVars, boot, restarts>>

\* Two at once drop what the other has put back.  Otherwise everything is back,
\* or pg_restore failed and its output is shown as warnings.
RestoreEnds(c) ==
    /\ page[c].pc = "restore"
    /\ \/ /\ half' = (~page[c].ok \/ "restores" \in excused) /\ UNCHANGED excused
       \/ UNCHANGED half /\ Excuse("warned", TRUE)
    /\ holds' = page[c].ver
    /\ PageRests(c)
    /\ UNCHANGED <<life, lives, numberVars, fileVars, awayVars, boot, restarts>>

-----------------------------------------------------------------------------
(* offboxRestore: a new project, filled by a goroutine.                    *)

OffboxBegins(c) ==
    /\ page[c] = PageRest /\ clone[c] = "none"
    /\ PageDoes(c, "fetch", 0, 0, TRUE)
    /\ clone' = [clone EXCEPT ![c] = "cloning"]
    /\ UNCHANGED <<pulled, numberVars, baseOfVars, fileVars, boot, restarts, excused>>

\* A failure drops the new project.
OffboxFetches(c) ==
    /\ page[c].pc = "fetch"
    /\ \/ /\ pulled' = TRUE /\ PageDoes(c, "load", 0, 0, TRUE) /\ UNCHANGED clone
       \/ /\ clone' = [clone EXCEPT ![c] = "none"] /\ PageRests(c) /\ UNCHANGED pulled
    /\ UNCHANGED <<numberVars, baseOfVars, fileVars, boot, restarts, excused>>

\* The file may have been removed by another restore that is through.  What
\* pg_restore says does not count when there are tables afterwards.
OffboxLoads(c) ==
    /\ page[c].pc = "load"
    /\ \E tables \in (IF pulled THEN BOOLEAN ELSE {FALSE}) :
         clone' = [clone EXCEPT ![c] = IF tables THEN "active" ELSE "none"]
    /\ pulled' = FALSE /\ PageRests(c)
    /\ UNCHANGED <<numberVars, baseOfVars, fileVars, boot, restarts, excused>>

-----------------------------------------------------------------------------
\* Requests and goroutines end where they are; pg_dump and pg_restore with
\* them.  The .partial file stays, and so does a project that was cloning.
PanelRestarts ==
    /\ restarts < MaxRestarts /\ restarts' = restarts + 1
    /\ page' = [c \in PageClients |-> PageRest] /\ boot' = BootAgain
    /\ Excuse("cut", AtPage("restore") \cup AtPage("fetch") \cup AtPage("load") # {})
    /\ UNCHANGED <<numberVars, baseOfVars, fileVars, awayVars>>

PageNext ==
    \/ \E c \in PageClients :
         \/ \E n \in 1..2 : SetTiers(c, n)
         \/ WriteKnob(c)
         \/ BackupBegins(c) \/ BackupEnds(c)
         \/ \E f \in dumpFiles : RestoreBegins(c, f)
         \/ RestoreEnds(c)
         \/ OffboxBegins(c) \/ OffboxFetches(c) \/ OffboxLoads(c)
    \/ MirrorReads \/ MirrorWrites
    \/ SweepLooks \/ SweepAsks \/ SweepMoves
    \/ Created \/ Dropped \/ Written \/ NowAdvances
    \/ PanelRestarts

PageSpec == PageInit /\ [][PageNext]_pageVars

-----------------------------------------------------------------------------
\* Once a boot has mirrored it and no change is under way, backup.sh reads the
\* number the page shows.  Two changes at once, or one between the two halves of
\* the mirroring, may end with the row of one and the file of the other.
NumberRules ==
    (AtPage("knob") = {} /\ boot.pc \notin {"mirror", "write"} /\ "crossed" \notin excused)
        => knob = chosen

\* A file with the name of a dump is a whole one of a whole database: failures,
\* restarts and dumps in progress never leave one.  Two requests of one second
\* share the .partial file, and nothing keeps a dump from a database that a
\* restore is at.
DumpsByHandWhole ==
    ({"twins", "midway"} \cap excused = {}) => \A f \in dumpFiles : f.ok

\* A restore takes the database apart and leaves it whole, unless it said so in
\* its warnings, met another one or was cut off.
RestoredWhole ==
    (half /\ {"restores", "warned", "cut", "twins", "midway"} \cap excused = {})
        => AtPage("restore") # {}

\* The sweep runs beside the first requests and takes no dump of the database
\* that lives now, though it may have been created since the sweep looked.  Two
\* dumps of one second, before and after that, have one name.
SweptOnlyOrphans ==
    (life # 0 /\ "retaken" \notin excused) => \A f \in trash : f.life # life

\* A project restored from the remote is there while its goroutine is, or for
\* good; only a restart leaves one that is cloning for ever.
CloneEnds ==
    "cut" \notin excused =>
        \A c \in PageClients : clone[c] = "cloning" => page[c].pc \in {"fetch", "load"}

\* The number, the dumps, the database, the sweep and the new projects.
BackupsPageHolds ==
    /\ NumberRules /\ DumpsByHandWhole /\ RestoredWhole
    /\ SweptOnlyOrphans /\ CloneEnds
=============================================================================
