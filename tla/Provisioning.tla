------------------------------ MODULE Provisioning ------------------------------
(***************************************************************************)
(* Creating, cloning, branching and deleting projects (projects.go,        *)
(* branching.go, instances.go, sync.go).  A project is a role, a database  *)
(* and a row, or a container and a row; the statements that make or drop   *)
(* them commit one by one, the handlers run at once, and the file the      *)
(* pooler routes by is written by whoever comes last.                      *)
(***************************************************************************)
EXTENDS Naturals, FiniteSets

CONSTANTS
    Slugs,          \* names of projects and branches
    ParentOf,       \* the project a branch name belongs to, NoSlug for the others
    NoSlug,
    Modes,          \* kinds of new projects: "shared", "instance"
    MaxBirths,      \* bound: passwords ever generated
    Provisioners    \* requests at once

ASSUME ProvAssumption ==
    /\ IsFiniteSet(Slugs) /\ NoSlug \notin Slugs /\ MaxBirths \in Nat
    /\ ParentOf \in [Slugs -> Slugs \cup {NoSlug}]
    /\ Modes \subseteq {"shared", "instance"}

VARIABLES
    roles,      \* password of the login role, 0: no role
    databases,      \* databases: "none", "open", "closed" (ALLOW_CONNECTIONS false)
    boxes,      \* password in the container and its subvolume, 0: none
    rows,       \* the projects table
    routed,     \* the pooler's userlist: password listed, 0: not listed
    provs,      \* the handlers
    births,     \* passwords generated
    marred,     \* history: slugs an overlap, a failure or a restart has touched
    torn        \* history: userlists were read and written at once, or not at all

provVars == <<roles, databases, boxes, rows, routed, provs, births, marred, torn>>
things   == <<roles, databases, boxes>>
past     == <<births, marred, torn>>

NoProject == [pw |-> 0, parent |-> NoSlug, mode |-> "shared"]
Exists(s) == rows[s].pw # 0

AtRest == [pc |-> "idle", op |-> "none", s |-> NoSlug, from |-> NoSlug,
           pw |-> 0, left |-> {}, seen |-> [s \in Slugs |-> 0]]

ProvTypeOK ==
    /\ roles \in [Slugs -> 0..MaxBirths] /\ boxes \in [Slugs -> 0..MaxBirths]
    /\ databases \in [Slugs -> {"none", "open", "closed"}]
    /\ \A s \in Slugs : /\ rows[s].pw \in 0..MaxBirths
                        /\ rows[s].parent \in Slugs \cup {NoSlug}
                        /\ rows[s].mode \in {"shared", "instance"}
    /\ routed \in [Slugs -> 0..MaxBirths]
    /\ births \in 0..MaxBirths /\ marred \subseteq Slugs /\ torn \in BOOLEAN

ProvInit ==
    /\ roles = [s \in Slugs |-> 0] /\ boxes = [s \in Slugs |-> 0]
    /\ databases = [s \in Slugs |-> "none"]
    /\ rows = [s \in Slugs |-> NoProject]
    /\ routed = [s \in Slugs |-> 0]
    /\ provs = [c \in Provisioners |-> AtRest]
    /\ births = 0 /\ marred = {} /\ torn = FALSE

ProvAt(c, pc) == provs[c].pc = pc
ProvTo(c, pc) == provs' = [provs EXCEPT ![c].pc = pc]
ProvEnds(c)   == provs' = [provs EXCEPT ![c] = AtRest]

\* What a handler makes and what it may remove.
Makes(h)   == IF h.op \in {"create", "at-time", "branch"} THEN {h.s} ELSE {}
Removes(h) == IF h.op = "delete" THEN {h.s} \cup h.left ELSE {}
Touches(h) == Makes(h) \cup Removes(h) \cup ({h.from} \ {NoSlug})

\* Two handlers meet when one makes what the other touches, or removes what
\* the other copies from.
Clash(g, h) ==
    \/ Makes(g) \cap Touches(h) # {}
    \/ {g.from} \cap Removes(h) # {}

\* Handlers c meets, as h: what they touch is no longer claimed.
Meeting(c, h) ==
    LET met == {d \in Provisioners \ {c} : Clash(h, provs[d]) \/ Clash(provs[d], h)}
    IN IF met = {} THEN {} ELSE Touches(h) \cup UNION {Touches(provs[d]) : d \in met}

Starts(c, h) ==
    /\ provs' = [provs EXCEPT ![c] = h]
    /\ marred' = marred \cup Meeting(c, h)

-----------------------------------------------------------------------------
(* The handlers up to their first statement.                               *)

\* createProject takes a free variant of the name (uniqueSlug), cloneProject
\* a free name.
CreateProject(c, s, mode) ==
    /\ ProvAt(c, "idle") /\ ~Exists(s) /\ births < MaxBirths /\ mode \in Modes
    /\ births' = births + 1
    /\ Starts(c, [AtRest EXCEPT !.pc = IF mode = "instance" THEN "box" ELSE "role",
                                !.op = "create", !.s = s, !.pw = births + 1])
    /\ UNCHANGED <<things, rows, routed, torn>>

\* branchCreate: no branch of a branch, no branch that exists.  A dedicated
\* parent is snapshot; a shared one is copied as a template, or replayed from
\* the archive into a database made as for a project.
BranchCreate(c, s, timed) ==
    LET p == ParentOf[s] IN
    /\ ProvAt(c, "idle") /\ p # NoSlug /\ births < MaxBirths
    /\ Exists(p) /\ rows[p].parent = NoSlug /\ ~Exists(s)
    /\ timed => rows[p].mode = "shared"
    /\ births' = births + 1
    /\ Starts(c, [AtRest EXCEPT
         !.pc = IF timed THEN "role" ELSE IF rows[p].mode = "instance" THEN "snapshot"
                ELSE "close",
         !.op = IF timed THEN "at-time" ELSE "branch",
         !.s = s, !.from = p, !.pw = births + 1])
    /\ UNCHANGED <<things, rows, routed, torn>>

\* deleteProject reads the branches with the project.
DeleteProject(c, s) ==
    /\ ProvAt(c, "idle") /\ Exists(s)
    /\ Starts(c, [AtRest EXCEPT !.pc = "drop", !.op = "delete", !.s = s,
                                !.left = {b \in Slugs : rows[b].parent = s}])
    /\ UNCHANGED <<things, rows, routed, births, torn>>

-----------------------------------------------------------------------------
(* provisionProject: four statements, undone together when one fails.      *)

MakeRole(c) ==
    LET h == provs[c] IN
    /\ ProvAt(c, "role")
    /\ IF roles[h.s] = 0
       THEN roles' = [roles EXCEPT ![h.s] = h.pw] /\ ProvTo(c, "base")
       ELSE ProvTo(c, "undo-base") /\ UNCHANGED roles
    /\ UNCHANGED <<databases, boxes, rows, routed, past>>

\* CREATE DATABASE can also fail for reasons of its own.
MakeBase(c) ==
    LET h == provs[c] IN
    /\ ProvAt(c, "base")
    /\ \/ /\ roles[h.s] # 0 /\ databases[h.s] = "none"
          /\ databases' = [databases EXCEPT ![h.s] = "open"] /\ ProvTo(c, "record")
       \/ ProvTo(c, "undo-base") /\ UNCHANGED databases
    /\ UNCHANGED <<roles, boxes, rows, routed, past>>

UndoBase(c) ==
    /\ ProvAt(c, "undo-base")
    /\ databases' = [databases EXCEPT ![provs[c].s] = "none"]
    /\ ProvTo(c, "undo-role")
    /\ UNCHANGED <<roles, boxes, rows, routed, past>>

\* The failing statement leaves its role behind.
UndoBaseOnly(c) ==
    /\ ProvAt(c, "undo-role")
    /\ IF provs[c].op = "branch" THEN ProvTo(c, "reopen") ELSE ProvEnds(c)
    /\ UNCHANGED <<things, rows, routed, past>>

\* A role that owns a database is not dropped.
UndoRole(c) ==
    LET s == provs[c].s IN
    /\ ProvAt(c, "undo-role")
    /\ roles' = IF databases[s] = "none" THEN [roles EXCEPT ![s] = 0] ELSE roles
    /\ IF provs[c].op = "branch" THEN ProvTo(c, "reopen") ELSE ProvEnds(c)
    /\ UNCHANGED <<databases, boxes, rows, routed, past>>

\* INSERT INTO projects.  The parent of a time-travel branch is set by an
\* UPDATE after the userlist.
RowOf(h, mode) ==
    [pw |-> h.pw, mode |-> mode,
     parent |-> IF h.op = "branch" THEN h.from ELSE NoSlug]

Record1(c) ==
    LET h == provs[c] IN
    /\ ProvAt(c, "record")
    /\ \/ /\ ~Exists(h.s)
          /\ rows' = [rows EXCEPT ![h.s] = RowOf(h, "shared")]
          /\ ProvTo(c, "list") /\ UNCHANGED marred
       \* role and database stay; branchCreate does not look at the error
       \/ /\ marred' = marred \cup {h.s}
          /\ IF h.op = "branch" THEN ProvTo(c, "list") ELSE ProvEnds(c)
          /\ UNCHANGED rows
    /\ UNCHANGED <<things, routed, births, torn>>

-----------------------------------------------------------------------------
(* branchCreate on a shared parent: the template must have no sessions.    *)

CloseSource(c) ==
    LET p == provs[c].from IN
    /\ ProvAt(c, "close")
    /\ databases' = IF databases[p] = "none" THEN databases ELSE [databases EXCEPT ![p] = "closed"]
    /\ ProvTo(c, "branch-role")
    /\ UNCHANGED <<roles, boxes, rows, routed, past>>

\* A role that cannot be made ends the handler, which undoes nothing.
BranchRole(c) ==
    LET h == provs[c] IN
    /\ ProvAt(c, "branch-role")
    /\ IF roles[h.s] = 0
       THEN roles' = [roles EXCEPT ![h.s] = h.pw] /\ ProvTo(c, "copy")
       ELSE ProvTo(c, "reopen") /\ UNCHANGED roles
    /\ UNCHANGED <<databases, boxes, rows, routed, past>>

\* Another branching may have opened the source again, and a session come in.
CopyBase(c) ==
    LET h == provs[c] IN
    /\ ProvAt(c, "copy")
    /\ \/ /\ databases[h.from] # "none" /\ databases[h.s] = "none" /\ roles[h.s] # 0
          /\ databases' = [databases EXCEPT ![h.s] = "open"] /\ ProvTo(c, "record")
       \/ ProvTo(c, "undo-base") /\ UNCHANGED databases
    /\ UNCHANGED <<roles, boxes, rows, routed, past>>

\* The deferred statement, after everything else.
Reopen(c) ==
    LET p == provs[c].from IN
    /\ ProvAt(c, "reopen")
    /\ databases' = IF databases[p] = "none" THEN databases ELSE [databases EXCEPT ![p] = "open"]
    /\ ProvEnds(c)
    /\ UNCHANGED <<roles, boxes, rows, routed, past>>

-----------------------------------------------------------------------------
(* Dedicated instances: pg-instance.sh create, branch and delete.          *)

\* provisionInstanceProject deletes what it could not create.
MakeBox(c) ==
    LET h == provs[c] IN
    /\ ProvAt(c, "box")
    /\ \/ /\ boxes[h.s] = 0
          /\ boxes' = [boxes EXCEPT ![h.s] = h.pw] /\ ProvTo(c, "box-record")
       \/ ProvTo(c, "undo-box") /\ UNCHANGED boxes
    /\ UNCHANGED <<roles, databases, rows, routed, past>>

\* A branch that fails after its snapshot leaves the snapshot.
Snapshot(c) ==
    LET h == provs[c] IN
    /\ ProvAt(c, "snapshot")
    /\ \/ /\ boxes[h.from] # 0 /\ boxes[h.s] = 0
          /\ boxes' = [boxes EXCEPT ![h.s] = h.pw]
          /\ \/ ProvTo(c, "box-record") /\ UNCHANGED marred
             \/ ProvEnds(c) /\ marred' = marred \cup {h.s}
       \/ ProvEnds(c) /\ UNCHANGED <<boxes, marred>>
    /\ UNCHANGED <<roles, databases, rows, routed, births, torn>>

RecordBox(c) ==
    LET h == provs[c] IN
    /\ ProvAt(c, "box-record")
    /\ \/ /\ ~Exists(h.s)
          /\ rows' = [rows EXCEPT ![h.s] = RowOf(h, "instance")] /\ ProvEnds(c)
       \/ ProvTo(c, "undo-box") /\ UNCHANGED rows
    /\ UNCHANGED <<things, routed, past>>

UndoBox(c) ==
    /\ ProvAt(c, "undo-box")
    /\ boxes' = [boxes EXCEPT ![provs[c].s] = 0]
    /\ ProvEnds(c)
    /\ UNCHANGED <<roles, databases, rows, routed, past>>

-----------------------------------------------------------------------------
(* dropProjectFully, for the branches first and then for the project.      *)

NextToDrop(h) == IF h.left = {} THEN {h.s} ELSE h.left

\* The mode is the row's, "shared" without one.  A branch that cannot be
\* dropped is logged and left, the project then still goes; a project that
\* cannot be dropped ends the handler before the userlist.
DropData(c, s) ==
    LET h == provs[c] IN
    /\ ProvAt(c, "drop") /\ s \in NextToDrop(h)
    /\ \/ /\ IF rows[s].mode = "instance"
             THEN boxes' = [boxes EXCEPT ![s] = 0] /\ UNCHANGED <<roles, databases>>
             ELSE /\ databases' = [databases EXCEPT ![s] = "none"]
                  /\ roles' = [roles EXCEPT ![s] = 0]
                  /\ UNCHANGED boxes
          /\ provs' = [provs EXCEPT ![c].pc = "forget", ![c].from = s]
          /\ UNCHANGED <<marred, torn>>
       \/ /\ marred' = marred \cup (IF s = h.s THEN {} ELSE {s})
          /\ torn' = TRUE
          /\ IF s = h.s THEN ProvEnds(c)
             ELSE provs' = [provs EXCEPT ![c].left = @ \ {s}]
          /\ UNCHANGED things
    /\ UNCHANGED <<rows, routed, births>>

\* The rows of the twelve tables, the projects table first.
ForgetRows(c) ==
    LET h == provs[c]
        s == h.from IN
    /\ ProvAt(c, "forget")
    /\ rows' = [rows EXCEPT ![s] = NoProject]
    /\ provs' = [provs EXCEPT ![c] =
         [h EXCEPT !.from = NoSlug, !.left = @ \ {s},
                   !.pc = IF s = h.s THEN "list" ELSE "drop"]]
    /\ UNCHANGED <<things, routed, past>>

-----------------------------------------------------------------------------
(* rewriteUserlist: read the rows, write the file.                         *)

Listable == [s \in Slugs |-> IF rows[s].mode = "shared" THEN rows[s].pw ELSE 0]

\* Somebody else is between reading and writing.
Writing(c) == \E d \in Provisioners \ {c} : ProvAt(d, "write")

ListRead(c) ==
    /\ ProvAt(c, "list")
    /\ provs' = [provs EXCEPT ![c].pc = "write", ![c].seen = Listable]
    /\ torn' = (torn \/ Writing(c))
    /\ UNCHANGED <<things, rows, routed, births, marred>>

ListWrite(c) ==
    LET h == provs[c] IN
    /\ ProvAt(c, "write")
    /\ routed' = h.seen
    /\ CASE h.op = "branch"  -> provs' = [provs EXCEPT ![c].pc = "reopen"]
         [] h.op = "at-time" -> provs' = [provs EXCEPT ![c].pc = "adopt"]
         [] OTHER            -> ProvEnds(c)
    /\ UNCHANGED <<things, rows, past>>

\* UPDATE projects SET parent: no row, no parent.
Adopt(c) ==
    LET h == provs[c] IN
    /\ ProvAt(c, "adopt")
    /\ rows' = IF Exists(h.s) THEN [rows EXCEPT ![h.s].parent = h.from] ELSE rows
    /\ ProvEnds(c)
    /\ UNCHANGED <<things, routed, past>>

\* A restart of the panel ends the handlers where they are, with no defer.
ProvBoot ==
    LET cut == {c \in Provisioners : ~ProvAt(c, "idle")} IN
    /\ cut # {}
    /\ provs' = [c \in Provisioners |-> AtRest]
    /\ marred' = marred \cup UNION {Touches(provs[c]) : c \in cut}
    /\ torn' = TRUE
    /\ UNCHANGED <<things, rows, routed, births>>

ProvNext ==
    \/ \E c \in Provisioners, s \in Slugs :
         \/ \E mode \in Modes : CreateProject(c, s, mode)
         \/ \E timed \in BOOLEAN : BranchCreate(c, s, timed)
         \/ DeleteProject(c, s) \/ DropData(c, s)
    \/ \E c \in Provisioners :
         \/ MakeRole(c) \/ MakeBase(c) \/ UndoBase(c) \/ UndoRole(c) \/ Record1(c)
         \/ CloseSource(c) \/ BranchRole(c) \/ CopyBase(c) \/ Reopen(c)
         \/ MakeBox(c) \/ Snapshot(c) \/ RecordBox(c) \/ UndoBox(c)
         \/ ForgetRows(c) \/ ListRead(c) \/ ListWrite(c) \/ Adopt(c)
    \/ ProvBoot

ProvSpec == ProvInit /\ [][ProvNext]_provVars

-----------------------------------------------------------------------------
Whole(s) ==
    IF ~Exists(s) THEN roles[s] = 0 /\ databases[s] = "none" /\ boxes[s] = 0
    ELSE IF rows[s].mode = "shared"
    THEN roles[s] = rows[s].pw /\ databases[s] = "open" /\ boxes[s] = 0
    ELSE boxes[s] = rows[s].pw /\ roles[s] = 0 /\ databases[s] = "none"

\* A name no handler is working on is a whole project or nothing at all: its
\* row, its role and its database, open for connections, or its container,
\* with one password; its parent exists; and the pooler's list is the shared
\* rows.  This holds with requests for other names, with two branchings of one
\* project, with deletions that overlap and with failing statements; it is
\* not claimed for a name once two requests made and touched it at once, a
\* restart cut a request on it, its record or its drop failed, nor for the
\* list once two rewrites overlapped or one was skipped (marred, torn).
ProjectsWhole ==
    LET worked == UNION {Touches(provs[c]) : c \in Provisioners} IN
    /\ \A s \in Slugs \ (marred \cup worked) :
         /\ Whole(s)
         /\ rows[s].parent # NoSlug =>
              Exists(rows[s].parent) \/ rows[s].parent \in marred \cup worked
    /\ (~torn /\ worked = {}) => routed = Listable
=============================================================================
