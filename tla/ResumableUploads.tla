---------------------------- MODULE ResumableUploads ----------------------------
(***************************************************************************)
(* Resumable uploads (src/pgforge/tus.go): a staged file that PATCH        *)
(* requests append to, beside a .meta file, until it is as long as was     *)
(* announced and becomes an object.  A client whose connection breaks asks *)
(* for the offset and sends the rest, perhaps while the panel still reads  *)
(* what was under way.                                                     *)
(***************************************************************************)
EXTENDS Naturals, Sequences, FiniteSets

CONSTANTS
    UploadIds,      \* uploads created, each under an id of its own
    Length,         \* Upload-Length, in chunks
    TusClients      \* requests being served at once

ASSUME TusAssumption ==
    Length \in Nat \ {0} /\ IsFiniteSet(UploadIds) /\ IsFiniteSet(TusClients)

VARIABLES
    staged,     \* each upload: what its file is called, what it holds, .meta
    recorded,   \* uploads with a row of storage_objects
    patch,      \* the request each client is served
    raced       \* uploads two PATCH requests appended to at once

tusVars == <<staged, recorded, patch, raced>>

NoPatch == [pc |-> "idle"]
Source == [i \in 1..Length |-> i]
Unborn == [name |-> "none", bytes |-> <<>>, meta |-> FALSE,
           stageOld |-> FALSE, metaOld |-> FALSE]

TusTypeOK ==
    /\ staged \in [UploadIds ->
         [name : {"none", "stage", "object", "gone"}, bytes : Seq(1..Length),
          meta : BOOLEAN, stageOld : BOOLEAN, metaOld : BOOLEAN]]
    /\ recorded \subseteq UploadIds /\ raced \subseteq UploadIds
    /\ patch \in [TusClients -> {NoPatch} \cup
         [pc : {"writeMeta", "body", "removeMeta", "push", "row", "endMeta"},
          id : UploadIds, off : 0..Length]]

TusInit ==
    /\ staged = [u \in UploadIds |-> Unborn]
    /\ recorded = {} /\ raced = {}
    /\ patch = [c \in TusClients |-> NoPatch]

Serve(c, pc, u, off) ==
    patch' = [patch EXCEPT ![c] = [pc |-> pc, id |-> u, off |-> off]]
Reply(c) == patch' = [patch EXCEPT ![c] = NoPatch]
InBody(u) == {c \in TusClients : patch[c] # NoPatch /\ patch[c].pc = "body" /\ patch[c].id = u}
Known(u) == staged[u].meta /\ staged[u].name = "stage"     \* tusLoad and Stat
TusAt(c, pc) == patch[c] # NoPatch /\ patch[c].pc = pc

-----------------------------------------------------------------------------
(* creation                                                                *)

Create(c, u) ==
    /\ patch[c] = NoPatch /\ staged[u] = Unborn
    /\ staged' = [staged EXCEPT ![u].name = "stage"]
    /\ Serve(c, "writeMeta", u, 0)
    /\ UNCHANGED <<recorded, raced>>

WriteMeta(c) ==
    /\ TusAt(c, "writeMeta")
    /\ staged' = [staged EXCEPT ![patch[c].id].meta = TRUE]
    /\ Reply(c)
    /\ UNCHANGED <<recorded, raced>>

-----------------------------------------------------------------------------
(* PATCH                                                                   *)

\* The offset is compared with the size once, before the body.
PatchOpen(c, u) ==
    /\ patch[c] = NoPatch /\ Known(u)
    /\ \E off \in 0..Length :
         off = Len(staged[u].bytes) /\ Serve(c, "body", u, off)
    /\ raced' = raced \cup {v \in {u} : InBody(v) # {}}
    /\ UNCHANGED <<staged, recorded>>

\* The file is open for appending: a chunk goes to its end, whatever its name
\* has become.  The client sends its file from the offset, LimitReader lets
\* through what the announced length leaves.
Append1(c) ==
    LET u == patch[c].id IN
    /\ TusAt(c, "body") /\ patch[c].off < Length
    /\ staged' = [staged EXCEPT
         ![u].bytes = Append(@, patch[c].off + 1), ![u].stageOld = FALSE]
    /\ Serve(c, "body", u, patch[c].off + 1)
    /\ UNCHANGED <<recorded, raced>>

\* The connection breaks, or the body is short: the file keeps what came.
Cut(c) ==
    /\ TusAt(c, "body")
    /\ Reply(c)
    /\ UNCHANGED <<staged, recorded, raced>>

\* Complete: the file is renamed to the object's path, if it is still there.
Finish(c) ==
    LET u == patch[c].id IN
    /\ TusAt(c, "body") /\ patch[c].off = Length
    /\ IF staged[u].name = "stage"
       THEN /\ staged' = [staged EXCEPT ![u].name = "object"]
            /\ Serve(c, "removeMeta", u, Length)
       ELSE Reply(c) /\ UNCHANGED staged
    /\ UNCHANGED <<recorded, raced>>

RemoveMeta(c) ==
    /\ TusAt(c, "removeMeta") \/ TusAt(c, "endMeta")
    /\ staged' = [staged EXCEPT ![patch[c].id].meta = FALSE]
    /\ IF patch[c].pc = "endMeta" THEN Reply(c) ELSE Serve(c, "push", patch[c].id, Length)
    /\ UNCHANGED <<recorded, raced>>

\* s3Push, which may fail; then the object goes.
TusPush(c) ==
    LET u == patch[c].id IN
    /\ TusAt(c, "push")
    /\ \/ Serve(c, "row", u, Length) /\ UNCHANGED staged
       \/ Reply(c) /\ staged' = [staged EXCEPT ![u].name = "gone"]
    /\ UNCHANGED <<recorded, raced>>

\* The row says the announced length.
TusRow(c) ==
    /\ TusAt(c, "row")
    /\ recorded' = recorded \cup {patch[c].id}
    /\ Reply(c)
    /\ UNCHANGED <<staged, raced>>

-----------------------------------------------------------------------------
(* DELETE, the pruner, restarts                                            *)

Terminate(c, u) ==
    /\ patch[c] = NoPatch /\ Known(u)
    /\ staged' = [staged EXCEPT ![u].name = "gone"]
    /\ Serve(c, "endMeta", u, 0)
    /\ UNCHANGED <<recorded, raced>>

\* pruneStaleTUS judges each of the two files by its own time, and .meta is
\* written only once.
DayPasses ==
    /\ staged' = [u \in UploadIds |->
         [staged[u] EXCEPT !.stageOld = staged[u].name = "stage",
                           !.metaOld = staged[u].meta]]
    /\ UNCHANGED <<recorded, patch, raced>>

PruneStage(u) ==
    /\ staged[u].name = "stage" /\ staged[u].stageOld
    /\ staged' = [staged EXCEPT ![u].name = "gone"]
    /\ UNCHANGED <<recorded, patch, raced>>

PruneMeta(u) ==
    /\ staged[u].meta /\ staged[u].metaOld
    /\ staged' = [staged EXCEPT ![u].meta = FALSE]
    /\ UNCHANGED <<recorded, patch, raced>>

TusBoot ==
    /\ patch' = [c \in TusClients |-> NoPatch]
    /\ UNCHANGED <<staged, recorded, raced>>

TusNext ==
    \/ \E c \in TusClients, u \in UploadIds :
         Create(c, u) \/ PatchOpen(c, u) \/ Terminate(c, u)
    \/ \E c \in TusClients :
         \/ WriteMeta(c) \/ Append1(c) \/ Cut(c) \/ Finish(c)
         \/ RemoveMeta(c) \/ TusPush(c) \/ TusRow(c)
    \/ \E u \in UploadIds : PruneStage(u) \/ PruneMeta(u)
    \/ DayPasses
    \/ TusBoot

TusSpec == TusInit /\ [][TusNext]_tusVars

-----------------------------------------------------------------------------
\* What lands and is recorded is the client's file, every chunk once and in
\* order, however often the upload was cut off and resumed, pruned, deleted or
\* met a restart.  Two PATCH requests that append at once are excluded: both
\* pass the comparison of offsets, and the file comes out longer than its row.
LandsWhole ==
    \A u \in recorded \ raced :
        staged[u].bytes = Source /\ staged[u].name = "object"
=============================================================================
