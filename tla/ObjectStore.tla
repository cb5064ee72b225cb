------------------------------ MODULE ObjectStore ------------------------------
(***************************************************************************)
(* The objects of one bucket: src/pgforge/storage.go over s3storage.go.    *)
(* An object is in three places that no transaction joins: a file below    *)
(* storageRoot, a row of storage_objects, and, when a storage remote is    *)
(* set, an object at the remote, of which the file is then only a cache.   *)
(* Contents are version numbers.  A refused request changes nothing and is *)
(* left out (limits, types, quota, path rules).                            *)
(***************************************************************************)
EXTENDS Naturals, FiniteSets

CONSTANTS
    Paths,          \* object paths of the bucket
    Remotes,        \* storage remotes an administrator may set
    NoRemote,       \* the setting when files stay on local disk only
    MaxVersions,    \* bound: bodies ever uploaded
    StoreClients    \* requests being served at once

ASSUME StoreAssumption ==
    /\ NoRemote \notin Remotes /\ MaxVersions \in Nat
    /\ IsFiniteSet(Paths) /\ IsFiniteSet(StoreClients)

Absent == 0
Partial == MaxVersions + 1      \* a file that os.Create truncated
Contents == 0..MaxVersions
Files == 0..(MaxVersions + 1)

VARIABLES
    objects,    \* storage_objects: the version each row describes
    local,      \* the file of each path
    remote,     \* what each remote holds
    setting,    \* storage_remote
    migrated,   \* storage_migrated
    copying,    \* migrations under way: the paths each has left
    serving,    \* the request each client is served
    uploads,    \* versions used so far
    disturbed,  \* paths two requests, a failure or a restart got in the way of
    lost        \* paths whose only copy the pruner removed

storeVars == <<objects, local, remote, setting, migrated, copying, serving,
               uploads, disturbed, lost>>

NoRequest == [pc |-> "idle"]
Steps == {"write", "push", "row", "fetch", "fetchThenCopy", "copy", "s3delete",
          "deleteRow"}

\* path is written to; from is read, and deleted by a delete and a move
Requests == {NoRequest} \cup
    [pc : Steps, path : Paths, from : Paths, ver : Contents,
     kind : {"upload", "copy", "move", "delete", "read"}]

StoreTypeOK ==
    /\ objects \in [Paths -> Contents]
    /\ local \in [Paths -> Files]
    /\ remote \in [Remotes -> [Paths -> Files]]
    /\ setting \in Remotes \cup {NoRemote}
    /\ migrated \in BOOLEAN
    /\ copying \in [Remotes -> SUBSET Paths]
    /\ serving \in [StoreClients -> Requests]
    /\ uploads \in Contents
    /\ disturbed \subseteq Paths /\ lost \subseteq Paths

StoreInit ==
    /\ objects = [p \in Paths |-> Absent]
    /\ local = [p \in Paths |-> Absent]
    /\ remote = [r \in Remotes |-> [p \in Paths |-> Absent]]
    /\ setting = NoRemote /\ migrated = FALSE
    /\ copying = [r \in Remotes |-> {}]
    /\ serving = [c \in StoreClients |-> NoRequest]
    /\ uploads = 0
    /\ disturbed = {} /\ lost = {}

s3Enabled == setting # NoRemote
AtRemote(p) == IF s3Enabled THEN remote[setting][p] ELSE Absent

\* Requests under way at a path, and those of them that change it.
Touching(p) ==
    {c \in StoreClients : serving[c] # NoRequest
                          /\ p \in {serving[c].path, serving[c].from}}
Busy(p) == Touching(p) # {}
Changed(p) == \E c \in Touching(p) : serving[c].kind # "read"

\* The other paths of the requests at a path.
Meets(p) == {p} \cup UNION {{serving[c].path, serving[c].from} : c \in Touching(p)}

\* A request begins; a change that meets another request disturbs the paths of
\* both, and what comes from a disturbed path is disturbed.
Begin(c, pc, kind, path, from, ver) ==
    /\ serving' = [serving EXCEPT ![c] =
         [pc |-> pc, kind |-> kind, path |-> path, from |-> from, ver |-> ver]]
    /\ LET met == {p \in {path, from} : IF kind = "read" THEN Changed(p) ELSE Busy(p)}
       IN disturbed' = disturbed \cup (UNION {Meets(p) : p \in met})
            \cup IF met # {} \/ from \in disturbed THEN {path, from} ELSE {}

StoreGoesOn(c, pc) == serving' = [serving EXCEPT ![c].pc = pc]
StoreEnds(c) == serving' = [serving EXCEPT ![c] = NoRequest]
StoreAt(c, pc) == serving[c] # NoRequest /\ serving[c].pc = pc
Disturb(paths) == disturbed' = disturbed \cup paths
Remains(vars) == UNCHANGED <<setting, migrated, copying, lost, vars>>

-----------------------------------------------------------------------------
(* uploadObject, storageUploadAPI, storageSignedUploadPut.                 *)

\* os.Create truncates what a replaced object had on disk.
UploadCreate(c, p) ==
    /\ serving[c] = NoRequest /\ uploads < MaxVersions
    /\ uploads' = uploads + 1
    /\ local' = [local EXCEPT ![p] = Partial]
    /\ Begin(c, "write", "upload", p, p, uploads + 1)
    /\ Remains(<<objects, remote>>)

\* An upload that fails removes the file, which may have held the only copy of
\* the object it was to replace.
GivesUp(c) ==
    LET p == serving[c].path IN
    /\ local' = [local EXCEPT ![p] = Absent]
    /\ Disturb({q \in {p} : AtRemote(q) # objects[q]})
    /\ StoreEnds(c)

\* The body arrives, in a file that may have been unlinked meanwhile.
UploadWrite(c) ==
    /\ StoreAt(c, "write")
    /\ \/ /\ local' = [local EXCEPT ![serving[c].path] =
                         IF @ = Absent THEN Absent ELSE serving[c].ver]
          /\ StoreGoesOn(c, "push") /\ UNCHANGED disturbed
       \/ GivesUp(c)
    /\ Remains(<<objects, remote, uploads>>)

\* Pushing without looking at the outcome.
PushUnchecked(c) ==
    LET p == serving[c].path IN
    /\ StoreAt(c, "push")
    /\ StoreGoesOn(c, "row")
    /\ \/ s3Enabled /\ local[p] # Absent
          /\ remote' = [remote EXCEPT ![setting][p] = local[p]]
       \/ UNCHANGED remote
    /\ UNCHANGED disturbed
    /\ Remains(<<objects, local, uploads>>)

\* s3Push: the upload fails when the push fails.
Push(c) ==
    LET p == serving[c].path IN
    /\ StoreAt(c, "push")
    /\ \/ /\ ~s3Enabled
          /\ StoreGoesOn(c, "row") /\ UNCHANGED <<local, remote, disturbed>>
       \/ /\ s3Enabled /\ local[p] # Absent
          /\ remote' = [remote EXCEPT ![setting][p] = local[p]]
          /\ StoreGoesOn(c, "row") /\ UNCHANGED <<local, disturbed>>
       \/ s3Enabled /\ GivesUp(c) /\ UNCHANGED remote
    /\ Remains(<<objects, uploads>>)

\* An upload upserts the row; a transfer inserts it, and a move goes on.
Record(c) ==
    LET s == serving[c] IN
    /\ StoreAt(c, "row")
    /\ objects' = [objects EXCEPT ![s.path] =
         IF s.kind = "upload" \/ @ = Absent THEN s.ver ELSE @]
    /\ IF s.kind = "move"
       THEN /\ local' = [local EXCEPT ![s.from] = Absent]
            /\ StoreGoesOn(c, "s3delete")
       ELSE StoreEnds(c) /\ UNCHANGED local
    /\ UNCHANGED disturbed
    /\ Remains(<<remote, uploads>>)

-----------------------------------------------------------------------------
(* deleteObject, bulkDeleteObjects, storageDeleteAPI, the end of a move.   *)

DeleteFile(c, p) ==
    /\ serving[c] = NoRequest
    /\ local' = [local EXCEPT ![p] = Absent]
    /\ Begin(c, "s3delete", "delete", p, p, Absent)
    /\ Remains(<<objects, remote, uploads>>)

\* Nobody looks at the outcome of s3Delete.
S3Delete(c) ==
    LET p == serving[c].from IN
    /\ StoreAt(c, "s3delete")
    /\ StoreGoesOn(c, "deleteRow")
    /\ \/ /\ s3Enabled
          /\ remote' = [remote EXCEPT ![setting][p] = Absent]
          /\ UNCHANGED disturbed
       \/ /\ UNCHANGED remote
          /\ Disturb({q \in {p} : AtRemote(q) # Absent})
    /\ Remains(<<objects, local, uploads>>)

DeleteRow(c) ==
    /\ StoreAt(c, "deleteRow")
    /\ objects' = [objects EXCEPT ![serving[c].from] = Absent]
    /\ StoreEnds(c) /\ UNCHANGED disturbed
    /\ Remains(<<local, remote, uploads>>)

-----------------------------------------------------------------------------
(* ensureLocal, for a read (serveStorageFile) or a transfer.               *)

\* A read asks for no row.
Read(c, p) ==
    /\ serving[c] = NoRequest
    /\ local[p] = Absent /\ AtRemote(p) # Absent
    /\ Begin(c, "fetch", "read", p, p, AtRemote(p) % Partial)
    /\ Remains(<<objects, local, remote, uploads>>)

Fetched(c) ==
    LET s == serving[c] IN
    /\ StoreAt(c, "fetch") \/ StoreAt(c, "fetchThenCopy")
    /\ \/ /\ local' = [local EXCEPT ![s.from] = s.ver]
          /\ IF s.pc = "fetch" THEN StoreEnds(c) ELSE StoreGoesOn(c, "copy")
       \/ StoreEnds(c) /\ UNCHANGED local
    /\ UNCHANGED disturbed
    /\ Remains(<<objects, remote, uploads>>)

\* transferObject: the row of the source, none of the destination, the file.
Transfer(c, from, to, kind) ==
    /\ serving[c] = NoRequest
    /\ objects[from] # Absent /\ objects[to] = Absent
    /\ \/ /\ local[from] # Absent
          /\ Begin(c, "copy", kind, to, from, objects[from])
       \/ /\ local[from] = Absent /\ AtRemote(from) # Absent
          /\ Begin(c, "fetchThenCopy", kind, to, from, objects[from])
    /\ Remains(<<objects, local, remote, uploads>>)

CopyFile(c) ==
    LET s == serving[c] IN
    /\ StoreAt(c, "copy")
    /\ \/ /\ local[s.from] # Absent
          /\ local' = [local EXCEPT ![s.path] = local[s.from]]
          /\ StoreGoesOn(c, "push")
       \/ StoreEnds(c) /\ UNCHANGED local
    /\ UNCHANGED disturbed
    /\ Remains(<<objects, remote, uploads>>)

-----------------------------------------------------------------------------
(* The remote.                                                             *)

\* setStorageRemote; migrateStorageToS3 copies only once.
SetRemote(r) ==
    /\ setting' = r
    /\ copying' = [copying EXCEPT ![r] = IF migrated THEN @ ELSE Paths]
    \* what only the former remote has is out of reach, and what another time
    \* left at the new one comes back
    /\ Disturb({p \in Paths : \/ Busy(p)
                             \/ (r # setting /\ local[p] # objects[p])
                             \/ remote[r][p] \notin {Absent, objects[p]}})
    /\ UNCHANGED <<objects, local, remote, migrated, serving, uploads, lost>>

\* What is not on disk is out of reach from here on.
ClearRemote ==
    /\ s3Enabled
    /\ setting' = NoRemote /\ migrated' = FALSE
    /\ Disturb({p \in Paths : Busy(p) \/ local[p] # objects[p]})
    /\ UNCHANGED <<objects, local, remote, copying, serving, uploads, lost>>

\* rclone copy, file by file, then the flag; or it fails.
CopyOver(r, p) ==
    /\ p \in copying[r]
    /\ remote' = [remote EXCEPT ![r][p] = IF local[p] = Absent THEN @ ELSE local[p]]
    /\ copying' = [copying EXCEPT ![r] = @ \ {p}]
    /\ migrated' = (migrated \/ copying[r] = {p})
    /\ Disturb({q \in {p} : Changed(q) \/ r # setting})
    /\ UNCHANGED <<objects, local, setting, serving, uploads, lost>>

CopyFails(r) ==
    /\ copying[r] # {}
    /\ copying' = [copying EXCEPT ![r] = {}]
    /\ UNCHANGED <<objects, local, remote, setting, migrated, serving, uploads,
                   disturbed, lost>>

\* pruneStorageCache takes any file, the oldest first, when there are too many.
PruneCache(p) ==
    /\ s3Enabled /\ local[p] # Absent
    /\ local' = [local EXCEPT ![p] = Absent]
    /\ lost' = lost \cup
         {q \in {p} : objects[q] # Absent /\ AtRemote(q) # objects[q]}
    /\ UNCHANGED <<objects, remote, setting, migrated, copying, serving, uploads,
                   disturbed>>

\* A restart ends requests and migrations; nothing takes them up again.
StoreBoot ==
    /\ serving' = [c \in StoreClients |-> NoRequest]
    /\ copying' = [r \in Remotes |-> {}]
    /\ Disturb({p \in Paths : Busy(p)})
    /\ UNCHANGED <<objects, local, remote, setting, migrated, uploads, lost>>

StoreNext ==
    \/ \E c \in StoreClients, p \in Paths :
         \/ UploadCreate(c, p) \/ DeleteFile(c, p) \/ Read(c, p)
         \/ \E to \in Paths \ {p}, kind \in {"copy", "move"} : Transfer(c, p, to, kind)
    \/ \E c \in StoreClients :
         \/ UploadWrite(c) \/ Push(c) \/ Record(c)
         \/ S3Delete(c) \/ DeleteRow(c) \/ Fetched(c) \/ CopyFile(c)
    \/ \E r \in Remotes : SetRemote(r) \/ CopyFails(r)
    \/ \E r \in Remotes, p \in Paths : CopyOver(r, p)
    \/ \E p \in Paths : PruneCache(p)
    \/ ClearRemote
    \/ StoreBoot

StoreSpec == StoreInit /\ [][StoreNext]_storeVars

-----------------------------------------------------------------------------
\* A recorded object can be served as recorded, from disk or from the remote.
Served(p) == objects[p] \in {local[p]} \cup
                            {v \in {AtRemote(p)} : local[p] = Absent}

\* File, row and remote agree on every path that is at rest, whatever the
\* cache pruner, the migration and changes of the setting did between the
\* requests: an object with a row can be served with the recorded body, and a
\* deleted one is gone from both places.  Not claimed for a path where a change
\* met another request, s3Delete failed unnoticed, a failed replacement had
\* truncated the only copy, a restart cut a request off, or the pruner removed
\* a file that was not at the remote (run storage_prune).
StoredAsRecorded ==
    \A p \in Paths \ (disturbed \cup lost) :
        ~Busy(p) =>
          /\ objects[p] # Absent => Served(p)
          /\ objects[p] = Absent => local[p] = Absent /\ AtRemote(p) = Absent

\* The header of s3storage.go: "anything pruned is re-fetched on demand".  Of a
\* path no request disturbed the pruner leaves a copy at the remote.
PrunedIsRefetched ==
    \A p \in Paths \ disturbed :
        objects[p] # Absent /\ ~Busy(p) => Served(p)
=============================================================================
