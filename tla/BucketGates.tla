------------------------------- MODULE BucketGates -------------------------------
(***************************************************************************)
(* What stands before an upload: the bucket, its size limit, the project's *)
(* quota and the rules of the path (src/pgforge/storage.go,                *)
(* storagerules.go, s3proto.go).  All of it is looked at when the request  *)
(* comes; the row is written when the body has arrived, and the bucket may *)
(* have been deleted meanwhile, or made again with another limit.          *)
(***************************************************************************)
EXTENDS Naturals, FiniteSetsExt

CONSTANTS
    ObjectPaths,
    OwnerOf,        \* the first segment of a path, which owner rules compare
    Bodies,         \* sizes of bodies
    MaxSizes,       \* size limits of buckets, 0: none
    Quota,          \* the project's quota, if it has one
    S3Cap,          \* what serveS3 reads of a body (512 MB)
    Writers,        \* requests at once
    MaxRules        \* bound: rules ever added

ASSUME GateAssumption ==
    /\ IsFiniteSet(ObjectPaths) /\ DOMAIN OwnerOf = ObjectPaths /\ IsFiniteSet(Writers)
    /\ Bodies \subseteq Nat \ {0} /\ Bodies # {} /\ IsFiniteSet(Bodies) /\ MaxSizes \subseteq Nat
    /\ Quota \in Nat \ {0} /\ S3Cap \in Nat \ {0} /\ MaxRules \in Nat

VARIABLES
    bucket,     \* storage_buckets: its limit, or that it is not there
    quota,      \* storage_quota_mb, 0: unlimited
    sizes,      \* storage_objects: the size of each object, 0: no row
    rules,      \* storage_rules
    writers,    \* uploads that were let in
    remover,    \* deleteBucket: what it does next
    slipped     \* history: uploads ran together, one crossed a deletion, the
                \* quota was lifted

gateVars == <<bucket, quota, sizes, rules, writers, remover, slipped>>

NoBucket == [there |-> FALSE, max |-> 0]
NotWriting == [size |-> 0, path |-> {}]
AnyPath == {}                                   \* the empty prefix
Accesses == {"public", "authenticated", "owner", "private"}
Biggest == Max(Bodies)

GateTypeOK ==
    /\ bucket.there \in BOOLEAN /\ bucket.max \in MaxSizes \cup {0}
    /\ quota \in {0, Quota} /\ sizes \in [ObjectPaths -> {0} \cup 1..Biggest]
    /\ \A r \in rules : /\ r.id \in 1..MaxRules /\ r.access \in Accesses
                        /\ r.prefix \in {{p} : p \in ObjectPaths} \cup {AnyPath}
    /\ \A c \in Writers : writers[c].size \in 0..Biggest
    /\ remover \in {"none", "rows", "bucket"}
    /\ slipped \subseteq {"together", "crossed", "lifted"}

GateInit ==
    /\ bucket = NoBucket /\ quota = Quota
    /\ sizes = [p \in ObjectPaths |-> 0] /\ rules = {}
    /\ writers = [c \in Writers |-> NotWriting] /\ remover = "none" /\ slipped = {}

Underway == {c \in Writers : writers[c] # NotWriting}

-----------------------------------------------------------------------------
(* Buckets, quota, rules                                                   *)

\* ON CONFLICT DO NOTHING.
createBucket(max) ==
    /\ bucket' = IF bucket.there THEN bucket ELSE [there |-> TRUE, max |-> max]
    /\ UNCHANGED <<quota, sizes, rules, writers, remover, slipped>>

\* deleteBucket: the files here and remote, the rows, the bucket.
RemoveFiles ==
    /\ remover = "none" /\ bucket.there /\ remover' = "rows"
    /\ slipped' = slipped \cup (IF Underway # {} THEN {"crossed"} ELSE {})
    /\ UNCHANGED <<bucket, quota, sizes, rules, writers>>

\* The bucket alone.
RemoveRowsNot ==
    /\ remover = "rows" /\ remover' = "bucket"
    /\ UNCHANGED <<bucket, quota, sizes, rules, writers, slipped>>

RemoveRows ==
    /\ remover = "rows" /\ remover' = "bucket"
    /\ sizes' = [p \in ObjectPaths |-> 0]
    /\ UNCHANGED <<bucket, quota, rules, writers, slipped>>

RemoveBucket ==
    /\ remover = "bucket" /\ remover' = "none" /\ bucket' = NoBucket
    /\ UNCHANGED <<quota, sizes, rules, writers, slipped>>

setStorageQuota ==
    /\ quota' \in {0, Quota}
    /\ slipped' = slipped \cup (IF quota' = 0 THEN {"lifted"} ELSE {})
    /\ UNCHANGED <<bucket, sizes, rules, writers, remover>>

storageRuleAdd(prefix, access) ==
    /\ bucket.there
    /\ \E id \in 1..MaxRules :
         /\ \A r \in rules : r.id < id
         /\ rules' = rules \cup {[id |-> id, prefix |-> prefix, access |-> access]}
    /\ UNCHANGED <<bucket, quota, sizes, writers, remover, slipped>>

storageRuleDelete ==
    /\ \E r \in rules : rules' = rules \ {r}
    /\ UNCHANGED <<bucket, quota, sizes, writers, remover, slipped>>

-----------------------------------------------------------------------------
(* Admission                                                               *)

\* storageRuleFor: the longest prefix, of equal ones the first rule.
RulesOn(p) == {r \in rules : r.prefix = AnyPath \/ r.prefix = {p}}
storageRuleFor(p) ==
    {r \in RulesOn(p) : \A s \in RulesOn(p) \ {r} :
        IF r.prefix = s.prefix THEN r.id < s.id ELSE r.prefix = {p}}

\* Past a rule of the whole path no segment is left to compare.
ownerSegment(p, r) == IF r.prefix = AnyPath THEN {OwnerOf[p]} ELSE {}

\* storageUploadAPI: the service role passes, a user by the rule of the path.
RuleAllows(role, user, p) ==
    role = "service_role" \/ \A r \in storageRuleFor(p) :
        /\ r.access # "private"
        /\ r.access = "owner" => user \in ownerSegment(p, r)

Usage == MapThenSumSet(LAMBDA p : sizes[p], ObjectPaths)
quotaExceeded == quota > 0 /\ Usage >= quota

LetIn(c, p, size) ==
    /\ c \notin Underway /\ bucket.there /\ ~quotaExceeded
    /\ writers' = [writers EXCEPT ![c] = [size |-> size, path |-> {p}]]
    /\ slipped' = slipped \cup (IF Underway # {} THEN {"together"} ELSE {})
                          \cup (IF remover # "none" THEN {"crossed"} ELSE {})
    /\ UNCHANGED <<bucket, quota, sizes, rules, remover>>

WithinLimit(size) == bucket.max > 0 => size <= bucket.max

\* Panel, key and signed token: a body past the limit is not kept.
UploadLetIn(c, p, size, role, user) ==
    WithinLimit(size) /\ RuleAllows(role, user, p) /\ LetIn(c, p, size)

\* serveS3 reads so much of the body and no more; if the payload is signed the
\* rest is missed, else what was read is the object.
S3LetIn(c, p, sent) ==
    LET read == IF sent > S3Cap THEN S3Cap ELSE sent
    IN WithinLimit(read) /\ LetIn(c, p, read)

\* The body is here, and its row.
UploadLands(c) ==
    /\ c \in Underway
    /\ \E p \in writers[c].path : sizes' = [sizes EXCEPT ![p] = writers[c].size]
    /\ writers' = [writers EXCEPT ![c] = NotWriting]
    /\ UNCHANGED <<bucket, quota, rules, remover, slipped>>

\* It breaks off, or the panel restarts.
UploadGone(c) ==
    /\ c \in Underway /\ writers' = [writers EXCEPT ![c] = NotWriting]
    /\ UNCHANGED <<bucket, quota, sizes, rules, remover, slipped>>

RemoverCut ==
    /\ remover # "none" /\ remover' = "none" /\ writers' = [c \in Writers |-> NotWriting]
    /\ UNCHANGED <<bucket, quota, sizes, rules, slipped>>

\* storageDeleteAPI, serveS3: the bucket is there, and the row goes.
ObjectDeleted(p) ==
    /\ bucket.there /\ sizes[p] # 0 /\ sizes' = [sizes EXCEPT ![p] = 0]
    /\ UNCHANGED <<bucket, quota, rules, writers, remover, slipped>>

GateNext ==
    \/ \E max \in MaxSizes : createBucket(max)
    \/ RemoveFiles \/ RemoveRows \/ RemoveBucket \/ RemoverCut \/ setStorageQuota
    \/ \E access \in Accesses : storageRuleAdd(AnyPath, access)
    \/ \E p \in ObjectPaths, access \in Accesses : storageRuleAdd({p}, access)
    \/ storageRuleDelete
    \/ \E c \in Writers, p \in ObjectPaths, size \in Bodies :
         \/ UploadLetIn(c, p, size, "service_role", p)
         \/ \E q \in ObjectPaths : UploadLetIn(c, p, size, "authenticated", OwnerOf[q])
         \/ S3LetIn(c, p, size)
    \/ \E c \in Writers : UploadLands(c) \/ UploadGone(c)
    \/ \E p \in ObjectPaths : ObjectDeleted(p)

GateSpec == GateInit /\ [][GateNext]_gateVars

-----------------------------------------------------------------------------
\* "reports whether a project is at/over its storage quota" (storage.go:234)
\* and "the bucket's size limit" (storage.go:254) hold of what is stored and not
\* only of what is asked for: what is recorded exceeds the quota by less than
\* the uploads that were let in together, no object is larger than its bucket
\* allows, and none is left without a bucket for the next one of the name to
\* show, unless an upload crossed the deletion.
GatesHold ==
    /\ "lifted" \notin slipped =>
         Usage <= Quota - 1 + Biggest * (IF "together" \in slipped THEN Cardinality(Writers) ELSE 1)
    /\ "crossed" \notin slipped =>
         \A p \in ObjectPaths : sizes[p] # 0 => bucket.there /\ WithinLimit(sizes[p])
=============================================================================
