------------------------------ MODULE ObjectListing ------------------------------
(***************************************************************************)
(* Listing a bucket page by page while it changes: s3ListObjects           *)
(* (src/pgforge/s3proto.go) goes on after the last key it gave,            *)
(* storageListAPI (storage.go) counts entries from the front, shows what   *)
(* lies deeper as one folder, and reads no more rows than a cap.           *)
(***************************************************************************)
EXTENDS Naturals, FiniteSets

CONSTANTS
    LastKey,    \* keys are 1..LastKey, in the order of the index
    Folder,     \* the keys that lie in one folder of the prefix
    MaxKeys,    \* keys of an S3 page (1000)
    PageLimit,      \* entries of an API page (100)
    RowCap      \* rows the API reads (5000)

ASSUME ListingAssumption ==
    {LastKey, MaxKeys, PageLimit, RowCap} \subseteq Nat \ {0} /\ Folder \subseteq 1..LastKey

VARIABLES
    keys,       \* storage_objects of the bucket
    lister,     \* a client: how it lists and how far it is
    got,        \* what its pages showed, and how often
    stayed,     \* history: keys there since its first page
    stirred     \* history: the bucket changed since

listVars == <<keys, lister, got, stayed, stirred>>

PathKeys == 1..LastKey
Away == [by |-> "none", from |-> 0]

ListTypeOK ==
    /\ keys \subseteq PathKeys /\ stayed \subseteq keys /\ stirred \in BOOLEAN
    /\ lister \in [by : {"none", "key", "offset", "key-done", "offset-done"}, from : Nat]
    /\ got \in [PathKeys -> Nat]

ListInit ==
    /\ keys = {} /\ lister = Away
    /\ got = [k \in PathKeys |-> 0] /\ stayed = {} /\ stirred = FALSE

KeyPut(k) ==
    /\ k \notin keys /\ keys' = keys \cup {k} /\ stirred' = TRUE
    /\ UNCHANGED <<lister, got, stayed>>

KeyGone(k) ==
    /\ keys' = keys \ {k} /\ stayed' = stayed \ {k} /\ stirred' = TRUE
    /\ UNCHANGED <<lister, got>>

-----------------------------------------------------------------------------
\* The n first of a set of keys, and all but the n first.
FirstOf(s, n) == {k \in s : Cardinality({j \in s : j < k}) < n}
AllBut(s, n) == s \ FirstOf(s, n)
LastOf(s) == CHOOSE k \in s : \A j \in s : j <= k

Counts(page) == got' = [k \in PathKeys |-> IF k \in page THEN got[k] + 1 ELSE got[k]]

ListStarts(by) ==
    /\ lister = Away /\ lister' = [by |-> by, from |-> 0]
    /\ stayed' = keys /\ stirred' = FALSE
    /\ UNCHANGED <<keys, got>>

\* A page of keys after the token, of which the last is the next token.
PageOf(rows, more) ==
    /\ Counts(FirstOf(rows, MaxKeys))
    /\ lister' = IF more THEN [lister EXCEPT !.from = LastOf(FirstOf(rows, MaxKeys))]
                 ELSE [lister EXCEPT !.by = "key-done"]

\* Without the row that tells whether there is more.
S3PageShort ==
    /\ lister.by = "key"
    /\ LET rows == FirstOf({k \in keys : k > lister.from}, MaxKeys)
       IN PageOf(rows, Cardinality(rows) > MaxKeys)
    /\ UNCHANGED <<keys, stayed, stirred>>
s3ListObjects ==
    /\ lister.by = "key"
    /\ LET rows == FirstOf({k \in keys : k > lister.from}, MaxKeys + 1)
       IN PageOf(rows, Cardinality(rows) > MaxKeys)
    /\ UNCHANGED <<keys, stayed, stirred>>

\* One entry for a file, one for the folder, where its first key stands.
EntriesOf(rows) == {k \in rows : k \in Folder => \A j \in rows \cap Folder : j >= k}

\* A client asks for pages until one is not full.
storageListAPI ==
    /\ lister.by = "offset"
    /\ LET all == EntriesOf(FirstOf(keys, RowCap))
           page == FirstOf(AllBut(all, lister.from), PageLimit)
       IN /\ Counts(page)
          /\ lister' = IF Cardinality(page) = PageLimit
                       THEN [lister EXCEPT !.from = @ + PageLimit]
                       ELSE [lister EXCEPT !.by = "offset-done"]
    /\ UNCHANGED <<keys, stayed, stirred>>

ListNext ==
    \/ \E k \in PathKeys : KeyPut(k) \/ KeyGone(k)
    \/ ListStarts("key") \/ ListStarts("offset")
    \/ s3ListObjects \/ storageListAPI

ListSpec == ListInit /\ [][ListNext]_listVars

-----------------------------------------------------------------------------
\* Whatever is put and deleted between the pages, an S3 client has every key
\* that was there all along exactly once and no key twice; a client of the
\* project's own API has every entry once if the bucket rested and its rows
\* are within the cap, and is promised nothing else.
ListedOnce ==
    /\ lister.by = "key-done" => \A k \in PathKeys : got[k] <= 1 /\ (k \in stayed => got[k] = 1)
    /\ lister.by = "offset-done" /\ ~stirred /\ Cardinality(keys) <= RowCap =>
         \A k \in PathKeys : got[k] = IF k \in EntriesOf(keys) THEN 1 ELSE 0
=============================================================================
