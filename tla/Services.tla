------------------------------- MODULE Services -------------------------------
(***************************************************************************)
(* The services around a project: how it comes and goes, where its files   *)
(* lie, what runs its functions, its messages and events, and what is kept *)
(* to restore it from.  They meet in no variable: each keeps tables,       *)
(* files or maps of its own.  A behaviour therefore starts one of them and *)
(* runs it while the others rest, and their states add up instead of       *)
(* multiplying.                                                            *)
(***************************************************************************)
EXTENDS ObjectStore, ResumableUploads, EdgeFunctions, EdgeCron, MessageQueue,
        WebhookDelivery, Provisioning, BaseBackups, LogicalDumps, SelfUpdate,
        SchemaTools, RowEditor, InstanceMemory, Reports, DbAccess, SqlTools,
        ObjectListing, Renditions, BucketGates, BackupsPage,
        ForeignServers, HostRouting

ServiceNames == {"store", "tus", "edge", "cron", "queue", "hooks", "prov", "bases",
             "dumps", "update", "schema", "rows", "memory", "reports", "access",
             "sqltools", "listing", "images", "gates", "page",
             "fdw", "hosts"}

VARIABLE service      \* the one whose behaviour this is

servicesVars == <<service, storeVars, tusVars, edgeVars, cronVars, queueVars,
                  hookVars, provVars, baseVars, dumpVars, updateVars,
                  schemaVars, rowVars, memVars, reportVars, accessVars, sqlVars,
                  listVars, renditionVars, gateVars, pageVars, fdwVars,
                  hostVars>>

ServicesInit ==
    /\ service \in ServiceNames
    /\ StoreInit /\ TusInit /\ EdgeInit /\ CronInit /\ QueueInit /\ HooksInit
    /\ ProvInit /\ BasesInit /\ DumpsInit /\ UpdateInit
    /\ SchemaInit /\ RowInit /\ MemInit /\ ReportsInit /\ AccessInit /\ SqlInit
    /\ ListInit /\ RenditionInit /\ GateInit /\ PageInit /\ FdwInit /\ HostInit
    \* a setting of one is nothing to the others
    /\ service # "edge" => cap = CHOOSE n \in EdgeSlots : TRUE
    /\ service # "cron" =>
         schedule = [f \in CronFunctions |-> CHOOSE s \in Schedules : TRUE]
    /\ service # "dumps" => kind = "shared"
    /\ service # "memory" => limit = CHOOSE mem \in Limits : TRUE
    /\ service # "page" => knob = 1
    /\ service # "images" =>
         /\ [w |-> image.w, h |-> image.h] = CHOOSE i \in Images : TRUE
         /\ box = CHOOSE b \in Boxes : TRUE

Idles(s) ==
    CASE s = "store" -> UNCHANGED storeVars
      [] s = "tus"   -> UNCHANGED tusVars
      [] s = "edge"  -> UNCHANGED edgeVars
      [] s = "cron"  -> UNCHANGED cronVars
      [] s = "queue" -> UNCHANGED queueVars
      [] s = "hooks" -> UNCHANGED hookVars
      [] s = "prov"  -> UNCHANGED provVars
      [] s = "bases" -> UNCHANGED baseVars
      [] s = "dumps" -> UNCHANGED dumpVars
      [] s = "update" -> UNCHANGED updateVars
      [] s = "schema" -> UNCHANGED schemaVars
      [] s = "rows"  -> UNCHANGED rowVars
      [] s = "memory" -> UNCHANGED memVars
      [] s = "reports" -> UNCHANGED reportVars
      [] s = "access" -> UNCHANGED accessVars
      [] s = "sqltools" -> UNCHANGED sqlVars
      [] s = "listing" -> UNCHANGED listVars
      [] s = "images" -> UNCHANGED renditionVars
      [] s = "gates" -> UNCHANGED gateVars
      [] s = "page"  -> UNCHANGED pageVars
      [] s = "fdw"   -> UNCHANGED fdwVars
      [] s = "hosts" -> UNCHANGED hostVars

Works(s) ==
    /\ service = s /\ UNCHANGED service
    /\ \A t \in ServiceNames \ {s} : Idles(t)

ServicesNext ==
    \/ Works("store") /\ StoreNext
    \/ Works("tus")   /\ TusNext
    \/ Works("edge")  /\ EdgeNext
    \/ Works("cron")  /\ CronNext
    \/ Works("queue") /\ QueueNext
    \/ Works("hooks") /\ HooksNext
    \/ Works("prov")  /\ ProvNext
    \/ Works("bases") /\ BasesNext
    \/ Works("dumps") /\ DumpsNext
    \/ Works("update") /\ UpdateNext
    \/ Works("schema") /\ SchemaNext
    \/ Works("rows")  /\ RowNext
    \/ Works("memory") /\ MemNext
    \/ Works("reports") /\ ReportsNext
    \/ Works("access") /\ AccessNext
    \/ Works("sqltools") /\ SqlNext
    \/ Works("listing") /\ ListNext
    \/ Works("images") /\ RenditionNext
    \/ Works("gates") /\ GateNext
    \/ Works("page")  /\ PageNext
    \/ Works("fdw")   /\ FdwNext
    \/ Works("hosts") /\ HostNext

ServicesSpec == ServicesInit /\ [][ServicesNext]_servicesVars

-----------------------------------------------------------------------------
\* Every service keeps its types; the others rest as they began.
ServicesTypeOK ==
    CASE service = "store" -> StoreTypeOK
      [] service = "tus"   -> TusTypeOK
      [] service = "edge"  -> EdgeTypeOK
      [] service = "cron"  -> CronTypeOK
      [] service = "queue" -> QueueTypeOK
      [] service = "hooks" -> HooksTypeOK
      [] service = "prov"  -> ProvTypeOK
      [] service = "bases" -> BasesTypeOK
      [] service = "dumps" -> DumpsTypeOK
      [] service = "update" -> UpdateTypeOK
      [] service = "schema" -> SchemaTypeOK
      [] service = "rows"  -> RowTypeOK
      [] service = "memory" -> MemTypeOK
      [] service = "reports" -> ReportsTypeOK
      [] service = "access" -> AccessTypeOK
      [] service = "sqltools" -> SqlTypeOK
      [] service = "listing" -> ListTypeOK
      [] service = "images" -> RenditionTypeOK
      [] service = "gates" -> GateTypeOK
      [] service = "page"  -> PageTypeOK
      [] service = "fdw"   -> FdwTypeOK
      [] service = "hosts" -> HostTypeOK

(* What is claimed of a service is claimed of the behaviours it works in: in *)
(* the others it stays as it began.                                          *)
In(s, P) == service = s => P

\* Of a file at rest the row, the disk and the remote agree, and what arrived
\* in pieces is whole (exceptions at the two definitions).
FilesKept == In("store", StoredAsRecorded) /\ In("tus", LandsWhole)

\* What reads while others write shows each object once and each rendition
\* whole.
ReadsWhole == In("listing", ListedOnce) /\ In("images", RenditionsWhole)

\* A function has the slots it may have and answers from what was deployed.
EdgeServes == In("edge", EdgeBounded /\ ServesFresh)

\* A message or an event is where its sender and its receiver may expect it,
\* through timeouts, retries and restarts.
MessagesAccounted == In("queue", QueueKeepsPromise) /\ In("hooks", DeliveriesAccounted)

\* What the nights and the Backups page leave behind is enough to restore from,
\* by segment and by dump, and a restore leaves something whole.
RestoresVouched ==
    /\ In("bases", PresentRestorable)
    /\ In("dumps", DumpVouches)
    /\ In("page", BackupsPageHolds)

\* What the panel's forms and editors do to a project's database and to the
\* platform's host names is done whole or not at all, and recorded as it was
\* done.
EditorKept ==
    /\ In("schema", SchemaFormsComplete)
    /\ In("rows", RowsAsTyped)
    /\ In("sqltools", SqlKept)
    /\ In("fdw", ServersWhole)
    /\ In("hosts", HostsKept)

\* What the sampler's passes do on their own: memory within its owner's bounds,
\* reports that are sent, and not twice.
UpkeepHolds == In("memory", MemoryFollowsBounds) /\ In("reports", ReportsKept)
=============================================================================
