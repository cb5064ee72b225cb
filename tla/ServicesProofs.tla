----------------------------- MODULE ServicesProofs -----------------------------
(***************************************************************************)
(* A behaviour of Services is a behaviour of each service, so that what    *)
(* is proved of one holds of the whole.                                    *)
(***************************************************************************)
EXTENDS Services, WorkloadProofs, PartsProofs, EditorProofs

-----------------------------------------------------------------------------
(* The composition.                                                        *)

\* While another service works, a service idles.
LEMMA OthersIdle ==
  ASSUME NEW s \in ServiceNames, NEW t \in ServiceNames, s # t, Works(t)
  PROVE  Idles(s)
  BY DEF Works

LEMMA IdlingServices ==
  /\ Idles("store") => UNCHANGED storeVars
  /\ Idles("tus") => UNCHANGED tusVars
  /\ Idles("edge") => UNCHANGED edgeVars
  /\ Idles("cron") => UNCHANGED cronVars
  /\ Idles("queue") => UNCHANGED queueVars
  /\ Idles("hooks") => UNCHANGED hookVars
  /\ Idles("prov") => UNCHANGED provVars
  /\ Idles("bases") => UNCHANGED baseVars
  /\ Idles("dumps") => UNCHANGED dumpVars
  /\ Idles("update") => UNCHANGED updateVars
  /\ Idles("schema") => UNCHANGED schemaVars
  /\ Idles("rows") => UNCHANGED rowVars
  /\ Idles("memory") => UNCHANGED memVars
  /\ Idles("reports") => UNCHANGED reportVars
  /\ Idles("access") => UNCHANGED accessVars
  /\ Idles("sqltools") => UNCHANGED sqlVars
  /\ Idles("listing") => UNCHANGED listVars
  /\ Idles("images") => UNCHANGED renditionVars
  /\ Idles("gates") => UNCHANGED gateVars
  /\ Idles("page") => UNCHANGED pageVars
  /\ Idles("fdw") => UNCHANGED fdwVars
  /\ Idles("hosts") => UNCHANGED hostVars
  BY DEF Idles

LEMMA WorkingServices ==
  ASSUME ServicesNext
  PROVE  /\ StoreNext \/ Idles("store")
         /\ TusNext \/ Idles("tus")
         /\ EdgeNext \/ Idles("edge")
         /\ CronNext \/ Idles("cron")
         /\ QueueNext \/ Idles("queue")
         /\ HooksNext \/ Idles("hooks")
         /\ ProvNext \/ Idles("prov")
         /\ BasesNext \/ Idles("bases")
         /\ DumpsNext \/ Idles("dumps")
         /\ UpdateNext \/ Idles("update")
         /\ SchemaNext \/ Idles("schema")
         /\ RowNext \/ Idles("rows")
         /\ MemNext \/ Idles("memory")
         /\ ReportsNext \/ Idles("reports")
         /\ AccessNext \/ Idles("access")
         /\ SqlNext \/ Idles("sqltools")
         /\ ListNext \/ Idles("listing")
         /\ RenditionNext \/ Idles("images")
         /\ GateNext \/ Idles("gates")
         /\ PageNext \/ Idles("page")
         /\ FdwNext \/ Idles("fdw")
         /\ HostNext \/ Idles("hosts")
<1>1. \A t \in ServiceNames : Works(t) => \A s \in ServiceNames \ {t} : Idles(s)
  BY OthersIdle
<1> QED
  BY <1>1 DEF ServicesNext, ServiceNames

LEMMA SomeServiceWorks ==
  ASSUME [ServicesNext]_servicesVars
  PROVE  /\ [StoreNext]_storeVars /\ [TusNext]_tusVars /\ [EdgeNext]_edgeVars
         /\ [CronNext]_cronVars /\ [QueueNext]_queueVars /\ [HooksNext]_hookVars
         /\ [ProvNext]_provVars /\ [BasesNext]_baseVars /\ [DumpsNext]_dumpVars
         /\ [UpdateNext]_updateVars /\ [SchemaNext]_schemaVars /\ [RowNext]_rowVars
         /\ [MemNext]_memVars /\ [ReportsNext]_reportVars /\ [AccessNext]_accessVars
         /\ [SqlNext]_sqlVars /\ [ListNext]_listVars /\ [RenditionNext]_renditionVars
         /\ [GateNext]_gateVars /\ [PageNext]_pageVars /\ [FdwNext]_fdwVars
         /\ [HostNext]_hostVars
<1>1. CASE UNCHANGED servicesVars
  BY <1>1 DEF servicesVars
<1>2. CASE ServicesNext
  BY <1>2, WorkingServices, IdlingServices
<1> QED
  BY <1>1, <1>2

\* Every behaviour of Services is one of each service.
LEMMA ServicesAreTheirParts ==
  ServicesSpec =>
    /\ StoreSpec /\ TusSpec /\ EdgeSpec /\ CronSpec /\ QueueSpec /\ HooksSpec
    /\ ProvSpec /\ BasesSpec /\ DumpsSpec /\ UpdateSpec /\ SchemaSpec /\ RowSpec
    /\ MemSpec /\ ReportsSpec /\ AccessSpec /\ SqlSpec /\ ListSpec
    /\ RenditionSpec /\ GateSpec /\ PageSpec /\ FdwSpec /\ HostSpec
<1>1. ServicesInit =>
        /\ StoreInit /\ TusInit /\ EdgeInit /\ CronInit /\ QueueInit /\ HooksInit
        /\ ProvInit /\ BasesInit /\ DumpsInit /\ UpdateInit
        /\ SchemaInit /\ RowInit /\ MemInit /\ ReportsInit /\ AccessInit /\ SqlInit
        /\ ListInit /\ RenditionInit /\ GateInit /\ PageInit /\ FdwInit /\ HostInit
  BY DEF ServicesInit
<1> QED
  BY <1>1, SomeServiceWorks, PTL
  DEF ServicesSpec, StoreSpec, TusSpec, EdgeSpec, CronSpec, QueueSpec, HooksSpec,
      ProvSpec, BasesSpec, DumpsSpec, UpdateSpec, SchemaSpec, RowSpec, MemSpec,
      ReportsSpec, AccessSpec, SqlSpec, ListSpec, RenditionSpec, GateSpec, PageSpec,
      FdwSpec, HostSpec

-----------------------------------------------------------------------------
(* Of the whole.                                                            *)

\* The service that works is one of those above.
OneIsNamed == service \in ServiceNames

\* In whatever order the steps of a service come, its tables, files and requests
\* hold what their columns, names and structs may hold, and its counters stay
\* within their bounds (the handlers of every file that Services names).
THEOREM ServicesTypeCorrect == ServicesSpec => []ServicesTypeOK
<1>1. ServicesInit => OneIsNamed
  BY DEF ServicesInit, OneIsNamed
<1>2. OneIsNamed /\ [ServicesNext]_servicesVars => OneIsNamed'
  BY DEF ServicesNext, Works, servicesVars, OneIsNamed
<1>3. ASSUME OneIsNamed,
             StoreTypeOK, TusTypeOK, EdgeTypeOK, CronTypeOK, QueueTypeOK, HooksTypeOK, ProvTypeOK,
             BasesTypeOK, DumpsTypeOK, UpdateTypeOK, SchemaTypeOK, RowTypeOK, MemTypeOK,
             ReportsTypeOK, AccessTypeOK, SqlTypeOK, ListTypeOK, RenditionTypeOK, GateTypeOK,
             PageTypeOK, FdwTypeOK, HostTypeOK
      PROVE  ServicesTypeOK
  BY <1>3 DEF OneIsNamed, ServicesTypeOK, ServiceNames
<1>4. ServicesSpec => []OneIsNamed
  BY <1>1, <1>2, PTL DEF ServicesSpec
<1> QED
  BY <1>3, <1>4, ServicesAreTheirParts,
     StoreTypes, TusTypes, EdgeTypes, CronTypes, QueueTypes, HooksTypes, ProvTypes, BasesTypes,
     DumpsTypes, UpdateTypes, SchemaTypes, RowsTypes, MemoryTypes, ReportTypes, AccessTypes,
     SqlTypes, ListTypes, RenditionsTypes, GatesTypes, PageTypes, FdwTypes, HostTypes, PTL

\* A function has the slots it may have and answers from what was deployed
\* (edge.go).
THEOREM EdgeServesAlways == ServicesSpec => []EdgeServes
  BY ServicesAreTheirParts, EdgeAlwaysServes, PTL DEF EdgeServes, In

\* Messages and events are where their sender and their receiver may expect
\* them (queues.go, webhooks.go).
THEOREM MessagesStayAccounted == ServicesSpec => []MessagesAccounted
  BY ServicesAreTheirParts, QueuesKeepPromise, DeliveriesStayAccounted, PTL
  DEF MessagesAccounted, In

\* What was stored and what arrived in pieces is kept as it was recorded
\* (storage.go, s3storage.go, tus.go).
THEOREM FilesStayKept == ServicesSpec => []FilesKept
  BY ServicesAreTheirParts, ObjectsStayRecorded, UploadsStayWhole, PTL DEF FilesKept, In

\* A listing shows each key of its folder once, page after page, and a
\* rendition is served whole (s3proto.go, storage.go, transform.go).
THEOREM ReadsStayWhole == ServicesSpec => []ReadsWhole
  BY ServicesAreTheirParts, ListingsShowOnce, RenditionsAppearWhole, PTL DEF ReadsWhole, In

\* Memory follows its bounds, and what there is to report is reported
\* (instances.go, notify.go).
THEOREM UpkeepAlwaysHolds == ServicesSpec => []UpkeepHolds
  BY ServicesAreTheirParts, MemoryStaysWithinBounds, ReportsAlwaysKept, PTL DEF UpkeepHolds, In

\* What the panel's forms and editors do to a project's database, and to the
\* platform's host names, is whole and recorded (editor.go, objects.go, rls.go,
\* migrations.go, cron.go, fdw.go, main.go).
THEOREM EditorStaysKept == ServicesSpec => []EditorKept
  BY ServicesAreTheirParts, SchemaStaysComplete, RowsStayTyped, SqlStaysKept, ServersStayWhole,
     HostsStayKept, PTL
  DEF EditorKept, In

\* A backup that is said to be there can be restored: the present from the
\* basebackups and the archive, the last dump a night vouched for, and what the
\* Backups page restores or clones (backup.sh, wal-prune.sh, pitr-restore.sh,
\* admin.go, infra.go, offbox.go).
THEOREM RestoresStayVouched == ServicesSpec => []RestoresVouched
  BY ServicesAreTheirParts, PresentStaysRestorable, DumpsAlwaysVouch, PageAlwaysHolds, PTL
  DEF RestoresVouched, In

=============================================================================
