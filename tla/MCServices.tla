------------------------------ MODULE MCServices ------------------------------
(* Small instances of Services for TLC: two requests at once in every part.  *)
EXTENDS Services, TLC

CONSTANTS a1, a2, p1, c1, c2

\* two projects made of a third one
MCParentOf == (p1 :> NoSlug) @@ (a1 :> p1) @@ (a2 :> p1)

Part(b, f, t, n) == [base |-> b, from |-> f, to |-> t, step |-> n]
Each(m, d, w) == [minute |-> m, dom |-> d, dow |-> w]
\* every other minute, one day of the week, lists with ranges and steps, and
\* a step of zero
MCSchedules ==
    {Each(<<Part("star", 0, 0, 2)>>, <<Star>>, <<Star>>),
     Each(<<Part("value", 1, 0, 2)>>, <<Star>>, <<Part("value", 1, 0, 1)>>),
     Each(<<Part("value", 3, 0, 1), Part("range", 0, 2, 2)>>,
          <<Part("star", 0, 0, 2)>>, <<Part("value", 0, 0, 1)>>),
     Each(<<Part("star", 0, 0, 0)>>, <<Star>>, <<Star>>)}

Bounds(least, most) == [min |-> least, max |-> most]
\* off, the whole range, part of it, and the wrong way round
MCRanges == {Bounds(0, 0), Bounds(4, 10), Bounds(6, 8), Bounds(8, 4)}

Size(w, h) == [w |-> w, h |-> h]
MCImages == {Size(6, 4), Size(1, 8)}
MCBoxes == {Size(3, 0), Size(4, 3)}
MCPrimary == <<"com", "base">>
\* above, at and below the primary, and outside of it
MCHosts == {<<"com">>, MCPrimary, <<"com", "base", "shop">>, <<"old">>, <<"old", "status">>}
MCOwnerOf == [p \in {a1, a2} |-> p]

\* requests are alike, and so are the two objects, tenants and copies
MadeAlike == Permutations({c1, c2}) \cup Permutations({a1, a2})

\* The properties say nothing once every path was disturbed, every project
\* marred, two basebackups met or an update ran beside another or was cut off, requests
\* shared a .part file, a gate was passed both ways, a report was not sent or a
\* request of the Backups page or for a foreign server was disturbed:
\* nothing is looked for past those states.
StillClaimed ==
    disturbed \cup lost # Paths /\ marred # Slugs /\ ~muddled /\ ~lied /\ ~cut
    /\ ~sharing /\ ~({"lifted", "crossed"} \subseteq slipped)
    /\ unsent \subseteq {"twice"} /\ excused = {} /\ ~killed

\* Bounds: two deployments and changed secrets in all, and a third project where
\* all are shared, none is marred and one request rests.
TwoChanges ==
    FoldSeq(LAMBDA t, n : n + deploys[t] + secrets[t], 0, SetToSeq(Tenants)) <= 2
ThirdShared ==
    births = 3 => /\ marred = {} /\ \A s \in Slugs : boxes[s] = 0
                  /\ \E c \in Provisioners : provs[c].pc = "idle"

\* Bounds: the second body is uploaded while no path is disturbed, and requests
\* come one by one after that; the third form is handed in while one editor
\* rests, and the last segment archived while the nightly script or the hygiene
\* of the archive rests.
SecondClean ==
    disturbed # {} => /\ uploads < MaxVersions
                      /\ \E c \in StoreClients : serving[c] = NoRequest
ThirdAlone == forms = MaxForms => \E e \in Editors : form[e] = Idle
LastQuiet == segment = LastSegment => OneScript

\* Bounds: the first segment alone is dropped for its size, a pull is retried
\* before the last release, and who asks for an update does not look for one as
\* well, nor do two ask for the last one.
FirstTrimmed == trimmed <= 1
NoneAsks == \A a \in Admins : ~admin[a]
LastReleaseOnce ==
    /\ \A u \in Updaters : updater[u].try = 0
    /\ \E a \in Admins : ~admin[a]
    /\ seen = Unknown \/ Alive = {}
RetryEarly ==
    /\ seen = Unknown \/ NoneAsks
    /\ upstream = Newest => LastReleaseOnce

\* Bounds: a behaviour uses one of the tools that keep SQL, and has rules only
\* over buckets nothing else has happened to.
InTool(steps) == \E u \in SqlUsers : tools[u].pc \in steps
ToolsUsed ==
    (IF jobs # {} \/ InTool({"schedule", "toggle", "unschedule"}) THEN {"cron"} ELSE {})
      \cup (IF applied # {} \/ InTool({"begin", "sql", "record", "commit"})
            THEN {"migrations"} ELSE {})
      \cup (IF ran # {} THEN {"editor"} ELSE {})
OneTool == Cardinality(ToolsUsed) <= 1
RulesFirst ==
    rules # {} => /\ slipped = {} /\ quota = Quota /\ remover = "none"
                  /\ Cardinality({p \in ObjectPaths : sizes[p] # 0}) <= 1

\* Bound: a behaviour of the Backups page is about the number, restores from the
\* remote, or the database, with one restart for the number and one request at
\* a time in the last life of the database.
PageTopics ==
    (IF chosen # 1 \/ AtPage("knob") # {} THEN {"number"} ELSE {})
      \cup (IF \E c \in PageClients : clone[c] # "none" THEN {"remote"} ELSE {})
      \cup (IF lives # 0 \/ nowAt # 2 THEN {"database"} ELSE {})
OnePageTopic ==
    /\ Cardinality(PageTopics) <= 1
    /\ "database" \in PageTopics => knob = 1
    /\ lives = MaxLives => \E c \in PageClients : page[c] = PageRest
    /\ boot.pc # "mirror" => restarts = 0 \/ "number" \in PageTopics
=============================================================================
