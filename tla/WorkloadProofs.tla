----------------------------- MODULE WorkloadProofs -----------------------------
(***************************************************************************)
(* What each of a project's services may rely on by itself, the projects   *)
(* as they come and go, and the panel while it updates itself: proofs      *)
(* about MessageQueue, WebhookDelivery, EdgeFunctions, Provisioning,       *)
(* DbAccess, ObjectStore, ResumableUploads and SelfUpdate, for any number  *)
(* of consumers, deliveries, requests and scripts.                         *)
(***************************************************************************)
EXTENDS MessageQueue, WebhookDelivery, EdgeFunctions, Provisioning, DbAccess,
        ObjectStore, ResumableUploads, SelfUpdate, FiniteSetTheorems,
        SequenceTheorems, TLAPS

-----------------------------------------------------------------------------
(* Message queues.                                                         *)

\* What a transaction has locked was free for a reader when it began, and is
\* locked by no other.
LocksOfOne ==
    /\ \A c \in Consumers : reading[c].at <= second
    /\ \A c \in Consumers : \A m \in reading[c].rows :
         /\ m \in DOMAIN queue /\ queue[m].vt <= reading[c].at
         /\ \A d \in Consumers \ {c} : m \notin reading[d].rows

\* A row is hidden at least for as long as anybody was promised its message.
LeasesHide ==
    \A c \in Consumers : \A l \in leases[c] :
        /\ l[1] \in 1..sent
        /\ l[1] \in DOMAIN queue => l[2] <= queue[l[1]].vt

\* At most one consumer holds a message now.
OneHolder ==
    \A c, d \in Consumers : c # d =>
        \A l \in leases[c], k \in leases[d] :
            l[1] = k[1] => l[2] <= second \/ k[2] <= second

\* A message that was sent is in one of four places, the others are nowhere.
InOnePlace ==
    /\ DOMAIN queue \cup archive \cup acked \cup purged = 1..sent
    /\ archive \cap acked = {} /\ archive \cap purged = {} /\ acked \cap purged = {}
    /\ DOMAIN queue \cap (archive \cup acked \cup purged) = {}

HiddenWasRead == \A m \in DOMAIN queue : queue[m].vt > second => queue[m].ct > 0

QueueInv ==
    /\ QueueTypeOK
    /\ LocksOfOne /\ LeasesHide /\ OneHolder /\ InOnePlace /\ HiddenWasRead

LEMMA QueueInitInv == QueueInit => QueueInv
<1> SUFFICES ASSUME QueueInit PROVE QueueInv
  OBVIOUS
<1>1. DOMAIN queue = {}
  BY DEF QueueInit
<1> QED
  BY <1>1, QueueAssumption
  DEF QueueInit, QueueInv, QueueTypeOK, LocksOfOne, LeasesHide, OneHolder, InOnePlace,
      HiddenWasRead, NoRead, Times, MsgIds

\* Of a message that leaves the table its leases remain, and say nothing.
LEMMA DropKeeps ==
  ASSUME QueueInv, NEW ids \in SUBSET DOMAIN queue, queue' = Drop(ids),
         UNCHANGED <<sent, second, reading>>, ids \cap Locked = {},
         \A c \in Consumers : leases'[c] \subseteq leases[c],
         leases' \in [Consumers -> SUBSET (MsgIds \X Times)]
  PROVE  /\ DOMAIN queue' = DOMAIN queue \ ids
         /\ \A m \in DOMAIN queue' : queue'[m] = queue[m]
         /\ LocksOfOne' /\ LeasesHide' /\ OneHolder' /\ HiddenWasRead'
<1>1. /\ DOMAIN queue' = DOMAIN queue \ ids
      /\ \A m \in DOMAIN queue' : queue'[m] = queue[m]
  BY DEF Drop
<1>2. LocksOfOne'
  BY <1>1 DEF QueueInv, LocksOfOne, Locked
<1>3. LeasesHide' /\ OneHolder' /\ HiddenWasRead'
  BY <1>1 DEF QueueInv, LeasesHide, OneHolder, HiddenWasRead
<1> QED
  BY <1>1, <1>2, <1>3

LEMMA QueueNextInv == QueueInv /\ [QueueNext]_queueVars => QueueInv'
<1> SUFFICES ASSUME QueueInv, [QueueNext]_queueVars PROVE QueueInv'
  OBVIOUS
<1>0. /\ sent \in Nat /\ second \in Nat /\ MaxMsgs \in Nat /\ VisibleAfter \in Nat
      /\ LastSecond \in Nat
      /\ \A m \in DOMAIN queue : queue[m].vt \in Nat /\ queue[m].ct \in Nat
      /\ \A c \in Consumers : reading[c].at \in Nat
      /\ \A c \in Consumers : \A l \in leases[c] : l[1] \in Nat /\ l[2] \in Nat
  BY QueueAssumption DEF QueueInv, QueueTypeOK, Times, MsgIds
<1>1. CASE Send
  <2>1. /\ DOMAIN queue' = DOMAIN queue \cup {sent + 1} /\ sent' = sent + 1
        /\ \A m \in DOMAIN queue : m # sent + 1 => queue'[m] = queue[m]
        /\ queue'[sent + 1] = [vt |-> second, ct |-> 0]
        /\ UNCHANGED <<archive, second, reading, leases, acked, purged>>
    BY <1>1 DEF Send
  <2>2. \A m \in DOMAIN queue \cup archive \cup acked \cup purged : m # sent + 1 /\ m \in 1..sent
    BY <1>0 DEF QueueInv, InOnePlace
  <2>3. QueueTypeOK'
    <3>1. sent + 1 \in MsgIds /\ sent + 1 \in 0..MaxMsgs
      BY <1>0, <1>1 DEF Send, MsgIds
    <3>2. [vt |-> second, ct |-> 0] \in [vt : Times, ct : Nat]
      BY <1>0 DEF Times, QueueInv, QueueTypeOK
    <3> QED
      BY <2>1, <2>2, <3>1, <3>2 DEF QueueInv, QueueTypeOK
  <2>4. LocksOfOne'
    BY <2>1, <2>2 DEF QueueInv, LocksOfOne
  <2>5. InOnePlace' /\ HiddenWasRead'
    BY <1>0, <2>1, <2>2 DEF QueueInv, InOnePlace, HiddenWasRead
  <2>6. OneHolder'
    BY <2>1 DEF QueueInv, OneHolder
  <2>7. LeasesHide'
    BY <1>0, <2>1, <2>2 DEF QueueInv, LeasesHide
  <2> QED
    BY <2>3, <2>4, <2>5, <2>6, <2>7 DEF QueueInv
<1>2. ASSUME NEW c \in Consumers, NEW qty \in Quantities, ReadBegin(c, qty) PROVE QueueInv'
  <2>1. PICK taken \in SUBSET Visible(c) :
          /\ reading' = [reading EXCEPT ![c] = [at |-> second, rows |-> taken]]
          /\ UNCHANGED <<queue, archive, sent, second, leases, acked, purged>>
    BY <1>2 DEF ReadBegin
  <2>2. /\ \A m \in taken : m \in DOMAIN queue /\ queue[m].vt <= second
        /\ \A m \in taken, d \in Consumers : m \notin reading[d].rows
    BY DEF Visible, Locked
  <2>3. /\ reading'[c] = [at |-> second, rows |-> taken]
        /\ \A d \in Consumers : d # c => reading'[d] = reading[d]
    BY <2>1 DEF QueueInv, QueueTypeOK
  <2>4. QueueTypeOK'
    BY <2>1, <2>2 DEF QueueInv, QueueTypeOK
  <2>5. LocksOfOne'
    BY <1>0, <2>1, <2>2, <2>3 DEF QueueInv, LocksOfOne
  <2> QED
    BY <2>1, <2>4, <2>5 DEF QueueInv, LeasesHide, OneHolder, InOnePlace, HiddenWasRead
<1>3. ASSUME NEW c \in Consumers, ReadCommit(c) PROVE QueueInv'
  <2> DEFINE vt == reading[c].at + VisibleAfter
             taken == reading[c].rows
             new == {<<m, vt>> : m \in taken}
  <2>1. /\ DOMAIN queue' = DOMAIN queue
        /\ \A m \in DOMAIN queue :
             /\ m \in taken => queue'[m] = [vt |-> vt, ct |-> queue[m].ct + 1]
             /\ m \notin taken => queue'[m] = queue[m]
        /\ leases' = [leases EXCEPT ![c] = leases[c] \cup new]
        /\ reading' = [reading EXCEPT ![c] = NoRead]
        /\ UNCHANGED <<archive, sent, second, acked, purged>>
    BY <1>3 DEF ReadCommit
  <2>2. /\ vt \in Nat /\ vt >= reading[c].at /\ vt \in Times
        /\ taken \subseteq DOMAIN queue /\ taken \subseteq 1..sent /\ taken \subseteq MsgIds
        /\ \A m \in taken : queue[m].vt <= reading[c].at
    BY <1>0 DEF QueueInv, QueueTypeOK, LocksOfOne, InOnePlace, Times
  <2>3. \A l \in new : l[1] \in taken /\ l[2] = vt
    OBVIOUS
  <2>4. new \subseteq MsgIds \X Times
    BY <2>2
  <2>5. /\ \A d \in Consumers : d # c => reading'[d] = reading[d] /\ leases'[d] = leases[d]
        /\ reading'[c] = NoRead /\ leases'[c] = leases[c] \cup new
    BY <2>1 DEF QueueInv, QueueTypeOK
  <2> HIDE DEF vt, taken, new
  <2>6. QueueTypeOK'
    <3>1. \A m \in DOMAIN queue' : queue'[m] \in [vt : Times, ct : Nat]
      BY <1>0, <2>1, <2>2 DEF QueueInv, QueueTypeOK
    <3>2. leases' \in [Consumers -> SUBSET (MsgIds \X Times)]
      BY <2>1, <2>4 DEF QueueInv, QueueTypeOK
    <3>3. reading' \in [Consumers -> [at : 0..LastSecond, rows : SUBSET MsgIds]]
      BY <1>0, <2>1 DEF QueueInv, QueueTypeOK, NoRead
    <3> QED
      BY <2>1, <3>1, <3>2, <3>3 DEF QueueInv, QueueTypeOK
  <2>7. LocksOfOne'
    <3>1. \A d \in Consumers : reading'[d].at <= second'
      BY <1>0, <2>1, <2>5 DEF QueueInv, LocksOfOne, NoRead
    <3>2. \A d \in Consumers : \A m \in reading'[d].rows :
             d # c /\ m \in reading[d].rows /\ m \notin taken
      BY <2>5 DEF QueueInv, LocksOfOne, NoRead, taken
    <3> QED
      BY <2>1, <2>5, <3>1, <3>2 DEF QueueInv, LocksOfOne, NoRead
  <2>8. LeasesHide'
    <3> SUFFICES ASSUME NEW d \in Consumers, NEW l \in leases'[d]
                 PROVE  /\ l[1] \in 1..sent'
                        /\ l[1] \in DOMAIN queue' => l[2] <= queue'[l[1]].vt
      BY DEF LeasesHide
    <3>1. CASE l \in new
      BY <1>0, <2>1, <2>2, <2>3, <3>1
    <3>2. CASE l \in leases[d]
      BY <1>0, <2>1, <2>2, <3>2 DEF QueueInv, LeasesHide
    <3> QED
      BY <2>5, <3>1, <3>2
  <2>9. OneHolder'
    \* who was handed what is handed out now is not promised it any more
    <3>1. \A d \in Consumers : \A l \in leases[d], k \in new :
             l[1] = k[1] => l[2] <= second
      <4> SUFFICES ASSUME NEW d \in Consumers, NEW l \in leases[d], NEW k \in new, l[1] = k[1]
                   PROVE  l[2] <= second
        OBVIOUS
      <4>1. l[1] \in DOMAIN queue /\ queue[l[1]].vt <= reading[c].at
        BY <2>2, <2>3
      <4> QED
        BY <1>0, <4>1 DEF QueueInv, LeasesHide, LocksOfOne
    <3> QED
      BY <2>1, <2>5, <3>1 DEF QueueInv, OneHolder
  <2>10. InOnePlace'
    BY <2>1 DEF QueueInv, InOnePlace
  <2>11. HiddenWasRead'
    BY <1>0, <2>1 DEF QueueInv, HiddenWasRead
  <2> QED
    BY <2>6, <2>7, <2>8, <2>9, <2>10, <2>11 DEF QueueInv
<1>4. ASSUME NEW c \in Consumers, ConsumerCrash(c) PROVE QueueInv'
  <2>1. /\ \A d \in Consumers : d # c => reading'[d] = reading[d] /\ leases'[d] = leases[d]
        /\ reading'[c] = NoRead /\ leases'[c] = {}
        /\ UNCHANGED <<queue, archive, sent, second, acked, purged>>
    BY <1>4 DEF ConsumerCrash, QueueInv, QueueTypeOK
  <2>2. QueueTypeOK'
    BY <1>0, <1>4 DEF ConsumerCrash, QueueInv, QueueTypeOK, NoRead
  <2>3. LocksOfOne'
    BY <1>0, <2>1 DEF QueueInv, LocksOfOne, NoRead
  <2> QED
    BY <2>1, <2>2, <2>3 DEF QueueInv, LeasesHide, OneHolder, InOnePlace, HiddenWasRead
<1>5. ASSUME NEW c \in Consumers, NEW l \in leases[c], Ack(c, l) \/ Archive(c, l)
      PROVE  QueueInv'
  <2> DEFINE ids == {l[1]} \cap DOMAIN queue
  <2>1. /\ queue' = Drop(ids)
        /\ \/ acked' = acked \cup ids /\ archive' = archive
           \/ archive' = archive \cup ids /\ acked' = acked
        /\ leases' = [leases EXCEPT ![c] = leases[c] \ {l}]
        /\ UNCHANGED <<sent, second, reading, purged>>
        /\ ids \cap Locked = {}
    <3>1. Drop({l[1]}) = Drop(ids)
      BY DEF Drop
    <3> QED
      BY <1>5, <3>1 DEF Ack, Archive
  <2> HIDE DEF ids
  <2>2. /\ leases' \in [Consumers -> SUBSET (MsgIds \X Times)]
        /\ \A d \in Consumers : leases'[d] \subseteq leases[d]
    BY <2>1 DEF QueueInv, QueueTypeOK
  <2>3. ids \in SUBSET DOMAIN queue
    BY DEF ids
  <2>4. /\ DOMAIN queue' = DOMAIN queue \ ids
        /\ \A m \in DOMAIN queue' : queue'[m] = queue[m]
        /\ LocksOfOne' /\ LeasesHide' /\ OneHolder' /\ HiddenWasRead'
    BY <2>1, <2>2, <2>3, DropKeeps
  <2>5. InOnePlace'
    BY <2>1, <2>3, <2>4 DEF QueueInv, InOnePlace
  <2>6. QueueTypeOK'
    BY <2>1, <2>2, <2>3, <2>4 DEF QueueInv, QueueTypeOK
  <2> QED
    BY <2>4, <2>5, <2>6 DEF QueueInv
<1>6. CASE queuePurge
  <2> DEFINE ids == DOMAIN queue
  <2>1. /\ queue' = Drop(ids) /\ purged' = purged \cup ids /\ ids \cap Locked = {}
        /\ UNCHANGED <<archive, sent, second, reading, leases, acked>>
    BY <1>6 DEF queuePurge
  <2>2. ids \in SUBSET DOMAIN queue
    OBVIOUS
  <2> HIDE DEF ids
  <2>3. leases' \in [Consumers -> SUBSET (MsgIds \X Times)]
    BY <2>1 DEF QueueInv, QueueTypeOK
  <2>4. /\ DOMAIN queue' = DOMAIN queue \ ids
        /\ \A m \in DOMAIN queue' : queue'[m] = queue[m]
        /\ LocksOfOne' /\ LeasesHide' /\ OneHolder' /\ HiddenWasRead'
    BY <2>1, <2>2, <2>3, DropKeeps
  <2>5. InOnePlace' /\ QueueTypeOK'
    BY <2>1, <2>2, <2>4 DEF QueueInv, InOnePlace, QueueTypeOK
  <2> QED
    BY <2>4, <2>5 DEF QueueInv
<1>7. CASE SecondPasses
  <2>1. /\ second' = second + 1 /\ second < LastSecond
        /\ UNCHANGED <<queue, archive, sent, reading, leases, acked, purged>>
    BY <1>7 DEF SecondPasses
  <2>2. QueueTypeOK' /\ LocksOfOne' /\ HiddenWasRead'
    BY <1>0, <2>1 DEF QueueInv, QueueTypeOK, LocksOfOne, HiddenWasRead
  <2>3. LeasesHide' /\ OneHolder' /\ InOnePlace'
    BY <1>0, <2>1 DEF QueueInv, LeasesHide, OneHolder, InOnePlace
  <2> QED
    BY <2>2, <2>3 DEF QueueInv
<1>8. CASE UNCHANGED queueVars
  BY <1>8 DEF queueVars, QueueInv, QueueTypeOK, LocksOfOne, LeasesHide, OneHolder, InOnePlace,
              HiddenWasRead
<1> QED
  BY <1>1, <1>2, <1>3, <1>4, <1>5, <1>6, <1>7, <1>8 DEF QueueNext

\* A message is one consumer's at a time, in one place, and there for the next
\* reader when it is nobody's (queues.go).
THEOREM QueuesKeepPromise == QueueSpec => []QueueKeepsPromise
<1>1. ASSUME QueueInv PROVE QueueKeepsPromise
  <2>0. /\ second \in Nat
        /\ \A c \in Consumers : \A l \in leases[c] : l[2] \in Nat
    BY <1>1, QueueAssumption DEF QueueInv, QueueTypeOK, Times
  <2>1. \A c, d \in Consumers, l \in UNION {leases[e] : e \in Consumers} :
         c # d /\ l \in leases[c] /\ l[2] > second =>
           \A k \in leases[d] : k[1] = l[1] => k[2] <= second
    BY <1>1, <2>0 DEF QueueInv, OneHolder
  <2> DEFINE places == <<DOMAIN queue, archive, acked, purged>>
  <2>2. ASSUME NEW m \in 1..sent
        PROVE  \E i \in DOMAIN places : \A j \in DOMAIN places : m \in places[j] <=> i = j
    <3>1. DOMAIN places = {1, 2, 3, 4}
      OBVIOUS
    <3> QED
      BY <1>1, <3>1 DEF QueueInv, InOnePlace
  <2> QED
    BY <1>1, <2>1, <2>2 DEF QueueKeepsPromise, QueueInv, HiddenWasRead
<1> QED
  BY <1>1, QueueInitInv, QueueNextInv, PTL DEF QueueSpec

-----------------------------------------------------------------------------
(* Database webhooks.                                                      *)

HookSteps == {"try", "log", "trim", "over", "cut"}
DeliveryRows == [hook : Hooks, pc : HookSteps, ok : BOOLEAN, tried : Seq(BOOLEAN), got : Nat]
LogRows == [of : Nat, attempt : Nat, ok : BOOLEAN, payload : BOOLEAN]

\* Where a delivery is on the ladder.
OnLadder(e) ==
    /\ \A i \in DOMAIN e.tried : e.tried[i] => i = Len(e.tried) /\ e.got > 0
    /\ Len(e.tried) <= Attempts /\ e.got <= Attempts
    /\ e.pc = "try" => e.got <= Len(e.tried)
    /\ e.pc \in {"try", "log"} =>
         (\A i \in DOMAIN e.tried : ~e.tried[i]) /\ Len(e.tried) < Attempts
    /\ e.pc = "log" => (e.ok => e.got > 0) /\ e.got <= Len(e.tried) + 1
    /\ e.pc = "trim" => /\ Len(e.tried) > 0 /\ (e.ok <=> e.tried[Len(e.tried)])
                        /\ e.got <= Len(e.tried)
    /\ e.pc = "over" => Len(e.tried) = Attempts \/ (e.tried[Len(e.tried)] /\ Len(e.tried) > 0)

\* A row of the log is an attempt of one of these deliveries; no two are the same.
IsAttempt(r, ds) ==
    /\ r.of \in DOMAIN ds /\ r.attempt \in DOMAIN ds[r.of].tried
    /\ r.ok = ds[r.of].tried[r.attempt]

NoneTwice(lines) ==
    \A i, j \in DOMAIN lines :
        i # j => lines[i].of # lines[j].of \/ lines[i].attempt # lines[j].attempt

RowsAreAttempts ==
    /\ \A i \in DOMAIN log : IsAttempt(log[i], deliveries)
    /\ NoneTwice(log)

Trimming == {d \in DOMAIN deliveries : deliveries[d].pc \in {"trim", "cut"}}

HooksInv ==
    /\ hooks \subseteq Hooks
    /\ firing \in [on : BOOLEAN, left : SUBSET Hooks]
    /\ deliveries \in Seq(DeliveryRows) /\ Len(deliveries) <= MaxDeliveries
    /\ log \in Seq(LogRows)
    /\ \A d \in DOMAIN deliveries : OnLadder(deliveries[d])
    /\ RowsAreAttempts
    /\ Len(log) <= LogLimit + Cardinality(Trimming)

LEMMA TrimmingFinite ==
  ASSUME deliveries \in Seq(DeliveryRows)
  PROVE  /\ IsFiniteSet(Trimming) /\ Cardinality(Trimming) \in Nat
         /\ DOMAIN deliveries = 1..Len(deliveries) /\ Len(deliveries) \in Nat
<1>1. DOMAIN deliveries = 1..Len(deliveries) /\ Len(deliveries) \in Nat
  OBVIOUS
<1>2. IsFiniteSet(1..Len(deliveries))
  BY <1>1, FS_Interval
<1>3. Trimming \subseteq 1..Len(deliveries)
  BY <1>1 DEF Trimming
<1> QED
  BY <1>1, <1>2, <1>3, FS_Subset, FS_CardinalityType

LEMMA RowTypes ==
  ASSUME deliveries \in Seq(DeliveryRows), NEW d \in DOMAIN deliveries
  PROVE  /\ deliveries[d] \in DeliveryRows
         /\ deliveries[d].hook \in Hooks /\ deliveries[d].ok \in BOOLEAN
         /\ deliveries[d].got \in Nat /\ deliveries[d].tried \in Seq(BOOLEAN)
         /\ Len(deliveries[d].tried) \in Nat
         /\ DOMAIN deliveries[d].tried = 1..Len(deliveries[d].tried)
<1>1. deliveries[d] \in DeliveryRows
  OBVIOUS
<1>2. /\ deliveries[d].hook \in Hooks /\ deliveries[d].ok \in BOOLEAN
      /\ deliveries[d].got \in Nat /\ deliveries[d].tried \in Seq(BOOLEAN)
  BY <1>1 DEF DeliveryRows
<1> QED
  BY <1>1, <1>2

\* What the steps of a goroutine write is a row again.
LEMMA RowWrites ==
  ASSUME NEW e \in DeliveryRows, NEW pc \in HookSteps, NEW ok \in BOOLEAN, NEW got \in Nat,
         NEW tried \in Seq(BOOLEAN)
  PROVE  /\ [e EXCEPT !.pc = pc] \in DeliveryRows
         /\ [e EXCEPT !.pc = pc, !.ok = ok, !.got = got] \in DeliveryRows
         /\ [e EXCEPT !.pc = pc, !.tried = tried] \in DeliveryRows
  BY DEF DeliveryRows

\* No attempt is recorded, none is forgotten.
LEMMA AttemptsStay ==
  ASSUME RowsAreAttempts, UNCHANGED log, DOMAIN deliveries' = DOMAIN deliveries,
         \A b \in DOMAIN deliveries : deliveries'[b].tried = deliveries[b].tried
  PROVE  RowsAreAttempts'
<1>1. \A r : IsAttempt(r, deliveries) => IsAttempt(r, deliveries')
  BY DEF IsAttempt
<1> QED
  BY <1>1 DEF RowsAreAttempts

LEMMA HooksInitInv == HooksInit => HooksInv
<1> SUFFICES ASSUME HooksInit PROVE HooksInv
  OBVIOUS
<1>1. /\ deliveries = <<>> /\ log = <<>> /\ hooks = {} /\ firing = NotFiring
  BY DEF HooksInit
<1>2. Trimming = {} /\ Cardinality({}) = 0
  BY <1>1, FS_EmptySet DEF Trimming
<1> QED
  BY <1>1, <1>2, HooksAssumption DEF HooksInv, NotFiring, RowsAreAttempts, NoneTwice

\* A goroutine more changes nothing that was accounted for.
LEMMA DeliveryStarts ==
  ASSUME HooksInv, NEW h \in Hooks, Len(deliveries) < MaxDeliveries,
         deliveries' = Append(deliveries, Delivery(h)), UNCHANGED log
  PROVE  /\ deliveries' \in Seq(DeliveryRows) /\ Len(deliveries') <= MaxDeliveries
         /\ \A d \in DOMAIN deliveries' : OnLadder(deliveries'[d])
         /\ RowsAreAttempts'
         /\ Len(log') <= LogLimit + Cardinality(Trimming')
<1>1. Delivery(h) \in DeliveryRows
  <2>1. <<>> \in Seq(BOOLEAN)
    OBVIOUS
  <2> QED
    BY <2>1 DEF Delivery, DeliveryRows, HookSteps
<1>2. /\ deliveries' \in Seq(DeliveryRows)
      /\ Len(deliveries') = Len(deliveries) + 1
      /\ \A d \in DOMAIN deliveries : deliveries'[d] = deliveries[d]
      /\ DOMAIN deliveries \subseteq DOMAIN deliveries'
      /\ deliveries'[Len(deliveries) + 1] = Delivery(h)
      /\ DOMAIN deliveries' = DOMAIN deliveries \cup {Len(deliveries) + 1}
      /\ Len(deliveries) \in Nat /\ MaxDeliveries \in Nat
  BY <1>1, HooksAssumption DEF HooksInv
<1>3. Trimming' = Trimming
  BY <1>2 DEF Trimming, Delivery
<1>4. RowsAreAttempts'
  <2>1. \A r : IsAttempt(r, deliveries) => IsAttempt(r, deliveries')
    BY <1>2 DEF IsAttempt
  <2> QED
    BY <2>1 DEF HooksInv, RowsAreAttempts
<1>5. ASSUME NEW d \in DOMAIN deliveries' PROVE OnLadder(deliveries'[d])
  <2>1. CASE d \in DOMAIN deliveries
    BY <1>2, <2>1 DEF HooksInv
  <2>2. CASE d = Len(deliveries) + 1
    <3>1. /\ deliveries'[d].tried = <<>> /\ deliveries'[d].got = 0
          /\ deliveries'[d].pc = "try"
      BY <1>2, <2>2 DEF Delivery
    <3>2. Len(<<>>) = 0 /\ DOMAIN <<>> = {} /\ Attempts \in Nat \ {0}
      BY HooksAssumption
    <3> HIDE DEF OnLadder
    <3> QED
      BY <3>1, <3>2 DEF OnLadder
  <2> QED
    BY <1>2, <2>1, <2>2
<1> QED
  BY <1>2, <1>3, <1>4, <1>5 DEF HooksInv

LEMMA HooksNextInv == HooksInv /\ [HooksNext]_hookVars => HooksInv'
<1> SUFFICES ASSUME HooksInv, [HooksNext]_hookVars PROVE HooksInv'
  OBVIOUS
<1>0. /\ Attempts \in Nat \ {0} /\ LogLimit \in Nat \ {0} /\ MaxDeliveries \in Nat
      /\ deliveries \in Seq(DeliveryRows) /\ log \in Seq(LogRows)
      /\ Len(deliveries) \in Nat /\ Len(log) \in Nat
      /\ DOMAIN deliveries = 1..Len(deliveries) /\ DOMAIN log = 1..Len(log)
      /\ IsFiniteSet(Trimming) /\ Cardinality(Trimming) \in Nat
  BY HooksAssumption, TrimmingFinite DEF HooksInv
<1>1. ASSUME NEW h \in Hooks, createWebhook(h) \/ deleteWebhook(h) PROVE HooksInv'
  <2>1. hooks' \subseteq Hooks /\ UNCHANGED <<firing, deliveries, log>>
    BY <1>1 DEF createWebhook, deleteWebhook, HooksInv
  <2> QED
    BY <2>1 DEF HooksInv, RowsAreAttempts, Trimming
<1>2. ASSUME NEW matching \in SUBSET Hooks, FireHooks(matching) PROVE HooksInv'
  BY <1>2 DEF FireHooks, HooksInv, RowsAreAttempts, Trimming
<1>3. CASE FireDone
  BY <1>3 DEF FireDone, NotFiring, HooksInv, RowsAreAttempts, Trimming
<1>4. ASSUME NEW h \in Hooks, FireOne(h) PROVE HooksInv'
  <2>1. firing' \in [on : BOOLEAN, left : SUBSET Hooks]
    BY <1>4 DEF FireOne, HooksInv
  <2> QED
    BY <1>4, <2>1, DeliveryStarts DEF FireOne, HooksInv
<1>5. ASSUME NEW h \in Hooks, Redeliver(h) PROVE HooksInv'
  BY <1>5, DeliveryStarts DEF Redeliver, HooksInv
<1>6. ASSUME NEW i \in DOMAIN log, Replay(i) PROVE HooksInv'
  <2>1. deliveries[log[i].of].hook \in Hooks
    BY <1>0, RowTypes DEF HooksInv, RowsAreAttempts, IsAttempt
  <2> QED
    BY <1>5, <1>6, <2>1 DEF Replay
<1>7. ASSUME NEW d \in DOMAIN deliveries, Try(d) PROVE HooksInv'
  <2>1. PICK took \in BOOLEAN, answered \in BOOLEAN :
          /\ answered => took
          /\ deliveries' = [deliveries EXCEPT ![d] = [deliveries[d] EXCEPT
               !.pc = "log", !.ok = answered, !.got = deliveries[d].got + (IF took THEN 1 ELSE 0)]]
    BY <1>7 DEF Try, HookSet
  <2>2. deliveries[d].pc = "try" /\ UNCHANGED <<hooks, firing, log>> /\ OnLadder(deliveries[d])
    BY <1>7 DEF Try, HookAt, HooksInv
  <2> DEFINE e == deliveries[d]  g == e.got + (IF took THEN 1 ELSE 0)
             f == [e EXCEPT !.pc = "log", !.ok = answered, !.got = g]
  <2>3. e \in DeliveryRows /\ e.got \in Nat /\ e.tried \in Seq(BOOLEAN) /\ Len(e.tried) \in Nat
    BY <1>0, RowTypes
  <2>4. /\ f \in DeliveryRows
        /\ f.pc = "log" /\ f.ok = answered /\ f.tried = e.tried /\ f.got = g /\ g \in Nat
        /\ g <= e.got + 1 /\ g >= e.got /\ (answered => g > 0)
    <3>1. g \in Nat /\ g <= e.got + 1 /\ g >= e.got /\ (answered => g > 0)
      BY <2>1, <2>3
    <3> HIDE DEF g, e
    <3>2. f \in DeliveryRows
      BY <2>3, <3>1, RowWrites DEF HookSteps
    <3>3. f.pc = "log" /\ f.ok = answered /\ f.tried = e.tried /\ f.got = g
      BY <2>3 DEF DeliveryRows
    <3> QED
      BY <3>1, <3>2, <3>3
  <2>5. /\ deliveries' \in Seq(DeliveryRows) /\ Len(deliveries') = Len(deliveries)
        /\ DOMAIN deliveries' = DOMAIN deliveries
        /\ deliveries'[d] = f
        /\ \A b \in DOMAIN deliveries : b # d => deliveries'[b] = deliveries[b]
    BY <1>0, <2>1, <2>4
  <2> HIDE DEF f, g
  <2>6. \A b \in DOMAIN deliveries' : OnLadder(deliveries'[b])
    <3>1. OnLadder(f)
      BY <1>0, <2>2, <2>3, <2>4 DEF OnLadder
    <3> QED
      BY <2>5, <3>1 DEF HooksInv
  <2>7. Trimming' = Trimming
    BY <2>2, <2>4, <2>5 DEF Trimming
  <2>8. RowsAreAttempts'
    BY <2>2, <2>4, <2>5, AttemptsStay DEF HooksInv
  <2> QED
    BY <2>2, <2>5, <2>6, <2>7, <2>8 DEF HooksInv
<1>8. ASSUME NEW d \in DOMAIN deliveries, LogAttempt(d) PROVE HooksInv'
  <2> DEFINE e == deliveries[d]
             f == [e EXCEPT !.pc = "trim", !.tried = Append(e.tried, e.ok)]
             n == Len(e.tried) + 1
  <2>1. PICK short \in BOOLEAN :
          log' = Append(log, [of |-> d, attempt |-> n, ok |-> e.ok, payload |-> n = 1 /\ short])
    BY <1>8 DEF LogAttempt, NextAttempt
  <2> DEFINE r == [of |-> d, attempt |-> n, ok |-> e.ok, payload |-> n = 1 /\ short]
  <2>2. /\ deliveries' = [deliveries EXCEPT ![d] = f]
        /\ e.pc = "log" /\ UNCHANGED <<hooks, firing>> /\ OnLadder(deliveries[d])
    BY <1>8 DEF LogAttempt, HookSet, HookAt, HooksInv
  <2>3. /\ e \in DeliveryRows /\ e.got \in Nat /\ e.tried \in Seq(BOOLEAN) /\ e.ok \in BOOLEAN
        /\ Len(e.tried) \in Nat /\ DOMAIN e.tried = 1..Len(e.tried)
    BY <1>0, RowTypes
  <2>4. /\ f \in DeliveryRows
        /\ f.pc = "trim" /\ f.ok = e.ok /\ f.got = e.got /\ f.tried = Append(e.tried, e.ok)
    <3>1. Append(e.tried, e.ok) \in Seq(BOOLEAN)
      BY <2>3
    <3> HIDE DEF e
    <3>2. f \in DeliveryRows
      BY <2>3, <3>1, RowWrites DEF HookSteps
    <3> QED
      BY <2>3, <3>2 DEF DeliveryRows
  <2>5. /\ Len(f.tried) = n /\ DOMAIN f.tried = 1..n /\ f.tried[n] = e.ok
        /\ \A i \in 1..Len(e.tried) : f.tried[i] = e.tried[i]
    BY <2>3, <2>4
  <2>6. /\ deliveries' \in Seq(DeliveryRows) /\ Len(deliveries') = Len(deliveries)
        /\ DOMAIN deliveries' = DOMAIN deliveries
        /\ deliveries'[d] = f
        /\ \A b \in DOMAIN deliveries : b # d => deliveries'[b] = deliveries[b]
    BY <1>0, <2>2, <2>4
  <2>7. r \in LogRows /\ r.of = d /\ r.attempt = n /\ r.ok = e.ok
    BY <1>0, <2>3 DEF LogRows
  <2> HIDE DEF f, r
  <2>8. /\ log' \in Seq(LogRows) /\ Len(log') = Len(log) + 1 /\ log'[Len(log) + 1] = r
        /\ DOMAIN log' = 1..Len(log) + 1
        /\ \A i \in 1..Len(log) : log'[i] = log[i]
    BY <1>0, <2>1, <2>7 DEF r
  <2>9. \A b \in DOMAIN deliveries' : OnLadder(deliveries'[b])
    <3>1. OnLadder(f)
      BY <1>0, <2>2, <2>3, <2>4, <2>5 DEF OnLadder
    <3> QED
      BY <2>6, <3>1 DEF HooksInv
  <2>10. RowsAreAttempts'
    <3>1. ASSUME NEW i \in 1..Len(log)
          PROVE  /\ IsAttempt(log[i], deliveries')
                 /\ log[i].of = d => log[i].attempt # n
      <4>1. IsAttempt(log[i], deliveries)
        BY <1>0 DEF HooksInv, RowsAreAttempts
      <4>2. CASE log[i].of = d
        <5>1. log[i].attempt \in 1..Len(e.tried) /\ log[i].ok = e.tried[log[i].attempt]
          BY <2>3, <4>1, <4>2 DEF IsAttempt
        <5>2. log[i].attempt \in DOMAIN f.tried /\ log[i].attempt # n
          BY <2>3, <2>5, <5>1
        <5>3. log[i].ok = f.tried[log[i].attempt]
          BY <2>5, <5>1
        <5> QED
          BY <2>6, <4>2, <5>2, <5>3 DEF IsAttempt
      <4> QED
        BY <2>6, <4>1, <4>2 DEF IsAttempt
    <3>2. IsAttempt(r, deliveries')
      BY <2>3, <2>5, <2>6, <2>7 DEF IsAttempt
    <3>3. NoneTwice(log)
      BY DEF HooksInv, RowsAreAttempts
    <3>4. /\ DOMAIN log' = 1..Len(log) \cup {Len(log) + 1} /\ Len(log) + 1 \notin 1..Len(log)
          /\ DOMAIN log = 1..Len(log)
      BY <1>0, <2>8
    <3>5. \A i \in DOMAIN log' : IsAttempt(log'[i], deliveries')
      BY <2>8, <3>1, <3>2, <3>4
    <3>6. NoneTwice(log')
      BY <2>7, <2>8, <3>1, <3>3, <3>4 DEF NoneTwice
    <3> QED
      BY <3>5, <3>6 DEF RowsAreAttempts
  <2>11. Trimming' = Trimming \cup {d} /\ d \notin Trimming
    BY <2>2, <2>4, <2>6 DEF Trimming
  <2>12. Cardinality(Trimming') = Cardinality(Trimming) + 1
    BY <1>0, <2>11, FS_AddElement
  <2>13. Len(log') <= LogLimit + Cardinality(Trimming')
    BY <1>0, <2>8, <2>12 DEF HooksInv
  <2> QED
    BY <2>2, <2>6, <2>8, <2>9, <2>10, <2>13 DEF HooksInv
<1>9. ASSUME NEW d \in DOMAIN deliveries, Trim(d) PROVE HooksInv'
  <2> DEFINE e == deliveries[d]
             pc == IF Retries(d) THEN "try" ELSE "over"
             f == [e EXCEPT !.pc = pc]
  <2>2. /\ deliveries' = [deliveries EXCEPT ![d] = f]
        /\ e.pc = "trim" /\ UNCHANGED <<hooks, firing>> /\ OnLadder(deliveries[d])
        /\ log' = IF Len(log) > LogLimit THEN SubSeq(log, Len(log) - LogLimit + 1, Len(log))
                  ELSE log
    BY <1>9 DEF Trim, HookSet, HookAt, HooksInv
  <2>3. /\ e \in DeliveryRows /\ e.got \in Nat /\ e.tried \in Seq(BOOLEAN) /\ e.ok \in BOOLEAN
        /\ Len(e.tried) \in Nat /\ DOMAIN e.tried = 1..Len(e.tried)
    BY <1>0, RowTypes
  <2>4. /\ f \in DeliveryRows
        /\ f.pc = pc /\ f.ok = e.ok /\ f.got = e.got /\ f.tried = e.tried
        /\ pc \in {"try", "over"}
    BY <2>3 DEF DeliveryRows, HookSteps
  <2>5. pc = "try" <=> ~e.ok /\ Len(e.tried) < Attempts
    BY DEF Retries
  <2>6. /\ deliveries' \in Seq(DeliveryRows) /\ Len(deliveries') = Len(deliveries)
        /\ DOMAIN deliveries' = DOMAIN deliveries
        /\ deliveries'[d] = f
        /\ \A b \in DOMAIN deliveries : b # d => deliveries'[b] = deliveries[b]
    BY <1>0, <2>2, <2>4
  <2> HIDE DEF f, pc
  <2>7. \A b \in DOMAIN deliveries' : OnLadder(deliveries'[b])
    <3>1. pc = "try" => OnLadder(f)
      BY <1>0, <2>2, <2>3, <2>4, <2>5 DEF OnLadder
    <3>2. ASSUME pc = "over" PROVE OnLadder(f)
      <4>1. OnLadder(e) /\ e.pc = "trim"
        BY <2>2
      <4> HIDE DEF e
      <4>2. e.ok \/ Len(e.tried) = Attempts
        BY <1>0, <2>3, <2>5, <3>2, <4>1 DEF OnLadder
      <4>3. e.ok => e.tried[Len(e.tried)]
        BY <4>1 DEF OnLadder
      <4>4. Len(e.tried) = Attempts \/ (e.tried[Len(e.tried)] /\ Len(e.tried) > 0)
        BY <4>1, <4>2, <4>3 DEF OnLadder
      <4> QED
        BY <2>3, <2>4, <3>2, <4>1, <4>4 DEF OnLadder
    <3> QED
      BY <2>4, <2>6, <3>1, <3>2 DEF HooksInv
  <2>8. Trimming' = Trimming \ {d} /\ d \in Trimming
    BY <2>2, <2>4, <2>6 DEF Trimming
  <2>9. Cardinality(Trimming') = Cardinality(Trimming) - 1 /\ Cardinality(Trimming') \in Nat
    BY <1>0, <2>8, FS_RemoveElement, FS_CardinalityType
  \* the rows that stay are rows there were
  <2>10. CASE Len(log) > LogLimit
    <3> DEFINE k == Len(log) - LogLimit
    <3>1. log' = SubSeq(log, k + 1, Len(log))
      BY <2>2, <2>10
    <3>2. /\ log' \in Seq(LogRows) /\ Len(log') = LogLimit /\ DOMAIN log' = 1..LogLimit
          /\ \A i \in 1..LogLimit : log'[i] = log[i + k] /\ i + k \in DOMAIN log
      <4>1. \A i \in k + 1..Len(log) : log[i] \in LogRows
        BY <1>0, <2>10
      <4>2. /\ log' \in Seq(LogRows)
            /\ Len(log') = IF k + 1 <= Len(log) THEN Len(log) - (k + 1) + 1 ELSE 0
            /\ \A i \in 1..Len(log) - (k + 1) + 1 : log'[i] = log[k + 1 + i - 1]
        <5>1. k + 1 \in Int /\ Len(log) \in Int
          BY <1>0
        <5> HIDE DEF k
        <5> QED
          BY <3>1, <4>1, <5>1, SubSeqProperties
      <4>3. Len(log) - (k + 1) + 1 = LogLimit /\ k + 1 <= Len(log)
        BY <1>0, <2>10
      <4>4. \A i \in 1..LogLimit : k + 1 + i - 1 = i + k /\ i + k \in 1..Len(log)
        BY <1>0, <2>10
      <4> HIDE DEF k
      <4> QED
        BY <1>0, <4>2, <4>3, <4>4, LenProperties
    <3>3. \A i, j \in 1..LogLimit : i # j => i + k # j + k
      BY <1>0, <3>1
    <3> HIDE DEF k
    <3>4. RowsAreAttempts'
      <4>1. \A b \in DOMAIN deliveries : deliveries'[b].tried = deliveries[b].tried
        BY <2>4, <2>6
      <4>2. \A r : IsAttempt(r, deliveries) => IsAttempt(r, deliveries')
        BY <2>6, <4>1 DEF IsAttempt
      <4>3. NoneTwice(log')
        BY <3>2, <3>3 DEF HooksInv, RowsAreAttempts, NoneTwice
      <4> QED
        BY <3>2, <4>2, <4>3 DEF HooksInv, RowsAreAttempts
    <3>5. Len(log') <= LogLimit + Cardinality(Trimming')
      BY <1>0, <2>9, <3>2
    <3> QED
      BY <2>2, <2>6, <2>7, <3>2, <3>4, <3>5 DEF HooksInv
  <2>11. CASE Len(log) <= LogLimit
    <3>1. log' = log
      BY <1>0, <2>2, <2>11
    <3>2. RowsAreAttempts'
      BY <2>4, <2>6, <3>1, AttemptsStay DEF HooksInv
    <3>3. Len(log') <= LogLimit + Cardinality(Trimming')
      BY <1>0, <2>9, <2>11, <3>1
    <3> QED
      BY <2>2, <2>6, <2>7, <3>1, <3>2, <3>3 DEF HooksInv
  <2> QED
    BY <1>0, <2>10, <2>11
<1>10. CASE HooksBoot
  <2>1. /\ DOMAIN deliveries' = DOMAIN deliveries
        /\ \A d \in DOMAIN deliveries : deliveries'[d] =
             IF deliveries[d].pc = "over" THEN deliveries[d]
             ELSE [deliveries[d] EXCEPT !.pc = "cut"]
        /\ UNCHANGED <<hooks, log>> /\ firing' = NotFiring
    BY <1>10 DEF HooksBoot, HookAt
  <2>2. \A d \in DOMAIN deliveries :
          /\ deliveries'[d] \in DeliveryRows
          /\ deliveries'[d].tried = deliveries[d].tried /\ deliveries'[d].got = deliveries[d].got
          /\ deliveries'[d].pc = IF deliveries[d].pc = "over" THEN "over" ELSE "cut"
    <3> SUFFICES ASSUME NEW d \in DOMAIN deliveries
                 PROVE  /\ deliveries'[d] \in DeliveryRows
                        /\ deliveries'[d].tried = deliveries[d].tried
                        /\ deliveries'[d].got = deliveries[d].got
                        /\ deliveries'[d].pc = IF deliveries[d].pc = "over" THEN "over" ELSE "cut"
      OBVIOUS
    <3>1. deliveries[d] \in DeliveryRows
      BY <1>0
    <3> QED
      BY <2>1, <3>1 DEF DeliveryRows, HookSteps
  <2>3. deliveries' \in Seq(DeliveryRows) /\ Len(deliveries') = Len(deliveries)
    <3>1. deliveries' = [d \in 1..Len(deliveries) |-> deliveries'[d]]
      BY <1>0, <1>10 DEF HooksBoot
    <3> QED
      BY <1>0, <2>2, <3>1
  <2>4. \A d \in DOMAIN deliveries' : OnLadder(deliveries'[d])
    BY <2>1, <2>2 DEF HooksInv, OnLadder
  <2>5. RowsAreAttempts'
    BY <2>1, <2>2, AttemptsStay DEF HooksInv
  <2>6. Trimming \subseteq Trimming'
    BY <2>1, <2>2 DEF Trimming
  <2>7. Cardinality(Trimming) <= Cardinality(Trimming') /\ Cardinality(Trimming') \in Nat
    <3>1. IsFiniteSet(Trimming')
      <4>1. Trimming' \subseteq 1..Len(deliveries)
        BY <1>0, <2>1 DEF Trimming
      <4>2. IsFiniteSet(1..Len(deliveries))
        BY <1>0, FS_Interval
      <4> QED
        BY <4>1, <4>2, FS_Subset
    <3> QED
      BY <2>6, <3>1, FS_Subset, FS_CardinalityType
  <2>8. Len(log') <= LogLimit + Cardinality(Trimming')
    BY <1>0, <2>1, <2>7 DEF HooksInv
  <2>9. NotFiring \in [on : BOOLEAN, left : SUBSET Hooks]
    BY DEF NotFiring
  <2> QED
    BY <2>1, <2>3, <2>4, <2>5, <2>8, <2>9 DEF HooksInv
<1>11. CASE UNCHANGED hookVars
  BY <1>11 DEF hookVars, HooksInv, RowsAreAttempts, Trimming
<1> QED
  BY <1>1, <1>2, <1>3, <1>4, <1>5, <1>6, <1>7, <1>8, <1>9, <1>10, <1>11 DEF HooksNext

\* Every delivery is recorded attempt by attempt until the target has it or the
\* ladder ends, each attempt once, in a log that stays within its limit
\* (webhooks.go).
THEOREM DeliveriesStayAccounted == HooksSpec => []DeliveriesAccounted
<1>1. ASSUME HooksInv PROVE DeliveriesAccounted
  <2>1. ASSUME NEW d \in DOMAIN deliveries
        PROVE  LET tried == deliveries[d].tried
                   said  == {i \in DOMAIN tried : tried[i]}
               IN /\ said \subseteq {Len(tried)}
                  /\ Cardinality(said) <= deliveries[d].got
                  /\ deliveries[d].pc = "over" => said # {} \/ Len(tried) = Attempts
    <3> DEFINE tried == deliveries[d].tried
               said == {i \in DOMAIN tried : tried[i]}
    <3>1. OnLadder(deliveries[d])
      BY <1>1 DEF HooksInv
    <3>2. deliveries[d].got \in Nat /\ tried \in Seq(BOOLEAN) /\ DOMAIN tried = 1..Len(tried)
      BY <1>1, RowTypes DEF HooksInv
    <3>3. said \subseteq {Len(tried)} /\ (said # {} => deliveries[d].got > 0)
      BY <3>1 DEF OnLadder
    <3>4. said = {} \/ said = {Len(tried)}
      BY <3>3
    <3>5. Cardinality({}) = 0 /\ Cardinality({Len(tried)}) = 1
      BY FS_EmptySet, FS_Singleton
    <3>6. deliveries[d].pc = "over" => said # {} \/ Len(tried) = Attempts
      BY <3>1, <3>2 DEF OnLadder
    <3>7. Cardinality(said) <= deliveries[d].got
      <4> HIDE DEF said
      <4>1. CASE said = {}
        BY <3>2, <3>5, <4>1
      <4>2. CASE said = {Len(tried)}
        BY <3>2, <3>3, <3>5, <4>2
      <4> QED
        BY <3>4, <4>1, <4>2
    <3> QED
      BY <3>3, <3>6, <3>7 DEF said
  <2> QED
    BY <1>1, <2>1
    DEF DeliveriesAccounted, HooksInv, RowsAreAttempts, IsAttempt, NoneTwice, Trimming
<1> QED
  BY <1>1, HooksInitInv, HooksNextInv, PTL DEF HooksSpec

-----------------------------------------------------------------------------
(* Edge functions.                                                         *)

\* What is left of a sequence when one position goes (RemoveAt).
LEMMA RemoveAtProperties ==
  ASSUME NEW S, NEW s \in Seq(S), NEW k \in 1..Len(s)
  PROVE  /\ RemoveAt(s, k) \in Seq(S)
         /\ Len(RemoveAt(s, k)) = Len(s) - 1
         /\ \A i \in 1..Len(s) - 1 : RemoveAt(s, k)[i] = s[IF i < k THEN i ELSE i + 1]
<1> DEFINE a == SubSeq(s, 1, k - 1)  b == SubSeq(s, k + 1, Len(s))
<1>0. Len(s) \in Nat /\ k \in Nat /\ k >= 1 /\ k <= Len(s) /\ DOMAIN s = 1..Len(s)
  OBVIOUS
<1>1. /\ a \in Seq(S) /\ Len(a) = k - 1
      /\ \A i \in 1..k - 1 : a[i] = s[i]
  <2>1. \A i \in 1..k - 1 : s[i] \in S
    BY <1>0
  <2>2. /\ a \in Seq(S) /\ Len(a) = IF 1 <= k - 1 THEN k - 1 - 1 + 1 ELSE 0
        /\ \A i \in 1..k - 1 - 1 + 1 : a[i] = s[1 + i - 1]
    <3>1. 1 \in Int /\ k - 1 \in Int
      BY <1>0
    <3> QED
      BY <2>1, <3>1, SubSeqProperties
  <2> HIDE DEF a
  <2> QED
    BY <1>0, <2>2
<1>2. /\ b \in Seq(S) /\ Len(b) = Len(s) - k
      /\ \A i \in 1..Len(s) - k : b[i] = s[k + i]
  <2>1. \A i \in k + 1..Len(s) : s[i] \in S
    BY <1>0
  <2>2. /\ b \in Seq(S) /\ Len(b) = IF k + 1 <= Len(s) THEN Len(s) - (k + 1) + 1 ELSE 0
        /\ \A i \in 1..Len(s) - (k + 1) + 1 : b[i] = s[k + 1 + i - 1]
    <3>1. k + 1 \in Int /\ Len(s) \in Int
      BY <1>0
    <3> QED
      BY <2>1, <3>1, SubSeqProperties
  <2> HIDE DEF b
  <2>3. \A i \in 1..Len(s) - k : i \in 1..Len(s) - (k + 1) + 1 /\ k + 1 + i - 1 = k + i
    BY <1>0
  <2>4. Len(b) = Len(s) - k
    <3>1. CASE k + 1 <= Len(s)
      <4>1. Len(b) = Len(s) - (k + 1) + 1
        BY <2>2, <3>1
      <4> QED
        BY <1>0, <4>1
    <3>2. CASE k = Len(s)
      BY <1>0, <2>2, <3>2
    <3>3. k <= Len(s) /\ k \in Nat /\ Len(s) \in Nat
      BY <1>0
    <3>4. k + 1 <= Len(s) \/ k = Len(s)
      BY ONLY <3>3
    <3> QED
      BY <3>1, <3>2, <3>4
  <2>5. ASSUME NEW i \in 1..Len(s) - k PROVE b[i] = s[k + i]
    <3>1. b[i] = s[k + 1 + i - 1]
      BY <2>2, <2>3
    <3> QED
      BY <2>3, <3>1
  <2> QED
    BY <2>2, <2>4, <2>5
<1> HIDE DEF a, b
<1>3. /\ a \o b \in Seq(S) /\ Len(a \o b) = Len(a) + Len(b)
      /\ \A i \in 1..Len(a) + Len(b) : (a \o b)[i] = IF i <= Len(a) THEN a[i] ELSE b[i - Len(a)]
  BY <1>1, <1>2, ConcatProperties
<1>4. Len(a) + Len(b) = Len(s) - 1
  BY <1>0, <1>1, <1>2
<1>5. ASSUME NEW i \in 1..Len(s) - 1
      PROVE  (a \o b)[i] = s[IF i < k THEN i ELSE i + 1]
  <2>1. CASE i < k
    <3>1. i \in 1..Len(a) + Len(b) /\ i <= Len(a)
      BY <1>0, <1>1, <1>4, <2>1
    <3> QED
      BY <1>0, <1>1, <1>3, <2>1, <3>1
  <2>2. CASE i >= k
    <3>1. (a \o b)[i] = b[i - (k - 1)]
      BY <1>0, <1>1, <1>3, <1>4, <2>2
    <3>2. i - (k - 1) \in 1..Len(s) - k /\ k + (i - (k - 1)) = i + 1
      BY <1>0, <2>2
    <3>3. b[i - (k - 1)] = s[i + 1]
      BY <1>2, <3>2
    <3> QED
      BY <1>0, <2>2, <3>1, <3>3
  <2>3. i < k \/ i >= k
    BY <1>0
  <2> QED
    BY <2>1, <2>2, <2>3
<1>6. RemoveAt(s, k) = a \o b
  BY DEF RemoveAt, a, b
<1> QED
  BY <1>3, <1>4, <1>5, <1>6

\* The warm processes are of different projects, and none loaded a file older
\* than the one it is known by.
WarmOnes(procs) ==
    /\ procs \in Seq(Procs)
    /\ \A i, j \in DOMAIN procs : procs[i].slug = procs[j].slug => i = j
    /\ \A i \in DOMAIN procs : procs[i].mtime <= procs[i].code

LEMMA WithoutKeeps ==
  ASSUME WarmOnes(warm), NEW s \in Tenants
  PROVE  /\ WarmOnes(Without(s)) /\ Len(Without(s)) <= Len(warm)
         /\ \A i \in DOMAIN Without(s) : Without(s)[i].slug # s
         /\ Of(s) # {} => Len(Without(s)) = Len(warm) - 1
<1>0. warm \in Seq(Procs) /\ DOMAIN warm = 1..Len(warm) /\ Len(warm) \in Nat
  BY DEF WarmOnes
<1>1. CASE Of(s) = {}
  <2>1. \A i \in DOMAIN warm : warm[i].slug # s
    BY <1>1 DEF Of, ToSet
  <2> QED
    BY <1>0, <1>1, <2>1 DEF Without
<1>2. CASE Of(s) # {}
  <2> DEFINE k == CHOOSE i \in DOMAIN warm : warm[i].slug = s
             w == RemoveAt(warm, k)
  <2>1. \E i \in DOMAIN warm : warm[i].slug = s
    BY <1>2 DEF Of, ToSet
  <2>2. k \in 1..Len(warm) /\ warm[k].slug = s
    BY <1>0, <2>1
  <2>3. Without(s) = w
    BY <1>2 DEF Without
  <2> HIDE DEF k
  <2>4. /\ w \in Seq(Procs) /\ Len(w) = Len(warm) - 1
        /\ \A i \in 1..Len(warm) - 1 : w[i] = warm[IF i < k THEN i ELSE i + 1]
    BY <1>0, <2>2, RemoveAtProperties
  <2> HIDE DEF w
  <2> DEFINE at(i) == IF i < k THEN i ELSE i + 1
  <2>5. /\ DOMAIN w = 1..Len(warm) - 1
        /\ \A i \in DOMAIN w : at(i) \in DOMAIN warm /\ at(i) # k /\ w[i] = warm[at(i)]
        /\ \A i, j \in DOMAIN w : at(i) = at(j) => i = j
    BY <1>0, <2>2, <2>4
  <2> HIDE DEF at
  <2>6. WarmOnes(w) /\ \A i \in DOMAIN w : w[i].slug # s
    BY <1>0, <2>2, <2>4, <2>5 DEF WarmOnes
  <2> QED
    BY <1>0, <2>3, <2>4, <2>6
<1> QED
  BY <1>1, <1>2

LEMMA EvictKeeps ==
  ASSUME NEW procs, WarmOnes(procs)
  PROVE  /\ WarmOnes(Evict(procs)) /\ Len(Evict(procs)) + 1 <= WarmMax
         /\ \A i \in DOMAIN Evict(procs) : \E j \in DOMAIN procs : Evict(procs)[i] = procs[j]
<1>0. /\ procs \in Seq(Procs) /\ DOMAIN procs = 1..Len(procs) /\ Len(procs) \in Nat
      /\ WarmMax \in Nat \ {0}
  BY EdgeAssumption DEF WarmOnes
<1>1. CASE Len(procs) < WarmMax
  BY <1>0, <1>1 DEF Evict
<1>2. CASE Len(procs) >= WarmMax
  <2> DEFINE k == Len(procs) - WarmMax + 2
             w == SubSeq(procs, k, Len(procs))
  <2>1. Evict(procs) = w
    BY <1>0, <1>2 DEF Evict
  <2>2. k \in Int /\ Len(procs) \in Int /\ k >= 2 /\ k <= Len(procs) + 1
    BY <1>0, <1>2
  <2>3. \A i \in k..Len(procs) : procs[i] \in Procs
    BY <1>0, <2>2
  <2>4. Len(procs) - k + 1 = WarmMax - 1
    BY <1>0
  <2> HIDE DEF k
  <2>5. /\ w \in Seq(Procs)
        /\ Len(w) = IF k <= Len(procs) THEN Len(procs) - k + 1 ELSE 0
        /\ \A i \in 1..Len(procs) - k + 1 : w[i] = procs[k + i - 1]
    BY <2>2, <2>3, SubSeqProperties
  <2> HIDE DEF w
  <2>6. /\ Len(w) = WarmMax - 1 /\ DOMAIN w = 1..WarmMax - 1
        /\ \A i \in DOMAIN w : k + i - 1 \in DOMAIN procs /\ w[i] = procs[k + i - 1]
        /\ \A i, j \in DOMAIN w : k + i - 1 = k + j - 1 => i = j
    <3>1. Len(w) = WarmMax - 1
      BY <1>0, <2>2, <2>4, <2>5
    <3>2. DOMAIN w = 1..WarmMax - 1
      BY <2>5, <3>1, LenProperties
    <3>3. \A i \in 1..WarmMax - 1 : k + i - 1 \in DOMAIN procs
      BY <1>0, <2>2, <2>4
    <3>4. \A i, j \in 1..WarmMax - 1 : k + i - 1 = k + j - 1 => i = j
      BY <1>0, <2>2
    <3> QED
      BY <2>4, <2>5, <3>1, <3>2, <3>3, <3>4
  <2>7. WarmOnes(w)
    BY <2>5, <2>6 DEF WarmOnes
  <2> QED
    BY <1>0, <2>1, <2>6, <2>7
<1> QED
  BY <1>0, <1>1, <1>2

Seated(s) == {c \in Holding(Running \cup {"slot"}) : call[c].slug = s}

\* The counters count: each slot that is taken is a request's.
SlotsCounted ==
    /\ slotsHeld = Cardinality(Holding(Running)) /\ slotsHeld <= cap
    /\ \A s \in Tenants : slugHeld[s] = Cardinality(Seated(s)) /\ slugHeld[s] <= SlugSlots

\* Room for the process that starts was made before it started.
WarmCounted ==
    /\ WarmOnes(warm)
    /\ Len(warm) + (IF starting = NobodyStarts THEN 0 ELSE 1) <= WarmMax
    /\ \A c \in EdgeClients : On(c, "starting") =>
         starting = c /\ \A i \in DOMAIN warm : warm[i].slug # call[c].slug

\* What a request has read is not older than what there was when it came.
ReadFresh(k) ==
    /\ k.sawFile <= deploys[k.slug] /\ k.sawEnv <= secrets[k.slug]
    /\ k.pc \notin {"slug", "slot", "secrets"} => k.sawEnv <= k.env
    /\ k.pc \in {"warm", "starting"} => k.sawFile <= k.stat /\ k.stat <= deploys[k.slug]
    /\ k.pc = "served" => /\ k.code # 0 => k.code >= k.sawFile
                          /\ k.given >= k.sawEnv

EdgeInv ==
    /\ cap \in EdgeSlots
    /\ deploys \in [Tenants -> Versions] /\ secrets \in [Tenants -> SecretVersions]
    /\ file \in [Tenants -> Versions] /\ \A s \in Tenants : file[s] \in {0, deploys[s]}
    /\ slugHeld \in [Tenants -> Nat] /\ slotsHeld \in Nat
    /\ starting \in EdgeClients \cup {NobodyStarts}
    /\ call \in [EdgeClients -> Calls \cup {NoCall}]
    /\ SlotsCounted /\ WarmCounted
    /\ \A c \in EdgeClients : call[c] # NoCall => ReadFresh(call[c])

CallSteps == {"slug", "slot", "secrets", "stat", "warm", "starting", "alone", "served"}

LEMMA CallTypes ==
  ASSUME NEW k \in Calls
  PROVE  /\ k # NoCall /\ k.pc \in CallSteps /\ k.slug \in Tenants
         /\ k.sawFile \in Versions /\ k.stat \in Versions /\ k.code \in Versions
         /\ k.sawEnv \in SecretVersions /\ k.env \in SecretVersions /\ k.given \in SecretVersions
<1>1. /\ k.pc \in CallSteps /\ k.slug \in Tenants
      /\ k.sawFile \in Versions /\ k.stat \in Versions /\ k.code \in Versions
      /\ k.sawEnv \in SecretVersions /\ k.env \in SecretVersions /\ k.given \in SecretVersions
  BY DEF Calls, CallSteps
<1>2. NoCall.pc = "idle"
  BY DEF NoCall
<1> QED
  BY <1>1, <1>2 DEF CallSteps

\* What the steps of a request write is a request again, of the same project.
LEMMA CallMoves ==
  ASSUME NEW k \in Calls, NEW pc \in CallSteps,
         NEW n, n = [k EXCEPT !.pc = pc]
  PROVE  /\ n \in Calls /\ n # NoCall
         /\ n.pc = pc /\ n.slug = k.slug /\ n.sawFile = k.sawFile /\ n.sawEnv = k.sawEnv
         /\ n.env = k.env /\ n.stat = k.stat
<1>1. /\ n \in Calls
      /\ n.pc = pc /\ n.slug = k.slug /\ n.sawFile = k.sawFile /\ n.sawEnv = k.sawEnv
      /\ n.env = k.env /\ n.stat = k.stat
  BY DEF Calls, CallSteps
<1> QED
  BY <1>1, CallTypes

LEMMA EdgeNumbers ==
  /\ Versions \subseteq Nat /\ SecretVersions \subseteq Nat /\ 0 \in Versions /\ 0 \in SecretVersions
  /\ \A n \in EdgeSlots : n \in Nat /\ n > 0
  /\ WarmMax \in Nat /\ WarmMax > 0
  BY EdgeAssumption DEF Versions, SecretVersions

\* The requests that hold something are finitely many.
LEMMA HoldingFinite ==
  ASSUME NEW hs, hs \subseteq EdgeClients
  PROVE  IsFiniteSet(hs) /\ Cardinality(hs) \in Nat
  BY EdgeAssumption, FS_Subset, FS_CardinalityType

LEMMA EdgeInitInv == EdgeInit => EdgeInv
<1> SUFFICES ASSUME EdgeInit PROVE EdgeInv
  OBVIOUS
<1>1. /\ cap \in EdgeSlots /\ cap \in Nat /\ cap > 0 /\ warm = <<>> /\ starting = NobodyStarts
      /\ call = [c \in EdgeClients |-> NoCall]
      /\ slugHeld = [s \in Tenants |-> 0] /\ slotsHeld = 0
  BY EdgeNumbers DEF EdgeInit
<1>2. Holding(Running) = {} /\ Holding(Running \cup {"slot"}) = {} /\ Cardinality({}) = 0
  BY <1>1, FS_EmptySet DEF Holding
<1>3. \A s \in Tenants : {c \in Holding(Running \cup {"slot"}) : call[c].slug = s} = {}
  BY <1>2
<1>4. SlugSlots \in Nat /\ SlugSlots > 0
  BY <1>1 DEF SlugSlots
<1>5. SlotsCounted
  <2>1. slotsHeld = Cardinality(Holding(Running)) /\ slotsHeld <= cap
    BY <1>1, <1>2
  <2>2. ASSUME NEW s \in Tenants
        PROVE  slugHeld[s] = Cardinality(Seated(s)) /\ slugHeld[s] <= SlugSlots
    <3>1. Seated(s) = {}
      BY <1>3 DEF Seated
    <3> QED
      BY <1>1, <1>2, <1>4, <3>1
  <2> QED
    BY <2>1, <2>2 DEF SlotsCounted
<1>6. WarmCounted
  BY <1>1, EdgeNumbers DEF WarmCounted, WarmOnes, On
<1> QED
  BY <1>1, <1>5, <1>6, EdgeNumbers DEF EdgeInit, EdgeInv

Sits(k, s) == k # NoCall /\ k.pc \in Running \cup {"slot"} /\ k.slug = s
IsRunning(k) == k # NoCall /\ k.pc \in Running

\* A step of one request moves nobody else.
LEMMA OneMoves ==
  ASSUME EdgeInv, NEW c \in EdgeClients, NEW k \in Calls \cup {NoCall},
         call' = [call EXCEPT ![c] = k]
  PROVE  /\ call' \in [EdgeClients -> Calls \cup {NoCall}]
         /\ call'[c] = k /\ \A d \in EdgeClients \ {c} : call'[d] = call[d]
         /\ IsRunning(k) => Holding(Running)' = Holding(Running) \cup {c}
         /\ ~IsRunning(k) => Holding(Running)' = Holding(Running) \ {c}
         /\ c \in Holding(Running) <=> IsRunning(call[c])
         /\ \A s \in Tenants :
              /\ Sits(k, s) => Seated(s)' = Seated(s) \cup {c}
              /\ ~Sits(k, s) => Seated(s)' = Seated(s) \ {c}
              /\ c \in Seated(s) <=> Sits(call[c], s)
<1>1. /\ call' \in [EdgeClients -> Calls \cup {NoCall}]
      /\ call'[c] = k /\ \A d \in EdgeClients \ {c} : call'[d] = call[d]
  BY DEF EdgeInv
<1>2. /\ IsRunning(k) => Holding(Running)' = Holding(Running) \cup {c}
      /\ ~IsRunning(k) => Holding(Running)' = Holding(Running) \ {c}
  BY <1>1 DEF Holding, IsRunning
<1>3. ASSUME NEW s \in Tenants
      PROVE  /\ Sits(k, s) => Seated(s)' = Seated(s) \cup {c}
             /\ ~Sits(k, s) => Seated(s)' = Seated(s) \ {c}
  BY <1>1 DEF Holding, Seated, Sits
<1>4. /\ c \in Holding(Running) <=> IsRunning(call[c])
      /\ \A s \in Tenants : c \in Seated(s) <=> Sits(call[c], s)
  BY DEF Holding, Seated, Sits, IsRunning
<1> QED
  BY <1>1, <1>2, <1>3, <1>4

\* Who keeps what it holds leaves the counters right.
LEMMA SlotsStay ==
  ASSUME EdgeInv, NEW c \in EdgeClients, NEW k \in Calls \cup {NoCall},
         call' = [call EXCEPT ![c] = k], UNCHANGED <<cap, slugHeld, slotsHeld>>,
         IsRunning(k) <=> IsRunning(call[c]), \A s \in Tenants : Sits(k, s) <=> Sits(call[c], s)
  PROVE  SlotsCounted'
<1>0. /\ IsRunning(k) => Holding(Running)' = Holding(Running) \cup {c}
      /\ ~IsRunning(k) => Holding(Running)' = Holding(Running) \ {c}
      /\ c \in Holding(Running) <=> IsRunning(call[c])
      /\ \A s \in Tenants :
           /\ Sits(k, s) => Seated(s)' = Seated(s) \cup {c}
           /\ ~Sits(k, s) => Seated(s)' = Seated(s) \ {c}
           /\ c \in Seated(s) <=> Sits(call[c], s)
  BY OneMoves
<1>1. Holding(Running)' = Holding(Running)
  BY <1>0
<1>2. \A s \in Tenants : Seated(s)' = Seated(s)
  BY <1>0
<1>3. SlugSlots' = SlugSlots
  BY DEF SlugSlots
<1> QED
  BY <1>1, <1>2, <1>3 DEF EdgeInv, SlotsCounted

LEMMA WarmStays ==
  ASSUME EdgeInv, NEW c \in EdgeClients, NEW k \in Calls \cup {NoCall},
         call' = [call EXCEPT ![c] = k], UNCHANGED <<warm, starting>>,
         k = NoCall \/ k.pc # "starting"
  PROVE  WarmCounted'
<1>1. \A d \in EdgeClients : On(d, "starting")' => On(d, "starting") /\ call'[d] = call[d]
  BY OneMoves DEF On
<1> QED
  BY <1>1 DEF EdgeInv, WarmCounted

LEMMA FreshStays ==
  ASSUME EdgeInv, NEW c \in EdgeClients, NEW k \in Calls \cup {NoCall},
         call' = [call EXCEPT ![c] = k], UNCHANGED <<deploys, secrets>>,
         k = NoCall \/ ReadFresh(k)
  PROVE  \A d \in EdgeClients : call'[d] # NoCall => ReadFresh(call[d])'
<1> SUFFICES ASSUME NEW d \in EdgeClients, call'[d] # NoCall PROVE ReadFresh(call[d])'
  OBVIOUS
<1>1. ReadFresh(call'[d])
  BY OneMoves DEF EdgeInv
<1> QED
  BY <1>1 DEF ReadFresh

LEMMA OnCall ==
  ASSUME EdgeInv, NEW c \in EdgeClients, NEW pc \in CallSteps, On(c, pc)
  PROVE  /\ call[c] \in Calls /\ call[c].pc = pc /\ call[c].slug \in Tenants
         /\ ReadFresh(call[c]) /\ call[c] # NoCall
  BY CallTypes DEF EdgeInv, On

\* A request that goes on with the slots it has, and not to a new process.
LEMMA GoesOn ==
  ASSUME EdgeInv, NEW c \in EdgeClients, NEW k \in Calls, call[c] \in Calls,
         call' = [call EXCEPT ![c] = k], k # NoCall,
         UNCHANGED <<cap, deploys, file, secrets, slugHeld, slotsHeld>>,
         ReadFresh(k), k.slug = call[c].slug, k.pc \in Running, call[c].pc \in Running
  PROVE  /\ SlotsCounted'
         /\ WarmCounted' /\ starting' \in EdgeClients \cup {NobodyStarts} => EdgeInv'
<1>1. /\ IsRunning(k) <=> IsRunning(call[c])
      /\ \A t \in Tenants : Sits(k, t) <=> Sits(call[c], t)
  BY CallTypes DEF IsRunning, Sits, Running
<1>2. SlotsCounted'
  BY <1>1, SlotsStay
<1>3. /\ call' \in [EdgeClients -> Calls \cup {NoCall}]
      /\ \A d \in EdgeClients : call'[d] # NoCall => ReadFresh(call[d])'
  BY OneMoves, FreshStays
<1> QED
  BY <1>2, <1>3 DEF EdgeInv

\* What no request does, no counter and no request sees.
LEMMA CallsRest ==
  ASSUME EdgeInv, UNCHANGED <<cap, slugHeld, slotsHeld, call>>
  PROVE  /\ SlotsCounted'
         /\ UNCHANGED starting /\ WarmOnes(warm') /\ Len(warm') <= Len(warm)
            /\ (\A i \in DOMAIN warm' : \E j \in DOMAIN warm : warm'[i].slug = warm[j].slug)
              => WarmCounted'
         /\ (\A s \in Tenants : deploys[s] <= deploys'[s] /\ secrets[s] <= secrets'[s])
              /\ deploys' \in [Tenants -> Versions] /\ secrets' \in [Tenants -> SecretVersions]
              => \A c \in EdgeClients : call'[c] # NoCall => ReadFresh(call[c])'
<1>1. SlotsCounted'
  <2>1. /\ Holding(Running)' = Holding(Running)
        /\ \A s \in Tenants : Seated(s)' = Seated(s)
        /\ SlugSlots' = SlugSlots
    BY DEF Holding, Seated, SlugSlots
  <2> QED
    BY <2>1 DEF EdgeInv, SlotsCounted
<1>2. ASSUME UNCHANGED starting, WarmOnes(warm'), Len(warm') <= Len(warm),
             \A i \in DOMAIN warm' : \E j \in DOMAIN warm : warm'[i].slug = warm[j].slug
      PROVE  WarmCounted'
  <2>1. Len(warm) \in Nat /\ Len(warm') \in Nat /\ WarmMax \in Nat
    BY <1>2, EdgeNumbers DEF EdgeInv, WarmCounted, WarmOnes
  <2>2. \A c \in EdgeClients : On(c, "starting")' <=> On(c, "starting")
    BY DEF On
  <2> QED
    BY <1>2, <2>1, <2>2 DEF EdgeInv, WarmCounted
<1>3. ASSUME \A s \in Tenants : deploys[s] <= deploys'[s] /\ secrets[s] <= secrets'[s],
             deploys' \in [Tenants -> Versions], secrets' \in [Tenants -> SecretVersions],
             NEW c \in EdgeClients, call'[c] # NoCall
      PROVE  ReadFresh(call[c])'
  <2>1. call[c] \in Calls /\ ReadFresh(call[c]) /\ call'[c] = call[c]
    BY <1>3 DEF EdgeInv
  <2>2. /\ call[c].slug \in Tenants /\ call[c].sawFile \in Nat /\ call[c].sawEnv \in Nat
        /\ call[c].stat \in Nat
    BY <2>1, CallTypes, EdgeNumbers
  <2>3. \A s \in Tenants : /\ deploys[s] \in Nat /\ deploys'[s] \in Nat
                           /\ secrets[s] \in Nat /\ secrets'[s] \in Nat
    BY <1>3, EdgeNumbers DEF EdgeInv
  <2> QED
    BY <1>3, <2>1, <2>2, <2>3 DEF ReadFresh
<1> QED
  BY <1>1, <1>2, <1>3

LEMMA EdgeNextInv == EdgeInv /\ [EdgeNext]_edgeVars => EdgeInv'
<1> SUFFICES ASSUME EdgeInv, [EdgeNext]_edgeVars PROVE EdgeInv'
  OBVIOUS
<1>0. /\ \A s \in Tenants : /\ deploys[s] \in Nat /\ secrets[s] \in Nat /\ file[s] \in Nat
                            /\ slugHeld[s] \in Nat
      /\ slotsHeld \in Nat /\ cap \in Nat
  BY EdgeNumbers DEF EdgeInv
<1>1. ASSUME NEW c \in EdgeClients, NEW s \in Tenants, Invoke(c, s) PROVE EdgeInv'
  <2> DEFINE k == [pc |-> "slug", slug |-> s, sawFile |-> file[s], sawEnv |-> secrets[s],
                   stat |-> 0, env |-> 0, code |-> 0, given |-> 0]
  <2>1. /\ call[c] = NoCall /\ call' = [call EXCEPT ![c] = k]
        /\ UNCHANGED <<cap, deploys, file, secrets, slugHeld, slotsHeld, warm, starting>>
    BY <1>1 DEF Invoke
  <2>2. k \in Calls /\ k.pc = "slug" /\ ReadFresh(k)
    BY <1>0, EdgeNumbers DEF EdgeInv, Calls, ReadFresh
  <2> HIDE DEF k
  <2>3. /\ IsRunning(k) <=> IsRunning(call[c])
        /\ \A t \in Tenants : Sits(k, t) <=> Sits(call[c], t)
    BY <2>1, <2>2 DEF IsRunning, Sits, Running
  <2>4. SlotsCounted' /\ WarmCounted'
    BY <2>1, <2>2, <2>3, SlotsStay, WarmStays
  <2>5. \A d \in EdgeClients : call'[d] # NoCall => ReadFresh(call[d])'
    BY <2>1, <2>2, FreshStays
  <2>6. call' \in [EdgeClients -> Calls \cup {NoCall}]
    BY <2>1, <2>2, OneMoves
  <2> QED
    BY <2>1, <2>4, <2>5, <2>6 DEF EdgeInv
<1>2. ASSUME NEW c \in EdgeClients, TakeSlugSlot(c) PROVE EdgeInv'
  <2> DEFINE k == [call[c] EXCEPT !.pc = "slot"]
  <2>0. On(c, "slug")
    BY <1>2 DEF TakeSlugSlot
  <2> PICK s \in Tenants : s = call[c].slug
    BY <2>0, OnCall DEF CallSteps
  <2>1. /\ call' = [call EXCEPT ![c] = k] /\ slugHeld[s] < SlugSlots
        /\ slugHeld' = [slugHeld EXCEPT ![s] = slugHeld[s] + 1]
        /\ UNCHANGED <<cap, deploys, file, secrets, slotsHeld, warm, starting>>
    BY <1>2 DEF TakeSlugSlot, To
  <2>2. /\ call[c] \in Calls /\ call[c].pc = "slug" /\ ReadFresh(call[c])
        /\ call[c] # NoCall
    BY <2>0, OnCall DEF CallSteps
  <2>3. k \in Calls /\ k.pc = "slot" /\ k.slug = s /\ ReadFresh(k) /\ k # NoCall
    <3>1. /\ k \in Calls /\ k.pc = "slot" /\ k.slug = s /\ k # NoCall
          /\ k.sawFile = call[c].sawFile /\ k.sawEnv = call[c].sawEnv
      BY <2>2, CallMoves DEF CallSteps
    <3> HIDE DEF k
    <3> QED
      BY <2>2, <3>1 DEF ReadFresh
  <2> HIDE DEF k
  <2>4. /\ ~IsRunning(k) /\ ~IsRunning(call[c]) /\ Sits(k, s)
        /\ \A t \in Tenants : ~Sits(call[c], t) /\ (t # s => ~Sits(k, t))
    BY <2>2, <2>3 DEF IsRunning, Sits, Running
  <2>5. /\ Holding(Running)' = Holding(Running) /\ Seated(s)' = Seated(s) \cup {c}
        /\ c \notin Seated(s)
        /\ \A t \in Tenants \ {s} : Seated(t)' = Seated(t)
    <3>1. /\ ~IsRunning(k) => Holding(Running)' = Holding(Running) \ {c}
          /\ c \in Holding(Running) <=> IsRunning(call[c])
          /\ \A t \in Tenants :
              /\ Sits(k, t) => Seated(t)' = Seated(t) \cup {c}
              /\ ~Sits(k, t) => Seated(t)' = Seated(t) \ {c}
              /\ c \in Seated(t) <=> Sits(call[c], t)
      BY <2>1, <2>3, OneMoves
    <3>2. c \notin Holding(Running) /\ \A t \in Tenants : c \notin Seated(t)
      BY <2>4, <3>1
    <3>3. Holding(Running)' = Holding(Running) /\ Seated(s)' = Seated(s) \cup {c}
      BY <2>2, <2>4, <3>1, <3>2
    <3>4. ASSUME NEW t \in Tenants \ {s} PROVE Seated(t)' = Seated(t)
      BY <2>4, <3>1, <3>2
    <3> QED
      BY <2>2, <3>2, <3>3, <3>4
  <2>6. Cardinality(Seated(s)') = Cardinality(Seated(s)) + 1
    <3>1. IsFiniteSet(Seated(s))
      BY HoldingFinite DEF Seated, Holding
    <3> QED
      BY <2>5, <3>1, FS_AddElement
  <2>7. SlotsCounted'
    <3>1. SlugSlots' = SlugSlots /\ SlugSlots \in Nat
      BY <1>0, <2>1 DEF SlugSlots
    <3>2. slugHeld'[s] = slugHeld[s] + 1 /\ \A t \in Tenants \ {s} : slugHeld'[t] = slugHeld[t]
      BY <2>1, <2>2 DEF EdgeInv
    <3>3. slugHeld'[s] = Cardinality(Seated(s)') /\ slugHeld'[s] <= SlugSlots'
      BY <1>0, <2>1, <2>2, <2>6, <3>1, <3>2 DEF EdgeInv, SlotsCounted
    <3>4. \A t \in Tenants \ {s} :
            slugHeld'[t] = Cardinality(Seated(t)') /\ slugHeld'[t] <= SlugSlots'
      BY <2>5, <3>1, <3>2 DEF EdgeInv, SlotsCounted
    <3>5. \A t \in Tenants : slugHeld'[t] = Cardinality(Seated(t)') /\ slugHeld'[t] <= SlugSlots'
      BY <3>3, <3>4
    <3> QED
      BY <2>1, <2>5, <3>5 DEF EdgeInv, SlotsCounted
  <2>8. WarmCounted' /\ \A d \in EdgeClients : call'[d] # NoCall => ReadFresh(call[d])'
    BY <2>1, <2>3, FreshStays, WarmStays
  <2>9. call' \in [EdgeClients -> Calls \cup {NoCall}]
    BY <2>1, <2>3, OneMoves
  <2>10. slugHeld' \in [Tenants -> Nat]
    BY <1>0, <2>1, <2>2 DEF EdgeInv
  <2> QED
    BY <2>1, <2>7, <2>8, <2>9, <2>10 DEF EdgeInv
<1>3. ASSUME NEW c \in EdgeClients, TakeSlot(c) PROVE EdgeInv'
  <2> DEFINE k == [call[c] EXCEPT !.pc = "secrets"]
  <2>1. /\ call' = [call EXCEPT ![c] = k] /\ On(c, "slot") /\ slotsHeld < cap
        /\ slotsHeld' = slotsHeld + 1
        /\ UNCHANGED <<cap, deploys, file, secrets, slugHeld, warm, starting>>
    BY <1>3 DEF TakeSlot, To
  <2>2. /\ call[c] \in Calls /\ call[c].pc = "slot" /\ ReadFresh(call[c])
        /\ call[c] # NoCall
    BY <2>1, OnCall DEF CallSteps
  <2>3. k \in Calls /\ k.pc = "secrets" /\ k.slug = call[c].slug /\ ReadFresh(k) /\ k # NoCall
    <3>1. /\ k \in Calls /\ k.pc = "secrets" /\ k.slug = call[c].slug /\ k # NoCall
          /\ k.sawFile = call[c].sawFile /\ k.sawEnv = call[c].sawEnv
      BY <2>2, CallMoves DEF CallSteps
    <3> HIDE DEF k
    <3> QED
      BY <2>2, <3>1 DEF ReadFresh
  <2> HIDE DEF k
  <2>4. /\ IsRunning(k) /\ ~IsRunning(call[c])
        /\ \A t \in Tenants : Sits(k, t) <=> Sits(call[c], t)
    BY <2>2, <2>3 DEF IsRunning, Sits, Running
  <2>5. /\ Holding(Running)' = Holding(Running) \cup {c} /\ c \notin Holding(Running)
        /\ \A t \in Tenants : Seated(t)' = Seated(t)
    <3>1. /\ IsRunning(k) => Holding(Running)' = Holding(Running) \cup {c}
          /\ c \in Holding(Running) <=> IsRunning(call[c])
          /\ \A t \in Tenants :
              /\ Sits(k, t) => Seated(t)' = Seated(t) \cup {c}
              /\ ~Sits(k, t) => Seated(t)' = Seated(t) \ {c}
              /\ c \in Seated(t) <=> Sits(call[c], t)
      BY <2>1, <2>3, OneMoves
    <3> QED
      BY <2>4, <3>1
  <2>6. Cardinality(Holding(Running)') = Cardinality(Holding(Running)) + 1
    <3>1. IsFiniteSet(Holding(Running))
      BY HoldingFinite DEF Holding
    <3> QED
      BY <2>5, <3>1, FS_AddElement
  <2>7. SlotsCounted'
    <3>1. SlugSlots' = SlugSlots
      BY <2>1 DEF SlugSlots
    <3>2. slotsHeld' = Cardinality(Holding(Running)') /\ slotsHeld' <= cap'
      BY <1>0, <2>1, <2>6 DEF EdgeInv, SlotsCounted
    <3> QED
      BY <2>1, <2>5, <3>1, <3>2 DEF EdgeInv, SlotsCounted
  <2>8. WarmCounted' /\ \A d \in EdgeClients : call'[d] # NoCall => ReadFresh(call[d])'
    BY <2>1, <2>3, FreshStays, WarmStays
  <2>9. call' \in [EdgeClients -> Calls \cup {NoCall}]
    BY <2>1, <2>3, OneMoves
  <2>10. slotsHeld' \in Nat
    BY <1>0, <2>1
  <2> QED
    BY <2>1, <2>7, <2>8, <2>9, <2>10 DEF EdgeInv
<1>4. ASSUME NEW c \in EdgeClients, GiveUp(c) PROVE EdgeInv'
  <2>0. On(c, "slug") \/ On(c, "slot")
    BY <1>4 DEF GiveUp
  <2> PICK s \in Tenants : s = call[c].slug
    BY <2>0, OnCall DEF CallSteps
  <2>1. /\ call' = [call EXCEPT ![c] = NoCall]
        /\ slugHeld' = [slugHeld EXCEPT ![s] =
                          IF On(c, "slot") THEN slugHeld[s] - 1 ELSE slugHeld[s]]
        /\ UNCHANGED <<cap, deploys, file, secrets, slotsHeld, warm, starting>>
    BY <1>4 DEF GiveUp
  <2>2. call[c] \in Calls /\ call[c].pc \in {"slug", "slot"} /\ call[c] # NoCall
    BY <2>0, OnCall DEF CallSteps
  <2>4. /\ ~IsRunning(NoCall) /\ ~IsRunning(call[c])
        /\ \A t \in Tenants : ~Sits(NoCall, t) /\ (Sits(call[c], t) <=> t = s /\ On(c, "slot"))
    BY <2>2 DEF IsRunning, Sits, Running, On
  <2>5. /\ Holding(Running)' = Holding(Running)
        /\ \A t \in Tenants : Seated(t)' = Seated(t) \ {c}
        /\ \A t \in Tenants : c \in Seated(t) <=> t = s /\ On(c, "slot")
    <3>1. /\ ~IsRunning(NoCall) => Holding(Running)' = Holding(Running) \ {c}
          /\ c \in Holding(Running) <=> IsRunning(call[c])
          /\ \A t \in Tenants :
              /\ ~Sits(NoCall, t) => Seated(t)' = Seated(t) \ {c}
              /\ c \in Seated(t) <=> Sits(call[c], t)
      BY <2>1, OneMoves
    <3> QED
      BY <2>4, <3>1
  <2>6. ASSUME NEW t \in Tenants
        PROVE  slugHeld'[t] = Cardinality(Seated(t)') /\ slugHeld'[t] <= SlugSlots'
               /\ slugHeld'[t] \in Nat
    <3>0. /\ SlugSlots' = SlugSlots /\ SlugSlots \in Nat /\ IsFiniteSet(Seated(t))
          /\ Cardinality(Seated(t)) \in Nat
      BY <1>0, <2>1, HoldingFinite DEF SlugSlots, Seated, Holding
    <3>1. CASE c \notin Seated(t)
      <4>1. Seated(t)' = Seated(t) /\ slugHeld'[t] = slugHeld[t]
        <5>1. slugHeld \in [Tenants -> Nat]
          BY DEF EdgeInv
        <5>2. Seated(t)' = Seated(t)
          BY <2>5, <3>1
        <5>3. ~(t = s /\ On(c, "slot"))
          BY <2>5, <3>1
        <5>4. slugHeld'[t] = slugHeld[t]
          BY <2>1, <5>1, <5>3
        <5> QED
          BY <5>2, <5>4
      <4> QED
        BY <1>0, <3>0, <4>1 DEF EdgeInv, SlotsCounted
    <3>2. CASE c \in Seated(t)
      <4>1. Seated(t)' = Seated(t) \ {c} /\ slugHeld'[t] = slugHeld[t] - 1
        BY <2>1, <2>5, <3>2 DEF EdgeInv
      <4>2. /\ Cardinality(Seated(t)') = Cardinality(Seated(t)) - 1
            /\ Cardinality(Seated(t)') \in Nat
        BY <3>0, <3>2, <4>1, FS_RemoveElement, FS_CardinalityType
      <4>3. slugHeld[t] = Cardinality(Seated(t)) /\ slugHeld[t] <= SlugSlots
        BY DEF EdgeInv, SlotsCounted
      <4> QED
        BY <1>0, <3>0, <4>1, <4>2, <4>3
    <3> QED
      BY <3>1, <3>2
  <2>7. SlotsCounted' /\ slugHeld' \in [Tenants -> Nat]
    <3>1. DOMAIN slugHeld' = Tenants /\ slugHeld' = [t \in Tenants |-> slugHeld'[t]]
      BY <2>1 DEF EdgeInv
    <3>2. slugHeld' \in [Tenants -> Nat]
      BY <2>6, <3>1
    <3> QED
      BY <2>1, <2>5, <2>6, <3>2 DEF EdgeInv, SlotsCounted
  <2>8. WarmCounted' /\ \A d \in EdgeClients : call'[d] # NoCall => ReadFresh(call[d])'
    BY <2>1, FreshStays, WarmStays
  <2>9. call' \in [EdgeClients -> Calls \cup {NoCall}]
    BY <2>1, OneMoves
  <2> QED
    BY <2>1, <2>7, <2>8, <2>9 DEF EdgeInv
<1>5. ASSUME NEW c \in EdgeClients, ReadSecrets(c) PROVE EdgeInv'
  <2> PICK env \in SecretVersions : env = secrets[call[c].slug]
    BY <1>5, OnCall DEF ReadSecrets, EdgeInv, CallSteps
  <2> DEFINE k == [call[c] EXCEPT !.pc = "stat", !.env = env]
  <2>1. /\ call' = [call EXCEPT ![c] = k] /\ On(c, "secrets")
        /\ UNCHANGED <<cap, deploys, file, secrets, slugHeld, slotsHeld, warm, starting>>
    BY <1>5 DEF ReadSecrets
  <2>2. /\ call[c] \in Calls /\ call[c].pc = "secrets" /\ ReadFresh(call[c])
        /\ call[c] # NoCall
    BY <2>1, OnCall DEF CallSteps
  <2>3. /\ k \in Calls /\ k.pc = "stat" /\ k.slug = call[c].slug /\ k # NoCall
        /\ k.sawFile = call[c].sawFile /\ k.sawEnv = call[c].sawEnv /\ k.env = env
    <3>1. call[c] \in Calls
      BY <2>2
    <3>2. /\ k \in Calls /\ k.pc = "stat" /\ k.slug = call[c].slug
          /\ k.sawFile = call[c].sawFile /\ k.sawEnv = call[c].sawEnv /\ k.env = env
      BY ONLY <3>1, env \in SecretVersions DEF Calls
    <3> QED
      BY ONLY <3>2, CallTypes
  <2> HIDE DEF k
  <2>4. ReadFresh(k)
    BY <2>2, <2>3 DEF ReadFresh
  <2>5. WarmCounted'
    BY <2>1, <2>3, WarmStays
  <2> QED
    BY <2>1, <2>2, <2>3, <2>4, <2>5, GoesOn DEF EdgeInv, Running
<1>6. ASSUME NEW c \in EdgeClients, Stat(c) PROVE EdgeInv'
  <2> PICK stat \in Versions : stat = file[call[c].slug]
    BY <1>6, OnCall DEF Stat, EdgeInv, CallSteps
  <2> DEFINE pc == IF stat = 0 THEN "alone" ELSE "warm"
             k == [call[c] EXCEPT !.stat = stat, !.pc = pc]
  <2>1. /\ call' = [call EXCEPT ![c] = k] /\ On(c, "stat")
        /\ UNCHANGED <<cap, deploys, file, secrets, slugHeld, slotsHeld, warm, starting>>
    BY <1>6 DEF Stat
  <2>2. /\ call[c] \in Calls /\ call[c].pc = "stat" /\ ReadFresh(call[c])
        /\ call[c] # NoCall /\ call[c].slug \in Tenants
    BY <2>1, OnCall DEF CallSteps
  <2>3. /\ k \in Calls /\ k.pc = pc /\ k.slug = call[c].slug /\ k # NoCall
        /\ k.sawFile = call[c].sawFile /\ k.sawEnv = call[c].sawEnv
        /\ k.env = call[c].env /\ k.stat = stat
    <3>1. call[c] \in Calls /\ pc \in {"alone", "warm"}
      BY <2>2
    <3> HIDE DEF pc
    <3>2. /\ k \in Calls /\ k.pc = pc /\ k.slug = call[c].slug
          /\ k.sawFile = call[c].sawFile /\ k.sawEnv = call[c].sawEnv
          /\ k.env = call[c].env /\ k.stat = stat
      BY ONLY <3>1, stat \in Versions DEF Calls
    <3> QED
      BY ONLY <3>2, CallTypes
  <2>4. pc \in {"alone", "warm"} /\ (pc = "warm" => stat # 0)
    OBVIOUS
  <2> HIDE DEF k, pc
  <2>5. stat # 0 => stat = deploys[call[c].slug]
    BY <2>2 DEF EdgeInv
  <2>6. ReadFresh(k)
    BY <1>0, <2>2, <2>3, <2>4, <2>5 DEF ReadFresh
  <2>7. WarmCounted'
    BY <2>1, <2>3, <2>4, WarmStays
  <2> QED
    BY <2>1, <2>2, <2>3, <2>4, <2>6, <2>7, GoesOn DEF EdgeInv, Running
<1>7. ASSUME NEW c \in EdgeClients, WarmHit(c) PROVE EdgeInv'
  <2>0. On(c, "warm") /\ starting = NobodyStarts
    BY <1>7 DEF WarmHit
  <2> PICK p \in Fits(c) :
        /\ warm' = Append(Without(p.slug), p)
        /\ call' = [call EXCEPT ![c] =
             [call[c] EXCEPT !.pc = "served", !.code = p.code, !.given = p.env]]
    BY <1>7 DEF WarmHit
  <2> DEFINE k == [call[c] EXCEPT !.pc = "served", !.code = p.code, !.given = p.env]
             w == Without(p.slug)
  <2>1. UNCHANGED <<cap, deploys, file, secrets, slugHeld, slotsHeld, starting>>
    BY <1>7 DEF WarmHit
  <2>2. /\ call[c] \in Calls /\ call[c].pc = "warm" /\ ReadFresh(call[c])
        /\ call[c] # NoCall
    BY <2>0, OnCall DEF CallSteps
  <2>3. /\ p.slug = call[c].slug /\ p.mtime = call[c].stat /\ p.env = call[c].env
        /\ \E i \in DOMAIN warm : warm[i] = p
        /\ Of(p.slug) # {}
    BY DEF Fits, Of, ToSet
  <2>4. p \in Procs /\ p.mtime <= p.code
    BY <2>3 DEF EdgeInv, WarmCounted, WarmOnes
  <2>5. /\ p.slug \in Tenants /\ p.code \in Versions /\ p.env \in SecretVersions
        /\ p.mtime \in Versions
    BY <2>4 DEF Procs
  <2>6. /\ k \in Calls /\ k.pc = "served" /\ k.slug = call[c].slug /\ k # NoCall
        /\ k.sawFile = call[c].sawFile /\ k.sawEnv = call[c].sawEnv
        /\ k.code = p.code /\ k.given = p.env
    <3>1. call[c] \in Calls
      BY <2>2
    <3>2. /\ k \in Calls /\ k.pc = "served" /\ k.slug = call[c].slug
          /\ k.sawFile = call[c].sawFile /\ k.sawEnv = call[c].sawEnv
          /\ k.code = p.code /\ k.given = p.env
      BY ONLY <3>1, <2>5 DEF Calls
    <3> QED
      BY ONLY <3>2, CallTypes
  <2> HIDE DEF k
  <2>7. ReadFresh(k)
    <3>1. /\ call[c].sawFile \in Nat /\ call[c].stat \in Nat /\ p.code \in Nat
          /\ call[c].sawEnv \in Nat /\ call[c].env \in Nat /\ k.env = k.env
      BY <2>2, <2>5, CallTypes, EdgeNumbers
    <3>2. k.pc \notin {"slug", "slot", "secrets"} => k.sawEnv <= k.env
      <4>1. k.env = call[c].env
        BY <2>2 DEF k, Calls
      <4> QED
        BY <2>2, <2>6, <4>1 DEF ReadFresh
    <3> QED
      BY <2>2, <2>3, <2>4, <2>6, <3>1, <3>2 DEF ReadFresh
  <2>8. WarmCounted'
    <3>1. /\ WarmOnes(w) /\ Len(w) = Len(warm) - 1
          /\ \A i \in DOMAIN w : w[i].slug # p.slug
      BY <2>3, <2>5, WithoutKeeps DEF EdgeInv, WarmCounted
    <3>2. warm' = Append(w, p)
      OBVIOUS
    <3> HIDE DEF w
    <3>3. w \in Seq(Procs) /\ DOMAIN w = 1..Len(w) /\ Len(w) \in Nat
      BY <3>1 DEF WarmOnes
    <3>4. /\ warm' \in Seq(Procs) /\ Len(warm') = Len(w) + 1 /\ DOMAIN warm' = 1..Len(w) + 1
          /\ \A i \in 1..Len(w) : warm'[i] = w[i]
          /\ warm'[Len(w) + 1] = p
      BY <2>4, <3>2, <3>3
    <3>5. WarmOnes(warm')
      <4>1. \A i \in 1..Len(w) + 1 : i \in 1..Len(w) \/ i = Len(w) + 1
        BY <3>3
      <4> QED
        BY <2>4, <3>1, <3>3, <3>4, <4>1 DEF WarmOnes
    <3>6. Len(warm') = Len(warm)
      <4>1. Len(warm) \in Nat
        BY DEF EdgeInv, WarmCounted, WarmOnes
      <4> QED
        BY <3>1, <3>4, <4>1
    <3>7. \A d \in EdgeClients : ~On(d, "starting")'
      <4>1. \A d \in EdgeClients : ~On(d, "starting")
        BY <2>0, NobodyAssumption DEF EdgeInv, WarmCounted
      <4>2. call'[c] = k /\ \A d \in EdgeClients \ {c} : call'[d] = call[d]
        BY <2>6, OneMoves DEF k
      <4> QED
        BY <2>6, <4>1, <4>2 DEF On
    <3> QED
      BY <2>1, <3>5, <3>6, <3>7 DEF EdgeInv, WarmCounted
  <2>9. call' = [call EXCEPT ![c] = k]
    BY DEF k
  <2> QED
    BY <2>1, <2>2, <2>6, <2>7, <2>8, <2>9, GoesOn DEF EdgeInv, Running
<1>8. ASSUME NEW c \in EdgeClients, WarmStart(c) PROVE EdgeInv'
  <2> DEFINE k == [call[c] EXCEPT !.pc = "starting"]
  <2>0. On(c, "warm") /\ starting = NobodyStarts
    BY <1>8 DEF WarmStart
  <2> PICK s \in Tenants : s = call[c].slug
    BY <2>0, OnCall DEF CallSteps
  <2>1. /\ warm' = Evict(Without(s)) /\ starting' = c /\ call' = [call EXCEPT ![c] = k]
        /\ UNCHANGED <<cap, deploys, file, secrets, slugHeld, slotsHeld>>
    BY <1>8 DEF WarmStart, To
  <2>2. call[c] \in Calls /\ call[c].pc = "warm" /\ ReadFresh(call[c]) /\ call[c] # NoCall
    BY <2>0, OnCall DEF CallSteps
  <2>3. /\ k \in Calls /\ k.pc = "starting" /\ k.slug = s /\ k # NoCall
        /\ k.sawFile = call[c].sawFile /\ k.sawEnv = call[c].sawEnv
        /\ k.env = call[c].env /\ k.stat = call[c].stat
    BY <2>2, CallMoves DEF CallSteps
  <2> HIDE DEF k
  <2>4. ReadFresh(k)
    BY <2>2, <2>3 DEF ReadFresh
  <2>5. WarmCounted'
    <3>1. WarmOnes(Without(s)) /\ \A i \in DOMAIN Without(s) : Without(s)[i].slug # s
      BY WithoutKeeps DEF EdgeInv, WarmCounted
    <3>2. /\ WarmOnes(warm') /\ Len(warm') + 1 <= WarmMax
          /\ \A i \in DOMAIN warm' : \E j \in DOMAIN Without(s) : warm'[i] = Without(s)[j]
      BY <2>1, <3>1, EvictKeeps
    <3>3. \A i \in DOMAIN warm' : warm'[i].slug # s
      BY <3>1, <3>2
    <3>4. \A d \in EdgeClients : On(d, "starting")' => d = c
      <4>1. \A d \in EdgeClients : ~On(d, "starting")
        BY <2>0, NobodyAssumption DEF EdgeInv, WarmCounted
      <4>2. call'[c] = k /\ \A d \in EdgeClients \ {c} : call'[d] = call[d]
        BY <2>1, <2>3, OneMoves
      <4> QED
        BY <4>1, <4>2 DEF On
    <3>5. call'[c].slug = s
      BY <2>1, <2>3, OneMoves
    <3> QED
      BY <2>1, <3>2, <3>3, <3>4, <3>5, NobodyAssumption DEF WarmCounted
  <2> QED
    BY <2>1, <2>2, <2>3, <2>4, <2>5, GoesOn DEF EdgeInv, Running
<1>9. ASSUME NEW c \in EdgeClients, WarmReady(c) PROVE EdgeInv'
  <2>0. On(c, "starting")
    BY <1>9 DEF WarmReady
  <2> PICK s \in Tenants, code \in Versions, env \in SecretVersions, stat \in Versions :
        s = call[c].slug /\ code = file[s] /\ env = call[c].env /\ stat = call[c].stat
    <3>1. call[c] \in Calls
      BY <2>0, OnCall DEF CallSteps
    <3> QED
      BY <3>1, CallTypes DEF EdgeInv
  <2> DEFINE k == [call[c] EXCEPT !.pc = "served", !.code = code, !.given = env]
             p == [slug |-> s, mtime |-> stat, env |-> env, code |-> code, dead |-> FALSE]
  <2>1. /\ warm' = Append(warm, p) /\ starting' = NobodyStarts /\ code # 0
        /\ call' = [call EXCEPT ![c] = k]
        /\ UNCHANGED <<cap, deploys, file, secrets, slugHeld, slotsHeld>>
    BY <1>9 DEF WarmReady
  <2>2. call[c] \in Calls /\ call[c].pc = "starting" /\ ReadFresh(call[c]) /\ call[c] # NoCall
    BY <2>0, OnCall DEF CallSteps
  <2>3. /\ k \in Calls /\ k.pc = "served" /\ k.slug = s /\ k # NoCall
        /\ k.sawFile = call[c].sawFile /\ k.sawEnv = call[c].sawEnv
        /\ k.code = code /\ k.given = env /\ k.env = env
    <3>1. call[c] \in Calls /\ s = call[c].slug /\ env = call[c].env
      BY <2>2
    <3>2. /\ k \in Calls /\ k.pc = "served" /\ k.slug = s
          /\ k.sawFile = call[c].sawFile /\ k.sawEnv = call[c].sawEnv
          /\ k.code = code /\ k.given = env /\ k.env = env
      BY ONLY <3>1, code \in Versions, env \in SecretVersions DEF Calls
    <3> QED
      BY ONLY <3>2, CallTypes
  <2> HIDE DEF k
  <2>4. /\ code = deploys[s] /\ stat <= code /\ call[c].sawFile <= code
        /\ call[c].sawEnv <= env
    BY <2>1, <2>2 DEF EdgeInv, ReadFresh
  <2>5. ReadFresh(k)
    <3>1. call[c].sawFile \in Nat /\ code \in Nat /\ env \in Nat /\ call[c].sawEnv \in Nat
      BY <2>2, CallTypes, EdgeNumbers
    <3> QED
      BY <2>1, <2>2, <2>3, <2>4, <3>1 DEF ReadFresh
  <2>6. WarmCounted'
    <3>1. p \in Procs /\ p.slug = s /\ p.mtime <= p.code
      BY <2>4 DEF Procs
    <3> HIDE DEF p
    <3>2. /\ warm \in Seq(Procs) /\ DOMAIN warm = 1..Len(warm) /\ Len(warm) \in Nat
          /\ WarmOnes(warm)
      BY DEF EdgeInv, WarmCounted, WarmOnes
    <3>3. /\ warm' \in Seq(Procs) /\ Len(warm') = Len(warm) + 1
          /\ DOMAIN warm' = 1..Len(warm) + 1
          /\ \A i \in 1..Len(warm) : warm'[i] = warm[i]
          /\ warm'[Len(warm) + 1] = p
      BY <2>1, <3>1, <3>2
    <3>4. starting = c /\ \A i \in DOMAIN warm : warm[i].slug # s
      BY <2>0 DEF EdgeInv, WarmCounted
    <3>5. WarmOnes(warm')
      <4>1. \A i \in 1..Len(warm) + 1 : i \in 1..Len(warm) \/ i = Len(warm) + 1
        BY <3>2
      <4> QED
        BY <3>1, <3>2, <3>3, <3>4, <4>1 DEF WarmOnes
    <3>6. Len(warm') <= WarmMax
      BY <3>2, <3>3, <3>4, NobodyAssumption DEF EdgeInv, WarmCounted
    <3>7. \A d \in EdgeClients : ~On(d, "starting")'
      <4>1. \A d \in EdgeClients : On(d, "starting") => d = c
        BY <3>4 DEF EdgeInv, WarmCounted
      <4>2. call'[c] = k /\ \A d \in EdgeClients \ {c} : call'[d] = call[d]
        BY <2>1, <2>3, OneMoves
      <4> QED
        BY <2>3, <4>1, <4>2 DEF On
    <3> QED
      BY <2>1, <3>2, <3>3, <3>5, <3>6, <3>7 DEF WarmCounted
  <2> QED
    BY <2>1, <2>2, <2>3, <2>5, <2>6, GoesOn DEF EdgeInv, Running
<1>10. ASSUME NEW c \in EdgeClients, WarmFails(c) PROVE EdgeInv'
  <2> DEFINE k == [call[c] EXCEPT !.pc = "alone"]
  <2>0. On(c, "starting")
    BY <1>10 DEF WarmFails
  <2>1. /\ starting' = NobodyStarts /\ call' = [call EXCEPT ![c] = k]
        /\ UNCHANGED <<cap, deploys, file, secrets, slugHeld, slotsHeld, warm>>
    BY <1>10 DEF WarmFails, To
  <2>2. call[c] \in Calls /\ call[c].pc = "starting" /\ ReadFresh(call[c]) /\ call[c] # NoCall
    BY <2>0, OnCall DEF CallSteps
  <2>3. /\ k \in Calls /\ k.pc = "alone" /\ k.slug = call[c].slug /\ k # NoCall
        /\ k.sawFile = call[c].sawFile /\ k.sawEnv = call[c].sawEnv
        /\ k.env = call[c].env /\ k.stat = call[c].stat
    BY <2>2, CallMoves DEF CallSteps
  <2> HIDE DEF k
  <2>4. ReadFresh(k)
    BY <2>2, <2>3 DEF ReadFresh
  <2>5. WarmCounted'
    <3>1. \A d \in EdgeClients : ~On(d, "starting")'
      <4>1. \A d \in EdgeClients : On(d, "starting") => d = c
        BY <2>0 DEF EdgeInv, WarmCounted
      <4>2. call'[c] = k /\ \A d \in EdgeClients \ {c} : call'[d] = call[d]
        BY <2>1, <2>3, OneMoves
      <4> QED
        BY <2>3, <4>1, <4>2 DEF On
    <3>2. Len(warm) \in Nat /\ WarmMax \in Nat
      BY EdgeNumbers DEF EdgeInv, WarmCounted, WarmOnes
    <3> QED
      BY <2>1, <3>1, <3>2 DEF EdgeInv, WarmCounted
  <2> QED
    BY <2>1, <2>2, <2>3, <2>4, <2>5, GoesOn DEF EdgeInv, Running
<1>11. ASSUME NEW c \in EdgeClients, RunAlone(c) PROVE EdgeInv'
  <2>0. On(c, "alone")
    BY <1>11 DEF RunAlone
  <2> PICK s \in Tenants, code \in Versions, env \in SecretVersions :
        s = call[c].slug /\ code = file[s] /\ env = call[c].env
    <3>1. call[c] \in Calls
      BY <2>0, OnCall DEF CallSteps
    <3> QED
      BY <3>1, CallTypes DEF EdgeInv
  <2> DEFINE k == [call[c] EXCEPT !.pc = "served", !.code = code, !.given = env]
  <2>1. /\ call' = [call EXCEPT ![c] = k]
        /\ UNCHANGED <<cap, deploys, file, secrets, slugHeld, slotsHeld, warm, starting>>
    BY <1>11 DEF RunAlone
  <2>2. call[c] \in Calls /\ call[c].pc = "alone" /\ ReadFresh(call[c]) /\ call[c] # NoCall
    BY <2>0, OnCall DEF CallSteps
  <2>3. /\ k \in Calls /\ k.pc = "served" /\ k.slug = s /\ k # NoCall
        /\ k.sawFile = call[c].sawFile /\ k.sawEnv = call[c].sawEnv
        /\ k.code = code /\ k.given = env /\ k.env = env
    <3>1. call[c] \in Calls /\ s = call[c].slug /\ env = call[c].env
      BY <2>2
    <3>2. /\ k \in Calls /\ k.pc = "served" /\ k.slug = s
          /\ k.sawFile = call[c].sawFile /\ k.sawEnv = call[c].sawEnv
          /\ k.code = code /\ k.given = env /\ k.env = env
      BY ONLY <3>1, code \in Versions, env \in SecretVersions DEF Calls
    <3> QED
      BY ONLY <3>2, CallTypes
  <2> HIDE DEF k
  <2>4. ReadFresh(k)
    <3>1. code # 0 => code = deploys[s]
      BY DEF EdgeInv
    <3>2. call[c].sawFile \in Nat /\ code \in Nat /\ env \in Nat /\ call[c].sawEnv \in Nat
      BY <2>2, CallTypes, EdgeNumbers
    <3> QED
      BY <2>2, <2>3, <3>1, <3>2 DEF ReadFresh
  <2>5. WarmCounted'
    BY <2>1, <2>3, WarmStays
  <2> QED
    BY <2>1, <2>2, <2>3, <2>4, <2>5, GoesOn DEF EdgeInv, Running
<1>12. ASSUME NEW c \in EdgeClients, Answered(c) PROVE EdgeInv'
  <2>0. On(c, "served")
    BY <1>12 DEF Answered
  <2> PICK s \in Tenants : s = call[c].slug
    BY <2>0, OnCall DEF CallSteps
  <2>1. /\ call' = [call EXCEPT ![c] = NoCall]
        /\ slugHeld' = [slugHeld EXCEPT ![s] = slugHeld[s] - 1]
        /\ slotsHeld' = slotsHeld - 1
        /\ UNCHANGED <<cap, deploys, file, secrets, warm, starting>>
    BY <1>12 DEF Answered
  <2>2. call[c] \in Calls /\ call[c].pc = "served" /\ call[c] # NoCall
    BY <2>0, OnCall DEF CallSteps
  <2>3. /\ ~IsRunning(NoCall) /\ IsRunning(call[c])
        /\ \A t \in Tenants : ~Sits(NoCall, t) /\ (Sits(call[c], t) <=> t = s)
    BY <2>2 DEF IsRunning, Sits, Running
  <2>4. /\ Holding(Running)' = Holding(Running) \ {c} /\ c \in Holding(Running)
        /\ \A t \in Tenants : Seated(t)' = Seated(t) \ {c}
        /\ \A t \in Tenants : c \in Seated(t) <=> t = s
    <3>1. /\ ~IsRunning(NoCall) => Holding(Running)' = Holding(Running) \ {c}
          /\ c \in Holding(Running) <=> IsRunning(call[c])
          /\ \A t \in Tenants :
              /\ ~Sits(NoCall, t) => Seated(t)' = Seated(t) \ {c}
              /\ c \in Seated(t) <=> Sits(call[c], t)
      BY <2>1, OneMoves
    <3> QED
      BY <2>3, <3>1
  <2>5. /\ Cardinality(Holding(Running)') = Cardinality(Holding(Running)) - 1
        /\ Cardinality(Holding(Running)') \in Nat
    <3>1. IsFiniteSet(Holding(Running))
      BY HoldingFinite DEF Holding
    <3> QED
      BY <2>4, <3>1, FS_RemoveElement, FS_CardinalityType
  <2>6. ASSUME NEW t \in Tenants
        PROVE  slugHeld'[t] = Cardinality(Seated(t)') /\ slugHeld'[t] <= SlugSlots'
               /\ slugHeld'[t] \in Nat
    <3>0. /\ SlugSlots' = SlugSlots /\ SlugSlots \in Nat /\ IsFiniteSet(Seated(t))
          /\ Cardinality(Seated(t)) \in Nat
      BY <1>0, <2>1, HoldingFinite DEF SlugSlots, Seated, Holding
    <3>1. CASE t # s
      <4>1. Seated(t)' = Seated(t)
        BY <2>4, <3>1
      <4>2. slugHeld'[t] = slugHeld[t]
        BY <2>1, <3>1 DEF EdgeInv
      <4> QED
        BY <1>0, <3>0, <4>1, <4>2 DEF EdgeInv, SlotsCounted
    <3>2. CASE t = s
      <4>1. Seated(t)' = Seated(t) \ {c} /\ c \in Seated(t)
        BY <2>4, <3>2
      <4>2. /\ Cardinality(Seated(t)') = Cardinality(Seated(t)) - 1
            /\ Cardinality(Seated(t)') \in Nat
        BY <3>0, <4>1, FS_RemoveElement, FS_CardinalityType
      <4>3. slugHeld[t] = Cardinality(Seated(t)) /\ slugHeld[t] <= SlugSlots
        BY DEF EdgeInv, SlotsCounted
      <4>4. slugHeld'[t] = slugHeld[t] - 1
        BY <2>1, <3>2 DEF EdgeInv
      <4> QED
        BY <1>0, <3>0, <4>2, <4>3, <4>4
    <3> QED
      BY <3>1, <3>2
  <2>7. SlotsCounted' /\ slugHeld' \in [Tenants -> Nat] /\ slotsHeld' \in Nat
    <3>1. DOMAIN slugHeld' = Tenants /\ slugHeld' = [t \in Tenants |-> slugHeld'[t]]
      BY <2>1 DEF EdgeInv
    <3>2. slugHeld' \in [Tenants -> Nat]
      BY <2>6, <3>1
    <3>3. slotsHeld' = Cardinality(Holding(Running)') /\ slotsHeld' <= cap' /\ slotsHeld' \in Nat
      BY <1>0, <2>1, <2>5 DEF EdgeInv, SlotsCounted
    <3> QED
      BY <2>6, <3>2, <3>3 DEF SlotsCounted
  <2>8. WarmCounted' /\ \A d \in EdgeClients : call'[d] # NoCall => ReadFresh(call[d])'
    BY <2>1, FreshStays, WarmStays
  <2>9. call' \in [EdgeClients -> Calls \cup {NoCall}]
    BY <2>1, OneMoves
  <2> QED
    BY <2>1, <2>7, <2>8, <2>9 DEF EdgeInv
<1>13. ASSUME NEW s \in Tenants, WarmDies(s) PROVE EdgeInv'
  <2>1. /\ warm' = [i \in DOMAIN warm |-> IF warm[i].slug = s
                                          THEN [warm[i] EXCEPT !.dead = TRUE] ELSE warm[i]]
        /\ UNCHANGED <<cap, deploys, file, secrets, slugHeld, slotsHeld, starting, call>>
    BY <1>13 DEF WarmDies
  <2>2. WarmOnes(warm) /\ warm \in Seq(Procs) /\ DOMAIN warm = 1..Len(warm) /\ Len(warm) \in Nat
    BY DEF EdgeInv, WarmCounted, WarmOnes
  <2>3. \A p \in Procs : LET q == [p EXCEPT !.dead = TRUE] IN
          q \in Procs /\ q.slug = p.slug /\ q.mtime = p.mtime /\ q.code = p.code
    BY DEF Procs
  <2>4. \A i \in 1..Len(warm) :
          /\ warm'[i] \in Procs /\ warm'[i].slug = warm[i].slug
          /\ warm'[i].mtime = warm[i].mtime /\ warm'[i].code = warm[i].code
    BY <2>1, <2>2, <2>3
  <2>5. DOMAIN warm' = 1..Len(warm) /\ warm' \in Seq(Procs) /\ Len(warm') = Len(warm)
    <3>1. warm' = [i \in 1..Len(warm) |-> warm'[i]]
      BY <2>1, <2>2
    <3> QED
      BY <2>2, <2>4, <3>1
  <2>6. WarmOnes(warm')
    BY <2>2, <2>4, <2>5 DEF WarmOnes
  <2>7. WarmCounted' /\ SlotsCounted'
    BY <2>1, <2>2, <2>4, <2>5, <2>6, CallsRest
  <2> QED
    BY <2>1, <2>7 DEF EdgeInv, ReadFresh
<1>14. ASSUME NEW s \in Tenants, WarmReap(s) PROVE EdgeInv'
  <2>1. /\ warm' = Without(s)
        /\ UNCHANGED <<cap, deploys, file, secrets, slugHeld, slotsHeld, starting, call>>
    BY <1>14 DEF WarmReap
  <2>2. starting = NobodyStarts
    BY <1>14 DEF WarmReap
  <2>3. WarmOnes(warm') /\ Len(warm') <= Len(warm)
    BY <2>1, WithoutKeeps DEF EdgeInv, WarmCounted
  <2>4. WarmCounted'
    <3>1. \A c \in EdgeClients : ~On(c, "starting")'
      BY <2>1, <2>2, NobodyAssumption DEF EdgeInv, WarmCounted, On
    <3>2. Len(warm) \in Nat /\ Len(warm') \in Nat /\ WarmMax \in Nat
      BY <2>3, EdgeNumbers DEF EdgeInv, WarmCounted, WarmOnes
    <3> QED
      BY <2>1, <2>2, <2>3, <3>1, <3>2 DEF EdgeInv, WarmCounted
  <2>5. SlotsCounted'
    BY <2>1, CallsRest
  <2> QED
    BY <2>1, <2>4, <2>5 DEF EdgeInv, ReadFresh
<1>15. ASSUME NEW s \in Tenants, Deploy(s) \/ ChangeSecrets(s) \/ DeleteFunction(s)
       PROVE  EdgeInv'
  <2>1. UNCHANGED <<cap, slugHeld, slotsHeld, warm, starting, call>>
    BY <1>15 DEF Deploy, ChangeSecrets, DeleteFunction
  <2>2. /\ deploys' \in [Tenants -> Versions] /\ secrets' \in [Tenants -> SecretVersions]
        /\ file' \in [Tenants -> Versions] /\ \A t \in Tenants : file'[t] \in {0, deploys'[t]}
        /\ \A t \in Tenants : deploys[t] <= deploys'[t] /\ secrets[t] <= secrets'[t]
    <3>0. MaxDeploys \in Nat /\ MaxSecrets \in Nat
      BY EdgeAssumption
    <3>1. CASE Deploy(s)
      <4>1. deploys[s] + 1 \in Versions
        BY <1>0, <3>0, <3>1 DEF Deploy, Versions
      <4>2. /\ deploys' = [deploys EXCEPT ![s] = deploys[s] + 1]
            /\ file' = [file EXCEPT ![s] = deploys[s] + 1] /\ secrets' = secrets
        BY <3>1 DEF Deploy
      <4> QED
        BY <1>0, <4>1, <4>2 DEF EdgeInv
    <3>2. CASE ChangeSecrets(s)
      <4>1. secrets[s] + 1 \in SecretVersions
        BY <1>0, <3>0, <3>2 DEF ChangeSecrets, SecretVersions
      <4>2. secrets' = [secrets EXCEPT ![s] = secrets[s] + 1] /\ UNCHANGED <<deploys, file>>
        BY <3>2 DEF ChangeSecrets
      <4> QED
        BY <1>0, <4>1, <4>2 DEF EdgeInv
    <3>3. CASE DeleteFunction(s)
      <4>1. file' = [file EXCEPT ![s] = 0] /\ UNCHANGED <<deploys, secrets>>
        BY <3>3 DEF DeleteFunction
      <4> QED
        BY <1>0, <4>1, EdgeNumbers DEF EdgeInv
    <3> QED
      BY <1>15, <3>1, <3>2, <3>3
  <2>3. /\ SlotsCounted'
        /\ \A c \in EdgeClients : call'[c] # NoCall => ReadFresh(call[c])'
    BY <2>1, <2>2, CallsRest
  <2>4. WarmCounted'
    BY <2>1 DEF EdgeInv, WarmCounted, On
  <2> QED
    BY <2>1, <2>2, <2>3, <2>4 DEF EdgeInv
<1>16. CASE EdgeBoot
  <2>1. /\ slugHeld' = [s \in Tenants |-> 0] /\ slotsHeld' = 0
        /\ warm' = <<>> /\ starting' = NobodyStarts
        /\ call' = [c \in EdgeClients |-> NoCall]
        /\ cap' \in EdgeSlots /\ cap' \in Nat /\ cap' > 0
        /\ UNCHANGED <<deploys, file, secrets>>
    BY <1>16, EdgeNumbers DEF EdgeBoot
  <2>2. Holding(Running)' = {} /\ \A s \in Tenants : Seated(s)' = {}
    BY <2>1 DEF Holding, Seated
  <2>3. SlugSlots' \in Nat
    <3>1. \A n \in Nat : (IF n \div 2 < 1 THEN 1 ELSE n \div 2) \in Nat
      OBVIOUS
    <3> QED
      BY <2>1, <3>1 DEF SlugSlots
  <2>4. SlotsCounted'
    <3>1. Cardinality(Holding(Running)') = 0 /\ \A s \in Tenants : Cardinality(Seated(s)') = 0
      BY <2>2, FS_EmptySet
    <3>2. \A s \in Tenants : slugHeld'[s] = 0 /\ 0 <= SlugSlots'
      BY <2>1, <2>3
    <3> QED
      BY <2>1, <3>1, <3>2 DEF SlotsCounted
  <2>5. WarmCounted'
    BY <2>1, EdgeNumbers DEF WarmCounted, WarmOnes, On
  <2> QED
    BY <2>1, <2>4, <2>5 DEF EdgeInv
<1>17. CASE UNCHANGED edgeVars
  <2>1. UNCHANGED <<cap, deploys, file, secrets, slugHeld, slotsHeld, warm, starting, call>>
    BY <1>17 DEF edgeVars
  <2>2. SlotsCounted'
    BY <2>1, CallsRest
  <2> QED
    BY <2>1, <2>2 DEF EdgeInv, WarmCounted, On, ReadFresh
<1> QED
  BY <1>1, <1>2, <1>3, <1>4, <1>5, <1>6, <1>7, <1>8, <1>9, <1>10, <1>11, <1>12, <1>13,
     <1>14, <1>15, <1>16, <1>17
  DEF EdgeNext

\* A function has the slots it may have, however its requests come and go, and
\* answers from what was deployed by the time they came (edge.go, edgewarm.go).
THEOREM EdgeAlwaysServes == EdgeSpec => [](EdgeBounded /\ ServesFresh)
<1>1. ASSUME EdgeInv PROVE EdgeBounded
  <2>1. ASSUME NEW s \in Tenants
        PROVE  /\ slugHeld[s] = Cardinality(Seated(s))
               /\ Cardinality({c \in Holding(Running) : call[c].slug = s}) <= SlugSlots
               /\ Cardinality({i \in DOMAIN warm : warm[i].slug = s}) <= 1
    <3> DEFINE mine == {c \in Holding(Running) : call[c].slug = s}
               at == {i \in DOMAIN warm : warm[i].slug = s}
    <3>1. slugHeld[s] = Cardinality(Seated(s)) /\ slugHeld[s] <= SlugSlots
      BY <1>1 DEF EdgeInv, SlotsCounted
    <3>2. mine \subseteq Seated(s) /\ Seated(s) \subseteq EdgeClients
      BY DEF Seated, Holding
    <3>3. /\ Cardinality(mine) <= Cardinality(Seated(s))
          /\ Cardinality(mine) \in Nat /\ Cardinality(Seated(s)) \in Nat
      BY <3>2, HoldingFinite, FS_Subset, FS_CardinalityType
    <3>4. SlugSlots \in Nat
      BY <1>1, EdgeNumbers DEF EdgeInv, SlugSlots
    <3>5. at = {} \/ \E i \in DOMAIN warm : at = {i}
      BY <1>1 DEF EdgeInv, WarmCounted, WarmOnes
    <3>6. Cardinality(at) <= 1
      <4> HIDE DEF at
      <4> QED
        BY <3>5, FS_EmptySet, FS_Singleton
    <3> HIDE DEF mine
    <3>7. Cardinality(mine) <= SlugSlots
      BY <3>1, <3>3, <3>4
    <3> QED
      BY <3>1, <3>6, <3>7 DEF mine
  <2> QED
    BY <1>1, <2>1 DEF EdgeBounded, EdgeInv, SlotsCounted, WarmCounted, Seated
<1>2. EdgeInv => ServesFresh
  BY DEF EdgeInv, ServesFresh, ReadFresh, Holding
<1> QED
  BY <1>1, <1>2, EdgeInitInv, EdgeNextInv, PTL DEF EdgeSpec

-----------------------------------------------------------------------------
(* The ways to a project's database.                                       *)

\* One rotation at a time, as long as none met another or was left halfway:
\* the role has the password of the one that is yet to store it.
RoleFollows ==
    "role" \notin amiss =>
      /\ \A c, d \in Rotating : c = d
      /\ \A c \in Rotators : rotators[c].pc = "row" => rolePw = rotators[c].pw
      /\ (\A c \in Rotators : rotators[c].pc # "row") => rolePw = stored

\* What the pooler's file says, or is about to say.
Listed == IF place = "shared" THEN stored ELSE 0
ListFollows ==
    "list" \notin amiss /\ "role" \notin amiss =>
      /\ \A c \in Rotators : rotators[c].pc = "write" => rotators[c].pw = Listed
      /\ Rotating = {} => userlist = Listed

\* The container was made with the row's password, and no rotation came since.
BoxFollows ==
    "box" \notin amiss /\ (mover.pc # "idle" \/ place = "instance") =>
      Rotating = {} /\ boxPw = stored

\* No pool to the shared cluster outlives the move.
PoolFollows ==
    /\ pool # NoPool => pool.to # "none"
    /\ pool.to = "instance" => place = "instance" /\ ("box" \notin amiss => pool.pw = boxPw)
    /\ "pool" \notin amiss /\ (mover.pc \in {"park", "row"} \/ place = "instance") =>
         pool.to # "shared"

AccessInv ==
    /\ AccessTypeOK
    /\ (mover.pc = "idle" => mover = NotDoing) /\ (mover.pc # "idle" => place = "shared")
    /\ \A c \in Rotators : rotators[c].pc = "idle" => rotators[c] = NotDoing
    /\ RoleFollows /\ ListFollows /\ BoxFollows /\ PoolFollows

LEMMA AccessInitInv == AccessInit => AccessInv
<1> SUFFICES ASSUME AccessInit PROVE AccessInv
  OBVIOUS
<1>1. AccessTypeOK
  <2>1. 1 \in 0..MaxPasswords /\ 1 \in 1..MaxPasswords /\ 0 \in 0..MaxPasswords
    BY AccessAssumption
  <2>2. pool \in [to : {"none", "shared", "instance"}, pw : 0..MaxPasswords]
    BY <2>1 DEF AccessInit, NoPool
  <2>3. rotators \in [Rotators -> [pc : {"idle", "row", "read", "write"}, pw : 0..MaxPasswords]]
    BY <2>1 DEF AccessInit, Doing, NotDoing
  <2>4. mover \in [pc : {"idle", "copy", "park", "row"}, pw : 0..MaxPasswords]
    BY <2>1 DEF AccessInit, Doing, NotDoing
  <2> QED
    BY <2>1, <2>2, <2>3, <2>4 DEF AccessInit, AccessTypeOK
<1>2. Rotating = {}
  BY DEF AccessInit, Rotating
<1> QED
  BY <1>1, <1>2 DEF AccessInit, AccessInv, RoleFollows, ListFollows, Listed, BoxFollows,
     PoolFollows, Doing, NotDoing, NoPool

LEMMA AccessNextInv == AccessInv /\ [AccessNext]_accessVars => AccessInv'
<1> SUFFICES ASSUME AccessInv, [AccessNext]_accessVars PROVE AccessInv'
  OBVIOUS
<1>1. CASE dbFor
  BY <1>1 DEF dbFor, AccessInv, AccessTypeOK, RoleFollows, ListFollows, Listed, BoxFollows,
     PoolFollows, Rotating, Doing, NotDoing, NoPool
<1>2. CASE closeConn
  <2>1. AccessTypeOK'
    <3>1. (place \in {"shared", "instance"} /\ parked \in BOOLEAN)'
      BY <1>2, AccessAssumption DEF closeConn, AccessInv, AccessTypeOK, Doing, NotDoing, NoPool
    <3>2. ({stored, rolePw, boxPw, userlist} \subseteq 0..MaxPasswords /\ passwords \in 1..MaxPasswords)'
      BY <1>2, AccessAssumption DEF closeConn, AccessInv, AccessTypeOK, Doing, NotDoing, NoPool
    <3>3. (pool \in [to : {"none", "shared", "instance"}, pw : 0..MaxPasswords])'
      BY <1>2, AccessAssumption DEF closeConn, AccessInv, AccessTypeOK, Doing, NotDoing, NoPool
    <3>4. (rotators \in [Rotators -> [pc : {"idle", "row", "read", "write"}, pw : 0..MaxPasswords]])'
      BY <1>2, AccessAssumption DEF closeConn, AccessInv, AccessTypeOK, Doing, NotDoing, NoPool
    <3>5. (mover \in [pc : {"idle", "copy", "park", "row"}, pw : 0..MaxPasswords])'
      BY <1>2, AccessAssumption DEF closeConn, AccessInv, AccessTypeOK, Doing, NotDoing, NoPool
    <3>6. (amiss \subseteq {"role", "list", "box", "pool"})'
      BY <1>2, AccessAssumption DEF closeConn, AccessInv, AccessTypeOK, Doing, NotDoing, NoPool
    <3> QED
      BY <3>1, <3>2, <3>3, <3>4, <3>5, <3>6 DEF AccessTypeOK
  <2>2. ((mover.pc = "idle" => mover = NotDoing) /\ (mover.pc # "idle" => place = "shared"))'
    BY <1>2 DEF closeConn, AccessInv, Doing, NotDoing, NoPool, AccessTypeOK
  <2>3. (\A d \in Rotators : rotators[d].pc = "idle" => rotators[d] = NotDoing)'
    BY <1>2 DEF closeConn, AccessInv, Doing, NotDoing, NoPool, AccessTypeOK
  <2>4. RoleFollows'
    BY <1>2 DEF closeConn, AccessInv, Doing, NotDoing, NoPool, AccessTypeOK, RoleFollows, Rotating
  <2>5. ListFollows'
    BY <1>2 DEF closeConn, AccessInv, Doing, NotDoing, NoPool, AccessTypeOK, ListFollows, Listed, RoleFollows, Rotating
  <2>6. BoxFollows'
    BY <1>2 DEF closeConn, AccessInv, Doing, NotDoing, NoPool, AccessTypeOK, BoxFollows, Rotating
  <2>7. PoolFollows'
    BY <1>2 DEF closeConn, AccessInv, Doing, NotDoing, NoPool, AccessTypeOK, PoolFollows, BoxFollows, Rotating
  <2> QED
    BY <2>1, <2>2, <2>3, <2>4, <2>5, <2>6, <2>7 DEF AccessInv
<1>3. ASSUME NEW c \in Rotators, AlterRole(c) PROVE AccessInv'
  <2>1. AccessTypeOK'
    <3>1. (place \in {"shared", "instance"} /\ parked \in BOOLEAN)'
      BY <1>3, AccessAssumption DEF AlterRole, AccessInv, AccessTypeOK, Doing, NotDoing, NoPool
    <3>2. ({stored, rolePw, boxPw, userlist} \subseteq 0..MaxPasswords /\ passwords \in 1..MaxPasswords)'
      BY <1>3, AccessAssumption DEF AlterRole, AccessInv, AccessTypeOK, Doing, NotDoing, NoPool
    <3>3. (pool \in [to : {"none", "shared", "instance"}, pw : 0..MaxPasswords])'
      BY <1>3, AccessAssumption DEF AlterRole, AccessInv, AccessTypeOK, Doing, NotDoing, NoPool
    <3>4. (rotators \in [Rotators -> [pc : {"idle", "row", "read", "write"}, pw : 0..MaxPasswords]])'
      BY <1>3, AccessAssumption DEF AlterRole, AccessInv, AccessTypeOK, Doing, NotDoing, NoPool
    <3>5. (mover \in [pc : {"idle", "copy", "park", "row"}, pw : 0..MaxPasswords])'
      BY <1>3, AccessAssumption DEF AlterRole, AccessInv, AccessTypeOK, Doing, NotDoing, NoPool
    <3>6. (amiss \subseteq {"role", "list", "box", "pool"})'
      BY <1>3, AccessAssumption DEF AlterRole, AccessInv, AccessTypeOK, Doing, NotDoing, NoPool
    <3> QED
      BY <3>1, <3>2, <3>3, <3>4, <3>5, <3>6 DEF AccessTypeOK
  <2>2. ((mover.pc = "idle" => mover = NotDoing) /\ (mover.pc # "idle" => place = "shared"))'
    BY <1>3 DEF AlterRole, AccessInv, Doing, NotDoing, NoPool, AccessTypeOK
  <2>3. (\A d \in Rotators : rotators[d].pc = "idle" => rotators[d] = NotDoing)'
    BY <1>3 DEF AlterRole, AccessInv, Doing, NotDoing, NoPool, AccessTypeOK
  <2>4. RoleFollows'
    BY <1>3 DEF AlterRole, AccessInv, Doing, NotDoing, NoPool, AccessTypeOK, RoleFollows, Rotating
  <2>5. ListFollows'
    BY <1>3 DEF AlterRole, AccessInv, Doing, NotDoing, NoPool, AccessTypeOK, ListFollows, Listed, RoleFollows, Rotating
  <2>6. BoxFollows'
    BY <1>3 DEF AlterRole, AccessInv, Doing, NotDoing, NoPool, AccessTypeOK, BoxFollows, Rotating
  <2>7. PoolFollows'
    BY <1>3 DEF AlterRole, AccessInv, Doing, NotDoing, NoPool, AccessTypeOK, PoolFollows, BoxFollows, Rotating
  <2> QED
    BY <2>1, <2>2, <2>3, <2>4, <2>5, <2>6, <2>7 DEF AccessInv
<1>4. ASSUME NEW c \in Rotators, StorePassword(c) PROVE AccessInv'
  BY <1>4 DEF StorePassword, AccessInv, AccessTypeOK, RoleFollows, ListFollows, Listed, BoxFollows,
     PoolFollows, Rotating, Doing, NotDoing, NoPool
<1>5. ASSUME NEW c \in Rotators, ReadRows(c) PROVE AccessInv'
  <2>1. AccessTypeOK'
    <3>1. (place \in {"shared", "instance"} /\ parked \in BOOLEAN)'
      BY <1>5, AccessAssumption DEF ReadRows, AccessInv, AccessTypeOK, Doing, NotDoing, NoPool
    <3>2. ({stored, rolePw, boxPw, userlist} \subseteq 0..MaxPasswords /\ passwords \in 1..MaxPasswords)'
      BY <1>5, AccessAssumption DEF ReadRows, AccessInv, AccessTypeOK, Doing, NotDoing, NoPool
    <3>3. (pool \in [to : {"none", "shared", "instance"}, pw : 0..MaxPasswords])'
      BY <1>5, AccessAssumption DEF ReadRows, AccessInv, AccessTypeOK, Doing, NotDoing, NoPool
    <3>4. (rotators \in [Rotators -> [pc : {"idle", "row", "read", "write"}, pw : 0..MaxPasswords]])'
      BY <1>5, AccessAssumption DEF ReadRows, AccessInv, AccessTypeOK, Doing, NotDoing, NoPool
    <3>5. (mover \in [pc : {"idle", "copy", "park", "row"}, pw : 0..MaxPasswords])'
      BY <1>5, AccessAssumption DEF ReadRows, AccessInv, AccessTypeOK, Doing, NotDoing, NoPool
    <3>6. (amiss \subseteq {"role", "list", "box", "pool"})'
      BY <1>5, AccessAssumption DEF ReadRows, AccessInv, AccessTypeOK, Doing, NotDoing, NoPool
    <3> QED
      BY <3>1, <3>2, <3>3, <3>4, <3>5, <3>6 DEF AccessTypeOK
  <2>2. ((mover.pc = "idle" => mover = NotDoing) /\ (mover.pc # "idle" => place = "shared"))'
    BY <1>5 DEF ReadRows, AccessInv, Doing, NotDoing, NoPool, AccessTypeOK
  <2>3. (\A d \in Rotators : rotators[d].pc = "idle" => rotators[d] = NotDoing)'
    BY <1>5 DEF ReadRows, AccessInv, Doing, NotDoing, NoPool, AccessTypeOK
  <2>4. RoleFollows'
    BY <1>5 DEF ReadRows, AccessInv, Doing, NotDoing, NoPool, AccessTypeOK, RoleFollows, Rotating
  <2>5. ListFollows'
    BY <1>5 DEF ReadRows, AccessInv, Doing, NotDoing, NoPool, AccessTypeOK, ListFollows, Listed, RoleFollows, Rotating
  <2>6. BoxFollows'
    BY <1>5 DEF ReadRows, AccessInv, Doing, NotDoing, NoPool, AccessTypeOK, BoxFollows, Rotating
  <2>7. PoolFollows'
    BY <1>5 DEF ReadRows, AccessInv, Doing, NotDoing, NoPool, AccessTypeOK, PoolFollows, BoxFollows, Rotating
  <2> QED
    BY <2>1, <2>2, <2>3, <2>4, <2>5, <2>6, <2>7 DEF AccessInv
<1>6. ASSUME NEW c \in Rotators, WriteList(c) PROVE AccessInv'
  <2>1. AccessTypeOK'
    <3>1. (place \in {"shared", "instance"} /\ parked \in BOOLEAN)'
      BY <1>6, AccessAssumption DEF WriteList, AccessInv, AccessTypeOK, Doing, NotDoing, NoPool
    <3>2. ({stored, rolePw, boxPw, userlist} \subseteq 0..MaxPasswords /\ passwords \in 1..MaxPasswords)'
      BY <1>6, AccessAssumption DEF WriteList, AccessInv, AccessTypeOK, Doing, NotDoing, NoPool
    <3>3. (pool \in [to : {"none", "shared", "instance"}, pw : 0..MaxPasswords])'
      BY <1>6, AccessAssumption DEF WriteList, AccessInv, AccessTypeOK, Doing, NotDoing, NoPool
    <3>4. (rotators \in [Rotators -> [pc : {"idle", "row", "read", "write"}, pw : 0..MaxPasswords]])'
      BY <1>6, AccessAssumption DEF WriteList, AccessInv, AccessTypeOK, Doing, NotDoing, NoPool
    <3>5. (mover \in [pc : {"idle", "copy", "park", "row"}, pw : 0..MaxPasswords])'
      BY <1>6, AccessAssumption DEF WriteList, AccessInv, AccessTypeOK, Doing, NotDoing, NoPool
    <3>6. (amiss \subseteq {"role", "list", "box", "pool"})'
      BY <1>6, AccessAssumption DEF WriteList, AccessInv, AccessTypeOK, Doing, NotDoing, NoPool
    <3> QED
      BY <3>1, <3>2, <3>3, <3>4, <3>5, <3>6 DEF AccessTypeOK
  <2>2. ((mover.pc = "idle" => mover = NotDoing) /\ (mover.pc # "idle" => place = "shared"))'
    BY <1>6 DEF WriteList, AccessInv, Doing, NotDoing, NoPool, AccessTypeOK
  <2>3. (\A d \in Rotators : rotators[d].pc = "idle" => rotators[d] = NotDoing)'
    BY <1>6 DEF WriteList, AccessInv, Doing, NotDoing, NoPool, AccessTypeOK
  <2>4. RoleFollows'
    BY <1>6 DEF WriteList, AccessInv, Doing, NotDoing, NoPool, AccessTypeOK, RoleFollows, Rotating
  <2>5. ListFollows'
    BY <1>6 DEF WriteList, AccessInv, Doing, NotDoing, NoPool, AccessTypeOK, ListFollows, Listed, RoleFollows, Rotating
  <2>6. BoxFollows'
    BY <1>6 DEF WriteList, AccessInv, Doing, NotDoing, NoPool, AccessTypeOK, BoxFollows, Rotating
  <2>7. PoolFollows'
    BY <1>6 DEF WriteList, AccessInv, Doing, NotDoing, NoPool, AccessTypeOK, PoolFollows, BoxFollows, Rotating
  <2> QED
    BY <2>1, <2>2, <2>3, <2>4, <2>5, <2>6, <2>7 DEF AccessInv
<1>7. CASE MoveBegins
  BY <1>7 DEF MoveBegins, AccessInv, AccessTypeOK, RoleFollows, ListFollows, Listed, BoxFollows,
     PoolFollows, Rotating, Doing, NotDoing, NoPool
<1>8. CASE MoveFails
  <2>1. AccessTypeOK'
    <3>1. (place \in {"shared", "instance"} /\ parked \in BOOLEAN)'
      BY <1>8, AccessAssumption DEF MoveFails, AccessInv, AccessTypeOK, Doing, NotDoing, NoPool
    <3>2. ({stored, rolePw, boxPw, userlist} \subseteq 0..MaxPasswords /\ passwords \in 1..MaxPasswords)'
      BY <1>8, AccessAssumption DEF MoveFails, AccessInv, AccessTypeOK, Doing, NotDoing, NoPool
    <3>3. (pool \in [to : {"none", "shared", "instance"}, pw : 0..MaxPasswords])'
      BY <1>8, AccessAssumption DEF MoveFails, AccessInv, AccessTypeOK, Doing, NotDoing, NoPool
    <3>4. (rotators \in [Rotators -> [pc : {"idle", "row", "read", "write"}, pw : 0..MaxPasswords]])'
      BY <1>8, AccessAssumption DEF MoveFails, AccessInv, AccessTypeOK, Doing, NotDoing, NoPool
    <3>5. (mover \in [pc : {"idle", "copy", "park", "row"}, pw : 0..MaxPasswords])'
      BY <1>8, AccessAssumption DEF MoveFails, AccessInv, AccessTypeOK, Doing, NotDoing, NoPool
    <3>6. (amiss \subseteq {"role", "list", "box", "pool"})'
      BY <1>8, AccessAssumption DEF MoveFails, AccessInv, AccessTypeOK, Doing, NotDoing, NoPool
    <3> QED
      BY <3>1, <3>2, <3>3, <3>4, <3>5, <3>6 DEF AccessTypeOK
  <2>2. ((mover.pc = "idle" => mover = NotDoing) /\ (mover.pc # "idle" => place = "shared"))'
    BY <1>8 DEF MoveFails, AccessInv, Doing, NotDoing, NoPool, AccessTypeOK
  <2>3. (\A d \in Rotators : rotators[d].pc = "idle" => rotators[d] = NotDoing)'
    BY <1>8 DEF MoveFails, AccessInv, Doing, NotDoing, NoPool, AccessTypeOK
  <2>4. RoleFollows'
    BY <1>8 DEF MoveFails, AccessInv, Doing, NotDoing, NoPool, AccessTypeOK, RoleFollows, Rotating
  <2>5. ListFollows'
    BY <1>8 DEF MoveFails, AccessInv, Doing, NotDoing, NoPool, AccessTypeOK, ListFollows, Listed, RoleFollows, Rotating
  <2>6. BoxFollows'
    BY <1>8 DEF MoveFails, AccessInv, Doing, NotDoing, NoPool, AccessTypeOK, BoxFollows, Rotating
  <2>7. PoolFollows'
    BY <1>8 DEF MoveFails, AccessInv, Doing, NotDoing, NoPool, AccessTypeOK, PoolFollows, BoxFollows, Rotating
  <2> QED
    BY <2>1, <2>2, <2>3, <2>4, <2>5, <2>6, <2>7 DEF AccessInv
<1>9. CASE Flip
  <2>1. AccessTypeOK'
    <3>1. (place \in {"shared", "instance"} /\ parked \in BOOLEAN)'
      BY <1>9, AccessAssumption DEF Flip, AccessInv, AccessTypeOK, Doing, NotDoing, NoPool
    <3>2. ({stored, rolePw, boxPw, userlist} \subseteq 0..MaxPasswords /\ passwords \in 1..MaxPasswords)'
      BY <1>9, AccessAssumption DEF Flip, AccessInv, AccessTypeOK, Doing, NotDoing, NoPool
    <3>3. (pool \in [to : {"none", "shared", "instance"}, pw : 0..MaxPasswords])'
      BY <1>9, AccessAssumption DEF Flip, AccessInv, AccessTypeOK, Doing, NotDoing, NoPool
    <3>4. (rotators \in [Rotators -> [pc : {"idle", "row", "read", "write"}, pw : 0..MaxPasswords]])'
      BY <1>9, AccessAssumption DEF Flip, AccessInv, AccessTypeOK, Doing, NotDoing, NoPool
    <3>5. (mover \in [pc : {"idle", "copy", "park", "row"}, pw : 0..MaxPasswords])'
      BY <1>9, AccessAssumption DEF Flip, AccessInv, AccessTypeOK, Doing, NotDoing, NoPool
    <3>6. (amiss \subseteq {"role", "list", "box", "pool"})'
      BY <1>9, AccessAssumption DEF Flip, AccessInv, AccessTypeOK, Doing, NotDoing, NoPool
    <3> QED
      BY <3>1, <3>2, <3>3, <3>4, <3>5, <3>6 DEF AccessTypeOK
  <2>2. ((mover.pc = "idle" => mover = NotDoing) /\ (mover.pc # "idle" => place = "shared"))'
    BY <1>9 DEF Flip, AccessInv, Doing, NotDoing, NoPool, AccessTypeOK
  <2>3. (\A d \in Rotators : rotators[d].pc = "idle" => rotators[d] = NotDoing)'
    BY <1>9 DEF Flip, AccessInv, Doing, NotDoing, NoPool, AccessTypeOK
  <2>4. RoleFollows'
    BY <1>9 DEF Flip, AccessInv, Doing, NotDoing, NoPool, AccessTypeOK, RoleFollows, Rotating
  <2>5. ListFollows'
    BY <1>9 DEF Flip, AccessInv, Doing, NotDoing, NoPool, AccessTypeOK, ListFollows, Listed, RoleFollows, Rotating
  <2>6. BoxFollows'
    BY <1>9 DEF Flip, AccessInv, Doing, NotDoing, NoPool, AccessTypeOK, BoxFollows, Rotating
  <2>7. PoolFollows'
    BY <1>9 DEF Flip, AccessInv, Doing, NotDoing, NoPool, AccessTypeOK, PoolFollows, BoxFollows, Rotating
  <2> QED
    BY <2>1, <2>2, <2>3, <2>4, <2>5, <2>6, <2>7 DEF AccessInv
<1>10. CASE Park
  <2>1. AccessTypeOK'
    <3>1. (place \in {"shared", "instance"} /\ parked \in BOOLEAN)'
      BY <1>10, AccessAssumption DEF Park, AccessInv, AccessTypeOK, Doing, NotDoing, NoPool
    <3>2. ({stored, rolePw, boxPw, userlist} \subseteq 0..MaxPasswords /\ passwords \in 1..MaxPasswords)'
      BY <1>10, AccessAssumption DEF Park, AccessInv, AccessTypeOK, Doing, NotDoing, NoPool
    <3>3. (pool \in [to : {"none", "shared", "instance"}, pw : 0..MaxPasswords])'
      BY <1>10, AccessAssumption DEF Park, AccessInv, AccessTypeOK, Doing, NotDoing, NoPool
    <3>4. (rotators \in [Rotators -> [pc : {"idle", "row", "read", "write"}, pw : 0..MaxPasswords]])'
      BY <1>10, AccessAssumption DEF Park, AccessInv, AccessTypeOK, Doing, NotDoing, NoPool
    <3>5. (mover \in [pc : {"idle", "copy", "park", "row"}, pw : 0..MaxPasswords])'
      BY <1>10, AccessAssumption DEF Park, AccessInv, AccessTypeOK, Doing, NotDoing, NoPool
    <3>6. (amiss \subseteq {"role", "list", "box", "pool"})'
      BY <1>10, AccessAssumption DEF Park, AccessInv, AccessTypeOK, Doing, NotDoing, NoPool
    <3> QED
      BY <3>1, <3>2, <3>3, <3>4, <3>5, <3>6 DEF AccessTypeOK
  <2>2. ((mover.pc = "idle" => mover = NotDoing) /\ (mover.pc # "idle" => place = "shared"))'
    BY <1>10 DEF Park, AccessInv, Doing, NotDoing, NoPool, AccessTypeOK
  <2>3. (\A d \in Rotators : rotators[d].pc = "idle" => rotators[d] = NotDoing)'
    BY <1>10 DEF Park, AccessInv, Doing, NotDoing, NoPool, AccessTypeOK
  <2>4. RoleFollows'
    BY <1>10 DEF Park, AccessInv, Doing, NotDoing, NoPool, AccessTypeOK, RoleFollows, Rotating
  <2>5. ListFollows'
    BY <1>10 DEF Park, AccessInv, Doing, NotDoing, NoPool, AccessTypeOK, ListFollows, Listed, RoleFollows, Rotating
  <2>6. BoxFollows'
    BY <1>10 DEF Park, AccessInv, Doing, NotDoing, NoPool, AccessTypeOK, BoxFollows, Rotating
  <2>7. PoolFollows'
    BY <1>10 DEF Park, AccessInv, Doing, NotDoing, NoPool, AccessTypeOK, PoolFollows, BoxFollows, Rotating
  <2> QED
    BY <2>1, <2>2, <2>3, <2>4, <2>5, <2>6, <2>7 DEF AccessInv
<1>11. CASE SetMode
  <2>1. AccessTypeOK'
    <3>1. (place \in {"shared", "instance"} /\ parked \in BOOLEAN)'
      BY <1>11, AccessAssumption DEF SetMode, AccessInv, AccessTypeOK, Doing, NotDoing, NoPool
    <3>2. ({stored, rolePw, boxPw, userlist} \subseteq 0..MaxPasswords /\ passwords \in 1..MaxPasswords)'
      BY <1>11, AccessAssumption DEF SetMode, AccessInv, AccessTypeOK, Doing, NotDoing, NoPool
    <3>3. (pool \in [to : {"none", "shared", "instance"}, pw : 0..MaxPasswords])'
      BY <1>11, AccessAssumption DEF SetMode, AccessInv, AccessTypeOK, Doing, NotDoing, NoPool
    <3>4. (rotators \in [Rotators -> [pc : {"idle", "row", "read", "write"}, pw : 0..MaxPasswords]])'
      BY <1>11, AccessAssumption DEF SetMode, AccessInv, AccessTypeOK, Doing, NotDoing, NoPool
    <3>5. (mover \in [pc : {"idle", "copy", "park", "row"}, pw : 0..MaxPasswords])'
      BY <1>11, AccessAssumption DEF SetMode, AccessInv, AccessTypeOK, Doing, NotDoing, NoPool
    <3>6. (amiss \subseteq {"role", "list", "box", "pool"})'
      BY <1>11, AccessAssumption DEF SetMode, AccessInv, AccessTypeOK, Doing, NotDoing, NoPool
    <3> QED
      BY <3>1, <3>2, <3>3, <3>4, <3>5, <3>6 DEF AccessTypeOK
  <2>2. ((mover.pc = "idle" => mover = NotDoing) /\ (mover.pc # "idle" => place = "shared"))'
    BY <1>11 DEF SetMode, AccessInv, Doing, NotDoing, NoPool, AccessTypeOK
  <2>3. (\A d \in Rotators : rotators[d].pc = "idle" => rotators[d] = NotDoing)'
    BY <1>11 DEF SetMode, AccessInv, Doing, NotDoing, NoPool, AccessTypeOK
  <2>4. RoleFollows'
    BY <1>11 DEF SetMode, AccessInv, Doing, NotDoing, NoPool, AccessTypeOK, RoleFollows, Rotating
  <2>5. ListFollows'
    BY <1>11 DEF SetMode, AccessInv, Doing, NotDoing, NoPool, AccessTypeOK, ListFollows, Listed, RoleFollows, Rotating
  <2>6. BoxFollows'
    BY <1>11 DEF SetMode, AccessInv, Doing, NotDoing, NoPool, AccessTypeOK, BoxFollows, Rotating
  <2>7. PoolFollows'
    BY <1>11 DEF SetMode, AccessInv, Doing, NotDoing, NoPool, AccessTypeOK, PoolFollows, BoxFollows, Rotating
  <2> QED
    BY <2>1, <2>2, <2>3, <2>4, <2>5, <2>6, <2>7 DEF AccessInv
<1>12. CASE AccessRestart
  <2>1. AccessTypeOK'
    <3>1. (place \in {"shared", "instance"} /\ parked \in BOOLEAN)'
      BY <1>12, AccessAssumption DEF AccessRestart, AccessInv, AccessTypeOK, Doing, NotDoing, NoPool
    <3>2. ({stored, rolePw, boxPw, userlist} \subseteq 0..MaxPasswords /\ passwords \in 1..MaxPasswords)'
      BY <1>12, AccessAssumption DEF AccessRestart, AccessInv, AccessTypeOK, Doing, NotDoing, NoPool
    <3>3. (pool \in [to : {"none", "shared", "instance"}, pw : 0..MaxPasswords])'
      BY <1>12, AccessAssumption DEF AccessRestart, AccessInv, AccessTypeOK, Doing, NotDoing, NoPool
    <3>4. (rotators \in [Rotators -> [pc : {"idle", "row", "read", "write"}, pw : 0..MaxPasswords]])'
      BY <1>12, AccessAssumption DEF AccessRestart, AccessInv, AccessTypeOK, Doing, NotDoing, NoPool
    <3>5. (mover \in [pc : {"idle", "copy", "park", "row"}, pw : 0..MaxPasswords])'
      BY <1>12, AccessAssumption DEF AccessRestart, AccessInv, AccessTypeOK, Doing, NotDoing, NoPool
    <3>6. (amiss \subseteq {"role", "list", "box", "pool"})'
      BY <1>12, AccessAssumption DEF AccessRestart, AccessInv, AccessTypeOK, Doing, NotDoing, NoPool
    <3> QED
      BY <3>1, <3>2, <3>3, <3>4, <3>5, <3>6 DEF AccessTypeOK
  <2>2. ((mover.pc = "idle" => mover = NotDoing) /\ (mover.pc # "idle" => place = "shared"))'
    BY <1>12 DEF AccessRestart, AccessInv, Doing, NotDoing, NoPool, AccessTypeOK
  <2>3. (\A d \in Rotators : rotators[d].pc = "idle" => rotators[d] = NotDoing)'
    BY <1>12 DEF AccessRestart, AccessInv, Doing, NotDoing, NoPool, AccessTypeOK
  <2>4. RoleFollows'
    BY <1>12 DEF AccessRestart, AccessInv, Doing, NotDoing, NoPool, AccessTypeOK, RoleFollows, Rotating
  <2>5. ListFollows'
    BY <1>12 DEF AccessRestart, AccessInv, Doing, NotDoing, NoPool, AccessTypeOK, ListFollows, Listed, RoleFollows, Rotating
  <2>6. BoxFollows'
    BY <1>12 DEF AccessRestart, AccessInv, Doing, NotDoing, NoPool, AccessTypeOK, BoxFollows, Rotating
  <2>7. PoolFollows'
    BY <1>12 DEF AccessRestart, AccessInv, Doing, NotDoing, NoPool, AccessTypeOK, PoolFollows, BoxFollows, Rotating
  <2> QED
    BY <2>1, <2>2, <2>3, <2>4, <2>5, <2>6, <2>7 DEF AccessInv
<1>13. CASE UNCHANGED accessVars
  BY <1>13 DEF accessVars, AccessInv, AccessTypeOK, RoleFollows, ListFollows, Listed, BoxFollows,
     PoolFollows, Rotating, Doing, NotDoing, NoPool
<1> QED
  BY <1>1, <1>2, <1>3, <1>4, <1>5, <1>6, <1>7, <1>8, <1>9, <1>10, <1>11, <1>12, <1>13
  DEF AccessNext

\* The pool, the role, the row, the pooler's file and the container agree on
\* where a database is and with which password (editor.go, admin.go).
THEOREM CredentialsStayInAgreement == AccessSpec => []CredentialsAgree
<1>1. AccessInv => CredentialsAgree
  BY DEF AccessInv, AccessTypeOK, CredentialsAgree, RoleFollows, ListFollows, Listed, BoxFollows,
     PoolFollows, Rotating, Doing, NotDoing, NoPool
<1> QED
  BY <1>1, AccessInitInv, AccessNextInv, PTL DEF AccessSpec
-----------------------------------------------------------------------------
(* Objects in three places.                                                *)

\* Two requests at one path are both reads, or all their paths are disturbed.
EndsOf(c) == {serving[c].path, serving[c].from}
StoreApart ==
    \A c, d \in StoreClients :
      c # d /\ serving[c] # NoRequest /\ serving[d] # NoRequest
            /\ EndsOf(c) \cap EndsOf(d) # {}
        => \/ serving[c].kind = "read" /\ serving[d].kind = "read"
           \/ EndsOf(c) \cup EndsOf(d) \subseteq disturbed

\* Where a request of each kind can be.
Formed(s) ==
    CASE s.kind = "read"   -> s.pc = "fetch" /\ s.path = s.from
      [] s.kind = "upload" -> s.pc \in {"write", "push", "row"} /\ s.path = s.from
                              /\ s.ver # Absent
      [] s.kind = "delete" -> s.pc \in {"s3delete", "deleteRow"} /\ s.path = s.from
      [] s.kind = "copy"   -> s.pc \in {"fetchThenCopy", "copy", "push", "row"}
                              /\ s.path # s.from /\ s.ver # Absent
      [] s.kind = "move"   -> s.pc # "fetch" /\ s.pc # "write"
                              /\ s.path # s.from /\ s.ver # Absent

\* A path at rest: neither place holds anything but the recorded body, and one
\* of them holds it.
Rests(p) ==
    /\ local[p] \in {Absent, objects[p]}
    /\ AtRemote(p) \in {Absent, objects[p]}
    /\ p \notin lost => objects[p] \in {local[p], AtRemote(p)}

\* What a transfer copies from is what it read of the row.
SourceKept ==
    \A c \in StoreClients :
      serving[c] # NoRequest /\ serving[c].pc \in {"fetchThenCopy", "copy"}
        /\ serving[c].path \notin disturbed
        => local[serving[c].from] \in {Absent, serving[c].ver}

\* What a request that writes to p has made of p so far.
WrittenSoFar(s, p) ==
    /\ s.kind # "upload" => objects[p] = Absent
    /\ s.pc \in {"fetchThenCopy", "copy"} => Rests(p)
    /\ s.pc = "write" =>
         AtRemote(p) \in {Absent, objects[p]} /\ (~s3Enabled => local[p] # Absent)
    /\ s.pc = "push" =>
         /\ AtRemote(p) \in {Absent, objects[p]} /\ local[p] \in {Absent, s.ver}
         /\ ~s3Enabled => local[p] = s.ver
    /\ s.pc = "row" =>
         /\ local[p] \in {Absent, s.ver}
         /\ AtRemote(p) = IF s3Enabled THEN s.ver ELSE Absent
         /\ ~s3Enabled => local[p] = s.ver

\* What a request that touches p can rely on at p.
ReliesOn(s, p) ==
    /\ s.kind = "read" => s.ver = objects[p] /\ objects[p] # Absent
    /\ s.pc \in {"s3delete", "deleteRow"} /\ s.from = p => local[p] = Absent
    /\ s.pc = "deleteRow" /\ s.from = p => AtRemote(p) = Absent
    /\ s.pc \in {"s3delete", "deleteRow"} /\ s.from # p => Rests(p)
    /\ s.kind \in {"copy", "move"} /\ s.pc \notin {"s3delete", "deleteRow"} /\ s.from = p
         => Rests(p) /\ s.ver = objects[p]
    /\ s.kind \in {"upload", "copy", "move"} /\ s.pc \notin {"s3delete", "deleteRow"}
         /\ s.path = p => WrittenSoFar(s, p)

ObjectKept(p) ==
    /\ ~Changed(p) => Rests(p)
    /\ \A c \in Touching(p) : ReliesOn(serving[c], p)

StoreInv ==
    /\ StoreTypeOK /\ StoreApart /\ SourceKept
    /\ \A c \in StoreClients : serving[c] # NoRequest => Formed(serving[c])
    /\ \A p \in Paths \ disturbed : ObjectKept(p)

-----------------------------------------------------------------------------
(* Uploads that arrive in pieces.                                          *)

PatchOn(c, u) == patch[c] # NoPatch /\ patch[c].id = u
Landing(c, u) == PatchOn(c, u) /\ patch[c].pc \in {"removeMeta", "push", "row"}

\* The staged bytes are the beginning of the client's file.
Begun(u) ==
    /\ Len(staged[u].bytes) <= Length
    /\ \A i \in 1..Len(staged[u].bytes) : staged[u].bytes[i] = i

\* One request lands an upload, and nobody takes a landed one away; as long as
\* no two PATCH requests appended at once, the one that appends is where the
\* file ends.
UploadKept(u) ==
    /\ staged[u].name = "none" =>
         staged[u] = Unborn /\ \A c \in TusClients : ~PatchOn(c, u)
    /\ \A c, d \in TusClients : Landing(c, u) /\ Landing(d, u) => c = d
    /\ \A c \in TusClients : Landing(c, u) => staged[u].name = "object" /\ u \notin recorded
    /\ u \in recorded => staged[u].name = "object"
    /\ u \notin raced =>
         /\ Begun(u)
         /\ \A c, d \in InBody(u) : c = d
         /\ \A c \in InBody(u) : patch[c].off = Len(staged[u].bytes)
         /\ staged[u].name = "object" => InBody(u) = {} /\ staged[u].bytes = Source

TusInv == TusTypeOK /\ \A u \in UploadIds : UploadKept(u)

StagedFiles == [name : {"none", "stage", "object", "gone"}, bytes : Seq(1..Length),
                meta : BOOLEAN, stageOld : BOOLEAN, metaOld : BOOLEAN]
PatchPcs == {"writeMeta", "body", "removeMeta", "push", "row", "endMeta"}
Patches == {NoPatch} \cup [pc : PatchPcs, id : UploadIds, off : 0..Length]

LEMMA TusTypesSplit ==
  TusTypeOK <=> /\ staged \in [UploadIds -> StagedFiles]
                /\ recorded \subseteq UploadIds /\ raced \subseteq UploadIds
                /\ patch \in [TusClients -> Patches]
BY DEF TusTypeOK, StagedFiles, Patches, PatchPcs

\* A request knows its upload.
LEMMA PatchKnows ==
  ASSUME TusTypeOK, NEW c \in TusClients, patch[c] # NoPatch
  PROVE  /\ patch[c].pc \in PatchPcs /\ patch[c].id \in UploadIds
         /\ patch[c].off \in 0..Length
BY DEF TusTypeOK, PatchPcs

LEMMA ServeMoves ==
  ASSUME TusTypeOK, NEW c \in TusClients, NEW pc \in PatchPcs, NEW u \in UploadIds,
         NEW off \in 0..Length, Serve(c, pc, u, off)
  PROVE  /\ patch' \in [TusClients -> Patches]
         /\ patch'[c] # NoPatch
         /\ patch'[c].pc = pc /\ patch'[c].id = u /\ patch'[c].off = off
         /\ \A d \in TusClients : d # c => patch'[d] = patch[d]
<1>1. /\ patch'[c] = [pc |-> pc, id |-> u, off |-> off]
      /\ \A d \in TusClients : d # c => patch'[d] = patch[d]
  BY DEF TusTypeOK, Serve
<1>2. patch' \in [TusClients -> Patches]
  BY DEF TusTypeOK, Serve, Patches, PatchPcs
<1>3. [pc |-> pc, id |-> u, off |-> off] # NoPatch
  BY DEF NoPatch
<1> QED
  BY <1>1, <1>2, <1>3

LEMMA ReplyMoves ==
  ASSUME TusTypeOK, NEW c \in TusClients, Reply(c)
  PROVE  /\ patch' \in [TusClients -> Patches]
         /\ patch'[c] = NoPatch
         /\ \A d \in TusClients : d # c => patch'[d] = patch[d]
BY DEF TusTypeOK, Reply, Patches, PatchPcs

\* The file of one upload changes.
LEMMA StagedMoves ==
  ASSUME TusTypeOK, NEW u \in UploadIds, NEW f \in StagedFiles,
         staged' = [staged EXCEPT ![u] = f]
  PROVE  /\ staged' \in [UploadIds -> StagedFiles]
         /\ staged'[u] = f
         /\ \A v \in UploadIds : v # u => staged'[v] = staged[v]
BY DEF TusTypeOK, StagedFiles

\* The type of a file with one field replaced.
LEMMA FileFields ==
  ASSUME NEW f \in StagedFiles
  PROVE  /\ \A x \in {"none", "stage", "object", "gone"} : [f EXCEPT !.name = x] \in StagedFiles
         /\ \A x \in BOOLEAN : [f EXCEPT !.meta = x] \in StagedFiles
         /\ \A x \in Seq(1..Length), b \in BOOLEAN :
              [f EXCEPT !.bytes = x, !.stageOld = b] \in StagedFiles
BY DEF StagedFiles

LEMMA UploadFrame ==
  ASSUME NEW u \in UploadIds, UploadKept(u), staged'[u] = staged[u],
         u \in recorded' <=> u \in recorded, u \in raced' <=> u \in raced,
         \A c \in TusClients : PatchOn(c, u)' <=> PatchOn(c, u),
         \A c \in TusClients : PatchOn(c, u) => patch'[c] = patch[c]
  PROVE  UploadKept(u)'
<1>1. \A c \in TusClients : Landing(c, u)' <=> Landing(c, u)
  BY DEF Landing
<1>2. InBody(u)' = InBody(u)
  BY DEF InBody, PatchOn
<1>3. \A c \in InBody(u) : patch'[c] = patch[c]
  BY DEF InBody, PatchOn
<1>4. Begun(u)' <=> Begun(u)
  BY DEF Begun
<1> QED
  BY <1>1, <1>2, <1>3, <1>4 DEF UploadKept

\* Only one request works on one upload at a step.
LEMMA TusSettles ==
  ASSUME TusInv, TusTypeOK', NEW c \in TusClients, NEW u \in UploadIds,
         patch[c] = NoPatch \/ PatchOn(c, u),
         patch'[c] = NoPatch \/ patch'[c].id = u,
         \A d \in TusClients : d # c => patch'[d] = patch[d],
         \A v \in UploadIds : v # u => /\ staged'[v] = staged[v]
                                       /\ v \in recorded' <=> v \in recorded
                                       /\ v \in raced' <=> v \in raced,
         UploadKept(u)'
  PROVE  TusInv'
<1>1. ASSUME NEW v \in UploadIds, v # u
      PROVE  UploadKept(v)'
  <2>1. \A d \in TusClients : PatchOn(d, v)' <=> PatchOn(d, v)
    BY <1>1 DEF PatchOn
  <2>2. \A d \in TusClients : PatchOn(d, v) => patch'[d] = patch[d]
    BY <1>1 DEF PatchOn
  <2> QED
    BY <1>1, <2>1, <2>2, UploadFrame DEF TusInv
<1> QED
  BY <1>1 DEF TusInv

LEMMA CreateKept ==
  ASSUME TusInv, NEW c \in TusClients, NEW u \in UploadIds, Create(c, u)
  PROVE  TusInv'
<1>0. TusTypeOK /\ UploadKept(u) /\ staged[u] \in StagedFiles
  BY TusTypesSplit DEF TusInv
<1>1. /\ patch' \in [TusClients -> Patches] /\ patch'[c] # NoPatch
      /\ patch'[c].pc = "writeMeta" /\ patch'[c].id = u
      /\ \A d \in TusClients : d # c => patch'[d] = patch[d]
  BY <1>0, ServeMoves, TusAssumption DEF Create, PatchPcs
<1>f. PICK f \in StagedFiles : f = [staged[u] EXCEPT !.name = "stage"]
  BY <1>0, FileFields
<1>2. staged' = [staged EXCEPT ![u] = f]
  BY <1>f DEF Create
<1>3. /\ staged' \in [UploadIds -> StagedFiles] /\ staged'[u] = f
      /\ \A v \in UploadIds : v # u => staged'[v] = staged[v]
  BY <1>0, <1>2, StagedMoves
<1>4. f.name = "stage" /\ f.bytes = << >>
  BY <1>0, <1>f DEF Create, Unborn, StagedFiles
<1>5. \A d \in TusClients : ~PatchOn(d, u)
  BY <1>0 DEF Create, UploadKept, Unborn
<1>6. InBody(u)' = {} /\ \A d \in TusClients : ~Landing(d, u)'
  BY <1>1, <1>5 DEF InBody, PatchOn, Landing
<1>7. u \notin recorded
  BY <1>0 DEF UploadKept, Create, Unborn
<1>a. Begun(u)'
  BY <1>3, <1>4, TusAssumption DEF Begun
<1>b. u \notin recorded'
  BY <1>7 DEF Create
<1>8. UploadKept(u)'
  <2>1. staged'[u].name = "stage"
    BY <1>3, <1>4
  <2> QED
    BY <2>1, <1>6, <1>a, <1>b DEF UploadKept
<1>9. TusTypeOK'
  BY <1>0, <1>1, <1>3, TusTypesSplit DEF Create, TusTypeOK, StagedFiles, Patches, PatchPcs
<1> QED
  BY <1>1, <1>3, <1>8, <1>9, TusSettles DEF Create

\* A request that answers takes the upload's name and bytes nowhere, unless it
\* is the one that landed it and s3Push failed.
LEMMA AnswerKept ==
  ASSUME TusInv, NEW c \in TusClients, NEW u \in UploadIds, PatchOn(c, u),
         patch'[c] = NoPatch, \A d \in TusClients : d # c => patch'[d] = patch[d],
         staged'[u].bytes = staged[u].bytes,
         \/ staged'[u].name = staged[u].name
         \/ Landing(c, u) /\ staged'[u].name = "gone",
         u \in recorded' => (u \in recorded \/ (Landing(c, u) /\ staged'[u].name = "object")),
         (u \in raced') <=> (u \in raced)
  PROVE  UploadKept(u)'
<1>1. UploadKept(u) /\ staged[u].name # "none"
  BY DEF TusInv, UploadKept
<1>2. \A d \in TusClients : d # c => (PatchOn(d, u)' <=> PatchOn(d, u))
  BY DEF PatchOn
<1>3. ~PatchOn(c, u)' /\ ~Landing(c, u)'
  BY DEF PatchOn, Landing
<1>4. \A d \in TusClients : Landing(d, u)' => Landing(d, u) /\ d # c
  BY <1>2, <1>3 DEF Landing
<1>5. InBody(u)' = InBody(u) \ {c}
  BY <1>2 DEF InBody, PatchOn
<1>6. \A d \in InBody(u)' : patch'[d] = patch[d]
  BY <1>5 DEF InBody
<1>7. staged'[u].name # "none"
  BY <1>1
<1>8. \A d \in TusClients : Landing(d, u)' => staged'[u].name = "object" /\ u \notin recorded'
  BY <1>1, <1>4 DEF UploadKept
<1>9. u \in recorded' => staged'[u].name = "object"
  BY <1>1 DEF UploadKept
<1>10. Begun(u)' <=> Begun(u)
  BY DEF Begun
<1>11. staged'[u].name = "object" => staged[u].name = "object"
  BY <1>1
<1> QED
  BY <1>1, <1>4, <1>5, <1>6, <1>7, <1>8, <1>9, <1>10, <1>11 DEF UploadKept

\* A request that has landed an upload goes on to the bucket and the row.
LEMMA LandingGoesOn ==
  ASSUME TusInv, NEW c \in TusClients, NEW u \in UploadIds, Landing(c, u),
         Landing(c, u)', \A d \in TusClients : d # c => patch'[d] = patch[d],
         staged'[u].bytes = staged[u].bytes, staged'[u].name = staged[u].name,
         u \in recorded' <=> u \in recorded, u \in raced' <=> u \in raced
  PROVE  UploadKept(u)'
<1>1. UploadKept(u) /\ staged[u].name = "object"
  BY DEF TusInv, UploadKept
<1>2. \A d \in TusClients : d # c => (PatchOn(d, u)' <=> PatchOn(d, u))
  BY DEF PatchOn
<1>4. \A d \in TusClients : Landing(d, u)' <=> Landing(d, u)
  BY <1>2 DEF Landing
<1>5. InBody(u)' = InBody(u)
  BY <1>2 DEF InBody, PatchOn, Landing
<1>6. \A d \in InBody(u) : d # c
  BY DEF InBody, Landing
<1>7. \A d \in InBody(u) : patch'[d] = patch[d]
  BY <1>6 DEF InBody
<1>10. Begun(u)' <=> Begun(u)
  BY DEF Begun
<1> QED
  BY <1>1, <1>4, <1>5, <1>7, <1>10 DEF UploadKept

LEMMA WriteMetaKept ==
  ASSUME TusInv, NEW c \in TusClients, WriteMeta(c) \/ Cut(c)
  PROVE  TusInv'
<1>0. TusTypeOK /\ patch[c] # NoPatch
  BY DEF TusInv, WriteMeta, Cut, TusAt
<1>p. PICK u \in UploadIds : u = patch[c].id
  BY <1>0, PatchKnows
<1>q. PatchOn(c, u) /\ UploadKept(u) /\ staged[u] \in StagedFiles
  BY <1>0, <1>p, TusTypesSplit DEF PatchOn, TusInv
<1>1. /\ patch' \in [TusClients -> Patches] /\ patch'[c] = NoPatch
      /\ \A d \in TusClients : d # c => patch'[d] = patch[d]
  BY <1>0, ReplyMoves DEF WriteMeta, Cut
<1>2. PICK f \in StagedFiles : f = [staged[u] EXCEPT !.meta = TRUE]
  BY <1>q, FileFields
<1>3. f.name = staged[u].name /\ f.bytes = staged[u].bytes
  BY <1>2, <1>q DEF StagedFiles
<1>4. staged' = staged \/ staged' = [staged EXCEPT ![u] = f]
  BY <1>2, <1>p DEF WriteMeta, Cut
<1>5. /\ staged' \in [UploadIds -> StagedFiles]
      /\ staged'[u].name = staged[u].name /\ staged'[u].bytes = staged[u].bytes
      /\ \A v \in UploadIds : v # u => staged'[v] = staged[v]
  BY <1>0, <1>3, <1>4, StagedMoves, TusTypesSplit
<1>6. recorded' = recorded /\ raced' = raced
  BY DEF WriteMeta, Cut
<1>7. UploadKept(u)'
  <2>1. /\ PatchOn(c, u) /\ patch'[c] = NoPatch
        /\ \A d \in TusClients : d # c => patch'[d] = patch[d]
    BY <1>q, <1>1
  <2>2. /\ staged'[u].bytes = staged[u].bytes /\ staged'[u].name = staged[u].name
        /\ u \in recorded' <=> u \in recorded
    BY <1>5, <1>6
  <2>3. u \in raced' <=> u \in raced
    BY <1>6
  <2> QED
    BY <2>1, <2>2, <2>3, AnswerKept
<1>8. TusTypeOK'
  BY <1>0, <1>1, <1>5, <1>6, TusTypesSplit DEF TusTypeOK, StagedFiles, Patches, PatchPcs
<1> QED
  BY <1>q, <1>1, <1>5, <1>6, <1>7, <1>8, TusSettles

LEMMA PatchOpenKept ==
  ASSUME TusInv, NEW c \in TusClients, NEW u \in UploadIds, PatchOpen(c, u)
  PROVE  TusInv'
<1>0. TusTypeOK /\ UploadKept(u) /\ staged[u].name = "stage"
  BY DEF TusInv, PatchOpen, Known
<1>p. PICK off \in 0..Length : off = Len(staged[u].bytes) /\ Serve(c, "body", u, off)
  BY DEF PatchOpen
<1>1. /\ patch' \in [TusClients -> Patches] /\ patch'[c] # NoPatch
      /\ patch'[c].pc = "body" /\ patch'[c].id = u /\ patch'[c].off = off
      /\ \A d \in TusClients : d # c => patch'[d] = patch[d]
  BY <1>0, <1>p, ServeMoves DEF PatchPcs
<1>2. /\ staged' = staged /\ recorded' = recorded
      /\ raced' = raced \cup {v \in {u} : InBody(v) # {}}
  BY DEF PatchOpen
<1>3. InBody(u)' = InBody(u) \cup {c}
  BY <1>1 DEF InBody, PatchOpen, TusInv
<1>4. \A d \in TusClients : ~Landing(d, u)
  BY <1>0 DEF UploadKept
<1>5. \A d \in TusClients : ~Landing(d, u)'
  BY <1>1, <1>4 DEF Landing, PatchOn
<1>6. UploadKept(u)'
  <2>1. u \notin raced' => u \notin raced /\ InBody(u) = {}
    BY <1>2
  <2>2. Begun(u)' <=> Begun(u)
    BY <1>2 DEF Begun
  <2>3. staged'[u].name = "stage" /\ u \notin recorded'
    BY <1>0, <1>2 DEF UploadKept
  <2>4. u \notin raced' => InBody(u)' = {c} /\ patch'[c].off = Len(staged'[u].bytes)
    BY <2>1, <1>1, <1>2, <1>3, <1>p
  <2> QED
    BY <2>1, <2>2, <2>3, <2>4, <1>0, <1>5 DEF UploadKept
<1>7. TusTypeOK'
  BY <1>0, <1>1, <1>2, TusTypesSplit DEF TusTypeOK, StagedFiles, Patches, PatchPcs
<1> QED
  BY <1>1, <1>2, <1>6, <1>7, TusSettles DEF PatchOpen

\* The file is the client's as far as it goes, and one chunk more.
LEMMA AppendKept ==
  ASSUME TusInv, NEW c \in TusClients, Append1(c)
  PROVE  TusInv'
<1>0. TusTypeOK /\ patch[c] # NoPatch /\ patch[c].pc = "body"
  BY DEF TusInv, Append1, TusAt
<1>p. PICK u \in UploadIds, off \in 0..Length : u = patch[c].id /\ off = patch[c].off
  BY <1>0, PatchKnows
<1>q. /\ PatchOn(c, u) /\ UploadKept(u) /\ staged[u] \in StagedFiles
      /\ off < Length /\ off + 1 \in 0..Length /\ off + 1 \in 1..Length
  BY <1>0, <1>p, TusTypesSplit, TusAssumption DEF PatchOn, TusInv, Append1
<1>1. /\ patch' \in [TusClients -> Patches] /\ patch'[c] # NoPatch
      /\ patch'[c].pc = "body" /\ patch'[c].id = u /\ patch'[c].off = off + 1
      /\ \A d \in TusClients : d # c => patch'[d] = patch[d]
  <2>1. Serve(c, "body", u, off + 1)
    BY <1>p DEF Append1
  <2> QED
    BY <1>0, <1>q, <2>1, ServeMoves DEF PatchPcs
<1>b. PICK more \in Seq(1..Length) : more = Append(staged[u].bytes, off + 1)
  <2>1. staged[u].bytes \in Seq(1..Length)
    BY <1>q DEF StagedFiles
  <2>2. off + 1 \in 1..Length
    BY <1>q
  <2>3. \A S, b : \A e \in S : b \in Seq(S) => Append(b, e) \in Seq(S)
    OBVIOUS
  <2>4. Append(staged[u].bytes, off + 1) \in Seq(1..Length)
    BY <2>1, <2>2, <2>3
  <2> QED
    BY <2>4
<1>2. PICK f \in StagedFiles : f = [staged[u] EXCEPT !.bytes = more, !.stageOld = FALSE]
  BY <1>q, FileFields
<1>3. f.name = staged[u].name /\ f.bytes = more
  BY <1>2, <1>q DEF StagedFiles
<1>4. staged' = [staged EXCEPT ![u] = f]
  BY <1>2, <1>b, <1>p DEF Append1
<1>5. /\ staged' \in [UploadIds -> StagedFiles] /\ staged'[u] = f
      /\ \A v \in UploadIds : v # u => staged'[v] = staged[v]
  BY <1>0, <1>4, StagedMoves
<1>6. recorded' = recorded /\ raced' = raced
  BY DEF Append1
<1>7. c \in InBody(u) /\ InBody(u)' = InBody(u)
  BY <1>0, <1>1, <1>p DEF InBody
<1>8. \A d \in TusClients : /\ PatchOn(d, u)' <=> PatchOn(d, u)
                            /\ Landing(d, u)' <=> Landing(d, u)
  BY <1>0, <1>1, <1>p DEF PatchOn, Landing
<1>9. u \notin raced => Begun(u)' /\ Len(staged'[u].bytes) = off + 1
  <2>1. SUFFICES ASSUME u \notin raced
                 PROVE  Begun(u)' /\ Len(more) = off + 1
    BY <1>3, <1>5
  <2>2. Begun(u) /\ Len(staged[u].bytes) = off
    BY <2>1, <1>q, <1>7, <1>p DEF UploadKept
  <2>3. staged[u].bytes \in Seq(1..Length)
    BY <1>q DEF StagedFiles
  <2>4. Len(more) = off + 1 /\ \A i \in 1..(off + 1) :
          more[i] = IF i <= off THEN staged[u].bytes[i] ELSE off + 1
    BY <2>2, <2>3, <1>b
  <2>5. \A i \in 1..(off + 1) : more[i] = i
    BY <2>2, <2>4, <1>q DEF Begun
  <2> QED
    BY <2>4, <2>5, <1>3, <1>5, <1>q, TusAssumption DEF Begun
<1>10. UploadKept(u)'
  <2>1. staged'[u].name = staged[u].name /\ staged[u].name # "none"
    BY <1>3, <1>5, <1>q DEF UploadKept
  <2>2. u \notin raced => staged[u].name # "object"
    BY <1>q, <1>7 DEF UploadKept
  <2>3. u \notin raced => \A d \in InBody(u) : d = c
    BY <1>q, <1>7 DEF UploadKept
  <2> QED
    BY <2>1, <2>2, <2>3, <1>1, <1>6, <1>7, <1>8, <1>9, <1>q DEF UploadKept
<1>11. TusTypeOK'
  BY <1>0, <1>1, <1>5, <1>6, TusTypesSplit DEF TusTypeOK, StagedFiles, Patches, PatchPcs
<1> QED
  BY <1>q, <1>1, <1>5, <1>6, <1>10, <1>11, TusSettles

\* The whole file is renamed to the object's path.
LEMMA FinishKept ==
  ASSUME TusInv, NEW c \in TusClients, Finish(c)
  PROVE  TusInv'
<1>0. TusTypeOK /\ patch[c] # NoPatch /\ patch[c].pc = "body" /\ patch[c].off = Length
  BY DEF TusInv, Finish, TusAt
<1>p. PICK u \in UploadIds : u = patch[c].id
  BY <1>0, PatchKnows
<1>q. PatchOn(c, u) /\ UploadKept(u) /\ staged[u] \in StagedFiles /\ c \in InBody(u)
  BY <1>0, <1>p, TusTypesSplit DEF PatchOn, TusInv, InBody
<1>6. recorded' = recorded /\ raced' = raced
  BY DEF Finish
<1>7. CASE staged[u].name # "stage"
  <2>1. /\ patch' \in [TusClients -> Patches] /\ patch'[c] = NoPatch
        /\ \A d \in TusClients : d # c => patch'[d] = patch[d]
    BY <1>0, <1>7, <1>p, ReplyMoves DEF Finish
  <2>2. staged' = staged
    BY <1>7, <1>p DEF Finish
  <2>3. UploadKept(u)'
    BY <1>q, <1>6, <2>1, <2>2, AnswerKept
  <2>4. TusTypeOK'
    BY <1>0, <1>6, <2>1, <2>2, TusTypesSplit DEF TusTypeOK, StagedFiles, Patches, PatchPcs
  <2> QED
    BY <1>q, <1>6, <2>1, <2>2, <2>3, <2>4, TusSettles
<1>8. CASE staged[u].name = "stage"
  <2>1. /\ patch' \in [TusClients -> Patches] /\ patch'[c] # NoPatch
        /\ patch'[c].pc = "removeMeta" /\ patch'[c].id = u
        /\ \A d \in TusClients : d # c => patch'[d] = patch[d]
    <3>1. Serve(c, "removeMeta", u, Length)
      BY <1>8, <1>p DEF Finish
    <3> QED
      BY <1>0, <3>1, ServeMoves, TusAssumption DEF PatchPcs
  <2>2. PICK f \in StagedFiles : f = [staged[u] EXCEPT !.name = "object"]
    BY <1>q, FileFields
  <2>3. f.name = "object" /\ f.bytes = staged[u].bytes
    BY <2>2, <1>q DEF StagedFiles
  <2>4. staged' = [staged EXCEPT ![u] = f]
    BY <2>2, <1>8, <1>p DEF Finish
  <2>5. /\ staged' \in [UploadIds -> StagedFiles] /\ staged'[u] = f
        /\ \A v \in UploadIds : v # u => staged'[v] = staged[v]
    BY <1>0, <2>4, StagedMoves
  <2>6. \A d \in TusClients : ~Landing(d, u)
    BY <1>8, <1>q DEF UploadKept
  <2>7. \A d \in TusClients : Landing(d, u)' => d = c
    BY <2>1, <2>6 DEF Landing, PatchOn
  <2>8. u \notin recorded'
    BY <1>6, <1>8, <1>q DEF UploadKept
  <2>9. u \notin raced => InBody(u)' = {}
    <3>1. u \notin raced => \A d \in TusClients : d \in InBody(u) => d = c
      BY <1>q DEF UploadKept
    <3> QED
      BY <3>1, <2>1 DEF InBody
  <2>10. u \notin raced => Begun(u)' /\ staged'[u].bytes = Source
    <3>1. SUFFICES ASSUME u \notin raced
                   PROVE  Begun(u)' /\ staged'[u].bytes = Source
      OBVIOUS
    <3>2. Begun(u) /\ Len(staged[u].bytes) = Length
      BY <3>1, <1>0, <1>q DEF UploadKept
    <3>3. staged[u].bytes \in Seq(1..Length)
      BY <1>q DEF StagedFiles
    <3>4. staged[u].bytes = Source
      BY <3>2, <3>3, TusAssumption DEF Begun, Source
    <3> QED
      BY <3>2, <3>4, <2>3, <2>5 DEF Begun
  <2>11. UploadKept(u)'
    <3>1. staged'[u].name = "object"
      BY <2>3, <2>5
    <3> QED
      BY <3>1, <1>6, <2>7, <2>8, <2>9, <2>10 DEF UploadKept
  <2>12. TusTypeOK'
    BY <1>0, <1>6, <2>1, <2>5, TusTypesSplit DEF TusTypeOK, StagedFiles, Patches, PatchPcs
  <2> QED
    BY <1>q, <1>6, <2>1, <2>5, <2>11, <2>12, TusSettles
<1> QED
  BY <1>7, <1>8

LEMMA RemoveMetaKept ==
  ASSUME TusInv, NEW c \in TusClients, RemoveMeta(c)
  PROVE  TusInv'
<1>0. TusTypeOK /\ patch[c] # NoPatch /\ patch[c].pc \in {"removeMeta", "endMeta"}
  BY DEF TusInv, RemoveMeta, TusAt
<1>p. PICK u \in UploadIds : u = patch[c].id
  BY <1>0, PatchKnows
<1>q. PatchOn(c, u) /\ UploadKept(u) /\ staged[u] \in StagedFiles
  BY <1>0, <1>p, TusTypesSplit DEF PatchOn, TusInv
<1>2. PICK f \in StagedFiles : f = [staged[u] EXCEPT !.meta = FALSE]
  BY <1>q, FileFields
<1>3. f.name = staged[u].name /\ f.bytes = staged[u].bytes
  BY <1>2, <1>q DEF StagedFiles
<1>4. staged' = [staged EXCEPT ![u] = f]
  BY <1>2, <1>p DEF RemoveMeta
<1>5. /\ staged' \in [UploadIds -> StagedFiles]
      /\ staged'[u].name = staged[u].name /\ staged'[u].bytes = staged[u].bytes
      /\ \A v \in UploadIds : v # u => staged'[v] = staged[v]
  BY <1>0, <1>3, <1>4, StagedMoves
<1>6. recorded' = recorded /\ raced' = raced
  BY DEF RemoveMeta
<1>7. CASE patch[c].pc = "endMeta"
  <2>1. /\ patch' \in [TusClients -> Patches] /\ patch'[c] = NoPatch
        /\ \A d \in TusClients : d # c => patch'[d] = patch[d]
    BY <1>0, <1>7, ReplyMoves DEF RemoveMeta
  <2>3. UploadKept(u)'
    BY <1>q, <1>5, <1>6, <2>1, AnswerKept
  <2>4. TusTypeOK'
    BY <1>0, <1>5, <1>6, <2>1, TusTypesSplit DEF TusTypeOK, StagedFiles, Patches, PatchPcs
  <2> QED
    BY <1>q, <1>5, <1>6, <2>1, <2>3, <2>4, TusSettles
<1>8. CASE patch[c].pc = "removeMeta"
  <2>1. /\ patch' \in [TusClients -> Patches] /\ patch'[c] # NoPatch
        /\ patch'[c].pc = "push" /\ patch'[c].id = u
        /\ \A d \in TusClients : d # c => patch'[d] = patch[d]
    <3>1. Serve(c, "push", u, Length)
      BY <1>8, <1>p DEF RemoveMeta
    <3> QED
      BY <1>0, <3>1, ServeMoves, TusAssumption DEF PatchPcs
  <2>2. Landing(c, u) /\ Landing(c, u)'
    BY <1>8, <1>q, <2>1 DEF Landing, PatchOn
  <2>3. UploadKept(u)'
    BY <1>5, <1>6, <2>1, <2>2, LandingGoesOn
  <2>4. TusTypeOK'
    BY <1>0, <1>5, <1>6, <2>1, TusTypesSplit DEF TusTypeOK, StagedFiles, Patches, PatchPcs
  <2> QED
    BY <1>q, <1>5, <1>6, <2>1, <2>3, <2>4, TusSettles
<1> QED
  BY <1>0, <1>7, <1>8

LEMMA TusPushKept ==
  ASSUME TusInv, NEW c \in TusClients, TusPush(c)
  PROVE  TusInv'
<1>0. TusTypeOK /\ patch[c] # NoPatch /\ patch[c].pc = "push"
  BY DEF TusInv, TusPush, TusAt
<1>p. PICK u \in UploadIds : u = patch[c].id
  BY <1>0, PatchKnows
<1>q. PatchOn(c, u) /\ Landing(c, u) /\ UploadKept(u) /\ staged[u] \in StagedFiles
  BY <1>0, <1>p, TusTypesSplit DEF PatchOn, TusInv, Landing
<1>6. recorded' = recorded /\ raced' = raced
  BY DEF TusPush
<1>7. CASE Reply(c) /\ staged' = [staged EXCEPT ![patch[c].id].name = "gone"]
  <2>1. /\ patch' \in [TusClients -> Patches] /\ patch'[c] = NoPatch
        /\ \A d \in TusClients : d # c => patch'[d] = patch[d]
    BY <1>0, <1>7, ReplyMoves
  <2>2. PICK f \in StagedFiles : f = [staged[u] EXCEPT !.name = "gone"]
    BY <1>q, FileFields
  <2>3. f.name = "gone" /\ f.bytes = staged[u].bytes
    BY <2>2, <1>q DEF StagedFiles
  <2>4. staged' = [staged EXCEPT ![u] = f]
    BY <2>2, <1>7, <1>p
  <2>5. /\ staged' \in [UploadIds -> StagedFiles]
        /\ staged'[u].name = "gone" /\ staged'[u].bytes = staged[u].bytes
        /\ \A v \in UploadIds : v # u => staged'[v] = staged[v]
    BY <1>0, <2>3, <2>4, StagedMoves
  <2>6. UploadKept(u)'
    BY <1>q, <1>6, <2>1, <2>5, AnswerKept
  <2>7. TusTypeOK'
    BY <1>0, <1>6, <2>1, <2>5, TusTypesSplit DEF TusTypeOK, StagedFiles, Patches, PatchPcs
  <2> QED
    BY <1>q, <1>6, <2>1, <2>5, <2>6, <2>7, TusSettles
<1>8. CASE Serve(c, "row", patch[c].id, Length) /\ UNCHANGED staged
  <2>1. /\ patch' \in [TusClients -> Patches] /\ patch'[c] # NoPatch
        /\ patch'[c].pc = "row" /\ patch'[c].id = u
        /\ \A d \in TusClients : d # c => patch'[d] = patch[d]
    <3>1. Serve(c, "row", u, Length)
      BY <1>8, <1>p
    <3> QED
      BY <1>0, <3>1, ServeMoves, TusAssumption DEF PatchPcs
  <2>2. Landing(c, u)' /\ staged' = staged
    BY <1>8, <2>1 DEF Landing, PatchOn
  <2>3. UploadKept(u)'
    BY <1>q, <1>6, <2>1, <2>2, LandingGoesOn
  <2>4. TusTypeOK'
    BY <1>0, <1>6, <2>1, <2>2, TusTypesSplit DEF TusTypeOK, StagedFiles, Patches, PatchPcs
  <2> QED
    BY <1>q, <1>6, <2>1, <2>2, <2>3, <2>4, TusSettles
<1> QED
  BY <1>7, <1>8 DEF TusPush

\* The row is written while the landed file is there.
LEMMA TusRowKept ==
  ASSUME TusInv, NEW c \in TusClients, TusRow(c)
  PROVE  TusInv'
<1>0. TusTypeOK /\ patch[c] # NoPatch /\ patch[c].pc = "row"
  BY DEF TusInv, TusRow, TusAt
<1>p. PICK u \in UploadIds : u = patch[c].id
  BY <1>0, PatchKnows
<1>q. PatchOn(c, u) /\ Landing(c, u) /\ UploadKept(u) /\ staged[u].name = "object"
  BY <1>0, <1>p DEF PatchOn, TusInv, Landing, UploadKept
<1>1. /\ patch' \in [TusClients -> Patches] /\ patch'[c] = NoPatch
      /\ \A d \in TusClients : d # c => patch'[d] = patch[d]
  BY <1>0, ReplyMoves DEF TusRow
<1>2. staged' = staged /\ raced' = raced /\ recorded' = recorded \cup {u}
  BY <1>p DEF TusRow
<1>3. UploadKept(u)'
  BY <1>q, <1>1, <1>2, AnswerKept
<1>4. TusTypeOK'
  BY <1>0, <1>1, <1>2, TusTypesSplit DEF TusTypeOK, StagedFiles, Patches, PatchPcs
<1>5. \A v \in UploadIds : v # u => (v \in recorded' <=> v \in recorded)
  BY <1>2
<1> QED
  BY <1>q, <1>1, <1>2, <1>3, <1>4, <1>5, TusSettles

\* What is not landed yet may be taken away: by DELETE or by the pruner.
LEMMA StageGone ==
  ASSUME TusInv, NEW u \in UploadIds, staged[u].name = "stage", staged'[u].name = "gone",
         staged'[u].bytes = staged[u].bytes,
         (u \in recorded') <=> (u \in recorded), (u \in raced') <=> (u \in raced),
         InBody(u)' = InBody(u), \A c \in InBody(u) : patch'[c] = patch[c],
         \A c \in TusClients : Landing(c, u)' => Landing(c, u)
  PROVE  UploadKept(u)'
<1>1. UploadKept(u)
  BY DEF TusInv
<1>2. Begun(u)' <=> Begun(u)
  BY DEF Begun
<1> QED
  BY <1>1, <1>2 DEF UploadKept

LEMMA TerminateKept ==
  ASSUME TusInv, NEW c \in TusClients, NEW u \in UploadIds, Terminate(c, u)
  PROVE  TusInv'
<1>0. TusTypeOK /\ UploadKept(u) /\ staged[u].name = "stage" /\ staged[u] \in StagedFiles
  BY TusTypesSplit DEF TusInv, Terminate, Known
<1>1. /\ patch' \in [TusClients -> Patches] /\ patch'[c] # NoPatch
      /\ patch'[c].pc = "endMeta" /\ patch'[c].id = u
      /\ \A d \in TusClients : d # c => patch'[d] = patch[d]
  BY <1>0, ServeMoves, TusAssumption DEF Terminate, PatchPcs
<1>2. PICK f \in StagedFiles : f = [staged[u] EXCEPT !.name = "gone"]
  BY <1>0, FileFields
<1>3. f.name = "gone" /\ f.bytes = staged[u].bytes
  BY <1>2, <1>0 DEF StagedFiles
<1>4. staged' = [staged EXCEPT ![u] = f]
  BY <1>2 DEF Terminate
<1>5. /\ staged' \in [UploadIds -> StagedFiles]
      /\ staged'[u].name = "gone" /\ staged'[u].bytes = staged[u].bytes
      /\ \A v \in UploadIds : v # u => staged'[v] = staged[v]
  BY <1>0, <1>3, <1>4, StagedMoves
<1>6. recorded' = recorded /\ raced' = raced /\ patch[c] = NoPatch
  BY DEF Terminate
<1>7. InBody(u)' = InBody(u)
  BY <1>1, <1>6 DEF InBody
<1>8. \A d \in InBody(u) : patch'[d] = patch[d]
  BY <1>1, <1>6 DEF InBody
<1>9. \A d \in TusClients : Landing(d, u)' => Landing(d, u)
  BY <1>1 DEF Landing, PatchOn
<1>10. UploadKept(u)'
  BY <1>0, <1>5, <1>6, <1>7, <1>8, <1>9, StageGone
<1>11. TusTypeOK'
  BY <1>0, <1>1, <1>5, <1>6, TusTypesSplit DEF TusTypeOK, StagedFiles, Patches, PatchPcs
<1> QED
  BY <1>1, <1>5, <1>6, <1>10, <1>11, TusSettles

\* Only the file of an upload changes, and not its name and bytes.
LEMMA AgeKept ==
  ASSUME TusInv, TusTypeOK', UNCHANGED <<recorded, patch, raced>>,
         \A v \in UploadIds : /\ staged'[v].name = staged[v].name
                              /\ staged'[v].bytes = staged[v].bytes
                              /\ staged[v] = Unborn => staged'[v] = Unborn
  PROVE  TusInv'
<1> SUFFICES ASSUME NEW v \in UploadIds
             PROVE  UploadKept(v)'
  BY DEF TusInv
<1>1. UploadKept(v)
  BY DEF TusInv
<1>2. Begun(v)' <=> Begun(v)
  BY DEF Begun
<1>3. InBody(v)' = InBody(v)
  BY DEF InBody
<1>4. \A c \in TusClients : /\ Landing(c, v)' <=> Landing(c, v)
                            /\ PatchOn(c, v)' <=> PatchOn(c, v)
  BY DEF Landing, PatchOn
<1> QED
  BY <1>1, <1>2, <1>3, <1>4 DEF UploadKept

LEMMA PruneStageKept ==
  ASSUME TusInv, NEW u \in UploadIds, PruneStage(u)
  PROVE  TusInv'
<1>0. TusTypeOK /\ UploadKept(u) /\ staged[u].name = "stage" /\ staged[u] \in StagedFiles
  BY TusTypesSplit DEF TusInv, PruneStage
<1>2. PICK f \in StagedFiles : f = [staged[u] EXCEPT !.name = "gone"]
  BY <1>0, FileFields
<1>3. f.name = "gone" /\ f.bytes = staged[u].bytes
  BY <1>2, <1>0 DEF StagedFiles
<1>4. staged' = [staged EXCEPT ![u] = f]
  BY <1>2 DEF PruneStage
<1>5. /\ staged' \in [UploadIds -> StagedFiles]
      /\ staged'[u].name = "gone" /\ staged'[u].bytes = staged[u].bytes
      /\ \A v \in UploadIds : v # u => staged'[v] = staged[v]
  BY <1>0, <1>3, <1>4, StagedMoves
<1>6. recorded' = recorded /\ raced' = raced /\ patch' = patch
  BY DEF PruneStage
<1>7. InBody(u)' = InBody(u)
  BY <1>6 DEF InBody
<1>9. \A d \in TusClients : Landing(d, u)' => Landing(d, u)
  BY <1>6 DEF Landing, PatchOn
<1>10. UploadKept(u)'
  BY <1>0, <1>5, <1>6, <1>7, <1>9, StageGone
<1>11. TusTypeOK'
  BY <1>0, <1>5, <1>6, TusTypesSplit DEF TusTypeOK, StagedFiles, Patches, PatchPcs
<1>12. ASSUME NEW v \in UploadIds, v # u
       PROVE  UploadKept(v)'
  <2>1. \A d \in TusClients : /\ PatchOn(d, v)' <=> PatchOn(d, v)
                              /\ patch'[d] = patch[d]
    BY <1>6 DEF PatchOn
  <2>2. /\ staged'[v] = staged[v] /\ UploadKept(v)
        /\ (v \in recorded') <=> (v \in recorded)
        /\ (v \in raced') <=> (v \in raced)
    BY <1>5, <1>6, <1>12 DEF TusInv
  <2> QED
    BY <2>1, <2>2, UploadFrame
<1> QED
  BY <1>10, <1>11, <1>12 DEF TusInv

LEMMA PruneMetaKept ==
  ASSUME TusInv, NEW u \in UploadIds, PruneMeta(u)
  PROVE  TusInv'
<1>0. TusTypeOK /\ staged[u] \in StagedFiles /\ staged[u] # Unborn
  BY TusTypesSplit DEF TusInv, PruneMeta, Unborn
<1>2. PICK f \in StagedFiles : f = [staged[u] EXCEPT !.meta = FALSE]
  BY <1>0, FileFields
<1>3. f.name = staged[u].name /\ f.bytes = staged[u].bytes
  BY <1>2, <1>0 DEF StagedFiles
<1>4. staged' = [staged EXCEPT ![u] = f]
  BY <1>2 DEF PruneMeta
<1>5. /\ staged' \in [UploadIds -> StagedFiles]
      /\ staged'[u].name = staged[u].name /\ staged'[u].bytes = staged[u].bytes
      /\ \A v \in UploadIds : v # u => staged'[v] = staged[v]
  BY <1>0, <1>3, <1>4, StagedMoves
<1>6. UNCHANGED <<recorded, patch, raced>>
  BY DEF PruneMeta
<1>11. TusTypeOK'
  BY <1>0, <1>5, <1>6, TusTypesSplit DEF TusTypeOK, StagedFiles, Patches, PatchPcs
<1> QED
  BY <1>0, <1>5, <1>6, <1>11, AgeKept

LEMMA DayPassesKept ==
  ASSUME TusInv, DayPasses
  PROVE  TusInv'
<1>0. TusTypeOK /\ staged \in [UploadIds -> StagedFiles]
  BY TusTypesSplit DEF TusInv
<1>1. ASSUME NEW v \in UploadIds
      PROVE  /\ staged'[v] \in StagedFiles
             /\ staged'[v].name = staged[v].name /\ staged'[v].bytes = staged[v].bytes
             /\ staged[v] = Unborn => staged'[v] = Unborn
  <2>1. staged'[v] = [staged[v] EXCEPT !.stageOld = (staged[v].name = "stage"),
                                       !.metaOld = staged[v].meta]
    BY DEF DayPasses
  <2>2. staged[v] \in StagedFiles
    BY <1>0
  <2>3. staged[v] = Unborn => staged'[v] = Unborn
    <3>1. SUFFICES ASSUME staged[v] = Unborn
                   PROVE  staged'[v] = Unborn
      OBVIOUS
    <3>2. (staged[v].name = "stage") = FALSE /\ staged[v].meta = FALSE
      BY <3>1 DEF Unborn
    <3>3. staged'[v] = [Unborn EXCEPT !.stageOld = FALSE, !.metaOld = FALSE]
      BY <2>1, <3>1, <3>2
    <3> QED
      BY <3>3 DEF Unborn
  <2> QED
    BY <2>1, <2>2, <2>3 DEF StagedFiles
<1>2. DOMAIN staged' = UploadIds /\ staged' = [v \in UploadIds |-> staged'[v]]
  BY DEF DayPasses
<1>3. staged' \in [UploadIds -> StagedFiles]
  BY <1>1, <1>2
<1>4. UNCHANGED <<recorded, patch, raced>>
  BY DEF DayPasses
<1>5. TusTypeOK'
  BY <1>0, <1>3, <1>4, TusTypesSplit DEF TusTypeOK, StagedFiles, Patches, PatchPcs
<1> QED
  BY <1>1, <1>4, <1>5, AgeKept

LEMMA TusBootKept ==
  ASSUME TusInv, TusBoot
  PROVE  TusInv'
<1>1. /\ \A c \in TusClients : patch'[c] = NoPatch
      /\ patch' \in [TusClients -> Patches]
      /\ staged' = staged /\ recorded' = recorded /\ raced' = raced
  BY DEF TusBoot, Patches
<1>2. TusTypeOK'
  BY <1>1, TusTypesSplit DEF TusInv, TusTypeOK, StagedFiles, Patches, PatchPcs
<1>3. ASSUME NEW v \in UploadIds
      PROVE  UploadKept(v)'
  <2>1. /\ InBody(v)' = {}
        /\ \A c \in TusClients : ~Landing(c, v)' /\ ~PatchOn(c, v)'
    BY <1>1 DEF InBody, Landing, PatchOn
  <2>2. UploadKept(v) /\ (Begun(v)' <=> Begun(v))
    BY <1>1 DEF TusInv, Begun
  <2> QED
    BY <1>1, <2>1, <2>2 DEF UploadKept
<1> QED
  BY <1>2, <1>3 DEF TusInv

LEMMA TusInitInv == TusInit => TusInv
<1> SUFFICES ASSUME TusInit
             PROVE  TusInv
  OBVIOUS
<1>1. Unborn \in StagedFiles
  BY DEF Unborn, StagedFiles
<1>2. TusTypeOK
  BY <1>1, TusTypesSplit DEF TusInit, Patches
<1>3. ASSUME NEW v \in UploadIds
      PROVE  UploadKept(v)
  <2>1. InBody(v) = {} /\ \A c \in TusClients : ~Landing(c, v) /\ ~PatchOn(c, v)
    BY DEF InBody, Landing, PatchOn, TusInit
  <2>2. staged[v] = Unborn /\ v \notin recorded /\ staged[v].name = "none"
        /\ staged[v].bytes = << >>
    BY DEF TusInit, Unborn
  <2>3. Begun(v)
    BY <2>2, TusAssumption DEF Begun
  <2> QED
    BY <2>1, <2>2, <2>3 DEF UploadKept
<1> QED
  BY <1>2, <1>3 DEF TusInv

LEMMA TusNextInv == TusInv /\ [TusNext]_tusVars => TusInv'
<1> SUFFICES ASSUME TusInv, [TusNext]_tusVars
             PROVE  TusInv'
  OBVIOUS
<1>1. ASSUME UNCHANGED tusVars
      PROVE  TusInv'
  BY <1>1 DEF tusVars, TusInv, TusTypeOK, UploadKept, Begun, InBody, Landing, PatchOn
<1>2. ASSUME NEW c \in TusClients, NEW u \in UploadIds,
             Create(c, u) \/ PatchOpen(c, u) \/ Terminate(c, u)
      PROVE  TusInv'
  BY <1>2, CreateKept, PatchOpenKept, TerminateKept
<1>3. ASSUME NEW c \in TusClients,
             \/ WriteMeta(c) \/ Append1(c) \/ Cut(c) \/ Finish(c)
             \/ RemoveMeta(c) \/ TusPush(c) \/ TusRow(c)
      PROVE  TusInv'
  BY <1>3, WriteMetaKept, AppendKept, FinishKept, RemoveMetaKept, TusPushKept, TusRowKept
<1>4. ASSUME NEW u \in UploadIds, PruneStage(u) \/ PruneMeta(u)
      PROVE  TusInv'
  BY <1>4, PruneStageKept, PruneMetaKept
<1> QED
  BY <1>1, <1>2, <1>3, <1>4, DayPassesKept, TusBootKept DEF TusNext

\* What lands and is recorded is the client's file (tus.go).
LEMMA UploadsLandWhole == TusInv => LandsWhole
BY DEF TusInv, UploadKept, LandsWhole, TusTypeOK

-----------------------------------------------------------------------------
(* Objects at rest.                                                        *)

\* A request and what it is about.
RequestPcs == Steps
RequestKinds == {"upload", "copy", "move", "delete", "read"}
RequestRecords == [pc : Steps, path : Paths, from : Paths, ver : Contents,
                   kind : RequestKinds]

LEMMA StoreTypesSplit ==
  StoreTypeOK <=>
    /\ objects \in [Paths -> Contents] /\ local \in [Paths -> Files]
    /\ remote \in [Remotes -> [Paths -> Files]]
    /\ setting \in Remotes \cup {NoRemote} /\ migrated \in BOOLEAN
    /\ copying \in [Remotes -> SUBSET Paths]
    /\ serving \in [StoreClients -> {NoRequest} \cup RequestRecords]
    /\ uploads \in Contents
    /\ disturbed \subseteq Paths /\ lost \subseteq Paths
BY DEF StoreTypeOK, Requests, RequestRecords, RequestKinds

LEMMA RequestIsOne ==
  ASSUME NEW s \in {NoRequest} \cup RequestRecords
  PROVE  s # NoRequest <=> s \in RequestRecords
BY DEF NoRequest, RequestRecords, Steps

LEMMA RequestKnows ==
  ASSUME StoreTypeOK, NEW c \in StoreClients, serving[c] # NoRequest
  PROVE  /\ serving[c] \in RequestRecords
         /\ serving[c].pc \in Steps /\ serving[c].path \in Paths
         /\ serving[c].from \in Paths /\ serving[c].ver \in Contents
         /\ serving[c].kind \in RequestKinds
<1>1. serving[c] \in {NoRequest} \cup RequestRecords
  BY StoreTypesSplit
<1>2. serving[c] \in RequestRecords
  BY <1>1
<1> QED
  BY <1>2 DEF RequestRecords

\* One client is served: the rest of what is served stays.
LEMMA StoreGoesOnMoves ==
  ASSUME StoreTypeOK, NEW c \in StoreClients, serving[c] # NoRequest, NEW pc \in Steps,
         StoreGoesOn(c, pc)
  PROVE  /\ serving' \in [StoreClients -> {NoRequest} \cup RequestRecords]
         /\ serving'[c] # NoRequest /\ serving'[c].pc = pc
         /\ serving'[c].path = serving[c].path /\ serving'[c].from = serving[c].from
         /\ serving'[c].ver = serving[c].ver /\ serving'[c].kind = serving[c].kind
         /\ \A d \in StoreClients : d # c => serving'[d] = serving[d]
<1>1. serving[c] \in RequestRecords
  BY RequestKnows
<1>2. PICK s \in RequestRecords : s = [serving[c] EXCEPT !.pc = pc]
  BY <1>1 DEF RequestRecords
<1>3. /\ s.pc = pc /\ s.path = serving[c].path /\ s.from = serving[c].from
      /\ s.ver = serving[c].ver /\ s.kind = serving[c].kind
  BY <1>1, <1>2 DEF RequestRecords
<1>4. serving' = [serving EXCEPT ![c] = s]
  BY <1>2 DEF StoreGoesOn
<1>5. /\ serving' \in [StoreClients -> {NoRequest} \cup RequestRecords]
      /\ serving'[c] = s /\ \A d \in StoreClients : d # c => serving'[d] = serving[d]
  BY <1>4, StoreTypesSplit
<1>6. s # NoRequest
  BY RequestIsOne
<1> QED
  BY <1>3, <1>5, <1>6

LEMMA StoreEndsMoves ==
  ASSUME StoreTypeOK, NEW c \in StoreClients, StoreEnds(c)
  PROVE  /\ serving' \in [StoreClients -> {NoRequest} \cup RequestRecords]
         /\ serving'[c] = NoRequest
         /\ \A d \in StoreClients : d # c => serving'[d] = serving[d]
BY StoreTypesSplit DEF StoreEnds

LEMMA LocalMoves ==
  ASSUME StoreTypeOK, NEW p \in Paths, NEW v \in Files, local' = [local EXCEPT ![p] = v]
  PROVE  /\ local' \in [Paths -> Files] /\ local'[p] = v
         /\ \A q \in Paths : q # p => local'[q] = local[q]
BY StoreTypesSplit

LEMMA ObjectsMoves ==
  ASSUME StoreTypeOK, NEW p \in Paths, NEW v \in Contents,
         objects' = [objects EXCEPT ![p] = v]
  PROVE  /\ objects' \in [Paths -> Contents] /\ objects'[p] = v
         /\ \A q \in Paths : q # p => objects'[q] = objects[q]
BY StoreTypesSplit

LEMMA RemoteMoves ==
  ASSUME StoreTypeOK, NEW r \in Remotes, NEW p \in Paths, NEW v \in Files,
         remote' = [remote EXCEPT ![r][p] = v]
  PROVE  /\ remote' \in [Remotes -> [Paths -> Files]] /\ remote'[r][p] = v
         /\ \A q \in Paths : q # p => remote'[r][q] = remote[r][q]
BY StoreTypesSplit

LEMMA FilesAreNumbers ==
  /\ Absent \in Files /\ Absent \in Contents /\ Contents \subseteq Files
  /\ Partial \in Files /\ Partial \notin Contents
BY StoreAssumption DEF Absent, Partial, Files, Contents

\* A path at which nothing happens.
LEMMA ObjectFrame ==
  ASSUME NEW p \in Paths, ObjectKept(p), Touching(p)' = Touching(p),
         \A c \in Touching(p) : serving'[c] = serving[c],
         objects'[p] = objects[p], local'[p] = local[p], AtRemote(p)' = AtRemote(p),
         s3Enabled' <=> s3Enabled, p \in lost => p \in lost'
  PROVE  ObjectKept(p)'
<1>1. Changed(p)' <=> Changed(p)
  BY DEF Changed
<1>2. Rests(p) => Rests(p)'
  BY DEF Rests
<1>3. ASSUME NEW c \in Touching(p)
      PROVE  ReliesOn(serving[c], p)'
  <2>1. ReliesOn(serving[c], p) /\ serving'[c] = serving[c]
    BY <1>3 DEF ObjectKept
  <2>2. PICK s : s = serving[c] /\ s = serving'[c]
    BY <2>1
  <2>3. WrittenSoFar(s, p) => WrittenSoFar(s, p)'
    BY <1>2 DEF WrittenSoFar
  <2>4. ReliesOn(s, p)'
    BY <2>1, <2>2, <2>3, <1>2 DEF ReliesOn
  <2> QED
    BY <2>2, <2>4 DEF ReliesOn, WrittenSoFar, Rests
<1> QED
  BY <1>1, <1>2, <1>3 DEF ObjectKept

LEMMA TouchingEnds ==
  ASSUME NEW p \in Paths
  PROVE  \A c \in StoreClients :
           c \in Touching(p) <=> serving[c] # NoRequest /\ p \in EndsOf(c)
BY DEF Touching, EndsOf

\* A request that changes something is alone with its paths, but for those that
\* are disturbed.
LEMMA ChangesAlone ==
  ASSUME StoreInv, NEW c \in StoreClients, serving[c] # NoRequest,
         serving[c].kind # "read", NEW p \in Paths, p \notin disturbed, p \in EndsOf(c)
  PROVE  Touching(p) = {c}
<1>1. c \in Touching(p)
  BY TouchingEnds
<1>2. ASSUME NEW d \in Touching(p), d # c
      PROVE  FALSE
  <2>1. d \in StoreClients /\ serving[d] # NoRequest /\ p \in EndsOf(d)
    BY <1>2 DEF Touching, EndsOf
  <2>2. EndsOf(c) \cap EndsOf(d) # {}
    BY <2>1
  <2>3. EndsOf(c) \cup EndsOf(d) \subseteq disturbed
    BY <2>1, <2>2, <1>2 DEF StoreInv, StoreApart
  <2> QED
    BY <2>3
<1> QED
  BY <1>1, <1>2

\* A transfer whose source is written to by another request is disturbed.
LEMMA SourcesAlone ==
  ASSUME StoreInv, NEW c \in StoreClients, serving[c] # NoRequest,
         NEW d \in StoreClients, d # c, serving[d] # NoRequest,
         serving[d].pc \in {"fetchThenCopy", "copy"}, serving[d].path \notin disturbed
  PROVE  serving[d].from \notin EndsOf(c)
<1>1. serving[d].kind # "read" /\ serving[d].pc \in Steps /\ serving[d].kind \in RequestKinds
  BY RequestKnows DEF StoreInv, Formed
<1>2. SUFFICES ASSUME serving[d].from \in EndsOf(c)
               PROVE  FALSE
  OBVIOUS
<1>3. EndsOf(c) \cap EndsOf(d) # {}
  BY <1>2 DEF EndsOf
<1>4. EndsOf(d) \subseteq disturbed
  BY <1>1, <1>3 DEF StoreInv, StoreApart
<1> QED
  BY <1>4 DEF EndsOf

\* A change goes on or ends: it is enough to look at its own paths.
LEMMA StoreSettles ==
  ASSUME StoreInv, StoreTypeOK', NEW c \in StoreClients,
         serving[c] # NoRequest, serving[c].kind # "read",
         \A d \in StoreClients : d # c => serving'[d] = serving[d],
         \/ serving'[c] = NoRequest
         \/ /\ serving'[c] # NoRequest /\ Formed(serving'[c])
            /\ serving'[c].path = serving[c].path /\ serving'[c].from = serving[c].from
            /\ serving'[c].kind = serving[c].kind /\ serving'[c].ver = serving[c].ver,
         disturbed \subseteq disturbed', lost' = lost, setting' = setting,
         \A q \in Paths \ EndsOf(c) : /\ objects'[q] = objects[q] /\ local'[q] = local[q]
                                      /\ AtRemote(q)' = AtRemote(q),
         \A p \in EndsOf(c) \ disturbed' :
            /\ serving'[c] = NoRequest => Rests(p)'
            /\ serving'[c] # NoRequest => ReliesOn(serving[c], p)',
         /\ serving'[c] # NoRequest /\ serving'[c].pc \in {"fetchThenCopy", "copy"}
         /\ serving'[c].path \notin disturbed'
         => local'[serving'[c].from] \in {Absent, serving'[c].ver}
  PROVE  StoreInv'
<1>0. StoreTypeOK /\ serving[c].path \in Paths /\ serving[c].from \in Paths
  BY RequestKnows DEF StoreInv
<1>1. serving'[c] # NoRequest => EndsOf(c)' = EndsOf(c)
  BY DEF EndsOf
<1>2. \A d \in StoreClients : d # c => EndsOf(d)' = EndsOf(d)
  BY DEF EndsOf
<1>3. StoreApart'
  <2> SUFFICES ASSUME NEW x \in StoreClients, NEW y \in StoreClients, x # y,
                      serving'[x] # NoRequest, serving'[y] # NoRequest,
                      (EndsOf(x) \cap EndsOf(y) # {})'
               PROVE  \/ serving'[x].kind = "read" /\ serving'[y].kind = "read"
                      \/ (EndsOf(x) \cup EndsOf(y))' \subseteq disturbed'
    BY DEF StoreApart
  <2>1. /\ EndsOf(x)' = EndsOf(x) /\ EndsOf(y)' = EndsOf(y)
        /\ serving[x] # NoRequest /\ serving[y] # NoRequest
        /\ serving'[x].kind = serving[x].kind /\ serving'[y].kind = serving[y].kind
    BY <1>1, <1>2
  <2>2. \/ serving[x].kind = "read" /\ serving[y].kind = "read"
        \/ EndsOf(x) \cup EndsOf(y) \subseteq disturbed
    BY <2>1 DEF StoreInv, StoreApart
  <2> QED
    BY <2>1, <2>2
<1>4. SourceKept'
  <2> SUFFICES ASSUME NEW d \in StoreClients, serving'[d] # NoRequest,
                      serving'[d].pc \in {"fetchThenCopy", "copy"},
                      serving'[d].path \notin disturbed'
               PROVE  local'[serving'[d].from] \in {Absent, serving'[d].ver}
    BY DEF SourceKept
  <2>1. CASE d = c
    BY <2>1
  <2>2. CASE d # c
    <3>1. serving'[d] = serving[d] /\ serving[d].path \notin disturbed
      BY <2>2
    <3>2. serving[d].from \notin EndsOf(c) /\ serving[d].from \in Paths
      BY <3>1, <2>2, <1>0, SourcesAlone, RequestKnows
    <3>3. local[serving[d].from] \in {Absent, serving[d].ver}
      BY <3>1 DEF StoreInv, SourceKept
    <3> QED
      BY <3>1, <3>2, <3>3
  <2> QED
    BY <2>1, <2>2
<1>5. \A d \in StoreClients : serving'[d] # NoRequest => Formed(serving'[d])
  BY DEF StoreInv
<1>6. ASSUME NEW p \in Paths, p \notin disturbed'
      PROVE  ObjectKept(p)'
  <2>1. p \notin disturbed /\ ObjectKept(p)
    BY <1>6 DEF StoreInv
  <2>2. CASE p \notin EndsOf(c)
    <3>1. c \notin Touching(p) /\ c \notin Touching(p)'
      BY <1>1, <2>2 DEF Touching, EndsOf
    <3>2. Touching(p)' = Touching(p)
      BY <3>1 DEF Touching
    <3>3. \A d \in Touching(p) : serving'[d] = serving[d]
      BY <3>1 DEF Touching
    <3>4. /\ objects'[p] = objects[p] /\ local'[p] = local[p] /\ AtRemote(p)' = AtRemote(p)
          /\ (s3Enabled' <=> s3Enabled) /\ (p \in lost => p \in lost')
      BY <2>2 DEF s3Enabled
    <3> QED
      BY <2>1, <3>2, <3>3, <3>4, ObjectFrame
  <2>3. CASE p \in EndsOf(c)
    <3>1. Touching(p) = {c}
      BY <2>1, <2>3, ChangesAlone
    <3>2. \A d \in Touching(p)' : d = c
      BY <3>1 DEF Touching
    <3>3. CASE serving'[c] = NoRequest
      <4>1. Touching(p)' = {}
        BY <3>2, <3>3 DEF Touching
      <4>2. Rests(p)'
        BY <1>6, <2>3, <3>3
      <4> QED
        BY <4>1, <4>2 DEF ObjectKept
    <3>4. CASE serving'[c] # NoRequest
      <4>1. Touching(p)' = {c}
        BY <3>2, <3>4, <1>1, <2>3 DEF Touching, EndsOf
      <4>2. Changed(p)'
        BY <4>1, <3>4 DEF Changed
      <4>3. ReliesOn(serving[c], p)'
        BY <1>6, <2>3, <3>4
      <4> QED
        BY <4>1, <4>2, <4>3 DEF ObjectKept
    <3> QED
      BY <3>3, <3>4
  <2> QED
    BY <2>2, <2>3
<1> QED
  BY <1>3, <1>4, <1>5, <1>6 DEF StoreInv

LEMMA RequestRelies ==
  ASSUME StoreInv, NEW c \in StoreClients, serving[c] # NoRequest
  PROVE  /\ StoreTypeOK /\ Formed(serving[c])
         /\ \A p \in EndsOf(c) \ disturbed : ReliesOn(serving[c], p)
         /\ serving[c].path \in Paths /\ serving[c].from \in Paths
         /\ serving[c].ver \in Contents /\ serving[c].ver \in Files
         /\ serving[c].kind \in RequestKinds
         /\ EndsOf(c) \subseteq Paths
<1>1. /\ StoreTypeOK /\ Formed(serving[c])
      /\ serving[c].path \in Paths /\ serving[c].from \in Paths
      /\ serving[c].ver \in Contents /\ serving[c].kind \in RequestKinds
  BY RequestKnows DEF StoreInv
<1>2. EndsOf(c) \subseteq Paths
  BY <1>1 DEF EndsOf
<1>3. \A p \in EndsOf(c) : c \in Touching(p)
  BY <1>2, TouchingEnds
<1> QED
  BY <1>1, <1>2, <1>3, FilesAreNumbers DEF StoreInv, ObjectKept

LEMMA AtRemoteStays ==
  ASSUME setting' = setting, NEW q, s3Enabled => remote'[setting][q] = remote[setting][q]
  PROVE  AtRemote(q)' = AtRemote(q)
BY DEF AtRemote, s3Enabled

LEMMA UploadWriteKept ==
  ASSUME StoreInv, NEW c \in StoreClients, UploadWrite(c)
  PROVE  StoreInv'
<1>0. serving[c] # NoRequest /\ serving[c].pc = "write"
  BY DEF UploadWrite, StoreAt
<1>p. PICK p \in Paths : p = serving[c].path
  BY <1>0, RequestRelies
<1>v. PICK v \in Contents : v = serving[c].ver
  BY <1>0, RequestRelies
<1>1. /\ serving[c].kind = "upload" /\ serving[c].from = p /\ v # Absent
      /\ EndsOf(c) = {p} /\ StoreTypeOK /\ v \in Files
  BY <1>0, <1>p, <1>v, RequestRelies, FilesAreNumbers DEF Formed, EndsOf, RequestKinds
<1>2. p \notin disturbed => /\ AtRemote(p) \in {Absent, objects[p]}
                            /\ ~s3Enabled => local[p] # Absent
  BY <1>0, <1>1, <1>p, RequestRelies DEF ReliesOn, WrittenSoFar
<1>3. UNCHANGED <<setting, migrated, copying, lost, objects, remote, uploads>>
  BY DEF UploadWrite, Remains
<1>4. \A q \in Paths : AtRemote(q)' = AtRemote(q)
  BY <1>3, AtRemoteStays
<1>5. CASE /\ local' = [local EXCEPT ![serving[c].path] =
                          IF @ = Absent THEN Absent ELSE serving[c].ver]
           /\ StoreGoesOn(c, "push") /\ UNCHANGED disturbed
  <2>1. PICK w \in Files : w = IF local[p] = Absent THEN Absent ELSE v
    BY <1>1, FilesAreNumbers
  <2>2. local' = [local EXCEPT ![p] = w]
    BY <1>5, <2>1, <1>p, <1>v
  <2>3. /\ local' \in [Paths -> Files] /\ local'[p] = w
        /\ \A q \in Paths : q # p => local'[q] = local[q]
    BY <2>2, <1>1, LocalMoves
  <2>4. /\ serving' \in [StoreClients -> {NoRequest} \cup RequestRecords]
        /\ serving'[c] # NoRequest /\ serving'[c].pc = "push"
        /\ serving'[c].path = p /\ serving'[c].from = p
        /\ serving'[c].ver = v /\ serving'[c].kind = "upload"
        /\ \A d \in StoreClients : d # c => serving'[d] = serving[d]
    BY <1>0, <1>1, <1>p, <1>v, <1>5, StoreGoesOnMoves DEF Steps
  <2>5. StoreTypeOK'
    BY <1>1, <1>3, <1>5, <2>3, <2>4, StoreTypesSplit DEF StoreTypeOK, Requests,
       RequestRecords, RequestKinds
  <2>6. p \notin disturbed' => ReliesOn(serving[c], p)'
    BY <1>1, <1>2, <1>3, <1>4, <1>5, <2>1, <2>3, <2>4
    DEF ReliesOn, WrittenSoFar, s3Enabled
  <2>7. Formed(serving'[c])
    BY <2>4, <1>1 DEF Formed
  <2> QED
    BY <1>0, <1>1, <1>3, <1>4, <1>5, <1>p, <1>v, <2>3, <2>4, <2>5, <2>6, <2>7, StoreSettles
<1>6. CASE GivesUp(c)
  <2>1. /\ local' \in [Paths -> Files] /\ local'[p] = Absent
        /\ \A q \in Paths : q # p => local'[q] = local[q]
    BY <1>1, <1>6, <1>p, LocalMoves, FilesAreNumbers DEF GivesUp
  <2>2. /\ serving' \in [StoreClients -> {NoRequest} \cup RequestRecords]
        /\ serving'[c] = NoRequest
        /\ \A d \in StoreClients : d # c => serving'[d] = serving[d]
    BY <1>1, <1>6, StoreEndsMoves DEF GivesUp
  <2>3. disturbed' = disturbed \cup {q \in {p} : AtRemote(q) # objects[q]}
    BY <1>6, <1>p DEF GivesUp, Disturb
  <2>4. StoreTypeOK'
    BY <1>1, <1>3, <2>1, <2>2, <2>3, StoreTypesSplit DEF StoreTypeOK, Requests,
       RequestRecords, RequestKinds
  <2>5. p \notin disturbed' => Rests(p)'
    BY <1>3, <1>4, <2>1, <2>3 DEF Rests
  <2> QED
    BY <1>0, <1>1, <1>3, <1>4, <2>1, <2>2, <2>3, <2>4, <2>5, StoreSettles
<1> QED
  BY <1>5, <1>6 DEF UploadWrite

LEMMA PushKept ==
  ASSUME StoreInv, NEW c \in StoreClients, Push(c)
  PROVE  StoreInv'
<1>0. serving[c] # NoRequest /\ serving[c].pc = "push"
  BY DEF Push, StoreAt
<1>p. PICK p \in Paths, f \in Paths : p = serving[c].path /\ f = serving[c].from
  BY <1>0, RequestRelies
<1>v. PICK v \in Contents : v = serving[c].ver
  BY <1>0, RequestRelies
<1>1. /\ serving[c].kind \in {"upload", "copy", "move"} /\ v # Absent
      /\ EndsOf(c) = {p, f} /\ StoreTypeOK /\ v \in Files
      /\ serving[c].kind = "upload" => f = p
      /\ serving[c].kind # "upload" => f # p
  BY <1>0, <1>p, <1>v, RequestRelies, FilesAreNumbers DEF Formed, EndsOf, RequestKinds
<1>2. p \notin disturbed =>
        /\ AtRemote(p) \in {Absent, objects[p]} /\ local[p] \in {Absent, v}
        /\ ~s3Enabled => local[p] = v
        /\ serving[c].kind # "upload" => objects[p] = Absent
  BY <1>0, <1>1, <1>p, <1>v, RequestRelies DEF ReliesOn, WrittenSoFar
<1>f. f \notin disturbed /\ f # p => Rests(f) /\ v = objects[f]
  BY <1>0, <1>1, <1>p, <1>v, RequestRelies DEF ReliesOn
<1>3. UNCHANGED <<setting, migrated, copying, lost, objects, uploads>>
  BY DEF Push, Remains
<1>4. CASE StoreGoesOn(c, "row") /\ UNCHANGED <<local, disturbed>>
           /\ \/ ~s3Enabled /\ UNCHANGED remote
              \/ /\ s3Enabled /\ local[p] # Absent
                 /\ remote' = [remote EXCEPT ![setting][p] = local[p]]
  <2>1. /\ remote' \in [Remotes -> [Paths -> Files]]
        /\ \A q \in Paths : q # p => AtRemote(q)' = AtRemote(q)
        /\ s3Enabled => AtRemote(p)' = local[p] /\ local[p] # Absent
        /\ ~s3Enabled => AtRemote(p)' = Absent
    <3>1. CASE ~s3Enabled
      <4>1. \A q \in Paths : AtRemote(q)' = Absent /\ AtRemote(q) = Absent
        BY <3>1, <1>3 DEF AtRemote, s3Enabled
      <4> QED
        BY <3>1, <4>1, <1>4, <1>1, StoreTypesSplit
    <3>2. CASE s3Enabled
      <4>1. setting \in Remotes /\ local[p] \in Files
        BY <3>2, <1>1, StoreTypesSplit DEF s3Enabled
      <4>2. /\ remote' \in [Remotes -> [Paths -> Files]] /\ remote'[setting][p] = local[p]
            /\ \A q \in Paths : q # p => remote'[setting][q] = remote[setting][q]
        BY <3>2, <4>1, <1>4, <1>1, RemoteMoves
      <4>3. \A q \in Paths : q # p => AtRemote(q)' = AtRemote(q)
        BY <4>2, <1>3, AtRemoteStays
      <4>4. AtRemote(p)' = local[p]
        BY <4>2, <3>2, <1>3 DEF AtRemote, s3Enabled
      <4> QED
        BY <3>2, <4>2, <4>3, <4>4, <1>4
    <3> QED
      BY <3>1, <3>2
  <2>4. /\ serving' \in [StoreClients -> {NoRequest} \cup RequestRecords]
        /\ serving'[c] # NoRequest /\ serving'[c].pc = "row"
        /\ serving'[c].path = p /\ serving'[c].from = f
        /\ serving'[c].ver = v /\ serving'[c].kind = serving[c].kind
        /\ \A d \in StoreClients : d # c => serving'[d] = serving[d]
    BY <1>0, <1>1, <1>p, <1>v, <1>4, StoreGoesOnMoves DEF Steps
  <2>5. StoreTypeOK'
    BY <1>1, <1>3, <1>4, <2>1, <2>4, StoreTypesSplit DEF StoreTypeOK, Requests,
       RequestRecords, RequestKinds
  <2>6. p \notin disturbed' => ReliesOn(serving[c], p)'
    BY <1>1, <1>2, <1>3, <1>4, <2>1, <2>4 DEF ReliesOn, WrittenSoFar, s3Enabled
  <2>7. f \notin disturbed' => ReliesOn(serving[c], f)'
    <3>1. CASE f = p
      BY <3>1, <2>6
    <3>2. CASE f # p
      BY <3>2, <1>1, <1>f, <1>3, <1>4, <2>1, <2>4 DEF ReliesOn, Rests
    <3> QED
      BY <3>1, <3>2
  <2>8. Formed(serving'[c])
    BY <2>4, <1>1 DEF Formed
  <2>9. \A q \in Paths \ EndsOf(c) : /\ objects'[q] = objects[q] /\ local'[q] = local[q]
                                     /\ AtRemote(q)' = AtRemote(q)
    BY <1>1, <1>3, <1>4, <2>1
  <2>10. \A q \in EndsOf(c) \ disturbed' : ReliesOn(serving[c], q)'
    BY <1>1, <2>6, <2>7
  <2> QED
    BY <1>0, <1>1, <1>3, <1>4, <1>p, <1>v, <2>4, <2>5, <2>8, <2>9, <2>10, StoreSettles
<1>6. CASE s3Enabled /\ GivesUp(c) /\ UNCHANGED remote
  <2>0. \A q \in Paths : AtRemote(q)' = AtRemote(q)
    BY <1>3, <1>6, AtRemoteStays
  <2>1. /\ local' \in [Paths -> Files] /\ local'[p] = Absent
        /\ \A q \in Paths : q # p => local'[q] = local[q]
    BY <1>1, <1>6, <1>p, LocalMoves, FilesAreNumbers DEF GivesUp
  <2>2. /\ serving' \in [StoreClients -> {NoRequest} \cup RequestRecords]
        /\ serving'[c] = NoRequest
        /\ \A d \in StoreClients : d # c => serving'[d] = serving[d]
    BY <1>1, <1>6, StoreEndsMoves DEF GivesUp
  <2>3. disturbed' = disturbed \cup {q \in {p} : AtRemote(q) # objects[q]}
    BY <1>6, <1>p DEF GivesUp, Disturb
  <2>4. StoreTypeOK'
    BY <1>1, <1>3, <1>6, <2>1, <2>2, <2>3, StoreTypesSplit DEF StoreTypeOK, Requests,
       RequestRecords, RequestKinds
  <2>5. p \notin disturbed' => Rests(p)'
    BY <1>3, <2>0, <2>1, <2>3 DEF Rests
  <2>6. f \notin disturbed' /\ f # p => Rests(f)'
    BY <1>f, <1>3, <2>0, <2>1, <2>3 DEF Rests
  <2> QED
    BY <1>0, <1>1, <1>3, <2>0, <2>1, <2>2, <2>3, <2>4, <2>5, <2>6, StoreSettles
<1> QED
  BY <1>4, <1>6, <1>p DEF Push

LEMMA RecordKept ==
  ASSUME StoreInv, NEW c \in StoreClients, Record(c)
  PROVE  StoreInv'
<1>0. serving[c] # NoRequest /\ serving[c].pc = "row"
  BY DEF Record, StoreAt
<1>p. PICK p \in Paths, f \in Paths : p = serving[c].path /\ f = serving[c].from
  BY <1>0, RequestRelies
<1>v. PICK v \in Contents : v = serving[c].ver
  BY <1>0, RequestRelies
<1>1. /\ serving[c].kind \in {"upload", "copy", "move"} /\ v # Absent
      /\ EndsOf(c) = {p, f} /\ StoreTypeOK /\ v \in Files
      /\ serving[c].kind = "upload" => f = p
      /\ serving[c].kind # "upload" => f # p
  BY <1>0, <1>p, <1>v, RequestRelies, FilesAreNumbers DEF Formed, EndsOf, RequestKinds
<1>2. p \notin disturbed =>
        /\ local[p] \in {Absent, v}
        /\ ~s3Enabled => local[p] = v
  BY <1>0, <1>1, <1>p, <1>v, RequestRelies DEF ReliesOn, WrittenSoFar
<1>a. p \notin disturbed =>
        /\ AtRemote(p) = IF s3Enabled THEN v ELSE Absent
        /\ serving[c].kind # "upload" => objects[p] = Absent
  BY <1>0, <1>1, <1>p, <1>v, RequestRelies DEF ReliesOn, WrittenSoFar
<1>f. f \notin disturbed /\ f # p => Rests(f) /\ v = objects[f]
  BY <1>0, <1>1, <1>p, <1>v, RequestRelies DEF ReliesOn
<1>3. UNCHANGED <<setting, migrated, copying, lost, remote, uploads, disturbed>>
  BY DEF Record, Remains
<1>4. \A q \in Paths : AtRemote(q)' = AtRemote(q)
  BY <1>3, AtRemoteStays
<1>w. PICK w \in Contents :
        w = IF serving[c].kind = "upload" \/ objects[p] = Absent THEN v ELSE objects[p]
  BY <1>1, StoreTypesSplit
<1>5. objects' = [objects EXCEPT ![p] = w]
  BY <1>w, <1>p, <1>v DEF Record
<1>6. /\ objects' \in [Paths -> Contents] /\ objects'[p] = w
      /\ \A q \in Paths : q # p => objects'[q] = objects[q]
  BY <1>1, <1>5, ObjectsMoves
<1>7. p \notin disturbed => objects'[p] = v
  BY <1>6, <1>w, <1>a
<1>8. p \notin disturbed /\ local'[p] = local[p] => Rests(p)'
  BY <1>7, <1>2, <1>a, <1>4 DEF Rests
<1>9. CASE serving[c].kind = "move"
  <2>1. /\ local' \in [Paths -> Files] /\ local'[f] = Absent
        /\ \A q \in Paths : q # f => local'[q] = local[q]
    BY <1>1, <1>9, <1>p, LocalMoves, FilesAreNumbers DEF Record
  <2>4. /\ serving' \in [StoreClients -> {NoRequest} \cup RequestRecords]
        /\ serving'[c] # NoRequest /\ serving'[c].pc = "s3delete"
        /\ serving'[c].path = p /\ serving'[c].from = f
        /\ serving'[c].ver = v /\ serving'[c].kind = "move"
        /\ \A d \in StoreClients : d # c => serving'[d] = serving[d]
    BY <1>0, <1>1, <1>p, <1>v, <1>9, StoreGoesOnMoves DEF Steps, Record
  <2>5. StoreTypeOK'
    BY <1>1, <1>3, <1>6, <2>1, <2>4, StoreTypesSplit DEF StoreTypeOK, Requests,
       RequestRecords, RequestKinds
  <2>6. p \notin disturbed' => ReliesOn(serving[c], p)'
    BY <1>1, <1>3, <1>8, <1>9, <2>1, <2>4 DEF ReliesOn
  <2>7. f \notin disturbed' => ReliesOn(serving[c], f)'
    BY <1>1, <1>9, <2>1, <2>4 DEF ReliesOn
  <2>8. Formed(serving'[c])
    BY <2>4, <1>1, <1>9 DEF Formed
  <2>9. \A q \in Paths \ EndsOf(c) : /\ objects'[q] = objects[q] /\ local'[q] = local[q]
                                     /\ AtRemote(q)' = AtRemote(q)
    BY <1>1, <1>4, <1>6, <2>1
  <2>10. \A q \in EndsOf(c) \ disturbed' : ReliesOn(serving[c], q)'
    BY <1>1, <2>6, <2>7
  <2> QED
    BY <1>0, <1>1, <1>3, <1>9, <1>p, <1>v, <2>4, <2>5, <2>8, <2>9, <2>10, StoreSettles
<1>10. CASE serving[c].kind # "move"
  <2>1. local' = local
    BY <1>10 DEF Record
  <2>2. /\ serving' \in [StoreClients -> {NoRequest} \cup RequestRecords]
        /\ serving'[c] = NoRequest
        /\ \A d \in StoreClients : d # c => serving'[d] = serving[d]
    BY <1>1, <1>10, StoreEndsMoves DEF Record
  <2>4. StoreTypeOK'
    BY <1>1, <1>3, <1>6, <2>1, <2>2, StoreTypesSplit DEF StoreTypeOK, Requests,
       RequestRecords, RequestKinds
  <2>5. p \notin disturbed' => Rests(p)'
    BY <1>3, <1>8, <2>1
  <2>6. f \notin disturbed' /\ f # p => Rests(f)'
    BY <1>f, <1>3, <1>4, <1>6, <2>1 DEF Rests
  <2>9. \A q \in Paths \ EndsOf(c) : /\ objects'[q] = objects[q] /\ local'[q] = local[q]
                                     /\ AtRemote(q)' = AtRemote(q)
    BY <1>1, <1>4, <1>6, <2>1
  <2> QED
    BY <1>0, <1>1, <1>3, <2>2, <2>4, <2>5, <2>6, <2>9, StoreSettles
<1> QED
  BY <1>9, <1>10

LEMMA S3DeleteKept ==
  ASSUME StoreInv, NEW c \in StoreClients, S3Delete(c)
  PROVE  StoreInv'
<1>0. serving[c] # NoRequest /\ serving[c].pc = "s3delete"
  BY DEF S3Delete, StoreAt
<1>p. PICK p \in Paths, f \in Paths : p = serving[c].path /\ f = serving[c].from
  BY <1>0, RequestRelies
<1>v. PICK v \in Contents : v = serving[c].ver
  BY <1>0, RequestRelies
<1>1. /\ serving[c].kind \in {"delete", "move"} /\ EndsOf(c) = {p, f} /\ StoreTypeOK
      /\ serving[c].kind = "delete" => f = p
      /\ serving[c].kind = "move" => f # p /\ v # Absent
  BY <1>0, <1>p, <1>v, RequestRelies DEF Formed, EndsOf, RequestKinds
<1>2. f \notin disturbed => local[f] = Absent
  BY <1>0, <1>1, <1>p, RequestRelies DEF ReliesOn
<1>f. p \notin disturbed /\ f # p => Rests(p)
  BY <1>0, <1>1, <1>p, RequestRelies DEF ReliesOn
<1>3. /\ UNCHANGED <<setting, migrated, copying, lost, objects, local, uploads>>
      /\ StoreGoesOn(c, "deleteRow")
  BY DEF S3Delete, Remains
<1>4. /\ remote' \in [Remotes -> [Paths -> Files]]
      /\ \A q \in Paths : q # f => AtRemote(q)' = AtRemote(q)
      /\ disturbed \subseteq disturbed' /\ disturbed' \subseteq Paths
      /\ f \notin disturbed' => AtRemote(f)' = Absent
  <2>1. CASE /\ s3Enabled /\ remote' = [remote EXCEPT ![setting][serving[c].from] = Absent]
             /\ UNCHANGED disturbed
    <3>1. setting \in Remotes
      BY <2>1, <1>1, StoreTypesSplit DEF s3Enabled
    <3>2. /\ remote' \in [Remotes -> [Paths -> Files]] /\ remote'[setting][f] = Absent
          /\ \A q \in Paths : q # f => remote'[setting][q] = remote[setting][q]
      BY <3>1, <2>1, <1>1, <1>p, RemoteMoves, FilesAreNumbers
    <3>3. \A q \in Paths : q # f => AtRemote(q)' = AtRemote(q)
      BY <3>2, <1>3, AtRemoteStays
    <3>4. AtRemote(f)' = Absent
      BY <3>2, <1>3 DEF AtRemote, s3Enabled
    <3> QED
      BY <3>2, <3>3, <3>4, <2>1, <1>1, StoreTypesSplit
  <2>2. CASE /\ UNCHANGED remote
             /\ Disturb({q \in {serving[c].from} : AtRemote(q) # Absent})
    <3>1. \A q \in Paths : AtRemote(q)' = AtRemote(q)
      BY <2>2, <1>3, AtRemoteStays
    <3> QED
      BY <3>1, <2>2, <1>1, <1>p, StoreTypesSplit DEF Disturb
  <2> QED
    BY <2>1, <2>2 DEF S3Delete
<1>5. /\ serving' \in [StoreClients -> {NoRequest} \cup RequestRecords]
      /\ serving'[c] # NoRequest /\ serving'[c].pc = "deleteRow"
      /\ serving'[c].path = p /\ serving'[c].from = f
      /\ serving'[c].ver = v /\ serving'[c].kind = serving[c].kind
      /\ \A d \in StoreClients : d # c => serving'[d] = serving[d]
  BY <1>0, <1>1, <1>3, <1>p, <1>v, StoreGoesOnMoves DEF Steps
<1>6. StoreTypeOK'
  BY <1>1, <1>3, <1>4, <1>5, StoreTypesSplit DEF StoreTypeOK, Requests,
     RequestRecords, RequestKinds
<1>7. f \notin disturbed' => ReliesOn(serving[c], f)'
  BY <1>1, <1>2, <1>3, <1>4, <1>5 DEF ReliesOn
<1>8. p \notin disturbed' /\ f # p => ReliesOn(serving[c], p)'
  BY <1>1, <1>f, <1>3, <1>4, <1>5 DEF ReliesOn, Rests
<1>9. Formed(serving'[c])
  BY <1>5, <1>1 DEF Formed
<1>10. \A q \in EndsOf(c) \ disturbed' : ReliesOn(serving[c], q)'
  BY <1>1, <1>7, <1>8
<1> QED
  BY <1>0, <1>1, <1>3, <1>4, <1>5, <1>6, <1>9, <1>10, <1>p, <1>v, StoreSettles

LEMMA DeleteRowKept ==
  ASSUME StoreInv, NEW c \in StoreClients, DeleteRow(c)
  PROVE  StoreInv'
<1>0. serving[c] # NoRequest /\ serving[c].pc = "deleteRow"
  BY DEF DeleteRow, StoreAt
<1>p. PICK p \in Paths, f \in Paths : p = serving[c].path /\ f = serving[c].from
  BY <1>0, RequestRelies
<1>1. /\ serving[c].kind \in {"delete", "move"} /\ EndsOf(c) = {p, f} /\ StoreTypeOK
      /\ serving[c].kind = "delete" => f = p
  BY <1>0, <1>p, RequestRelies DEF Formed, EndsOf, RequestKinds
<1>2. f \notin disturbed => local[f] = Absent /\ AtRemote(f) = Absent
  BY <1>0, <1>1, <1>p, RequestRelies DEF ReliesOn
<1>f. p \notin disturbed /\ f # p => Rests(p)
  BY <1>0, <1>1, <1>p, RequestRelies DEF ReliesOn
<1>3. UNCHANGED <<setting, migrated, copying, lost, local, remote, uploads, disturbed>>
  BY DEF DeleteRow, Remains
<1>4. \A q \in Paths : AtRemote(q)' = AtRemote(q)
  BY <1>3, AtRemoteStays
<1>5. /\ objects' \in [Paths -> Contents] /\ objects'[f] = Absent
      /\ \A q \in Paths : q # f => objects'[q] = objects[q]
  BY <1>1, <1>p, ObjectsMoves, FilesAreNumbers DEF DeleteRow
<1>6. /\ serving' \in [StoreClients -> {NoRequest} \cup RequestRecords]
      /\ serving'[c] = NoRequest
      /\ \A d \in StoreClients : d # c => serving'[d] = serving[d]
  BY <1>1, StoreEndsMoves DEF DeleteRow
<1>7. StoreTypeOK'
  BY <1>1, <1>3, <1>5, <1>6, StoreTypesSplit DEF StoreTypeOK, Requests,
     RequestRecords, RequestKinds
<1>8. f \notin disturbed' => Rests(f)'
  BY <1>2, <1>3, <1>4, <1>5 DEF Rests
<1>9. p \notin disturbed' /\ f # p => Rests(p)'
  BY <1>f, <1>3, <1>4, <1>5 DEF Rests
<1> QED
  BY <1>0, <1>1, <1>3, <1>4, <1>5, <1>6, <1>7, <1>8, <1>9, StoreSettles

LEMMA CopyFileKept ==
  ASSUME StoreInv, NEW c \in StoreClients, CopyFile(c)
  PROVE  StoreInv'
<1>0. serving[c] # NoRequest /\ serving[c].pc = "copy"
  BY DEF CopyFile, StoreAt
<1>p. PICK p \in Paths, f \in Paths : p = serving[c].path /\ f = serving[c].from
  BY <1>0, RequestRelies
<1>v. PICK v \in Contents : v = serving[c].ver
  BY <1>0, RequestRelies
<1>1. /\ serving[c].kind \in {"copy", "move"} /\ v # Absent
      /\ EndsOf(c) = {p, f} /\ StoreTypeOK /\ v \in Files /\ f # p
  BY <1>0, <1>p, <1>v, RequestRelies, FilesAreNumbers DEF Formed, EndsOf, RequestKinds
<1>2. p \notin disturbed => objects[p] = Absent /\ Rests(p)
  BY <1>0, <1>1, <1>p, RequestRelies DEF ReliesOn, WrittenSoFar
<1>s. p \notin disturbed => local[f] \in {Absent, v}
  BY <1>0, <1>p, <1>v DEF StoreInv, SourceKept
<1>f. f \notin disturbed => Rests(f) /\ v = objects[f]
  BY <1>0, <1>1, <1>p, <1>v, RequestRelies DEF ReliesOn
<1>3. UNCHANGED <<setting, migrated, copying, lost, objects, remote, uploads, disturbed>>
  BY DEF CopyFile, Remains
<1>4. \A q \in Paths : AtRemote(q)' = AtRemote(q)
  BY <1>3, AtRemoteStays
<1>5. CASE local[f] # Absent /\ local' = [local EXCEPT ![p] = local[f]]
           /\ StoreGoesOn(c, "push")
  <2>1. local[f] \in Files
    BY <1>1, StoreTypesSplit
  <2>2. /\ local' \in [Paths -> Files] /\ local'[p] = local[f]
        /\ \A q \in Paths : q # p => local'[q] = local[q]
    BY <1>1, <1>5, <2>1, LocalMoves
  <2>4. /\ serving' \in [StoreClients -> {NoRequest} \cup RequestRecords]
        /\ serving'[c] # NoRequest /\ serving'[c].pc = "push"
        /\ serving'[c].path = p /\ serving'[c].from = f
        /\ serving'[c].ver = v /\ serving'[c].kind = serving[c].kind
        /\ \A d \in StoreClients : d # c => serving'[d] = serving[d]
    BY <1>0, <1>1, <1>p, <1>v, <1>5, StoreGoesOnMoves DEF Steps
  <2>5. StoreTypeOK'
    BY <1>1, <1>3, <2>2, <2>4, StoreTypesSplit DEF StoreTypeOK, Requests,
       RequestRecords, RequestKinds
  <2>6. p \notin disturbed' => ReliesOn(serving[c], p)'
    <3>1. p \notin disturbed' =>
            local'[p] = v /\ objects'[p] = Absent /\ AtRemote(p)' \in {Absent, objects'[p]}
      BY <1>2, <1>s, <1>3, <1>4, <1>5, <2>2 DEF Rests
    <3> QED
      BY <3>1, <1>1, <2>4 DEF ReliesOn, WrittenSoFar
  <2>7. f \notin disturbed' => ReliesOn(serving[c], f)'
    BY <1>1, <1>f, <1>3, <1>4, <2>2, <2>4 DEF ReliesOn, Rests
  <2>8. Formed(serving'[c])
    BY <2>4, <1>1 DEF Formed
  <2>9. \A q \in Paths \ EndsOf(c) : /\ objects'[q] = objects[q] /\ local'[q] = local[q]
                                     /\ AtRemote(q)' = AtRemote(q)
    BY <1>1, <1>3, <1>4, <2>2
  <2>10. \A q \in EndsOf(c) \ disturbed' : ReliesOn(serving[c], q)'
    BY <1>1, <2>6, <2>7
  <2> QED
    BY <1>0, <1>1, <1>3, <1>p, <1>v, <2>4, <2>5, <2>8, <2>9, <2>10, StoreSettles
<1>6. CASE StoreEnds(c) /\ UNCHANGED local
  <2>2. /\ serving' \in [StoreClients -> {NoRequest} \cup RequestRecords]
        /\ serving'[c] = NoRequest
        /\ \A d \in StoreClients : d # c => serving'[d] = serving[d]
    BY <1>1, <1>6, StoreEndsMoves
  <2>4. StoreTypeOK'
    BY <1>1, <1>3, <1>6, <2>2, StoreTypesSplit DEF StoreTypeOK, Requests,
       RequestRecords, RequestKinds
  <2>5. \A q \in EndsOf(c) \ disturbed' : Rests(q)'
    BY <1>1, <1>2, <1>f, <1>3, <1>4, <1>6 DEF Rests
  <2>9. \A q \in Paths \ EndsOf(c) : /\ objects'[q] = objects[q] /\ local'[q] = local[q]
                                     /\ AtRemote(q)' = AtRemote(q)
    BY <1>3, <1>4, <1>6
  <2> QED
    BY <1>0, <1>1, <1>3, <2>2, <2>4, <2>5, <2>9, StoreSettles
<1> QED
  BY <1>5, <1>6, <1>p DEF CopyFile

\* A transfer fetches its source from the remote.
LEMMA FetchedToCopyKept ==
  ASSUME StoreInv, NEW c \in StoreClients, Fetched(c), serving[c].pc = "fetchThenCopy"
  PROVE  StoreInv'
<1>0. serving[c] # NoRequest
  BY DEF Fetched, StoreAt
<1>p. PICK p \in Paths, f \in Paths : p = serving[c].path /\ f = serving[c].from
  BY <1>0, RequestRelies
<1>v. PICK v \in Contents : v = serving[c].ver
  BY <1>0, RequestRelies
<1>1. /\ serving[c].kind \in {"copy", "move"} /\ v # Absent
      /\ EndsOf(c) = {p, f} /\ StoreTypeOK /\ v \in Files /\ f # p
  BY <1>0, <1>p, <1>v, RequestRelies, FilesAreNumbers DEF Formed, EndsOf, RequestKinds
<1>2. p \notin disturbed => objects[p] = Absent /\ Rests(p)
  BY <1>0, <1>1, <1>p, RequestRelies DEF ReliesOn, WrittenSoFar
<1>f. f \notin disturbed => Rests(f) /\ v = objects[f]
  BY <1>0, <1>1, <1>p, <1>v, RequestRelies DEF ReliesOn
<1>3. UNCHANGED <<setting, migrated, copying, lost, objects, remote, uploads, disturbed>>
  BY DEF Fetched, Remains
<1>4. \A q \in Paths : AtRemote(q)' = AtRemote(q)
  BY <1>3, AtRemoteStays
<1>5. CASE local' = [local EXCEPT ![f] = v] /\ StoreGoesOn(c, "copy")
  <2>2. /\ local' \in [Paths -> Files] /\ local'[f] = v
        /\ \A q \in Paths : q # f => local'[q] = local[q]
    BY <1>1, <1>5, LocalMoves
  <2>4. /\ serving' \in [StoreClients -> {NoRequest} \cup RequestRecords]
        /\ serving'[c] # NoRequest /\ serving'[c].pc = "copy"
        /\ serving'[c].path = p /\ serving'[c].from = f
        /\ serving'[c].ver = v /\ serving'[c].kind = serving[c].kind
        /\ \A d \in StoreClients : d # c => serving'[d] = serving[d]
    BY <1>0, <1>1, <1>p, <1>v, <1>5, StoreGoesOnMoves DEF Steps
  <2>5. StoreTypeOK'
    BY <1>1, <1>3, <2>2, <2>4, StoreTypesSplit DEF StoreTypeOK, Requests,
       RequestRecords, RequestKinds
  <2>6. p \notin disturbed' => ReliesOn(serving[c], p)'
    BY <1>1, <1>2, <1>3, <1>4, <2>2, <2>4 DEF ReliesOn, WrittenSoFar, Rests
  <2>7. f \notin disturbed' => ReliesOn(serving[c], f)'
    BY <1>1, <1>f, <1>3, <1>4, <2>2, <2>4 DEF ReliesOn, Rests
  <2>8. Formed(serving'[c])
    BY <2>4, <1>1 DEF Formed
  <2>9. \A q \in Paths \ EndsOf(c) : /\ objects'[q] = objects[q] /\ local'[q] = local[q]
                                     /\ AtRemote(q)' = AtRemote(q)
    BY <1>1, <1>3, <1>4, <2>2
  <2>10. \A q \in EndsOf(c) \ disturbed' : ReliesOn(serving[c], q)'
    BY <1>1, <2>6, <2>7
  <2> QED
    BY <1>0, <1>1, <1>3, <1>p, <1>v, <2>2, <2>4, <2>5, <2>8, <2>9, <2>10, StoreSettles
<1>6. CASE StoreEnds(c) /\ UNCHANGED local
  <2>2. /\ serving' \in [StoreClients -> {NoRequest} \cup RequestRecords]
        /\ serving'[c] = NoRequest
        /\ \A d \in StoreClients : d # c => serving'[d] = serving[d]
    BY <1>1, <1>6, StoreEndsMoves
  <2>4. StoreTypeOK'
    BY <1>1, <1>3, <1>6, <2>2, StoreTypesSplit DEF StoreTypeOK, Requests,
       RequestRecords, RequestKinds
  <2>5. \A q \in EndsOf(c) \ disturbed' : Rests(q)'
    BY <1>1, <1>2, <1>f, <1>3, <1>4, <1>6 DEF Rests
  <2>9. \A q \in Paths \ EndsOf(c) : /\ objects'[q] = objects[q] /\ local'[q] = local[q]
                                     /\ AtRemote(q)' = AtRemote(q)
    BY <1>3, <1>4, <1>6
  <2> QED
    BY <1>0, <1>1, <1>3, <2>2, <2>4, <2>5, <2>9, StoreSettles
<1> QED
  BY <1>5, <1>6, <1>p, <1>v DEF Fetched

\* A read leaves in the cache what the remote has.
LEMMA FetchedByReadKept ==
  ASSUME StoreInv, NEW c \in StoreClients, Fetched(c), serving[c].pc = "fetch"
  PROVE  StoreInv'
<1>0. serving[c] # NoRequest
  BY DEF Fetched, StoreAt
<1>p. PICK p \in Paths : p = serving[c].path
  BY <1>0, RequestRelies
<1>v. PICK v \in Contents : v = serving[c].ver
  BY <1>0, RequestRelies
<1>1. /\ serving[c].kind = "read" /\ serving[c].from = p
      /\ EndsOf(c) = {p} /\ StoreTypeOK /\ v \in Files
  BY <1>0, <1>p, <1>v, RequestRelies, FilesAreNumbers DEF Formed, EndsOf, RequestKinds
<1>3. UNCHANGED <<setting, migrated, copying, lost, objects, remote, uploads, disturbed>>
  BY DEF Fetched, Remains
<1>4. \A q \in Paths : AtRemote(q)' = AtRemote(q)
  BY <1>3, AtRemoteStays
<1>5. /\ local' \in [Paths -> Files]
      /\ local'[p] = local[p] \/ local'[p] = v
      /\ \A q \in Paths : q # p => local'[q] = local[q]
  <2>1. local' = local \/ local' = [local EXCEPT ![p] = v]
    BY <1>1, <1>v DEF Fetched
  <2> QED
    BY <2>1, <1>1, LocalMoves, StoreTypesSplit
<1>6. /\ serving' \in [StoreClients -> {NoRequest} \cup RequestRecords]
      /\ serving'[c] = NoRequest
      /\ \A d \in StoreClients : d # c => serving'[d] = serving[d]
  BY <1>1, StoreEndsMoves DEF Fetched
<1>7. StoreTypeOK'
  BY <1>1, <1>3, <1>5, <1>6, StoreTypesSplit DEF StoreTypeOK, Requests,
     RequestRecords, RequestKinds
<1>8. StoreApart'
  <2>1. \A d \in StoreClients : serving'[d] # NoRequest =>
          serving'[d] = serving[d] /\ EndsOf(d)' = EndsOf(d) /\ serving[d] # NoRequest
    BY <1>6 DEF EndsOf
  <2>2. ASSUME NEW x \in StoreClients, NEW y \in StoreClients, x # y,
               serving'[x] # NoRequest, serving'[y] # NoRequest,
               (EndsOf(x) \cap EndsOf(y) # {})'
        PROVE  \/ serving'[x].kind = "read" /\ serving'[y].kind = "read"
               \/ (EndsOf(x) \cup EndsOf(y))' \subseteq disturbed'
    <3>1. \/ serving[x].kind = "read" /\ serving[y].kind = "read"
          \/ EndsOf(x) \cup EndsOf(y) \subseteq disturbed
      BY <2>1, <2>2 DEF StoreInv, StoreApart
    <3> QED
      BY <2>1, <2>2, <3>1, <1>3
  <2> QED
    BY <2>2 DEF StoreApart
<1>9. SourceKept'
  <2> SUFFICES ASSUME NEW d \in StoreClients, serving'[d] # NoRequest,
                      serving'[d].pc \in {"fetchThenCopy", "copy"},
                      serving'[d].path \notin disturbed'
               PROVE  local'[serving'[d].from] \in {Absent, serving'[d].ver}
    BY DEF SourceKept
  <2>1. d # c /\ serving'[d] = serving[d] /\ serving[d].path \notin disturbed
    BY <1>3, <1>6
  <2>2. serving[d].from \notin EndsOf(c) /\ serving[d].from \in Paths
    BY <2>1, <1>0, <1>1, SourcesAlone, RequestKnows
  <2>3. local[serving[d].from] \in {Absent, serving[d].ver}
    BY <2>1 DEF StoreInv, SourceKept
  <2> QED
    BY <2>1, <2>2, <2>3, <1>1, <1>5
<1>10. \A d \in StoreClients : serving'[d] # NoRequest => Formed(serving'[d])
  BY <1>6 DEF StoreInv
<1>11. ASSUME NEW q \in Paths, q \notin disturbed'
       PROVE  ObjectKept(q)'
  <2>1. q \notin disturbed /\ ObjectKept(q) /\ (s3Enabled' <=> s3Enabled)
    BY <1>11, <1>3 DEF StoreInv, s3Enabled
  <2>2. CASE q # p
    <3>1. c \notin Touching(q) /\ c \notin Touching(q)'
      BY <1>1, <1>6, <2>2 DEF Touching, EndsOf
    <3>2. Touching(q)' = Touching(q) /\ \A d \in Touching(q) : serving'[d] = serving[d]
      BY <3>1, <1>6 DEF Touching
    <3> QED
      BY <2>1, <2>2, <3>2, <1>3, <1>4, <1>5, ObjectFrame
  <2>3. CASE q = p
    <3>1. \A d \in Touching(p) : serving[d].kind = "read"
      <4> SUFFICES ASSUME NEW d \in Touching(p), d # c
                   PROVE  serving[d].kind = "read"
        BY <1>1
      <4>1. d \in StoreClients /\ serving[d] # NoRequest /\ p \in EndsOf(d)
        BY DEF Touching, EndsOf
      <4>2. EndsOf(c) \cap EndsOf(d) # {}
        BY <4>1, <1>1
      <4> QED
        BY <4>1, <4>2, <1>0, <1>1, <2>1, <2>3 DEF StoreInv, StoreApart
    <3>2. ~Changed(p) /\ Rests(p)
      BY <3>1, <2>1, <2>3 DEF Changed, ObjectKept
    <3>3. v = objects[p]
      BY <1>0, <1>1, <1>v, <2>1, <2>3, RequestRelies DEF ReliesOn
    <3>4. Rests(p)'
      BY <3>2, <3>3, <1>3, <1>4, <1>5 DEF Rests
    <3>5. \A d \in Touching(p)' : d \in Touching(p) /\ serving'[d] = serving[d]
      BY <1>6 DEF Touching
    <3>6. ASSUME NEW d \in Touching(p)'
          PROVE  ReliesOn(serving[d], p)'
      <4>1. d \in StoreClients /\ serving[d] # NoRequest /\ serving'[d] = serving[d]
        BY <3>5, <3>6 DEF Touching
      <4>2. serving[d].kind = "read" /\ Formed(serving[d]) /\ ReliesOn(serving[d], p)
        BY <3>1, <3>5, <3>6, <4>1, <2>1, <2>3 DEF StoreInv, ObjectKept
      <4> QED
        BY <4>1, <4>2, <1>3 DEF ReliesOn, Formed
    <3> QED
      BY <3>4, <3>6, <2>3 DEF ObjectKept
  <2> QED
    BY <2>2, <2>3
<1> QED
  BY <1>7, <1>8, <1>9, <1>10, <1>11 DEF StoreInv

\* What a request that begins disturbs.
LEMMA BeginMoves ==
  ASSUME StoreTypeOK, NEW c \in StoreClients, serving[c] = NoRequest,
         NEW pc \in Steps, NEW wish \in RequestKinds, NEW p \in Paths, NEW f \in Paths,
         NEW v \in Contents, Begin(c, pc, wish, p, f, v)
  PROVE  /\ serving' \in [StoreClients -> {NoRequest} \cup RequestRecords]
         /\ serving'[c] # NoRequest /\ serving'[c].pc = pc /\ serving'[c].kind = wish
         /\ serving'[c].path = p /\ serving'[c].from = f /\ serving'[c].ver = v
         /\ \A d \in StoreClients : d # c => serving'[d] = serving[d]
         /\ disturbed \subseteq disturbed' /\ disturbed' \subseteq Paths
         /\ f \in disturbed => {p, f} \subseteq disturbed'
         /\ \A q \in {p, f} : (IF wish = "read" THEN Changed(q) ELSE Busy(q))
              => {p, f} \cup Meets(q) \subseteq disturbed'
<1>1. PICK s \in RequestRecords :
        s = [pc |-> pc, kind |-> wish, path |-> p, from |-> f, ver |-> v]
  BY DEF RequestRecords
<1>2. serving' = [serving EXCEPT ![c] = s]
  BY <1>1 DEF Begin
<1>3. /\ serving' \in [StoreClients -> {NoRequest} \cup RequestRecords]
      /\ serving'[c] = s /\ \A d \in StoreClients : d # c => serving'[d] = serving[d]
  BY <1>2, StoreTypesSplit
<1>4. s # NoRequest
  BY RequestIsOne
<1>5. PICK met \in SUBSET {p, f} :
        /\ met = {q \in {p, f} : IF wish = "read" THEN Changed(q) ELSE Busy(q)}
        /\ disturbed' = disturbed \cup (UNION {Meets(q) : q \in met})
             \cup IF met # {} \/ f \in disturbed THEN {p, f} ELSE {}
  BY DEF Begin
<1>6. \A q \in Paths : Meets(q) \subseteq Paths
  <2> SUFFICES ASSUME NEW q \in Paths, NEW x \in Meets(q), x # q
               PROVE  x \in Paths
    OBVIOUS
  <2>1. PICK d \in Touching(q) : x \in {serving[d].path, serving[d].from}
    BY DEF Meets
  <2> QED
    BY <2>1, RequestKnows DEF Touching
<1>e. PICK ends : ends = IF met # {} \/ f \in disturbed THEN {p, f} ELSE {}
  OBVIOUS
<1>u. PICK others : others = UNION {Meets(q) : q \in met}
  OBVIOUS
<1>d. disturbed' = disturbed \cup others \cup ends
  BY <1>5, <1>e, <1>u
<1>o. others \subseteq Paths /\ \A q \in met : Meets(q) \subseteq others
  <2>1. \A x \in others : \E q \in met : x \in Meets(q)
    BY <1>u
  <2>2. \A q \in met : \A x \in Meets(q) : x \in others
    BY <1>u
  <2> QED
    BY <2>1, <2>2, <1>6
<1>7. \A q \in met : Meets(q) \subseteq disturbed'
  BY <1>d, <1>o
<1>8. disturbed' \subseteq Paths
  <2>1. ends \subseteq Paths
    BY <1>e
  <2> QED
    BY <2>1, <1>d, <1>o, StoreTypesSplit
<1>9. disturbed \subseteq disturbed' /\ (f \in disturbed => {p, f} \subseteq disturbed')
  BY <1>d, <1>e
<1>10. \A q \in met : {p, f} \subseteq disturbed'
  BY <1>d, <1>e
<1> QED
  BY <1>1, <1>3, <1>4, <1>5, <1>7, <1>8, <1>9, <1>10

\* A request begins: it is enough to look at its own paths, where a change is
\* alone or disturbs.
LEMMA BeginKept ==
  ASSUME StoreInv, StoreTypeOK', NEW c \in StoreClients, serving[c] = NoRequest,
         NEW pc \in Steps, NEW wish \in RequestKinds, NEW p \in Paths, NEW f \in Paths,
         NEW v \in Contents, Begin(c, pc, wish, p, f, v),
         UNCHANGED <<objects, remote, setting, lost>>,
         \A q \in Paths \ {p} : local'[q] = local[q],
         wish = "read" => p = f /\ local' = local,
         Formed(serving'[c]),
         p \notin disturbed' => ReliesOn(serving[c], p)',
         f \notin disturbed' => ReliesOn(serving[c], f)',
         pc \in {"fetchThenCopy", "copy"} /\ p \notin disturbed' => local'[f] \in {Absent, v}
  PROVE  StoreInv'
<1>0. StoreTypeOK
  BY DEF StoreInv
<1>1. /\ serving'[c] # NoRequest /\ serving'[c].pc = pc /\ serving'[c].kind = wish
      /\ serving'[c].path = p /\ serving'[c].from = f /\ serving'[c].ver = v
      /\ \A d \in StoreClients : d # c => serving'[d] = serving[d]
      /\ disturbed \subseteq disturbed'
      /\ \A q \in {p, f} : (IF wish = "read" THEN Changed(q) ELSE Busy(q))
           => {p, f} \cup Meets(q) \subseteq disturbed'
  BY <1>0, BeginMoves
<1>2. EndsOf(c)' = {p, f} /\ \A d \in StoreClients : d # c => EndsOf(d)' = EndsOf(d)
  BY <1>1 DEF EndsOf
<1>3. \A q \in Paths : AtRemote(q)' = AtRemote(q)
  BY AtRemoteStays
<1>4. ASSUME NEW d \in StoreClients, d # c, serving[d] # NoRequest,
             NEW q \in EndsOf(d), q \in {p, f}
      PROVE  \/ serving[d].kind = "read" /\ wish = "read"
             \/ EndsOf(c)' \cup EndsOf(d) \subseteq disturbed'
  <2>1. d \in Touching(q)
    BY <1>4 DEF Touching, EndsOf
  <2>2. EndsOf(d) \subseteq Meets(q) /\ Busy(q)
    BY <2>1 DEF Meets, Busy, EndsOf
  <2>3. serving[d].kind # "read" => Changed(q)
    BY <2>1 DEF Changed
  <2> QED
    BY <1>1, <1>2, <1>4, <2>2, <2>3
<1>5. StoreApart'
  <2> SUFFICES ASSUME NEW x \in StoreClients, NEW y \in StoreClients, x # y,
                      serving'[x] # NoRequest, serving'[y] # NoRequest,
                      (EndsOf(x) \cap EndsOf(y) # {})'
               PROVE  \/ serving'[x].kind = "read" /\ serving'[y].kind = "read"
                      \/ (EndsOf(x) \cup EndsOf(y))' \subseteq disturbed'
    BY DEF StoreApart
  <2>1. CASE x # c /\ y # c
    <3>1. \/ serving[x].kind = "read" /\ serving[y].kind = "read"
          \/ EndsOf(x) \cup EndsOf(y) \subseteq disturbed
      BY <2>1, <1>1, <1>2 DEF StoreInv, StoreApart
    <3> QED
      BY <2>1, <3>1, <1>1, <1>2
  <2>2. CASE x = c
    <3>1. PICK q : q \in EndsOf(y)' /\ q \in EndsOf(x)'
      OBVIOUS
    <3>2. y # c /\ serving[y] # NoRequest /\ q \in EndsOf(y) /\ q \in {p, f}
      BY <2>2, <3>1, <1>1, <1>2
    <3>3. \/ serving[y].kind = "read" /\ wish = "read"
          \/ EndsOf(c)' \cup EndsOf(y) \subseteq disturbed'
      BY <3>2, <1>4
    <3> QED
      BY <2>2, <3>2, <3>3, <1>1, <1>2
  <2>3. CASE y = c
    <3>1. PICK q : q \in EndsOf(y)' /\ q \in EndsOf(x)'
      OBVIOUS
    <3>2. x # c /\ serving[x] # NoRequest /\ q \in EndsOf(x) /\ q \in {p, f}
      BY <2>3, <3>1, <1>1, <1>2
    <3>3. \/ serving[x].kind = "read" /\ wish = "read"
          \/ EndsOf(c)' \cup EndsOf(x) \subseteq disturbed'
      BY <3>2, <1>4
    <3> QED
      BY <2>3, <3>2, <3>3, <1>1, <1>2
  <2> QED
    BY <2>1, <2>2, <2>3
<1>6. SourceKept'
  <2> SUFFICES ASSUME NEW d \in StoreClients, serving'[d] # NoRequest,
                      serving'[d].pc \in {"fetchThenCopy", "copy"},
                      serving'[d].path \notin disturbed'
               PROVE  local'[serving'[d].from] \in {Absent, serving'[d].ver}
    BY DEF SourceKept
  <2>1. CASE d = c
    BY <2>1, <1>1
  <2>2. CASE d # c
    <3>1. serving'[d] = serving[d] /\ serving[d].path \notin disturbed
      BY <2>2, <1>1
    <3>2. serving[d].from \in Paths /\ serving[d].kind # "read"
      BY <3>1, <1>0, RequestKnows DEF StoreInv, Formed, RequestKinds
    <3>3. serving[d].from \in EndsOf(d) /\ serving[d].path \in EndsOf(d)
      BY DEF EndsOf
    <3>4. serving[d].from # p
      BY <2>2, <3>1, <3>2, <3>3, <1>4
    <3>5. local[serving[d].from] \in {Absent, serving[d].ver}
      BY <3>1 DEF StoreInv, SourceKept
    <3> QED
      BY <3>1, <3>2, <3>4, <3>5
  <2> QED
    BY <2>1, <2>2
<1>7. \A d \in StoreClients : serving'[d] # NoRequest => Formed(serving'[d])
  BY <1>1 DEF StoreInv
<1>8. ASSUME NEW q \in Paths, q \notin disturbed'
      PROVE  ObjectKept(q)'
  <2>1. q \notin disturbed /\ ObjectKept(q) /\ (s3Enabled' <=> s3Enabled)
    BY <1>8, <1>1 DEF StoreInv, s3Enabled
  <2>2. CASE q \notin {p, f}
    <3>1. c \notin Touching(q) /\ c \notin Touching(q)'
      BY <1>1, <2>2 DEF Touching
    <3>2. Touching(q)' = Touching(q) /\ \A d \in Touching(q) : serving'[d] = serving[d]
      BY <3>1, <1>1 DEF Touching
    <3> QED
      BY <2>1, <2>2, <3>2, <1>3, ObjectFrame
  <2>3. CASE q \in {p, f} /\ wish # "read"
    <3>1. Touching(q) = {}
      BY <2>3, <1>1, <1>8 DEF Busy
    <3>2. Touching(q)' = {c}
      BY <3>1, <2>3, <1>1 DEF Touching
    <3>3. Changed(q)'
      BY <3>2, <2>3, <1>1 DEF Changed
    <3>4. ReliesOn(serving[c], q)'
      BY <2>3, <1>8
    <3> QED
      BY <3>2, <3>3, <3>4 DEF ObjectKept
  <2>4. CASE q \in {p, f} /\ wish = "read"
    <3>1. ~Changed(q) /\ local' = local
      BY <2>4, <1>1, <1>8
    <3>2. Rests(q)'
      BY <3>1, <2>1, <1>3 DEF ObjectKept, Rests
    <3>3. ASSUME NEW d \in Touching(q)'
          PROVE  ReliesOn(serving[d], q)'
      <4>1. CASE d = c
        BY <4>1, <2>4, <1>8
      <4>2. CASE d # c
        <5>1. d \in Touching(q) /\ serving'[d] = serving[d]
              /\ d \in StoreClients /\ serving[d] # NoRequest
          BY <4>2, <3>3, <1>1 DEF Touching
        <5>2. serving[d].kind = "read" /\ Formed(serving[d]) /\ ReliesOn(serving[d], q)
          BY <5>1, <3>1, <2>1 DEF Changed, StoreInv, ObjectKept
        <5> QED
          BY <5>1, <5>2 DEF ReliesOn, Formed
      <4> QED
        BY <4>1, <4>2
    <3> QED
      BY <3>2, <3>3 DEF ObjectKept
  <2> QED
    BY <2>2, <2>3, <2>4
<1> QED
  BY <1>5, <1>6, <1>7, <1>8 DEF StoreInv

\* Where a request may begin without disturbing anything, nothing is at work.
LEMMA BeginRests ==
  ASSUME StoreInv, NEW c \in StoreClients, serving[c] = NoRequest,
         NEW pc \in Steps, NEW wish \in RequestKinds, NEW p \in Paths, NEW f \in Paths,
         NEW v \in Contents, Begin(c, pc, wish, p, f, v)
  PROVE  /\ \A q \in {p, f} \ disturbed' : Rests(q)
         /\ p \notin disturbed' => Rests(f)
<1>1. /\ disturbed \subseteq disturbed' /\ (f \in disturbed => {p, f} \subseteq disturbed')
      /\ \A q \in {p, f} : (IF wish = "read" THEN Changed(q) ELSE Busy(q))
           => {p, f} \cup Meets(q) \subseteq disturbed'
  BY BeginMoves DEF StoreInv
<1>2. \A q \in Paths : Changed(q) => Busy(q)
  BY DEF Changed, Busy
<1>3. \A q \in Paths \ disturbed : ~Changed(q) => Rests(q)
  BY DEF StoreInv, ObjectKept
<1> QED
  BY <1>1, <1>2, <1>3

LEMMA UploadCreateKept ==
  ASSUME StoreInv, NEW c \in StoreClients, NEW p \in Paths, UploadCreate(c, p)
  PROVE  StoreInv'
<1>0. StoreTypeOK /\ serving[c] = NoRequest
  BY DEF StoreInv, UploadCreate
<1>v. PICK v \in Contents : v = uploads + 1
  BY <1>0, StoreTypesSplit, StoreAssumption DEF UploadCreate, Contents
<1>a. v # Absent /\ Partial # Absent /\ "write" \in Steps /\ "upload" \in RequestKinds
  BY <1>v, <1>0, StoreTypesSplit, StoreAssumption
  DEF Contents, Absent, Partial, Steps, RequestKinds
<1>b. Begin(c, "write", "upload", p, p, v)
  BY <1>v DEF UploadCreate
<1>1. /\ serving' \in [StoreClients -> {NoRequest} \cup RequestRecords]
      /\ serving'[c].pc = "write" /\ serving'[c].kind = "upload"
      /\ serving'[c].path = p /\ serving'[c].from = p /\ serving'[c].ver = v
      /\ disturbed' \subseteq Paths
  BY <1>0, <1>a, <1>b, BeginMoves
<1>2. UNCHANGED <<setting, migrated, copying, lost, objects, remote>> /\ uploads' = v
  BY <1>v DEF UploadCreate, Remains
<1>3. /\ local' \in [Paths -> Files] /\ local'[p] = Partial
      /\ \A q \in Paths : q # p => local'[q] = local[q]
  BY <1>0, LocalMoves, FilesAreNumbers DEF UploadCreate
<1>4. StoreTypeOK'
  BY <1>0, <1>1, <1>2, <1>3, StoreTypesSplit DEF StoreTypeOK, Requests,
     RequestRecords, RequestKinds
<1>5. Formed(serving'[c])
  BY <1>1, <1>a DEF Formed
<1>6. AtRemote(p)' = AtRemote(p)
  BY <1>2, AtRemoteStays
<1>7. p \notin disturbed' => ReliesOn(serving[c], p)'
  <2>1. p \notin disturbed' => Rests(p)
    BY <1>0, <1>a, <1>b, BeginRests
  <2> QED
    BY <2>1, <1>1, <1>2, <1>3, <1>6, <1>a DEF Rests, ReliesOn, WrittenSoFar
<1> QED
  BY <1>0, <1>1, <1>2, <1>3, <1>4, <1>5, <1>7, <1>a, <1>b, BeginKept

LEMMA DeleteFileKept ==
  ASSUME StoreInv, NEW c \in StoreClients, NEW p \in Paths, DeleteFile(c, p)
  PROVE  StoreInv'
<1>0. StoreTypeOK /\ serving[c] = NoRequest
  BY DEF StoreInv, DeleteFile
<1>a. Absent \in Contents /\ "s3delete" \in Steps /\ "delete" \in RequestKinds
  BY FilesAreNumbers DEF Steps, RequestKinds
<1>b. Begin(c, "s3delete", "delete", p, p, Absent)
  BY DEF DeleteFile
<1>1. /\ serving' \in [StoreClients -> {NoRequest} \cup RequestRecords]
      /\ serving'[c].pc = "s3delete" /\ serving'[c].kind = "delete"
      /\ serving'[c].path = p /\ serving'[c].from = p /\ serving'[c].ver = Absent
      /\ disturbed' \subseteq Paths
  BY <1>0, <1>a, <1>b, BeginMoves
<1>2. UNCHANGED <<setting, migrated, copying, lost, objects, remote, uploads>>
  BY DEF DeleteFile, Remains
<1>3. /\ local' \in [Paths -> Files] /\ local'[p] = Absent
      /\ \A q \in Paths : q # p => local'[q] = local[q]
  BY <1>0, LocalMoves, FilesAreNumbers DEF DeleteFile
<1>4. StoreTypeOK'
  BY <1>0, <1>1, <1>2, <1>3, StoreTypesSplit DEF StoreTypeOK, Requests,
     RequestRecords, RequestKinds
<1>5. Formed(serving'[c])
  BY <1>1 DEF Formed
<1>7. p \notin disturbed' => ReliesOn(serving[c], p)'
  BY <1>1, <1>2, <1>3 DEF ReliesOn
<1> QED
  BY <1>0, <1>1, <1>2, <1>3, <1>4, <1>5, <1>7, <1>a, <1>b, BeginKept

LEMMA ReadKept ==
  ASSUME StoreInv, NEW c \in StoreClients, NEW p \in Paths, Read(c, p)
  PROVE  StoreInv'
<1>0. StoreTypeOK /\ serving[c] = NoRequest /\ AtRemote(p) # Absent
  BY DEF StoreInv, Read
<1>r. AtRemote(p) \in Files
  BY <1>0, StoreTypesSplit, FilesAreNumbers DEF AtRemote, s3Enabled
<1>v. PICK v \in Contents : v = AtRemote(p) % Partial
  BY <1>r, StoreAssumption DEF Files, Contents, Partial
<1>a. "fetch" \in Steps /\ "read" \in RequestKinds
  BY DEF Steps, RequestKinds
<1>b. Begin(c, "fetch", "read", p, p, v)
  BY <1>v DEF Read
<1>1. /\ serving' \in [StoreClients -> {NoRequest} \cup RequestRecords]
      /\ serving'[c].pc = "fetch" /\ serving'[c].kind = "read"
      /\ serving'[c].path = p /\ serving'[c].from = p /\ serving'[c].ver = v
      /\ disturbed' \subseteq Paths
  BY <1>0, <1>a, <1>b, BeginMoves
<1>2. UNCHANGED <<setting, migrated, copying, lost, objects, local, remote, uploads>>
  BY DEF Read, Remains
<1>4. StoreTypeOK'
  BY <1>0, <1>1, <1>2, StoreTypesSplit DEF StoreTypeOK, Requests,
     RequestRecords, RequestKinds
<1>5. Formed(serving'[c])
  BY <1>1 DEF Formed
<1>7. p \notin disturbed' => ReliesOn(serving[c], p)'
  <2>1. p \notin disturbed' => AtRemote(p) = objects[p] /\ objects[p] \in Contents
    BY <1>0, <1>a, <1>b, BeginRests, StoreTypesSplit DEF Rests
  <2>2. \A x \in Contents : x % Partial = x
    BY StoreAssumption DEF Contents, Partial
  <2>3. p \notin disturbed' => v = objects[p] /\ objects[p] # Absent
    BY <2>1, <2>2, <1>0, <1>v
  <2> QED
    BY <2>3, <1>1, <1>2 DEF ReliesOn
<1> QED
  BY <1>0, <1>1, <1>2, <1>4, <1>5, <1>7, <1>a, <1>b, BeginKept

LEMMA TransferKept ==
  ASSUME StoreInv, NEW c \in StoreClients, NEW f \in Paths, NEW p \in Paths, p # f,
         NEW wish \in {"copy", "move"}, Transfer(c, f, p, wish)
  PROVE  StoreInv'
<1>0. StoreTypeOK /\ serving[c] = NoRequest /\ wish \in RequestKinds
  BY DEF StoreInv, Transfer, RequestKinds
<1>v. PICK v \in Contents : v = objects[f]
  BY <1>0, StoreTypesSplit
<1>b. PICK pc \in {"copy", "fetchThenCopy"} : Begin(c, pc, wish, p, f, v)
  BY <1>v DEF Transfer
<1>a. pc \in Steps /\ v # Absent /\ objects[p] = Absent
  BY <1>v DEF Steps, Transfer
<1>1. /\ serving' \in [StoreClients -> {NoRequest} \cup RequestRecords]
      /\ serving'[c].pc = pc /\ serving'[c].kind = wish
      /\ serving'[c].path = p /\ serving'[c].from = f /\ serving'[c].ver = v
      /\ disturbed' \subseteq Paths
  BY <1>0, <1>a, <1>b, BeginMoves
<1>2. UNCHANGED <<setting, migrated, copying, lost, objects, local, remote, uploads>>
  BY DEF Transfer, Remains
<1>4. StoreTypeOK'
  BY <1>0, <1>1, <1>2, StoreTypesSplit DEF StoreTypeOK, Requests,
     RequestRecords, RequestKinds
<1>5. Formed(serving'[c])
  BY <1>1, <1>a DEF Formed
<1>6. AtRemote(p)' = AtRemote(p) /\ AtRemote(f)' = AtRemote(f)
  BY <1>2, AtRemoteStays
<1>7. /\ p \notin disturbed' => Rests(p) /\ Rests(f)
      /\ f \notin disturbed' => Rests(f)
  BY <1>0, <1>a, <1>b, BeginRests
<1>8. p \notin disturbed' => ReliesOn(serving[c], p)'
  BY <1>1, <1>2, <1>6, <1>7, <1>a DEF ReliesOn, WrittenSoFar, Rests
<1>9. f \notin disturbed' => ReliesOn(serving[c], f)'
  BY <1>1, <1>2, <1>6, <1>7, <1>a, <1>v DEF ReliesOn, Rests
<1>10. p \notin disturbed' => local'[f] \in {Absent, v}
  BY <1>2, <1>7, <1>v DEF Rests
<1> QED
  BY <1>0, <1>1, <1>2, <1>4, <1>5, <1>8, <1>9, <1>10, <1>a, <1>b, BeginKept

\* The remote, the cache and restarts: requests go on as they were.
LEMMA SettingKept ==
  ASSUME StoreInv, StoreTypeOK', UNCHANGED <<objects, serving>>,
         disturbed \subseteq disturbed',
         \A p \in Paths : local'[p] \in {local[p], Absent},
         \A p \in Paths \ disturbed' : ObjectKept(p)'
  PROVE  StoreInv'
<1>1. StoreApart' /\ \A c \in StoreClients : serving'[c] # NoRequest => Formed(serving'[c])
  <2>1. \A c \in StoreClients : EndsOf(c)' = EndsOf(c)
    BY DEF EndsOf
  <2> QED
    BY <2>1 DEF StoreInv, StoreApart
<1>2. SourceKept'
  <2> SUFFICES ASSUME NEW d \in StoreClients, serving'[d] # NoRequest,
                      serving'[d].pc \in {"fetchThenCopy", "copy"},
                      serving'[d].path \notin disturbed'
               PROVE  local'[serving'[d].from] \in {Absent, serving'[d].ver}
    BY DEF SourceKept
  <2>1. serving[d].from \in Paths
    BY RequestKnows DEF StoreInv
  <2>2. local[serving[d].from] \in {Absent, serving[d].ver}
    BY DEF StoreInv, SourceKept
  <2> QED
    BY <2>1, <2>2
<1> QED
  BY <1>1, <1>2 DEF StoreInv

LEMMA SetRemoteKept ==
  ASSUME StoreInv, NEW r \in Remotes, SetRemote(r)
  PROVE  StoreInv'
<1>0. StoreTypeOK
  BY DEF StoreInv
<1>1. UNCHANGED <<objects, local, remote, migrated, serving, uploads, lost>> /\ setting' = r
  BY DEF SetRemote
<1>2. PICK new \in SUBSET Paths :
        new = {p \in Paths : \/ Busy(p)
                             \/ r # setting /\ local[p] # objects[p]
                             \/ remote[r][p] \notin {Absent, objects[p]}}
  OBVIOUS
<1>3. disturbed' = disturbed \cup new
  BY <1>2 DEF SetRemote, Disturb
<1>4. copying' \in [Remotes -> SUBSET Paths]
  BY <1>0, StoreTypesSplit DEF SetRemote
<1>5. StoreTypeOK'
  BY <1>0, <1>1, <1>2, <1>3, <1>4, StoreTypesSplit DEF StoreTypeOK, Requests,
     RequestRecords, RequestKinds
<1>6. ASSUME NEW p \in Paths, p \notin disturbed'
      PROVE  ObjectKept(p)'
  <2>1. /\ p \notin disturbed /\ ObjectKept(p) /\ Touching(p) = {}
        /\ remote[r][p] \in {Absent, objects[p]}
        /\ r = setting \/ local[p] = objects[p]
    BY <1>2, <1>3, <1>6 DEF Busy, StoreInv
  <2>2. Touching(p)' = {} /\ Rests(p)
    BY <2>1, <1>1 DEF Touching, Changed, ObjectKept
  <2>3. AtRemote(p)' = remote[r][p] /\ (r = setting => AtRemote(p) = remote[r][p])
    BY <1>1, StoreAssumption DEF AtRemote, s3Enabled
  <2> QED
    BY <2>1, <2>2, <2>3, <1>1 DEF ObjectKept, Rests
<1> QED
  BY <1>1, <1>3, <1>5, <1>6, SettingKept

LEMMA ClearRemoteKept ==
  ASSUME StoreInv, ClearRemote
  PROVE  StoreInv'
<1>0. StoreTypeOK
  BY DEF StoreInv
<1>1. /\ UNCHANGED <<objects, local, remote, copying, serving, uploads, lost>>
      /\ setting' = NoRemote /\ migrated' = FALSE
  BY DEF ClearRemote
<1>2. PICK new \in SUBSET Paths : new = {p \in Paths : Busy(p) \/ local[p] # objects[p]}
  OBVIOUS
<1>3. disturbed' = disturbed \cup new
  BY <1>2 DEF ClearRemote, Disturb
<1>5. StoreTypeOK'
  BY <1>0, <1>1, <1>2, <1>3, StoreTypesSplit DEF StoreTypeOK, Requests,
     RequestRecords, RequestKinds
<1>6. ASSUME NEW p \in Paths, p \notin disturbed'
      PROVE  ObjectKept(p)'
  <2>1. Touching(p) = {} /\ local[p] = objects[p]
    BY <1>2, <1>3, <1>6 DEF Busy
  <2>2. Touching(p)' = {} /\ AtRemote(p)' = Absent
    BY <2>1, <1>1 DEF Touching, AtRemote, s3Enabled
  <2> QED
    BY <2>1, <2>2, <1>1 DEF ObjectKept, Rests
<1> QED
  BY <1>1, <1>3, <1>5, <1>6, SettingKept

LEMMA CopyOverKept ==
  ASSUME StoreInv, NEW r \in Remotes, NEW p \in Paths, CopyOver(r, p)
  PROVE  StoreInv'
<1>0. StoreTypeOK
  BY DEF StoreInv
<1>1. UNCHANGED <<objects, local, setting, serving, uploads, lost>>
  BY DEF CopyOver
<1>2. PICK new \in SUBSET Paths : new = {q \in {p} : Changed(q) \/ r # setting}
  OBVIOUS
<1>3. disturbed' = disturbed \cup new
  BY <1>2 DEF CopyOver, Disturb
<1>w. PICK w \in Files : w = IF local[p] = Absent THEN remote[r][p] ELSE local[p]
  BY <1>0, StoreTypesSplit
<1>r. remote' = [remote EXCEPT ![r][p] = w]
  BY <1>w DEF CopyOver
<1>4. /\ remote' \in [Remotes -> [Paths -> Files]] /\ remote'[r][p] = w
      /\ \A q \in Paths : q # p => remote'[r][q] = remote[r][q]
      /\ \A t \in Remotes : t # r => remote'[t] = remote[t]
  BY <1>0, <1>r, RemoteMoves, StoreTypesSplit
<1>c. copying' \in [Remotes -> SUBSET Paths] /\ migrated' \in BOOLEAN
  BY <1>0, StoreTypesSplit DEF CopyOver
<1>5. StoreTypeOK'
  BY <1>0, <1>1, <1>2, <1>3, <1>4, <1>c, StoreTypesSplit DEF StoreTypeOK, Requests,
     RequestRecords, RequestKinds
<1>6. ASSUME NEW q \in Paths, q \notin disturbed'
      PROVE  ObjectKept(q)'
  <2>1. /\ q \notin disturbed /\ ObjectKept(q) /\ Touching(q)' = Touching(q)
        /\ (s3Enabled' <=> s3Enabled)
    BY <1>1, <1>3, <1>6 DEF StoreInv, Touching, s3Enabled
  <2>2. CASE q # p
    <3>1. AtRemote(q)' = AtRemote(q)
      BY <1>0, <1>1, <1>4, <2>2, StoreTypesSplit DEF AtRemote, s3Enabled
    <3> QED
      BY <2>1, <3>1, <1>1, ObjectFrame
  <2>3. CASE q = p
    <3>1. ~Changed(p) /\ r = setting /\ Rests(p)
      BY <1>2, <1>3, <1>6, <2>1, <2>3 DEF ObjectKept
    <3>2. AtRemote(p) = remote[r][p] /\ AtRemote(p)' = w
      BY <3>1, <1>1, <1>4, StoreAssumption DEF AtRemote, s3Enabled
    <3>3. Rests(p)'
      BY <3>1, <3>2, <1>1, <1>w DEF Rests
    <3>4. ASSUME NEW d \in Touching(p)'
          PROVE  ReliesOn(serving[d], p)'
      <4>1. /\ d \in StoreClients /\ serving[d] # NoRequest /\ serving[d].kind = "read"
            /\ serving'[d] = serving[d] /\ ReliesOn(serving[d], p)
        BY <3>1, <3>4, <2>1, <2>3, <1>1 DEF Touching, Changed, ObjectKept
      <4>2. Formed(serving[d])
        BY <4>1 DEF StoreInv
      <4> QED
        BY <4>1, <4>2, <1>1 DEF ReliesOn, Formed
    <3> QED
      BY <3>3, <3>4, <2>3 DEF ObjectKept
  <2> QED
    BY <2>2, <2>3
<1> QED
  BY <1>1, <1>3, <1>5, <1>6, SettingKept

LEMMA CopyFailsKept ==
  ASSUME StoreInv, NEW r \in Remotes, CopyFails(r)
  PROVE  StoreInv'
<1>0. StoreTypeOK
  BY DEF StoreInv
<1>1. UNCHANGED <<objects, local, remote, setting, migrated, serving, uploads, disturbed, lost>>
  BY DEF CopyFails
<1>2. copying' \in [Remotes -> SUBSET Paths]
  BY <1>0, StoreTypesSplit DEF CopyFails
<1>5. StoreTypeOK'
  BY <1>0, <1>1, <1>2, StoreTypesSplit DEF StoreTypeOK, Requests,
     RequestRecords, RequestKinds
<1>6. ASSUME NEW p \in Paths, p \notin disturbed'
      PROVE  ObjectKept(p)'
  <2>1. ObjectKept(p) /\ Touching(p)' = Touching(p) /\ AtRemote(p)' = AtRemote(p)
    BY <1>1, <1>6 DEF StoreInv, Touching, AtRemote, s3Enabled
  <2> QED
    BY <2>1, <1>1, ObjectFrame DEF s3Enabled
<1> QED
  BY <1>1, <1>5, <1>6, SettingKept

\* What the pruner takes is at the remote, or lost; no request relies on it.
LEMMA PruneCacheKept ==
  ASSUME StoreInv, NEW p \in Paths, PruneCache(p)
  PROVE  StoreInv'
<1>0. StoreTypeOK /\ s3Enabled
  BY DEF StoreInv, PruneCache
<1>1. UNCHANGED <<objects, remote, setting, migrated, copying, serving, uploads, disturbed>>
  BY DEF PruneCache
<1>2. /\ local' \in [Paths -> Files] /\ local'[p] = Absent
      /\ \A q \in Paths : q # p => local'[q] = local[q]
  BY <1>0, LocalMoves, FilesAreNumbers DEF PruneCache
<1>3. PICK gone \in SUBSET {p} :
        /\ gone = {q \in {p} : objects[q] # Absent /\ AtRemote(q) # objects[q]}
        /\ lost' = lost \cup gone
  BY DEF PruneCache
<1>4. /\ lost' \subseteq Paths
      /\ \A q \in Paths : q # p => (q \in lost' <=> q \in lost)
      /\ p \notin lost' => p \notin lost /\ (objects[p] = Absent \/ AtRemote(p) = objects[p])
  BY <1>0, <1>3, StoreTypesSplit
<1>5. StoreTypeOK'
  BY <1>0, <1>1, <1>2, <1>4, StoreTypesSplit DEF StoreTypeOK, Requests,
     RequestRecords, RequestKinds
<1>6. ASSUME NEW q \in Paths, q \notin disturbed'
      PROVE  ObjectKept(q)'
  <2>1. /\ q \notin disturbed /\ ObjectKept(q) /\ Touching(q)' = Touching(q)
        /\ AtRemote(q)' = AtRemote(q) /\ s3Enabled'
    BY <1>0, <1>1, <1>6 DEF StoreInv, Touching, AtRemote, s3Enabled
  <2>2. CASE q # p
    BY <2>1, <2>2, <1>0, <1>1, <1>2, <1>4, ObjectFrame
  <2>3. CASE q = p
    <3>1. Changed(p)' <=> Changed(p)
      BY <2>1, <2>3, <1>1 DEF Changed
    <3>2. Rests(p) => Rests(p)'
      BY <2>1, <2>3, <1>1, <1>2, <1>4 DEF Rests
    <3>3. ASSUME NEW d \in Touching(p)'
          PROVE  ReliesOn(serving[d], p)'
      <4>1. /\ d \in Touching(p) /\ serving'[d] = serving[d] /\ ReliesOn(serving[d], p)
        BY <3>3, <2>1, <2>3, <1>1 DEF ObjectKept
      <4>2. PICK s : s = serving[d] /\ s = serving'[d]
        BY <4>1
      <4>3. WrittenSoFar(s, p) => WrittenSoFar(s, p)'
        BY <3>2, <2>1, <2>3, <1>0, <1>1, <1>2 DEF WrittenSoFar
      <4>4. ReliesOn(s, p)'
        BY <4>1, <4>2, <4>3, <3>2, <2>1, <2>3, <1>1, <1>2 DEF ReliesOn
      <4> QED
        BY <4>2, <4>4 DEF ReliesOn, WrittenSoFar, Rests
    <3> QED
      BY <3>1, <3>2, <3>3, <2>1, <2>3 DEF ObjectKept
  <2> QED
    BY <2>2, <2>3
<1>7. \A q \in Paths : local'[q] \in {local[q], Absent}
  BY <1>2
<1> QED
  BY <1>1, <1>5, <1>6, <1>7, SettingKept

LEMMA StoreBootKept ==
  ASSUME StoreInv, StoreBoot
  PROVE  StoreInv'
<1>0. StoreTypeOK
  BY DEF StoreInv
<1>1. /\ UNCHANGED <<objects, local, remote, setting, migrated, uploads, lost>>
      /\ \A c \in StoreClients : serving'[c] = NoRequest
      /\ serving' \in [StoreClients -> {NoRequest} \cup RequestRecords]
      /\ copying' \in [Remotes -> SUBSET Paths]
  BY DEF StoreBoot
<1>2. PICK new \in SUBSET Paths : new = {p \in Paths : Busy(p)}
  OBVIOUS
<1>3. disturbed' = disturbed \cup new
  BY <1>2 DEF StoreBoot, Disturb
<1>5. StoreTypeOK'
  BY <1>0, <1>1, <1>2, <1>3, StoreTypesSplit DEF StoreTypeOK, Requests,
     RequestRecords, RequestKinds
<1>6. ASSUME NEW p \in Paths, p \notin disturbed'
      PROVE  ObjectKept(p)'
  <2>1. ObjectKept(p) /\ Touching(p) = {} /\ Touching(p)' = {}
    BY <1>1, <1>2, <1>3, <1>6 DEF StoreInv, Busy, Touching
  <2>2. Rests(p) /\ AtRemote(p)' = AtRemote(p)
    BY <2>1, <1>1 DEF ObjectKept, Changed, AtRemote, s3Enabled
  <2> QED
    BY <2>1, <2>2, <1>1 DEF ObjectKept, Rests
<1>7. StoreApart' /\ SourceKept'
  BY <1>1 DEF StoreApart, SourceKept
<1> QED
  BY <1>1, <1>5, <1>6, <1>7 DEF StoreInv

LEMMA StoreInitInv == StoreInit => StoreInv
<1> SUFFICES ASSUME StoreInit
             PROVE  StoreInv
  OBVIOUS
<1>1. StoreTypeOK
  BY StoreTypesSplit, FilesAreNumbers DEF StoreInit, Absent, Contents, Files
<1>2. /\ \A c \in StoreClients : serving[c] = NoRequest
      /\ \A p \in Paths : objects[p] = Absent /\ local[p] = Absent
      /\ ~s3Enabled
  BY DEF StoreInit, s3Enabled
<1>3. \A p \in Paths : Touching(p) = {} /\ AtRemote(p) = Absent
  BY <1>2 DEF Touching, AtRemote
<1>4. StoreApart /\ SourceKept
  BY <1>2 DEF StoreApart, SourceKept
<1>5. \A p \in Paths : ObjectKept(p)
  BY <1>2, <1>3 DEF ObjectKept, Rests
<1> QED
  BY <1>1, <1>2, <1>4, <1>5 DEF StoreInv

LEMMA StoreNextInv == StoreInv /\ [StoreNext]_storeVars => StoreInv'
<1> SUFFICES ASSUME StoreInv, [StoreNext]_storeVars
             PROVE  StoreInv'
  OBVIOUS
<1>1. ASSUME UNCHANGED storeVars
      PROVE  StoreInv'
  <2>1. StoreTypeOK'
    BY <1>1, StoreTypesSplit DEF storeVars, StoreInv, StoreTypeOK, Requests,
       RequestRecords, RequestKinds
  <2>2. ASSUME NEW p \in Paths, p \notin disturbed'
        PROVE  ObjectKept(p)'
    <3>1. ObjectKept(p) /\ Touching(p)' = Touching(p) /\ AtRemote(p)' = AtRemote(p)
      BY <1>1, <2>2 DEF storeVars, StoreInv, Touching, AtRemote, s3Enabled
    <3> QED
      BY <1>1, <3>1, ObjectFrame DEF storeVars, s3Enabled
  <2> QED
    BY <1>1, <2>1, <2>2, SettingKept DEF storeVars
<1>2. ASSUME NEW c \in StoreClients, NEW p \in Paths,
             UploadCreate(c, p) \/ DeleteFile(c, p) \/ Read(c, p)
      PROVE  StoreInv'
  BY <1>2, UploadCreateKept, DeleteFileKept, ReadKept
<1>3. ASSUME NEW c \in StoreClients, NEW p \in Paths, NEW to \in Paths \ {p},
             NEW wish \in {"copy", "move"}, Transfer(c, p, to, wish)
      PROVE  StoreInv'
  BY <1>3, TransferKept
<1>4. ASSUME NEW c \in StoreClients, UploadWrite(c) \/ Push(c) \/ Record(c)
      PROVE  StoreInv'
  BY <1>4, UploadWriteKept, PushKept, RecordKept
<1>5. ASSUME NEW c \in StoreClients, S3Delete(c) \/ DeleteRow(c) \/ CopyFile(c)
      PROVE  StoreInv'
  BY <1>5, S3DeleteKept, DeleteRowKept, CopyFileKept
<1>6. ASSUME NEW c \in StoreClients, Fetched(c)
      PROVE  StoreInv'
  <2>1. serving[c].pc = "fetch" \/ serving[c].pc = "fetchThenCopy"
    BY <1>6 DEF Fetched, StoreAt
  <2> QED
    BY <1>6, <2>1, FetchedByReadKept, FetchedToCopyKept
<1>7. ASSUME NEW r \in Remotes, SetRemote(r) \/ CopyFails(r)
      PROVE  StoreInv'
  BY <1>7, SetRemoteKept, CopyFailsKept
<1>8. ASSUME NEW r \in Remotes, NEW p \in Paths, CopyOver(r, p)
      PROVE  StoreInv'
  BY <1>8, CopyOverKept
<1> QED
  BY <1>1, <1>2, <1>3, <1>4, <1>5, <1>6, <1>7, <1>8, PruneCacheKept, ClearRemoteKept,
     StoreBootKept DEF StoreNext

\* A recorded object is where it is recorded (storage.go, s3storage.go).
LEMMA ObjectsAreAsRecorded == StoreInv => StoredAsRecorded
<1> SUFFICES ASSUME StoreInv, NEW p \in Paths \ (disturbed \cup lost), ~Busy(p)
             PROVE  /\ objects[p] # Absent => Served(p)
                    /\ objects[p] = Absent => local[p] = Absent /\ AtRemote(p) = Absent
  BY DEF StoredAsRecorded
<1>1. Rests(p)
  BY DEF StoreInv, ObjectKept, Busy, Changed
<1> QED
  BY <1>1 DEF Rests, Served

\* An object is what its row says, whatever dies between the row and the file
\* (storage.go, s3storage.go).
LEMMA ObjectsStayRecorded == StoreSpec => []StoredAsRecorded
  BY StoreInitInv, StoreNextInv, ObjectsAreAsRecorded, PTL DEF StoreSpec

\* An upload in pieces lands once and whole (tus.go).
LEMMA UploadsStayWhole == TusSpec => []LandsWhole
  BY TusInitInv, TusNextInv, UploadsLandWhole, PTL DEF TusSpec

-----------------------------------------------------------------------------
(* The update of the panel by itself.                                      *)

Serving == release = binary.bin /\ release \notin Broken

\* What the script that is alone at work can rely on at each stage.
Working(u) ==
    /\ updater[u].pc \in {"begin", "pull", "build", "keep", "swap", "infra", "clean"} => Serving
    /\ updater[u].pc \in {"swap", "restart", "health", "restore", "again"} =>
         binary.prev \notin Broken \cup {0}
    /\ updater[u].pc \in {"keep", "swap"} => binary.built = updater[u].ver /\ updater[u].ver # 0
    /\ updater[u].pc \in {"restart", "health", "infra"} => binary.bin = updater[u].ver
    /\ updater[u].pc = "health" => release = binary.bin
    /\ updater[u].pc = "again" => binary.bin = binary.prev
    /\ updater[u].pc = "clean" =>
         "rolled back" \in updLog.says \/ (release = updater[u].ver /\ "OK" \in updLog.says)

\* One script is alive, in a unit of its own, unless the log has lied.
OneUpdater == ~lied => /\ \A u, v \in Alive : u = v
                       /\ \A u \in Alive : updater[u].own

\* A script that failed to pull for the last time has ended.
TriesLeft == \A u \in Updaters : updater[u].try < Pulls

UpdateInv ==
    /\ UpdateTypeOK /\ OneUpdater /\ TriesLeft
    /\ upstream # 0 /\ checkout # 0 /\ binary.bin # 0
    /\ seen.behind => seen.latest > release
    /\ ~lied /\ ~cut => /\ Alive = {} => Serving
                        /\ \A u \in Alive : Working(u)

UpdaterRecs == [pc : Stages, try : 0..Pulls, ver : Releases, own : BOOLEAN]
Binaries == [bin : Releases, prev : Releases, built : Releases]
Logs == [says : SUBSET {"OK", "rolled back", "failed"}, exists : BOOLEAN, quiet : BOOLEAN]
Findings == [latest : Releases, behind : BOOLEAN, notified : Releases]
Infras == [scripts : Releases, rev : Releases, done : BOOLEAN]

LEMMA UpdateTypesSplit ==
  UpdateTypeOK <=>
    /\ upstream \in Releases /\ checkout \in Releases /\ release \in Releases
    /\ binary \in Binaries /\ updLog \in Logs
    /\ updater \in [Updaters -> UpdaterRecs] /\ admin \in [Admins -> BOOLEAN]
    /\ seen \in Findings /\ infra \in Infras
    /\ lied \in BOOLEAN /\ cut \in BOOLEAN
BY DEF UpdateTypeOK, UpdaterRecs, Binaries, Logs, Findings, Infras

LEMMA ReleasesAreNumbers ==
  /\ 0 \in Releases /\ 1 \in Releases /\ Releases \subseteq Nat
  /\ Broken \subseteq Releases /\ 0 \notin Broken /\ 1 \notin Broken
BY UpdateAssumption DEF Releases

LEMMA UnknownIsNothing == Unknown \in Findings /\ Unknown.behind = FALSE
BY ReleasesAreNumbers DEF Unknown, Findings

LEMMA GoneIsNobody == Gone \in UpdaterRecs /\ Gone.pc = "none" /\ Gone.try < Pulls
BY ReleasesAreNumbers, UpdateAssumption DEF Gone, UpdaterRecs, Stages

LEMMA StepMoves ==
  ASSUME UpdateTypeOK, NEW u \in Updaters, NEW pc \in Stages, Step(u, pc)
  PROVE  /\ updater' \in [Updaters -> UpdaterRecs]
         /\ updater'[u].pc = pc /\ updater'[u].ver = updater[u].ver
         /\ updater'[u].own = updater[u].own /\ updater'[u].try = updater[u].try
         /\ \A o \in Updaters : o # u => updater'[o] = updater[o]
<1>1. updater \in [Updaters -> UpdaterRecs]
  BY UpdateTypesSplit
<1>2. PICK r \in UpdaterRecs : r = [updater[u] EXCEPT !.pc = pc]
  BY <1>1 DEF UpdaterRecs
<1>3. r.pc = pc /\ r.ver = updater[u].ver /\ r.own = updater[u].own /\ r.try = updater[u].try
  BY <1>1, <1>2 DEF UpdaterRecs
<1> QED
  BY <1>1, <1>2, <1>3 DEF Step

LEMMA ExitMoves ==
  ASSUME UpdateTypeOK, NEW u \in Updaters, Exit(u)
  PROVE  /\ updater' \in [Updaters -> UpdaterRecs] /\ updater'[u].pc = "none"
         /\ updater'[u].try < Pulls
         /\ \A o \in Updaters : o # u => updater'[o] = updater[o]
BY GoneIsNobody, UpdateTypesSplit DEF Exit

LEMMA LogMoves ==
  ASSUME UpdateTypeOK
  PROVE  /\ Writes => updLog' \in Logs /\ updLog'.says = updLog.says
         /\ \A word \in {"OK", "rolled back", "failed"} :
              Says(word) => updLog' \in Logs /\ updLog'.says = updLog.says \cup {word}
<1>1. updLog \in Logs
  BY UpdateTypesSplit
<1> QED
  BY <1>1 DEF Writes, Says, Logs

\* One script makes a step: when it is alone, it is enough to look at it.
LEMMA UpdateSettles ==
  ASSUME UpdateInv, UpdateTypeOK', NEW u \in Updaters, updater[u].pc # "none",
         \A o \in Updaters : o # u => updater'[o] = updater[o],
         updater'[u].pc = "none" \/ updater'[u].own = updater[u].own,
         updater'[u].try < Pulls,
         lied' = lied, cut' = cut, upstream' # 0, checkout' # 0, binary'.bin # 0,
         seen'.behind => seen'.latest > release',
         ~lied /\ ~cut /\ Working(u) =>
           IF updater'[u].pc = "none" THEN Serving' ELSE Working(u)'
  PROVE  UpdateInv'
<1>1. u \in Alive
  BY DEF Alive
<1>2. ~lied => Alive = {u} /\ updater[u].own
  BY <1>1 DEF UpdateInv, OneUpdater
<1>3. ~lied => Alive' \subseteq {u}
  BY <1>2 DEF Alive
<1>4. u \in Alive' <=> updater'[u].pc # "none"
  BY DEF Alive
<1>5. OneUpdater'
  BY <1>2, <1>3, <1>4 DEF OneUpdater
<1>6. ~lied /\ ~cut => Working(u)
  BY <1>1 DEF UpdateInv
<1>7. TriesLeft'
  BY DEF UpdateInv, TriesLeft
<1> QED
  BY <1>3, <1>4, <1>5, <1>6, <1>7 DEF UpdateInv

\* No script makes a step, and what it relies on stays.
LEMMA UpdateRests ==
  ASSUME UpdateInv, UpdateTypeOK', UNCHANGED <<updater, binary, release, checkout, lied, cut>>,
         updLog'.says = updLog.says, upstream' # 0,
         seen'.behind => seen'.latest > release'
  PROVE  UpdateInv'
<1>1. Alive' = Alive
  BY DEF Alive
<1>2. OneUpdater'
  BY <1>1 DEF UpdateInv, OneUpdater
<1>3. \A u \in Alive : Working(u) => Working(u)'
  BY DEF Working, Serving
<1> QED
  BY <1>1, <1>2, <1>3 DEF UpdateInv, Serving, TriesLeft

LEMMA LooksKept ==
  ASSUME UpdateInv, NEW tag \in {0, upstream - 1, upstream}, NEW notes \in {0, upstream},
         HourlyCheck(tag, notes) \/ ManualCheck(tag, notes)
  PROVE  UpdateInv'
<1>0. UpdateTypeOK /\ upstream # 0
  BY DEF UpdateInv
<1>1. UNCHANGED <<upstream, checkout, binary, release, updLog, updater, admin, infra, lied, cut>>
  BY DEF HourlyCheck, ManualCheck
<1>2. tag \in Releases /\ notes \in Releases /\ release \in Releases /\ seen.notified \in Releases
  BY <1>0, UpdateTypesSplit, UpdateAssumption DEF Releases, Findings
<1>3. PICK l \in Releases : l = IF tag # 0 /\ (notes = 0 \/ notes < tag) THEN tag ELSE notes
  BY <1>2
<1>4. PICK b \in BOOLEAN : b <=> l > release
  OBVIOUS
<1>5. updateStatus(tag, notes) = [latest |-> l, behind |-> b, notified |-> seen.notified]
  <2>1. (l > release) = b
    BY <1>4
  <2> QED
    BY <1>3, <2>1 DEF updateStatus
<1>6. seen' \in Findings /\ seen'.latest = l /\ seen'.behind = b
  <2>1. PICK info \in Findings : info = [latest |-> l, behind |-> b, notified |-> seen.notified]
    BY <1>2 DEF Findings
  <2>2. info.latest = l /\ info.behind = b
    BY <2>1
  <2>3. seen' = info \/ seen' = [info EXCEPT !.notified = info.latest]
    BY <1>5, <2>1 DEF HourlyCheck, ManualCheck
  <2> QED
    BY <2>1, <2>2, <2>3 DEF Findings
<1>7. UpdateTypeOK'
  BY <1>0, <1>1, <1>6, UpdateTypesSplit DEF UpdateTypeOK, UpdaterRecs, Binaries, Logs,
     Findings, Infras
<1> QED
  BY <1>0, <1>1, <1>4, <1>6, <1>7, UpdateRests

LEMMA QuietKept ==
  ASSUME UpdateInv,
         \/ \E a \in Admins : AskUpdate(a) \/ (Launch(a) /\ updateInFlight)
         \/ ReconcileInfra \/ ReleaseMade \/ TenMinutesPass
  PROVE  UpdateInv'
<1>0. /\ UpdateTypeOK /\ upstream # 0 /\ upstream \in Releases /\ updLog \in Logs
      /\ infra \in Infras /\ release \in Releases /\ checkout \in Releases
      /\ admin \in [Admins -> BOOLEAN]
  BY UpdateTypesSplit DEF UpdateInv
<1>1. UNCHANGED <<checkout, binary, release, updater, seen, lied, cut>>
  BY DEF AskUpdate, Launch, ReconcileInfra, ReleaseMade, TenMinutesPass
<1>2. updLog' \in Logs /\ updLog'.says = updLog.says
  BY <1>0 DEF AskUpdate, Launch, ReconcileInfra, ReleaseMade, TenMinutesPass, Logs
<1>3. upstream' \in Releases /\ upstream' # 0
  <2>1. CASE ReleaseMade
    BY <1>0, <2>1, UpdateAssumption DEF ReleaseMade, Releases
  <2>2. CASE ~ReleaseMade
    BY <1>0, <2>2 DEF AskUpdate, Launch, ReconcileInfra, TenMinutesPass
  <2> QED
    BY <2>1, <2>2
<1>4. admin' \in [Admins -> BOOLEAN]
  BY <1>0 DEF AskUpdate, Launch, ReconcileInfra, ReleaseMade, TenMinutesPass
<1>5. infra' \in Infras
  <2>1. CASE ReconcileInfra
    <3>1. \/ infra' = [scripts |-> checkout, rev |-> release, done |-> TRUE]
          \/ infra' = [infra EXCEPT !.done = TRUE]
      BY <2>1 DEF ReconcileInfra
    <3>2. [scripts |-> checkout, rev |-> release, done |-> TRUE] \in Infras
      BY <1>0 DEF Infras
    <3>3. [infra EXCEPT !.done = TRUE] \in Infras
      BY <1>0 DEF Infras
    <3> QED
      BY <3>1, <3>2, <3>3
  <2>2. CASE ~ReconcileInfra
    BY <1>0, <2>2 DEF AskUpdate, Launch, ReleaseMade, TenMinutesPass
  <2> QED
    BY <2>1, <2>2
<1>7. UpdateTypeOK'
  BY <1>0, <1>1, <1>2, <1>3, <1>4, <1>5, UpdateTypesSplit DEF UpdateTypeOK, UpdaterRecs,
     Binaries, Logs, Findings, Infras
<1> QED
  BY <1>1, <1>2, <1>3, <1>7, UpdateRests DEF UpdateInv

\* A launch beside a live script is told by lied; otherwise the script is alone.
LEMMA LaunchKept ==
  ASSUME UpdateInv, NEW a \in Admins, LaunchUnchecked(a), ~updateInFlight
  PROVE  UpdateInv'
<1>0. UpdateTypeOK /\ updater \in [Updaters -> UpdaterRecs] /\ admin \in [Admins -> BOOLEAN]
      /\ lied \in BOOLEAN
  BY UpdateTypesSplit DEF UpdateInv
<1>1. /\ UNCHANGED <<upstream, checkout, binary, release, seen, infra, cut>>
      /\ updLog' = [says |-> {}, exists |-> TRUE, quiet |-> FALSE]
      /\ admin' = [admin EXCEPT ![a] = FALSE]
      /\ lied' = (lied \/ Alive # {})
  BY DEF LaunchUnchecked
<1>2. PICK u \in Updaters \ Alive :
        updater' = [updater EXCEPT ![u] = [pc |-> "begin", try |-> 0, ver |-> 0,
                                           own |-> \A o \in Alive : ~updater[o].own]]
  BY DEF LaunchUnchecked
<1>3. PICK b \in BOOLEAN : b = \A o \in Alive : ~updater[o].own
  OBVIOUS
<1>4. PICK r \in UpdaterRecs : r = [pc |-> "begin", try |-> 0, ver |-> 0, own |-> b]
  <2>1. "begin" \in Stages /\ 0 \in 0..Pulls /\ 0 \in Releases
    BY ReleasesAreNumbers, UpdateAssumption DEF Stages
  <2>2. [pc |-> "begin", try |-> 0, ver |-> 0, own |-> b] \in UpdaterRecs
    BY <2>1, <1>3 DEF UpdaterRecs
  <2> QED
    BY <2>2
<1>5. /\ updater' \in [Updaters -> UpdaterRecs] /\ updater'[u].pc = "begin"
      /\ updater'[u].own = b /\ updater'[u].try = 0
      /\ \A o \in Updaters : o # u => updater'[o] = updater[o]
  BY <1>0, <1>2, <1>3, <1>4
<1>6. UpdateTypeOK'
  BY <1>0, <1>1, <1>5, UpdateTypesSplit DEF UpdateTypeOK, UpdaterRecs, Binaries, Logs,
     Findings, Infras
<1>7. ~lied' => ~lied /\ Alive = {} /\ Alive' = {u} /\ b
  BY <1>0, <1>1, <1>3, <1>5 DEF Alive
<1>8. OneUpdater'
  BY <1>5, <1>7 DEF OneUpdater
<1>9. ~lied' /\ ~cut' => Working(u)'
  <2>1. ~lied' /\ ~cut' => Serving
    BY <1>1, <1>7 DEF UpdateInv
  <2> QED
    BY <2>1, <1>1, <1>5 DEF Working, Serving
<1>10. TriesLeft'
  BY <1>5, UpdateAssumption DEF TriesLeft, UpdateInv
<1> QED
  BY <1>1, <1>6, <1>7, <1>8, <1>9, <1>10 DEF UpdateInv

\* What every command of the script but its restarts leaves alone.
ScriptFrame == UNCHANGED <<upstream, release, admin, seen, lied, cut>>

\* A script that goes on with its next stage, or ends.
LEMMA ScriptGoesOn ==
  ASSUME UpdateInv, NEW u \in Updaters, updater[u].pc # "none", ScriptFrame,
         updater' \in [Updaters -> UpdaterRecs],
         \A o \in Updaters : o # u => updater'[o] = updater[o],
         updater'[u].pc = "none" \/ updater'[u].own = updater[u].own,
         updater'[u].try < Pulls,
         binary' \in Binaries, updLog' \in Logs, infra' \in Infras,
         checkout' \in Releases, checkout' # 0, binary'.bin # 0,
         ~lied /\ ~cut /\ Working(u) =>
           IF updater'[u].pc = "none" THEN Serving' ELSE Working(u)'
  PROVE  UpdateInv'
<1>1. UpdateTypeOK'
  BY UpdateTypesSplit DEF UpdateInv, UpdateTypeOK, ScriptFrame, UpdaterRecs, Binaries, Logs,
     Findings, Infras
<1> QED
  BY <1>1, UpdateSettles DEF ScriptFrame, UpdateInv

LEMMA UpdateParts ==
  ASSUME UpdateInv
  PROVE  /\ UpdateTypeOK /\ checkout # 0 /\ upstream # 0 /\ binary.bin # 0
         /\ \A u \in Updaters : updater[u].try \in 0..Pulls /\ updater[u].try < Pulls
         /\ \A u \in Updaters : updater[u].ver \in Releases
         /\ upstream \in Releases /\ checkout \in Releases /\ release \in Releases
         /\ binary \in Binaries /\ updLog \in Logs /\ infra \in Infras /\ seen \in Findings
         /\ updater \in [Updaters -> UpdaterRecs] /\ admin \in [Admins -> BOOLEAN]
         /\ lied \in BOOLEAN /\ cut \in BOOLEAN
         /\ binary.bin \in Releases /\ binary.prev \in Releases /\ binary.built \in Releases
BY UpdateTypesSplit DEF UpdateInv, Binaries, TriesLeft, UpdaterRecs

LEMMA StartScriptKept ==
  ASSUME UpdateInv, NEW u \in Updaters, StartScript(u)
  PROVE  UpdateInv'
<1>1. ScriptFrame /\ UNCHANGED <<checkout, binary, infra>>
  BY DEF StartScript, ScriptFrame
<1>2. updater[u].pc = "begin" /\ Step(u, "pull") /\ "pull" \in Stages /\ updLog' \in Logs
  BY DEF StartScript, At, Stages, Logs
<1>3. /\ updater' \in [Updaters -> UpdaterRecs] /\ updater'[u].pc = "pull"
      /\ updater'[u].own = updater[u].own /\ updater'[u].try < Pulls
      /\ \A o \in Updaters : o # u => updater'[o] = updater[o]
  BY <1>2, StepMoves, UpdateParts
<1>4. Working(u) => Working(u)'
  BY <1>1, <1>2, <1>3 DEF Working, Serving, ScriptFrame
<1> QED
  BY <1>1, <1>2, <1>3, <1>4, UpdateParts, ScriptGoesOn

LEMMA PullKept ==
  ASSUME UpdateInv, NEW u \in Updaters, Pull(u)
  PROVE  UpdateInv'
<1>1. ScriptFrame /\ UNCHANGED <<binary, infra>> /\ checkout' = upstream
  BY DEF Pull, ScriptFrame
<1>2. updater[u].pc = "pull" /\ Step(u, "build") /\ "build" \in Stages /\ Writes
  BY DEF Pull, At, Stages
<1>3. /\ updater' \in [Updaters -> UpdaterRecs] /\ updater'[u].pc = "build"
      /\ updater'[u].own = updater[u].own /\ updater'[u].try < Pulls
      /\ \A o \in Updaters : o # u => updater'[o] = updater[o]
  BY <1>2, StepMoves, UpdateParts
<1>4. updLog' \in Logs
  BY <1>2, LogMoves, UpdateParts
<1>5. Working(u) => Working(u)'
  BY <1>1, <1>2, <1>3 DEF Working, Serving, ScriptFrame
<1> QED
  BY <1>1, <1>2, <1>3, <1>4, <1>5, UpdateParts, ScriptGoesOn

LEMMA PullFailsKept ==
  ASSUME UpdateInv, NEW u \in Updaters, PullFails(u)
  PROVE  UpdateInv'
<1>0. /\ UpdateTypeOK /\ updater \in [Updaters -> UpdaterRecs]
      /\ updater[u].try \in 0..Pulls /\ updater[u].try < Pulls
  BY UpdateParts
<1>1. ScriptFrame /\ UNCHANGED <<checkout, binary, infra>>
  BY DEF PullFails, ScriptFrame
<1>2. updater[u].pc = "pull" /\ Says("failed") /\ updLog' \in Logs
  BY <1>0, LogMoves DEF PullFails, At
<1>3. /\ updater' \in [Updaters -> UpdaterRecs] /\ updater'[u].try < Pulls
      /\ \/ updater'[u].pc = "none"
         \/ updater'[u].pc = "pull" /\ updater'[u].own = updater[u].own
      /\ \A o \in Updaters : o # u => updater'[o] = updater[o]
  <2>1. CASE updater[u].try + 1 = Pulls
    BY <1>0, <2>1, ExitMoves DEF PullFails
  <2>2. CASE updater[u].try + 1 # Pulls
    <3>1. updater' = [updater EXCEPT ![u].try = @ + 1]
      BY <2>2 DEF PullFails
    <3>2. updater[u].try + 1 \in 0..Pulls /\ updater[u].try + 1 < Pulls
      BY <1>0, <2>2, UpdateAssumption
    <3>3. PICK r \in UpdaterRecs : r = [updater[u] EXCEPT !.try = @ + 1]
      BY <1>0, <3>2 DEF UpdaterRecs
    <3>4. r.pc = updater[u].pc /\ r.own = updater[u].own /\ r.try = updater[u].try + 1
      BY <1>0, <3>3 DEF UpdaterRecs
    <3> QED
      BY <1>0, <1>2, <3>1, <3>2, <3>3, <3>4
  <2> QED
    BY <2>1, <2>2
<1>4. Working(u) => Serving' /\ (updater'[u].pc = "pull" => Working(u)')
  BY <1>1, <1>2 DEF Working, Serving, ScriptFrame
<1> QED
  BY <1>1, <1>2, <1>3, <1>4, UpdateParts, ScriptGoesOn

LEMMA BuildKept ==
  ASSUME UpdateInv, NEW u \in Updaters, Build(u)
  PROVE  UpdateInv'
<1>0. /\ updater \in [Updaters -> UpdaterRecs] /\ updater[u].try < Pulls
      /\ binary \in Binaries /\ checkout \in Releases /\ checkout # 0 /\ binary.bin # 0
  BY UpdateParts
<1>1. ScriptFrame /\ UNCHANGED <<checkout, infra>>
  BY DEF Build, ScriptFrame
<1>2. /\ updater[u].pc = "build" /\ Writes
      /\ updater' = [updater EXCEPT ![u].pc = "keep", ![u].ver = checkout]
      /\ binary' = [binary EXCEPT !.built = checkout]
  BY DEF Build, At
<1>3. PICK r \in UpdaterRecs : r = [updater[u] EXCEPT !.pc = "keep", !.ver = checkout]
  BY <1>0 DEF UpdaterRecs, Stages
<1>4. /\ r.pc = "keep" /\ r.ver = checkout /\ r.own = updater[u].own
      /\ r.try = updater[u].try
  BY <1>0, <1>3 DEF UpdaterRecs
<1>5. /\ updater' \in [Updaters -> UpdaterRecs] /\ updater'[u] = r
      /\ \A o \in Updaters : o # u => updater'[o] = updater[o]
  BY <1>0, <1>2, <1>3
<1>6. /\ binary' \in Binaries /\ binary'.built = checkout /\ binary'.bin = binary.bin
      /\ binary'.prev = binary.prev
  BY <1>0, <1>2 DEF Binaries
<1>7. updLog' \in Logs
  BY <1>2, LogMoves, UpdateParts
<1>8. Working(u) => Working(u)'
  BY <1>0, <1>1, <1>2, <1>4, <1>5, <1>6 DEF Working, Serving, ScriptFrame
<1> QED
  BY <1>0, <1>1, <1>2, <1>4, <1>5, <1>6, <1>7, <1>8, UpdateParts, ScriptGoesOn

LEMMA BuildFailsKept ==
  ASSUME UpdateInv, NEW u \in Updaters, BuildFails(u)
  PROVE  UpdateInv'
<1>1. ScriptFrame /\ UNCHANGED <<checkout, binary, infra>>
  BY DEF BuildFails, ScriptFrame
<1>2. updater[u].pc = "build" /\ Exit(u) /\ updLog' \in Logs
  BY LogMoves, UpdateParts DEF BuildFails, At
<1>3. /\ updater' \in [Updaters -> UpdaterRecs] /\ updater'[u].pc = "none"
      /\ updater'[u].try < Pulls
      /\ \A o \in Updaters : o # u => updater'[o] = updater[o]
  BY <1>2, ExitMoves, UpdateParts
<1>4. Working(u) => Serving'
  BY <1>1, <1>2 DEF Working, Serving, ScriptFrame
<1> QED
  BY <1>1, <1>2, <1>3, <1>4, UpdateParts, ScriptGoesOn

LEMMA KeepPrevKept ==
  ASSUME UpdateInv, NEW u \in Updaters, KeepPrev(u)
  PROVE  UpdateInv'
<1>0. binary \in Binaries /\ binary.bin # 0
  BY UpdateParts
<1>1. ScriptFrame /\ UNCHANGED <<checkout, infra>>
  BY DEF KeepPrev, ScriptFrame
<1>2. /\ updater[u].pc = "keep" /\ Step(u, "swap") /\ "swap" \in Stages /\ Writes
      /\ binary' = [binary EXCEPT !.prev = binary.bin]
  BY DEF KeepPrev, At, Stages
<1>3. /\ updater' \in [Updaters -> UpdaterRecs] /\ updater'[u].pc = "swap"
      /\ updater'[u].own = updater[u].own /\ updater'[u].try < Pulls
      /\ updater'[u].ver = updater[u].ver
      /\ \A o \in Updaters : o # u => updater'[o] = updater[o]
  BY <1>2, StepMoves, UpdateParts
<1>4. updLog' \in Logs
  BY <1>2, LogMoves, UpdateParts
<1>5. /\ binary' \in Binaries /\ binary'.prev = binary.bin /\ binary'.bin = binary.bin
      /\ binary'.built = binary.built
  BY <1>0, <1>2 DEF Binaries
<1>6. Working(u) => Working(u)'
  BY <1>0, <1>1, <1>2, <1>3, <1>5 DEF Working, Serving, ScriptFrame
<1> QED
  BY <1>0, <1>1, <1>2, <1>3, <1>4, <1>5, <1>6, UpdateParts, ScriptGoesOn

LEMMA SwapKept ==
  ASSUME UpdateInv, NEW u \in Updaters, Swap(u)
  PROVE  UpdateInv'
<1>0. binary \in Binaries /\ binary.bin # 0
  BY UpdateParts
<1>1. ScriptFrame /\ UNCHANGED <<checkout, infra>>
  BY DEF Swap, ScriptFrame
<1>2. updater[u].pc = "swap" /\ Step(u, "restart") /\ "restart" \in Stages /\ Writes
  BY DEF Swap, At, Stages
<1>3. /\ updater' \in [Updaters -> UpdaterRecs] /\ updater'[u].pc = "restart"
      /\ updater'[u].own = updater[u].own /\ updater'[u].try < Pulls
      /\ updater'[u].ver = updater[u].ver
      /\ \A o \in Updaters : o # u => updater'[o] = updater[o]
  BY <1>2, StepMoves, UpdateParts
<1>4. updLog' \in Logs
  BY <1>2, LogMoves, UpdateParts
<1>5. PICK b \in Releases : b = IF binary.built = 0 THEN binary.bin ELSE binary.built
  BY UpdateParts
<1>6. binary' = [binary EXCEPT !.bin = b]
  BY <1>5 DEF Swap
<1>7. /\ binary' \in Binaries /\ binary'.prev = binary.prev /\ binary'.bin = b
      /\ binary'.built = binary.built
  BY <1>0, <1>6 DEF Binaries
<1>8. Working(u) => Working(u)'
  BY <1>0, <1>1, <1>2, <1>3, <1>5, <1>7 DEF Working, Serving, ScriptFrame
<1> QED
  BY <1>0, <1>1, <1>2, <1>3, <1>4, <1>5, <1>7, <1>8, UpdateParts, ScriptGoesOn

LEMMA HealthOkKept ==
  ASSUME UpdateInv, NEW u \in Updaters, HealthOk(u)
  PROVE  UpdateInv'
<1>1. ScriptFrame /\ UNCHANGED <<checkout, binary, infra>> /\ PanelAnswers
  BY DEF HealthOk, ScriptFrame
<1>2. updater[u].pc = "health" /\ Step(u, "infra") /\ "infra" \in Stages /\ Writes
  BY DEF HealthOk, At, Stages
<1>3. /\ updater' \in [Updaters -> UpdaterRecs] /\ updater'[u].pc = "infra"
      /\ updater'[u].own = updater[u].own /\ updater'[u].try < Pulls
      /\ updater'[u].ver = updater[u].ver
      /\ \A o \in Updaters : o # u => updater'[o] = updater[o]
  BY <1>2, StepMoves, UpdateParts
<1>4. updLog' \in Logs
  BY <1>2, LogMoves, UpdateParts
<1>5. Working(u) => Working(u)'
  BY <1>1, <1>2, <1>3 DEF Working, Serving, ScriptFrame, PanelAnswers
<1> QED
  BY <1>1, <1>2, <1>3, <1>4, <1>5, UpdateParts, ScriptGoesOn

LEMMA HealthFailsKept ==
  ASSUME UpdateInv, NEW u \in Updaters, HealthFails(u)
  PROVE  UpdateInv'
<1>1. ScriptFrame /\ UNCHANGED <<checkout, binary, infra>>
  BY DEF HealthFails, ScriptFrame
<1>2. updater[u].pc = "health" /\ Step(u, "restore") /\ "restore" \in Stages /\ Says("failed")
  BY DEF HealthFails, At, Stages
<1>3. /\ updater' \in [Updaters -> UpdaterRecs] /\ updater'[u].pc = "restore"
      /\ updater'[u].own = updater[u].own /\ updater'[u].try < Pulls
      /\ \A o \in Updaters : o # u => updater'[o] = updater[o]
  BY <1>2, StepMoves, UpdateParts
<1>4. updLog' \in Logs
  BY <1>2, LogMoves, UpdateParts
<1>5. Working(u) => Working(u)'
  BY <1>1, <1>2, <1>3 DEF Working, Serving, ScriptFrame
<1> QED
  BY <1>1, <1>2, <1>3, <1>4, <1>5, UpdateParts, ScriptGoesOn

\* The answering release is the one the script built: what its OK says.
LEMMA ApplyInfraKept ==
  ASSUME UpdateInv, NEW u \in Updaters, ApplyInfra(u)
  PROVE  UpdateInv'
<1>0. updLog \in Logs /\ infra \in Infras /\ checkout \in Releases /\ 0 \in Releases
  BY UpdateParts, ReleasesAreNumbers
<1>1. ScriptFrame /\ UNCHANGED <<checkout, binary>>
  BY DEF ApplyInfra, ScriptFrame
<1>2. updater[u].pc = "infra" /\ Step(u, "clean") /\ "clean" \in Stages
  BY DEF ApplyInfra, At, Stages
<1>3. /\ updater' \in [Updaters -> UpdaterRecs] /\ updater'[u].pc = "clean"
      /\ updater'[u].own = updater[u].own /\ updater'[u].try < Pulls
      /\ updater'[u].ver = updater[u].ver
      /\ \A o \in Updaters : o # u => updater'[o] = updater[o]
  BY <1>2, StepMoves, UpdateParts
<1>4. infra' \in Infras /\ updLog' \in Logs /\ "OK" \in updLog'.says
  <2>1. CASE infra' = [infra EXCEPT !.scripts = checkout, !.rev = 0] /\ Says("OK")
    <3>1. infra' \in Infras
      BY <1>0, <2>1 DEF Infras
    <3> QED
      BY <2>1, <3>1, LogMoves, UpdateParts
  <2>2. CASE /\ UNCHANGED infra
             /\ updLog' = [updLog EXCEPT !.says = @ \cup {"failed", "OK"}, !.quiet = FALSE]
    BY <1>0, <2>2 DEF Logs
  <2> QED
    BY <2>1, <2>2 DEF ApplyInfra
<1>5. Working(u) => Working(u)'
  BY <1>1, <1>2, <1>3, <1>4 DEF Working, Serving, ScriptFrame
<1> QED
  BY <1>1, <1>2, <1>3, <1>4, <1>5, UpdateParts, ScriptGoesOn

LEMMA RestorePrevKept ==
  ASSUME UpdateInv, NEW u \in Updaters, RestorePrev(u)
  PROVE  UpdateInv'
<1>0. binary \in Binaries /\ binary.bin # 0
  BY UpdateParts
<1>1. ScriptFrame /\ UNCHANGED <<checkout, infra>>
  BY DEF RestorePrev, ScriptFrame
<1>2. updater[u].pc = "restore" /\ Step(u, "again") /\ "again" \in Stages /\ Writes
  BY DEF RestorePrev, At, Stages
<1>3. /\ updater' \in [Updaters -> UpdaterRecs] /\ updater'[u].pc = "again"
      /\ updater'[u].own = updater[u].own /\ updater'[u].try < Pulls
      /\ \A o \in Updaters : o # u => updater'[o] = updater[o]
  BY <1>2, StepMoves, UpdateParts
<1>4. updLog' \in Logs
  BY <1>2, LogMoves, UpdateParts
<1>5. PICK b \in Releases : b = IF binary.prev = 0 THEN binary.bin ELSE binary.prev
  BY UpdateParts
<1>6. binary' = [binary EXCEPT !.bin = b]
  BY <1>5 DEF RestorePrev
<1>7. /\ binary' \in Binaries /\ binary'.prev = binary.prev /\ binary'.bin = b
      /\ binary'.built = binary.built
  BY <1>0, <1>6 DEF Binaries
<1>8. Working(u) => Working(u)'
  BY <1>0, <1>1, <1>2, <1>3, <1>5, <1>7 DEF Working, Serving, ScriptFrame
<1> QED
  BY <1>0, <1>1, <1>2, <1>3, <1>4, <1>5, <1>7, <1>8, UpdateParts, ScriptGoesOn

LEMMA CleanKept ==
  ASSUME UpdateInv, NEW u \in Updaters, Clean(u)
  PROVE  UpdateInv'
<1>0. binary \in Binaries /\ binary.bin # 0 /\ 0 \in Releases
  BY UpdateParts, ReleasesAreNumbers
<1>1. ScriptFrame /\ UNCHANGED <<checkout, infra>>
  BY DEF Clean, ScriptFrame
<1>2. /\ updater[u].pc = "clean" /\ Exit(u) /\ Writes
      /\ binary' = [binary EXCEPT !.built = 0]
  BY DEF Clean, At
<1>3. /\ updater' \in [Updaters -> UpdaterRecs] /\ updater'[u].pc = "none"
      /\ updater'[u].try < Pulls
      /\ \A o \in Updaters : o # u => updater'[o] = updater[o]
  BY <1>2, ExitMoves, UpdateParts
<1>4. updLog' \in Logs
  BY <1>2, LogMoves, UpdateParts
<1>5. binary' \in Binaries /\ binary'.bin = binary.bin
  BY <1>0, <1>2 DEF Binaries
<1>6. Working(u) => Serving'
  BY <1>1, <1>2, <1>5 DEF Working, Serving, ScriptFrame
<1> QED
  BY <1>0, <1>1, <1>2, <1>3, <1>4, <1>5, <1>6, UpdateParts, ScriptGoesOn

\* The panel's own children die with it; a script in its unit goes on.
LEMMA RestartKept ==
  ASSUME UpdateInv, NEW u \in Updaters, NEW pc \in Stages \ {"none"}, updater[u].pc # "none",
         updater' = [o \in Updaters |->
           IF ~updater[o].own THEN Gone
           ELSE IF o = u THEN [updater[o] EXCEPT !.pc = pc] ELSE updater[o]],
         release' = binary.bin, seen' = Unknown, admin' = [a \in Admins |-> FALSE],
         infra' = [infra EXCEPT !.done = FALSE], updLog' \in Logs,
         UNCHANGED <<upstream, checkout, binary, lied, cut>>,
         (~lied /\ ~cut /\ Working(u) /\ updater'[u].pc = pc /\ updater'[u].ver = updater[u].ver)
           => Working(u)'
  PROVE  UpdateInv'
<1>0. /\ updater \in [Updaters -> UpdaterRecs] /\ updater[u].try < Pulls
      /\ infra \in Infras /\ binary.bin \in Releases
      /\ \A o \in Updaters : updater[o].try < Pulls
      /\ Gone \in UpdaterRecs /\ Gone.pc = "none" /\ Gone.try < Pulls
  BY UpdateParts, GoneIsNobody
<1>1. PICK r \in UpdaterRecs : r = [updater[u] EXCEPT !.pc = pc]
  BY <1>0 DEF UpdaterRecs
<1>2. /\ r.pc = pc /\ r.ver = updater[u].ver /\ r.own = updater[u].own
      /\ r.try = updater[u].try
  BY <1>0, <1>1 DEF UpdaterRecs
<1>3. \A o \in Updaters :
        updater'[o] = IF ~updater[o].own THEN Gone ELSE IF o = u THEN r ELSE updater[o]
  BY <1>1
<1>4. \A o \in Updaters : updater'[o] \in UpdaterRecs /\ updater'[o].try < Pulls
  BY <1>0, <1>2, <1>3
<1>5. updater' \in [Updaters -> UpdaterRecs]
  BY <1>4
<1>6. /\ infra' \in Infras /\ seen' \in Findings /\ seen'.behind = FALSE
      /\ release' \in Releases /\ admin' \in [Admins -> BOOLEAN]
  BY <1>0, UnknownIsNothing DEF Infras
<1>7. UpdateTypeOK'
  BY <1>5, <1>6, UpdateTypesSplit DEF UpdateInv, UpdateTypeOK, UpdaterRecs, Binaries, Logs,
     Findings, Infras
<1>8. ~lied => Alive = {u} /\ updater[u].own
  BY DEF UpdateInv, OneUpdater, Alive
<1>9. ~lied => updater'[u] = r /\ Alive' = {u}
  <2>1. \A o \in Updaters : o # u /\ ~lied => updater[o].pc = "none"
    BY <1>8 DEF Alive
  <2>2. \A o \in Updaters : o # u /\ ~lied => updater'[o].pc = "none"
    BY <1>0, <1>3, <2>1
  <2>3. ~lied => updater'[u] = r
    BY <1>3, <1>8
  <2> QED
    BY <1>2, <2>2, <2>3 DEF Alive
<1>10. OneUpdater'
  BY <1>2, <1>8, <1>9 DEF OneUpdater
<1>11. TriesLeft'
  BY <1>4 DEF TriesLeft
<1>12. ~lied /\ ~cut => Working(u)'
  <2>1. ~lied /\ ~cut => Working(u)
    BY <1>8 DEF UpdateInv
  <2> QED
    BY <1>2, <1>9, <2>1
<1> QED
  BY <1>6, <1>7, <1>9, <1>10, <1>11, <1>12 DEF UpdateInv

LEMMA RestartNewKept ==
  ASSUME UpdateInv, NEW u \in Updaters, RestartNew(u)
  PROVE  UpdateInv'
<1>1. /\ updater[u].pc = "restart" /\ Restarts(u, "health")
      /\ UNCHANGED <<upstream, checkout, binary, lied, cut>>
  BY DEF RestartNew, At
<1>2. updLog' \in Logs
  BY <1>1, LogMoves, UpdateParts DEF Restarts
<1>3. "health" \in Stages \ {"none"}
  BY DEF Stages
<1>4. (Working(u) /\ updater'[u].pc = "health" /\ updater'[u].ver = updater[u].ver)
        => Working(u)'
  BY <1>1 DEF Working, Serving, Restarts
<1> QED
  BY <1>1, <1>2, <1>3, <1>4, RestartKept DEF Restarts

LEMMA RestartOldKept ==
  ASSUME UpdateInv, NEW u \in Updaters, RestartOld(u)
  PROVE  UpdateInv'
<1>1. /\ updater[u].pc = "again" /\ Says("rolled back") /\ release' = binary.bin
      /\ UNCHANGED <<upstream, checkout, binary, lied, cut>>
  BY DEF RestartOld, At
<1>2. updLog' \in Logs /\ "rolled back" \in updLog'.says
  BY <1>1, LogMoves, UpdateParts
<1>3. "clean" \in Stages \ {"none"}
  BY DEF Stages
<1>4. (Working(u) /\ updater'[u].pc = "clean" /\ updater'[u].ver = updater[u].ver)
        => Working(u)'
  BY <1>1, <1>2 DEF Working, Serving
<1> QED
  BY <1>1, <1>2, <1>3, <1>4, RestartKept DEF RestartOld

LEMMA RebootKept ==
  ASSUME UpdateInv, HostReboots
  PROVE  UpdateInv'
<1>0. /\ updater \in [Updaters -> UpdaterRecs] /\ infra \in Infras /\ binary \in Binaries
      /\ binary.bin \in Releases /\ cut \in BOOLEAN /\ 0 \in Releases
      /\ Gone \in UpdaterRecs /\ Gone.pc = "none" /\ Gone.try < Pulls
  BY UpdateParts, GoneIsNobody, ReleasesAreNumbers
<1>1. /\ updater' = [o \in Updaters |-> Gone] /\ release' = binary.bin /\ seen' = Unknown
      /\ admin' = [a \in Admins |-> FALSE] /\ infra' = [infra EXCEPT !.done = FALSE]
      /\ binary' = [binary EXCEPT !.built = 0] /\ cut' = (cut \/ Alive # {})
      /\ UNCHANGED <<upstream, checkout, updLog, lied>>
  BY DEF HostReboots
<1>2. \A o \in Updaters : updater'[o] = Gone
  BY <1>1
<1>3. Alive' = {}
  BY <1>0, <1>2 DEF Alive
<1>4. binary' \in Binaries /\ binary'.bin = binary.bin
  BY <1>0, <1>1 DEF Binaries
<1>5. /\ infra' \in Infras /\ seen' \in Findings /\ seen'.behind = FALSE
      /\ release' \in Releases /\ admin' \in [Admins -> BOOLEAN]
      /\ updater' \in [Updaters -> UpdaterRecs] /\ cut' \in BOOLEAN
  BY <1>0, <1>1, UnknownIsNothing DEF Infras
<1>6. UpdateTypeOK'
  BY <1>1, <1>4, <1>5, UpdateTypesSplit DEF UpdateInv, UpdateTypeOK, UpdaterRecs, Binaries,
     Logs, Findings, Infras
<1>7. OneUpdater' /\ TriesLeft'
  BY <1>0, <1>2, <1>3 DEF OneUpdater, TriesLeft
<1>8. ~lied /\ ~cut' => Serving'
  BY <1>1, <1>4 DEF UpdateInv, Serving
<1> QED
  BY <1>1, <1>3, <1>4, <1>5, <1>6, <1>7, <1>8 DEF UpdateInv

LEMMA UpdateStarts == UpdateInit => UpdateInv
<1> SUFFICES ASSUME UpdateInit
             PROVE  UpdateInv
  OBVIOUS
<1>1. /\ Gone \in UpdaterRecs /\ Gone.pc = "none" /\ Gone.try < Pulls
      /\ 0 \in Releases /\ 1 \in Releases /\ 0 # 1 /\ 1 \notin Broken
  BY GoneIsNobody, ReleasesAreNumbers
<1>2. updater \in [Updaters -> UpdaterRecs] /\ \A u \in Updaters : updater[u] = Gone
  BY <1>1 DEF UpdateInit
<1>3. seen \in Findings /\ seen.behind = FALSE
  BY UnknownIsNothing DEF UpdateInit
<1>4. /\ upstream = 1 /\ checkout = 1 /\ release = 1 /\ binary \in Binaries /\ binary.bin = 1
      /\ updLog \in Logs /\ admin \in [Admins -> BOOLEAN] /\ infra \in Infras
      /\ lied = FALSE /\ cut = FALSE
  BY <1>1 DEF UpdateInit, Binaries, Logs, Infras
<1>5. UpdateTypeOK
  BY <1>1, <1>2, <1>3, <1>4, UpdateTypesSplit
<1>6. Alive = {}
  BY <1>1, <1>2 DEF Alive
<1> QED
  BY <1>1, <1>2, <1>3, <1>4, <1>5, <1>6 DEF UpdateInv, OneUpdater, TriesLeft, Serving

LEMMA UpdateStep == UpdateInv /\ [UpdateNext]_updateVars => UpdateInv'
<1> SUFFICES ASSUME UpdateInv, [UpdateNext]_updateVars
             PROVE  UpdateInv'
  OBVIOUS
<1>1. CASE UNCHANGED updateVars
  <2>1. UpdateTypeOK'
    BY <1>1 DEF UpdateInv, UpdateTypeOK, updateVars
  <2> QED
    BY <1>1, <2>1, UpdateRests DEF updateVars, UpdateInv
<1>2. ASSUME NEW tag \in {0, upstream - 1, upstream}, NEW notes \in {0, upstream},
             HourlyCheck(tag, notes) \/ ManualCheck(tag, notes)
      PROVE  UpdateInv'
  BY <1>2, LooksKept
<1>3. ASSUME NEW a \in Admins, AskUpdate(a) \/ Launch(a)
      PROVE  UpdateInv'
  <2>1. CASE AskUpdate(a)
    BY <2>1, QuietKept
  <2>2. CASE Launch(a) /\ updateInFlight
    BY <2>2, QuietKept
  <2>3. CASE Launch(a) /\ ~updateInFlight
    BY <2>3, LaunchKept DEF Launch
  <2> QED
    BY <1>3, <2>1, <2>2, <2>3
<1>4. ASSUME NEW u \in Updaters,
             \/ StartScript(u) \/ Pull(u) \/ PullFails(u) \/ Build(u) \/ BuildFails(u)
             \/ KeepPrev(u) \/ Swap(u)
      PROVE  UpdateInv'
  BY <1>4, StartScriptKept, PullKept, PullFailsKept, BuildKept, BuildFailsKept, KeepPrevKept,
     SwapKept
<1>5. ASSUME NEW u \in Updaters,
             \/ RestartNew(u) \/ HealthOk(u) \/ HealthFails(u) \/ ApplyInfra(u)
             \/ RestorePrev(u) \/ RestartOld(u) \/ Clean(u)
      PROVE  UpdateInv'
  BY <1>5, RestartNewKept, HealthOkKept, HealthFailsKept, ApplyInfraKept, RestorePrevKept,
     RestartOldKept, CleanKept
<1>6. CASE ReconcileInfra \/ ReleaseMade \/ TenMinutesPass
  BY <1>6, QuietKept
<1>7. CASE HostReboots
  BY <1>7, RebootKept
<1> QED
  BY <1>1, <1>2, <1>3, <1>4, <1>5, <1>6, <1>7 DEF UpdateNext

LEMMA UpdateInvSuffices == UpdateInv => UpdateEndsWell
<1> SUFFICES ASSUME UpdateInv
             PROVE  UpdateEndsWell
  OBVIOUS
<1>1. Cardinality(Alive) > 1 => lied
  <2>1. CASE lied
    BY <2>1
  <2>2. CASE ~lied /\ Alive = {}
    BY <2>2, FS_EmptySet
  <2>3. CASE ~lied /\ Alive # {}
    <3>1. PICK u \in Alive : TRUE
      BY <2>3
    <3>2. Alive = {u}
      BY <2>3, <3>1 DEF UpdateInv, OneUpdater
    <3>3. Cardinality(Alive) = 1
      BY <3>2, FS_Singleton
    <3> QED
      BY <3>3
  <2> QED
    BY <2>1, <2>2, <2>3
<1>2. ~lied /\ ~cut =>
        /\ Alive = {} => Serving
        /\ \A u \in Alive : Working(u)
  BY DEF UpdateInv
<1> QED
  BY <1>1, <1>2 DEF UpdateInv, UpdateEndsWell, Working, Serving, At

\* Whatever the releases, the clicks, the failures and the pauses: a second
\* script runs only beside a log that told a live one was over, and while it
\* has not and the host stays up the box is never left with a release that does
\* not answer, a script can always go back, and an OK is about the release that
\* serves (update.go: launchUpdate and its script).
THEOREM UpdatesEndWell == UpdateSpec => []UpdateEndsWell
<1>1. UpdateSpec => []UpdateInv
  BY UpdateStarts, UpdateStep, PTL DEF UpdateSpec
<1> QED
  BY <1>1, UpdateInvSuffices, PTL

-----------------------------------------------------------------------------
(* The coming and going of projects.                                       *)

Makers == {"create", "at-time", "branch"}
ListSteps == {"list", "write"}
UndoSteps == {"undo-base", "undo-role"}
BoxSteps == {"box-record", "undo-box"}

\* Where a handler of each kind can be, and what it has.
StepsOf(op) ==
    CASE op = "create"  -> {"role", "base", "record", "box"} \cup BoxSteps \cup UndoSteps
                             \cup ListSteps
      [] op = "at-time" -> {"role", "base", "record", "adopt"} \cup UndoSteps \cup ListSteps
      [] op = "branch"  -> {"close", "branch-role", "copy", "record", "reopen", "snapshot"}
                             \cup BoxSteps \cup UndoSteps \cup ListSteps
      [] op = "delete"  -> {"drop", "forget"} \cup ListSteps
      [] op = "none"    -> {"idle"}

ProvSteps == UNION {StepsOf(op) : op \in Makers \cup {"delete", "none"}}

Proper(h) ==
    /\ h.pc \in StepsOf(h.op)
    /\ h.op = "none" => h = AtRest
    /\ h.op # "none" => h.s \in Slugs
    /\ h.op \in Makers => h.pw # 0 /\ h.left = {} /\ h.from # h.s
    /\ h.op = "create" => h.from = NoSlug
    /\ h.op \in {"at-time", "branch"} => h.from \in Slugs
    /\ h.op = "delete" =>
         /\ h.s \notin h.left
         /\ h.pc = "forget" => h.from \in NextToDrop(h)
         /\ h.pc # "forget" => h.from = NoSlug
         /\ h.pc \in ListSteps => h.left = {}

\* Two requests that met, one that makes what the other touches or removes what
\* the other copies, have marred all they touch.
Crosses(g, h) ==
    \/ Makes(g) \cap Touches(h) # {}
    \/ g.op \in {"at-time", "branch"} /\ g.from \in Removes(h)

ProvApart ==
    \A c, d \in Provisioners : c # d /\ Crosses(provs[c], provs[d]) =>
        Touches(provs[c]) \cup Touches(provs[d]) \subseteq marred

\* Somebody will open s again.
Closing(s) ==
    \E c \in Provisioners :
        /\ provs[c].op = "branch" /\ provs[c].from = s
        /\ provs[c].pc \notin BoxSteps \cup {"snapshot"}

Emptied(s) == roles[s] = 0 /\ databases[s] = "none" /\ boxes[s] = 0

\* Whole, but for a database that is closed while it is copied.
Near(s) ==
    IF ~Exists(s) THEN Emptied(s)
    ELSE IF rows[s].mode = "shared"
    THEN /\ roles[s] = rows[s].pw /\ boxes[s] = 0 /\ databases[s] # "none"
         /\ databases[s] = "closed" => Closing(s)
    ELSE boxes[s] = rows[s].pw /\ roles[s] = 0 /\ databases[s] = "none"

Forgetting(s) ==
    \E c \in Provisioners : provs[c].op = "delete" /\ ProvAt(c, "forget") /\ provs[c].from = s

\* What the one handler that makes h.s has made of it so far.
MadeSoFar(h) ==
    /\ h.pc \in {"role", "close", "branch-role", "box", "snapshot"} =>
         ~Exists(h.s) /\ Emptied(h.s)
    /\ h.pc \in {"base", "copy", "record"} \cup UndoSteps =>
         /\ ~Exists(h.s) /\ roles[h.s] = h.pw /\ boxes[h.s] = 0
         /\ databases[h.s] = IF h.pc = "record" THEN "open" ELSE "none"
    /\ h.pc \in BoxSteps =>
         /\ ~Exists(h.s) /\ roles[h.s] = 0 /\ databases[h.s] = "none"
         /\ h.pc = "box-record" => boxes[h.s] = h.pw
    /\ h.pc \in ListSteps \cup {"adopt", "reopen"} => Whole(h.s)

SlugKept(s) ==
    /\ (\A c \in Provisioners : s \notin Makes(provs[c])) =>
         IF Forgetting(s) THEN Emptied(s) ELSE Near(s)
    /\ \A c \in Provisioners : s \in Makes(provs[c]) => MadeSoFar(provs[c])

\* Branches and their parents.  A deletion knows every branch there is.
Deleted(p) == \E c \in Provisioners : provs[c].op = "delete" /\ provs[c].s = p
BranchKept(b, p) ==
    /\ Exists(b) /\ p # b
    /\ p \in marred \/ Deleted(p) \/ (Exists(p) /\ rows[p].parent = NoSlug)
    /\ \A c \in Provisioners :
         /\ provs[c].op = "delete" /\ provs[c].s = p => b \in provs[c].left
         /\ p \in marred \/ p \notin Makes(provs[c])

SourceKnown(h) ==
    h.op \in {"at-time", "branch"} /\ h.from \notin marred =>
      Exists(h.from) /\ rows[h.from].parent = NoSlug

LeftKnown(h) ==
    h.op = "delete" => \A p \in h.left \ marred : Exists(p) => rows[p].parent = h.s

FamilyKept ==
    /\ \A b \in Slugs \ marred, p \in Slugs : rows[b].parent = p => BranchKept(b, p)
    /\ \A c \in Provisioners : SourceKnown(provs[c]) /\ LeftKnown(provs[c])

\* Somebody has yet to read the rows for the pooler's list.
Owes(h) == h.pc = "list" \/ (h.op = "delete" /\ h.pc # "write")
OwesList == \E c \in Provisioners : Owes(provs[c])

ListKept ==
    ~torn =>
      /\ \A c, d \in Provisioners : ProvAt(c, "write") /\ ProvAt(d, "write") => c = d
      /\ \A c \in Provisioners : ProvAt(c, "write") => OwesList \/ provs[c].seen = Listable
      /\ OwesList \/ routed = Listable \/ \E c \in Provisioners : ProvAt(c, "write")

HandlerRecs == [pc : ProvSteps, op : Makers \cup {"delete", "none"},
                s : Slugs \cup {NoSlug}, from : Slugs \cup {NoSlug}, pw : 0..MaxBirths,
                left : SUBSET Slugs, seen : [Slugs -> 0..MaxBirths]]
ProjectRows == [pw : 0..MaxBirths, parent : Slugs \cup {NoSlug},
                mode : {"shared", "instance"}]

ProvTyped ==
    /\ roles \in [Slugs -> 0..MaxBirths] /\ boxes \in [Slugs -> 0..MaxBirths]
    /\ databases \in [Slugs -> {"none", "open", "closed"}]
    /\ rows \in [Slugs -> ProjectRows]
    /\ routed \in [Slugs -> 0..MaxBirths]
    /\ provs \in [Provisioners -> HandlerRecs]
    /\ births \in 0..MaxBirths /\ marred \subseteq Slugs /\ torn \in BOOLEAN

ProvFormed == /\ ProvTyped /\ ProvApart
              /\ \A c \in Provisioners : Proper(provs[c])
              /\ \A s \in Slugs : rows[s].parent # s
ThingsKept == \A s \in Slugs \ marred : SlugKept(s)

ProvInv == ProvFormed /\ ThingsKept /\ FamilyKept /\ ListKept

LEMMA ProvTypesSplit ==
  ASSUME ProvTyped
  PROVE  /\ \A s \in Slugs : /\ roles[s] \in 0..MaxBirths /\ boxes[s] \in 0..MaxBirths
                             /\ databases[s] \in {"none", "open", "closed"}
                             /\ rows[s] \in ProjectRows
         /\ \A c \in Provisioners : provs[c] \in HandlerRecs
         /\ Listable \in [Slugs -> 0..MaxBirths]
<1>1. \A s \in Slugs : rows[s].pw \in 0..MaxBirths
  BY DEF ProvTyped, ProjectRows
<1>2. 0 \in 0..MaxBirths
  BY ProvAssumption
<1> QED
  BY <1>1, <1>2 DEF ProvTyped, Listable

LEMMA RestIsNothing ==
  /\ AtRest \in HandlerRecs /\ AtRest.pc = "idle" /\ AtRest.op = "none" /\ AtRest.s = NoSlug
  /\ AtRest.from = NoSlug /\ AtRest.left = {} /\ AtRest.pw = 0
  /\ Makes(AtRest) = {} /\ Removes(AtRest) = {} /\ Touches(AtRest) = {}
  /\ Proper(AtRest) /\ ~Owes(AtRest)
<1>1. 0 \in 0..MaxBirths
  BY ProvAssumption
<1>2. [s \in Slugs |-> 0] \in [Slugs -> 0..MaxBirths]
  BY <1>1
<1>3. "idle" \in ProvSteps
  BY DEF ProvSteps, StepsOf
<1>4. PICK z \in [Slugs -> 0..MaxBirths] : z = [s \in Slugs |-> 0]
  BY <1>2
<1>5. AtRest = [pc |-> "idle", op |-> "none", s |-> NoSlug, from |-> NoSlug,
                pw |-> 0, left |-> {}, seen |-> z]
  BY <1>4 DEF AtRest
<1>6. /\ AtRest \in HandlerRecs /\ AtRest.pc = "idle" /\ AtRest.op = "none"
      /\ AtRest.s = NoSlug /\ AtRest.from = NoSlug /\ AtRest.left = {} /\ AtRest.pw = 0
  BY <1>1, <1>3, <1>5 DEF HandlerRecs
<1>7. Makes(AtRest) = {} /\ Removes(AtRest) = {} /\ Touches(AtRest) = {}
  BY <1>6 DEF Makes, Removes, Touches
<1>8. Proper(AtRest) /\ ~Owes(AtRest)
  BY <1>6 DEF Proper, StepsOf, Makers, Owes
<1> QED
  BY <1>6, <1>7, <1>8

\* Who moves, moves alone.
Alone1(c) == \A d \in Provisioners : d # c => provs'[d] = provs[d]

LEMMA ProvToMoves ==
  ASSUME ProvTyped, NEW c \in Provisioners, NEW pc \in ProvSteps, ProvTo(c, pc)
  PROVE  /\ provs' \in [Provisioners -> HandlerRecs] /\ Alone1(c)
         /\ provs'[c].pc = pc /\ provs'[c].op = provs[c].op /\ provs'[c].s = provs[c].s
         /\ provs'[c].from = provs[c].from /\ provs'[c].pw = provs[c].pw
         /\ provs'[c].left = provs[c].left /\ provs'[c].seen = provs[c].seen
<1>1. provs \in [Provisioners -> HandlerRecs]
  BY DEF ProvTyped
<1>2. PICK k \in HandlerRecs : k = [provs[c] EXCEPT !.pc = pc]
  BY <1>1 DEF HandlerRecs
<1>3. /\ k.pc = pc /\ k.op = provs[c].op /\ k.s = provs[c].s
      /\ k.from = provs[c].from /\ k.pw = provs[c].pw
      /\ k.left = provs[c].left /\ k.seen = provs[c].seen
  BY <1>1, <1>2 DEF HandlerRecs
<1> QED
  BY <1>1, <1>2, <1>3 DEF ProvTo, Alone1

LEMMA ProvEndsMoves ==
  ASSUME ProvTyped, NEW c \in Provisioners, ProvEnds(c)
  PROVE  provs' \in [Provisioners -> HandlerRecs] /\ Alone1(c) /\ provs'[c] = AtRest
BY RestIsNothing DEF ProvTyped, ProvEnds, Alone1

\* A step of a handler that claims nothing new.
Narrowed(h, k) ==
    \/ k = AtRest
    \/ /\ k.op = h.op /\ k.s = h.s /\ k.left \subseteq h.left
       /\ k.from = h.from \/ (h.op = "delete" /\ k.from \in Removes(h) \cup {NoSlug})

LEMMA NarrowedTouches ==
  ASSUME NEW h, NEW k, Narrowed(h, k)
  PROVE  /\ Makes(k) \subseteq Makes(h) /\ Removes(k) \subseteq Removes(h)
         /\ Touches(k) \subseteq Touches(h)
<1>1. CASE k = AtRest
  BY <1>1, RestIsNothing
<1>2. CASE /\ k.op = h.op /\ k.s = h.s /\ k.left \subseteq h.left
           /\ k.from = h.from \/ (h.op = "delete" /\ k.from \in Removes(h) \cup {NoSlug})
  BY <1>2 DEF Makes, Removes, Touches
<1> QED
  BY <1>1, <1>2 DEF Narrowed

LEMMA FormedStays ==
  ASSUME ProvFormed, ProvTyped', NEW c \in Provisioners, Alone1(c),
         Narrowed(provs[c], provs'[c]), Proper(provs'[c]), marred \subseteq marred',
         \A s \in Slugs : rows'[s].parent # s
  PROVE  ProvFormed'
<1>1. /\ Makes(provs'[c]) \subseteq Makes(provs[c])
      /\ Removes(provs'[c]) \subseteq Removes(provs[c])
      /\ Touches(provs'[c]) \subseteq Touches(provs[c])
  BY NarrowedTouches
<1>2. /\ provs'[c].op \in {"at-time", "branch"} =>
           provs[c].op = provs'[c].op /\ provs[c].from = provs'[c].from
  BY RestIsNothing DEF Narrowed
<1>3. ASSUME NEW d \in Provisioners, d # c
      PROVE  /\ Crosses(provs'[c], provs'[d]) => Crosses(provs[c], provs[d])
             /\ Crosses(provs'[d], provs'[c]) => Crosses(provs[d], provs[c])
  BY <1>1, <1>2, <1>3 DEF Crosses, Alone1
<1>4. ASSUME NEW d \in Provisioners, NEW e \in Provisioners, d # e,
             Crosses(provs'[d], provs'[e])
      PROVE  Touches(provs'[d]) \cup Touches(provs'[e]) \subseteq marred'
  <2>1. Crosses(provs[d], provs[e])
    BY <1>3, <1>4 DEF Alone1
  <2>2. Touches(provs[d]) \cup Touches(provs[e]) \subseteq marred
    BY <1>4, <2>1 DEF ProvFormed, ProvApart
  <2> QED
    BY <1>1, <2>2 DEF Alone1
<1>5. ProvApart'
  BY <1>4 DEF ProvApart
<1>6. \A d \in Provisioners : Proper(provs'[d])
  BY DEF ProvFormed, Alone1
<1> QED
  BY <1>5, <1>6 DEF ProvFormed, Proper, NextToDrop

\* Of a name that is not marred: its one maker is alone with it, and whoever
\* copies it meets no removal.
LEMMA MakerAlone ==
  ASSUME ProvFormed, NEW c \in Provisioners, NEW s \in Slugs \ marred
  PROVE  /\ s \in Makes(provs[c]) =>
              /\ s = provs[c].s /\ provs[c].op \in Makers
              /\ \A d \in Provisioners : d # c => s \notin Touches(provs[d])
         /\ provs[c].op \in {"at-time", "branch"} /\ provs[c].from = s =>
              \A d \in Provisioners : s \notin Makes(provs[d]) /\ s \notin Removes(provs[d])
<1>1. \A d \in Provisioners : d # c =>
        /\ Crosses(provs[c], provs[d]) => Touches(provs[c]) \subseteq marred
        /\ Crosses(provs[d], provs[c]) => Touches(provs[c]) \subseteq marred
  BY DEF ProvFormed, ProvApart
<1>2. s \in Makes(provs[c]) => s = provs[c].s /\ provs[c].op \in Makers /\ s \in Touches(provs[c])
  BY DEF Makes, Makers, Touches
<1>3. NoSlug \notin Slugs
  BY ProvAssumption
<1>4. provs[c].op \in {"at-time", "branch"} /\ provs[c].from = s =>
        /\ s \in Touches(provs[c]) /\ s \notin Makes(provs[c]) /\ s \notin Removes(provs[c])
  BY <1>3 DEF ProvFormed, Proper, Makes, Removes, Touches, Makers
<1> QED
  BY <1>1, <1>2, <1>4 DEF Crosses

SameAt(s) == /\ roles'[s] = roles[s] /\ databases'[s] = databases[s]
             /\ boxes'[s] = boxes[s] /\ rows'[s] = rows[s]

\* A name keeps what it has as long as its handlers go on.
LEMMA SlugStays ==
  ASSUME NEW s \in Slugs, SlugKept(s), SameAt(s), Closing(s) => Closing(s)',
         Forgetting(s) <=> Forgetting(s)',
         \A c \in Provisioners : s \in Makes(provs[c]) \/ s \in Makes(provs'[c]) =>
            provs'[c] = provs[c]
  PROVE  SlugKept(s)'
<1>1. /\ Exists(s)' <=> Exists(s)
      /\ Emptied(s)' <=> Emptied(s)
      /\ Whole(s)' <=> Whole(s)
  BY DEF SameAt, Exists, Emptied, Whole
<1>2. Near(s) => Near(s)'
  BY <1>1 DEF SameAt, Near
<1>3. (\A c \in Provisioners : s \notin Makes(provs'[c])) =>
        IF Forgetting(s)' THEN Emptied(s)' ELSE Near(s)'
  BY <1>1, <1>2 DEF SlugKept
<1>4. ASSUME NEW c \in Provisioners, s \in Makes(provs'[c])
      PROVE  MadeSoFar(provs[c])'
  <2>1. provs'[c] = provs[c] /\ s \in Makes(provs[c])
    BY <1>4
  <2>2. MadeSoFar(provs[c]) /\ s = provs[c].s
    BY <2>1 DEF SlugKept, Makes
  <2>3. PICK h : h = provs[c]
    OBVIOUS
  <2>4. MadeSoFar(h) /\ h.s = s
    BY <2>2, <2>3
  <2>5. MadeSoFar(h)'
    BY <1>1, <2>4 DEF MadeSoFar, SameAt
  <2> QED
    BY <2>1, <2>3, <2>5
<1> QED
  BY <1>3, <1>4 DEF SlugKept

LEMMA WholeIsNear ==
  ASSUME NEW s \in Slugs
  PROVE  Whole(s) => Near(s)
BY DEF Whole, Near, Emptied

LEMMA NearIsWhole ==
  ASSUME ProvTyped, NEW s \in Slugs, ~Closing(s), Near(s)
  PROVE  Whole(s)
<1>1. databases[s] \in {"none", "open", "closed"}
  BY ProvTypesSplit
<1> QED
  BY <1>1 DEF Whole, Near, Emptied

\* A name the moving handler has nothing to do with.
LEMMA OthersKept ==
  ASSUME ProvFormed, ThingsKept, NEW c \in Provisioners, Alone1(c),
         Narrowed(provs[c], provs'[c]), marred \subseteq marred',
         NEW s \in Slugs \ marred', s \notin Touches(provs[c]), SameAt(s)
  PROVE  SlugKept(s)'
<1>1. s \notin Makes(provs[c]) /\ s \notin Removes(provs[c]) /\ s # provs[c].from
  BY ProvAssumption DEF Touches
<1>2. s \notin Makes(provs'[c])
  BY <1>1, NarrowedTouches
<1>3. Closing(s) => Closing(s)'
  BY <1>1 DEF Closing, Alone1
<1>4. Forgetting(s) <=> Forgetting(s)'
  <2>1. ~(provs[c].op = "delete" /\ provs[c].from = s)
        /\ ~(provs'[c].op = "delete" /\ provs'[c].from = s)
    BY <1>1, RestIsNothing, ProvAssumption DEF Narrowed
  <2> QED
    BY <2>1 DEF Forgetting, Alone1, ProvAt
<1> QED
  BY <1>1, <1>2, <1>3, <1>4, SlugStays DEF ThingsKept, Alone1

\* The project a handler copies from is left alone but for being closed.
LEMMA SourceStands ==
  ASSUME ProvFormed, ThingsKept, NEW c \in Provisioners,
         provs[c].op \in {"at-time", "branch"}, provs[c].from \notin marred
  PROVE  /\ provs[c].from \in Slugs /\ provs[c].from # provs[c].s
         /\ Near(provs[c].from) /\ ~Forgetting(provs[c].from)
         /\ \A d \in Provisioners : provs[c].from \notin Makes(provs[d])
<1>1. provs[c].from \in Slugs /\ provs[c].from # provs[c].s
  BY DEF ProvFormed, Proper, Makers
<1>2. \A d \in Provisioners :
        provs[c].from \notin Makes(provs[d]) /\ provs[c].from \notin Removes(provs[d])
  BY <1>1, MakerAlone
<1>3. ~Forgetting(provs[c].from)
  BY <1>2 DEF Forgetting, ProvFormed, Proper, NextToDrop, Removes, ProvAt
<1>4. SlugKept(provs[c].from)
  BY <1>1 DEF ThingsKept
<1> QED
  BY <1>1, <1>2, <1>3, <1>4 DEF SlugKept

\* One that makes a project: all it changes is the project.
LEMMA MakerMoves ==
  ASSUME ProvFormed, ThingsKept, NEW c \in Provisioners, Alone1(c),
         provs[c].op \in Makers, marred \subseteq marred',
         \/ provs'[c] = AtRest
         \/ /\ provs'[c].op = provs[c].op /\ provs'[c].s = provs[c].s
            /\ provs'[c].from = provs[c].from /\ provs'[c].left = provs[c].left,
         \A s \in Slugs : s # provs[c].s => SameAt(s),
         (provs[c].op = "branch" /\ provs[c].pc \notin BoxSteps \cup {"snapshot"}) =>
           provs'[c].op = "branch" /\ provs'[c].pc \notin BoxSteps \cup {"snapshot"},
         \A s \in Slugs \ marred' : s = provs[c].s =>
           IF provs'[c] = AtRest THEN Whole(s)' ELSE MadeSoFar(provs[c])'
  PROVE  ThingsKept'
<1>0. Narrowed(provs[c], provs'[c])
  BY DEF Narrowed
<1>1. provs[c].s \in Slugs /\ Makes(provs[c]) = {provs[c].s} /\ Removes(provs[c]) = {}
  BY DEF ProvFormed, Proper, Makers, Makes, Removes
<1>2. ASSUME NEW s \in Slugs \ marred', s \notin Touches(provs[c])
      PROVE  SlugKept(s)'
  BY <1>0, <1>1, <1>2, OthersKept DEF Touches
<1>3. ASSUME NEW p \in Slugs \ marred', p = provs[c].from
      PROVE  SlugKept(p)'
  <2>1. provs[c].op \in {"at-time", "branch"}
    BY <1>3, ProvAssumption DEF ProvFormed, Proper, Makers
  <2>2. p \in Slugs /\ p # provs[c].s /\ Near(p) /\ ~Forgetting(p)
        /\ \A d \in Provisioners : p \notin Makes(provs[d])
    BY <1>3, <2>1, SourceStands
  <2>3. Closing(p) => Closing(p)'
    <3>1. ASSUME NEW d \in Provisioners, provs[d].op = "branch", provs[d].from = p,
                 provs[d].pc \notin BoxSteps \cup {"snapshot"}
          PROVE  Closing(p)'
      <4>1. CASE d = c
        <5>1. provs'[c].op = "branch" /\ provs'[c].pc \notin BoxSteps \cup {"snapshot"}
          BY <3>1, <4>1
        <5>2. provs'[c].from = p
          BY <3>1, <4>1, <5>1, RestIsNothing
        <5> QED
          BY <5>1, <5>2 DEF Closing
      <4>2. CASE d # c
        BY <3>1, <4>2 DEF Closing, Alone1
      <4> QED
        BY <4>1, <4>2
    <3> QED
      BY <3>1 DEF Closing
  <2>4. SameAt(p)
    BY <2>2
  <2>5. \A d \in Provisioners : p \notin Makes(provs'[d])
    BY <1>0, <2>2, NarrowedTouches DEF Alone1
  <2>6. SlugKept(p)
    BY <1>3 DEF ThingsKept
  <2>7. Forgetting(p) <=> Forgetting(p)'
    BY <1>0, <2>1, RestIsNothing DEF Forgetting, Alone1, ProvAt, Narrowed
  <2>8. SlugKept(p)'
    BY <2>2, <2>3, <2>4, <2>5, <2>6, <2>7, SlugStays
  <2> QED
    BY <2>8
<1>4. ASSUME NEW s \in Slugs \ marred', s = provs[c].s
      PROVE  SlugKept(s)'
  <2>1. \A d \in Provisioners : d # c => s \notin Makes(provs'[d])
    <3>1. \A d \in Provisioners : d # c => s \notin Touches(provs[d])
      BY <1>1, <1>4, MakerAlone
    <3> QED
      BY <3>1 DEF Touches, Alone1
  <2>2. CASE provs'[c] = AtRest
    <3>1. Whole(s)'
      BY <1>4, <2>2
    <3>2. Near(s)'
      BY <3>1 DEF Whole, Near, Emptied
    <3>3. ~Forgetting(s)'
      <4>1. \A d \in Provisioners : d # c => s \notin Touches(provs[d])
        BY <1>1, <1>4, MakerAlone
      <4>2. \A d \in Provisioners : d # c => provs'[d].from # s
        BY <1>4, <4>1, ProvAssumption DEF Touches, Alone1
      <4> QED
        BY <2>2, <4>2, RestIsNothing, ProvAssumption DEF Forgetting
    <3> QED
      BY <2>1, <2>2, <3>2, <3>3, RestIsNothing DEF SlugKept
  <2>3. CASE provs'[c] # AtRest
    <3>1. MadeSoFar(provs[c])' /\ s \in Makes(provs'[c])
      BY <1>1, <1>4, <2>3 DEF Makes
    <3> QED
      BY <2>1, <3>1 DEF SlugKept
  <2> QED
    BY <2>2, <2>3
<1> QED
  BY <1>1, <1>2, <1>3, <1>4 DEF ThingsKept, Touches

\* Nobody's row changes, and no deletion forgets a branch.
LEMMA FamilyRests ==
  ASSUME ProvFormed, FamilyKept, NEW c \in Provisioners, Alone1(c), UNCHANGED rows,
         marred \subseteq marred', Narrowed(provs[c], provs'[c]),
         provs[c].op = "delete" =>
           IF provs'[c] = AtRest THEN provs[c].left = {}
           ELSE provs[c].left \ provs'[c].left \subseteq marred'
  PROVE  FamilyKept'
<1>1. \A s \in Slugs : Exists(s)' <=> Exists(s)
  BY DEF Exists
<1>2. ASSUME NEW b \in Slugs \ marred', NEW p \in Slugs, rows'[b].parent = p
      PROVE  BranchKept(b, p)'
  <2>1. BranchKept(b, p)
    BY <1>2 DEF FamilyKept
  <2>2. \A d \in Provisioners : provs[d].op = "delete" /\ provs[d].s = p =>
          provs'[d].op = "delete" /\ provs'[d].s = p /\ b \in provs'[d].left
    BY <2>1, RestIsNothing DEF BranchKept, Alone1, Narrowed
  <2>3. Deleted(p) => Deleted(p)'
    BY <2>2 DEF Deleted
  <2>4. \A d \in Provisioners : provs'[d].op = "delete" /\ provs'[d].s = p =>
          provs[d].op = "delete" /\ provs[d].s = p
    BY RestIsNothing DEF Alone1, Narrowed
  <2>5. \A d \in Provisioners : p \notin Makes(provs[d]) => p \notin Makes(provs'[d])
    BY NarrowedTouches DEF Alone1
  <2> QED
    BY <1>1, <2>1, <2>2, <2>3, <2>4, <2>5 DEF BranchKept
<1>3. ASSUME NEW d \in Provisioners
      PROVE  SourceKnown(provs[d])' /\ LeftKnown(provs[d])'
  <2>1. SourceKnown(provs[d]) /\ LeftKnown(provs[d]) /\ Proper(provs[d])
    BY DEF FamilyKept, ProvFormed
  <2>2. SourceKnown(provs[d])'
    <3>1. provs'[d].op \in {"at-time", "branch"} =>
            provs[d].op = provs'[d].op /\ provs[d].from = provs'[d].from
      BY RestIsNothing DEF Alone1, Narrowed
    <3>2. provs[d].op \in {"at-time", "branch"} => provs[d].from \in Slugs
      BY <2>1 DEF Proper
    <3> QED
      BY <1>1, <2>1, <3>1, <3>2 DEF SourceKnown
  <2>3. LeftKnown(provs[d])'
    <3>1. provs'[d].op = "delete" =>
            /\ provs[d].op = "delete" /\ provs[d].s = provs'[d].s
            /\ provs'[d].left \subseteq provs[d].left
      BY RestIsNothing DEF Alone1, Narrowed
    <3> QED
      BY <2>1, <3>1 DEF LeftKnown, Exists
  <2> QED
    BY <2>2, <2>3
<1> QED
  BY <1>2, <1>3 DEF FamilyKept

\* A maker writes the row of what it makes.
RowMade(c) ==
    \E r \in ProjectRows : /\ rows' = [rows EXCEPT ![provs[c].s] = r]
                           /\ r.pw # 0 /\ r.parent \in {NoSlug, provs[c].from}

LEMMA FamilyGrows ==
  ASSUME ProvFormed, FamilyKept, NEW c \in Provisioners, Alone1(c), provs[c].op \in Makers,
         Narrowed(provs[c], provs'[c]), marred \subseteq marred', RowMade(c)
  PROVE  FamilyKept'
<1>0. PICK r \in ProjectRows : /\ rows' = [rows EXCEPT ![provs[c].s] = r]
                               /\ r.pw # 0 /\ r.parent \in {NoSlug, provs[c].from}
  BY DEF RowMade
<1>1. PICK s \in Slugs : s = provs[c].s
  BY DEF ProvFormed, Proper, Makers
<1>2. /\ rows'[s] = r /\ Exists(s)' /\ \A t \in Slugs : t # s => rows'[t] = rows[t]
      /\ \A t \in Slugs : t # s => (Exists(t)' <=> Exists(t))
  BY <1>0, <1>1 DEF ProvFormed, ProvTyped, Exists
<1>3. s \in Makes(provs[c]) /\ provs[c].from # s
      /\ (provs[c].op = "create" => provs[c].from = NoSlug) /\ NoSlug \notin Slugs
  BY <1>1, ProvAssumption DEF ProvFormed, Proper, Makers, Makes
<1>4. s \notin marred => \A d \in Provisioners : d # c => s \notin Touches(provs[d])
  BY <1>3, MakerAlone
<1>5. \A d \in Provisioners :
        /\ provs'[d].op = "delete" => provs'[d] = provs[d]
        /\ provs[d].op = "delete" => provs'[d] = provs[d]
        /\ provs'[d].op \in {"at-time", "branch"} =>
             provs[d].op = provs'[d].op /\ provs[d].from = provs'[d].from
        /\ Makes(provs'[d]) \subseteq Makes(provs[d])
  BY NarrowedTouches, RestIsNothing DEF Alone1, Narrowed, Makers
<1>6. ASSUME NEW b \in Slugs \ marred', NEW p \in Slugs, rows'[b].parent = p
      PROVE  BranchKept(b, p)'
  <2>0. \A d \in Provisioners : provs'[d].op = "delete" /\ provs'[d].s = p =>
          provs[d].op = "delete" /\ provs[d].s = p /\ provs'[d].left = provs[d].left
    BY <1>5
  <2>1. Deleted(p) => Deleted(p)'
    BY <1>5 DEF Deleted
  <2>2. CASE b # s
    <3>1. BranchKept(b, p)
      BY <1>2, <1>6, <2>2 DEF FamilyKept
    <3>2. p = s => p \in marred
      BY <1>3, <3>1 DEF BranchKept
    <3> QED
      BY <1>2, <1>5, <2>0, <2>1, <2>2, <3>1, <3>2 DEF BranchKept
  <2>3. CASE b = s
    <3>1. p = provs[c].from /\ provs[c].op \in {"at-time", "branch"} /\ p # s
      BY <1>0, <1>2, <1>3, <1>6, <2>3 DEF Makers
    <3>2. SourceKnown(provs[c])
      BY DEF FamilyKept
    <3>3. p \in marred \/ (Exists(p) /\ rows[p].parent = NoSlug)
      BY <3>1, <3>2 DEF SourceKnown
    <3>4. s \in Touches(provs[c]) /\ p \in Touches(provs[c])
      BY <1>3, <3>1 DEF Touches
    <3>5. ASSUME NEW d \in Provisioners, d # c
          PROVE  ~Crosses(provs[c], provs[d]) /\ ~Crosses(provs[d], provs[c])
      BY <1>6, <2>3, <3>4, <3>5 DEF ProvFormed, ProvApart
    <3>6. \A d \in Provisioners : d # c => p \notin Removes(provs[d]) /\ p \notin Makes(provs[d])
      BY <3>1, <3>4, <3>5 DEF Crosses
    <3>7. p \notin Makes(provs[c])
      BY <1>1, <3>1 DEF Makes
    <3>8. \A d \in Provisioners : ~(provs[d].op = "delete" /\ provs[d].s = p)
      BY <3>1, <3>6 DEF Removes
    <3> QED
      BY <1>2, <1>5, <2>0, <2>3, <3>1, <3>3, <3>6, <3>7, <3>8 DEF BranchKept
  <2> QED
    BY <2>2, <2>3
<1>7. ASSUME NEW d \in Provisioners
      PROVE  SourceKnown(provs[d])' /\ LeftKnown(provs[d])'
  <2>1. SourceKnown(provs[d]) /\ LeftKnown(provs[d]) /\ Proper(provs[d])
    BY DEF FamilyKept, ProvFormed
  <2>2. SourceKnown(provs[d])'
    <3>1. provs[d].op \in {"at-time", "branch"} => provs[d].from \in Slugs
      BY <2>1 DEF Proper
    <3>2. provs[d].op \in {"at-time", "branch"} /\ provs[d].from \notin marred =>
            provs[d].from # s
      BY <1>3, <1>4, <3>1 DEF Touches
    <3> QED
      BY <1>2, <1>5, <2>1, <3>1, <3>2 DEF SourceKnown
  <2>3. LeftKnown(provs[d])'
    <3>1. CASE provs[d].op = "delete"
      <4>1. provs'[d] = provs[d] /\ d # c
        BY <1>5, <3>1 DEF Makers
      <4>2. \A p \in provs[d].left \ marred : p # s
        BY <1>4, <3>1, <4>1 DEF Touches, Removes
      <4>3. provs[d].left \subseteq Slugs
        BY DEF ProvFormed, ProvTyped, HandlerRecs
      <4> QED
        BY <1>2, <2>1, <4>1, <4>2, <4>3 DEF LeftKnown
    <3>2. CASE provs[d].op # "delete"
      BY <1>5, <3>2 DEF LeftKnown
    <3> QED
      BY <3>1, <3>2
  <2> QED
    BY <2>2, <2>3
<1> QED
  BY <1>6, <1>7 DEF FamilyKept

\* The file does not change, and whoever changes the rows reads them after.
LEMMA ListRests ==
  ASSUME ListKept, NEW c \in Provisioners, Alone1(c), UNCHANGED routed, torn => torn',
         provs[c].pc # "write", provs'[c].pc # "write",
         ~torn' /\ Owes(provs[c]) => Owes(provs'[c]),
         Listable' = Listable \/ Owes(provs'[c])
  PROVE  ListKept'
<1> SUFFICES ASSUME ~torn'
             PROVE  /\ \A d, e \in Provisioners : ProvAt(d, "write")' /\ ProvAt(e, "write")' => d = e
                    /\ \A d \in Provisioners : ProvAt(d, "write")' =>
                         OwesList' \/ provs'[d].seen = Listable'
                    /\ OwesList' \/ routed' = Listable'
                         \/ \E d \in Provisioners : ProvAt(d, "write")'
  BY DEF ListKept
<1>1. \A d \in Provisioners : ProvAt(d, "write")' <=> ProvAt(d, "write")
  BY DEF ProvAt, Alone1
<1>2. \A d \in Provisioners : ProvAt(d, "write") => provs'[d] = provs[d]
  BY DEF ProvAt, Alone1
<1>3. OwesList => OwesList'
  BY DEF OwesList, Alone1
<1>4. OwesList' \/ Listable' = Listable
  BY DEF OwesList
<1> QED
  BY <1>1, <1>2, <1>3, <1>4 DEF ListKept

Proceeds(c) ==
    /\ provs'[c].op = provs[c].op /\ provs'[c].s = provs[c].s
    /\ provs'[c].from = provs[c].from /\ provs'[c].left = provs[c].left
    /\ provs'[c].pw = provs[c].pw /\ provs'[c].pc \in StepsOf(provs[c].op)

LEMMA MakerProper ==
  ASSUME ProvFormed, ProvTyped', NEW c \in Provisioners, Alone1(c), provs[c].op \in Makers,
         provs'[c] = AtRest \/ Proceeds(c), marred \subseteq marred',
         rows' = rows \/ RowMade(c)
  PROVE  Narrowed(provs[c], provs'[c]) /\ ProvFormed'
<1>1. Proper(provs[c]) /\ provs[c].s \in Slugs
  BY DEF ProvFormed, Proper, Makers
<1>2. Narrowed(provs[c], provs'[c])
  BY DEF Narrowed, Proceeds
<1>3. Proper(provs'[c])
  <2>1. CASE provs'[c] = AtRest
    BY <2>1, RestIsNothing
  <2>2. CASE Proceeds(c)
    BY <1>1, <2>2 DEF Proceeds, Proper, Makers
  <2> QED
    BY <2>1, <2>2
<1>4. \A s \in Slugs : rows'[s].parent # s
  <2>1. CASE rows' = rows
    BY <2>1 DEF ProvFormed
  <2>2. CASE RowMade(c)
    <3>1. PICK r \in ProjectRows : /\ rows' = [rows EXCEPT ![provs[c].s] = r]
                                   /\ r.parent \in {NoSlug, provs[c].from}
      BY <2>2 DEF RowMade
    <3>2. r.parent # provs[c].s
      BY <1>1, <3>1, ProvAssumption DEF Proper
    <3> QED
      BY <1>1, <3>1, <3>2 DEF ProvFormed, ProvTyped
  <2> QED
    BY <2>1, <2>2
<1> QED
  BY <1>2, <1>3, <1>4, FormedStays

\* A maker on its way, but for the list.
LEMMA MakerSteps ==
  ASSUME ProvInv, ProvTyped', NEW c \in Provisioners, Alone1(c), provs[c].op \in Makers,
         provs'[c] = AtRest \/ Proceeds(c), marred \subseteq marred',
         \A s \in Slugs : s # provs[c].s => SameAt(s),
         (provs[c].op = "branch" /\ provs[c].pc \notin BoxSteps \cup {"snapshot"}) =>
           provs'[c].op = "branch" /\ provs'[c].pc \notin BoxSteps \cup {"snapshot"},
         \A s \in Slugs \ marred' : s = provs[c].s =>
           IF provs'[c] = AtRest THEN Whole(s)' ELSE MadeSoFar(provs[c])',
         rows' = rows \/ RowMade(c), UNCHANGED <<routed, torn>>,
         provs[c].pc \notin ListSteps, provs'[c].pc # "write",
         rows' = rows \/ Listable' = Listable \/ provs'[c].pc = "list"
  PROVE  ProvInv'
<1>1. ProvFormed /\ ThingsKept /\ FamilyKept /\ ListKept
  BY DEF ProvInv
<1>2. Narrowed(provs[c], provs'[c]) /\ ProvFormed'
  BY <1>1, MakerProper
<1>3. ThingsKept'
  BY <1>1, MakerMoves DEF Proceeds
<1>4. FamilyKept'
  <2>1. CASE rows' = rows
    BY <1>1, <1>2, <2>1, FamilyRests DEF Makers
  <2>2. CASE RowMade(c)
    BY <1>1, <1>2, <2>2, FamilyGrows
  <2> QED
    BY <2>1, <2>2
<1>5. ~Owes(provs[c]) /\ provs[c].pc # "write"
  BY DEF Owes, Makers, ListSteps
<1>6. Listable' = Listable \/ Owes(provs'[c])
  <2>1. rows' = rows => Listable' = Listable
    BY DEF Listable
  <2> QED
    BY <2>1 DEF Owes
<1>7. ListKept'
  BY <1>1, <1>5, <1>6, ListRests
<1> QED
  BY <1>2, <1>3, <1>4, <1>7 DEF ProvInv

\* What is known of a handler when it is asked for by its stage.
LEMMA WhoIsWhere ==
  ASSUME ProvInv, NEW c \in Provisioners, provs[c].op \in Makers
  PROVE  /\ provs[c].s \in Slugs /\ provs[c].pw # 0 /\ provs[c].pc \in StepsOf(provs[c].op)
         /\ provs[c].pw \in 0..MaxBirths /\ provs[c].from \in Slugs \cup {NoSlug}
         /\ provs[c].from # provs[c].s
         /\ provs[c].s \notin marred => MadeSoFar(provs[c])
<1>1. Proper(provs[c]) /\ provs[c] \in HandlerRecs
  BY DEF ProvInv, ProvFormed, ProvTyped
<1>2. provs[c].s \notin marred => MadeSoFar(provs[c])
  <2>1. provs[c].s \in Makes(provs[c]) /\ provs[c].s \in Slugs
    BY <1>1 DEF Makes, Makers, Proper
  <2> QED
    BY <2>1 DEF ProvInv, ThingsKept, SlugKept
<1> QED
  BY <1>1, <1>2 DEF Proper, Makers, HandlerRecs

LEMMA StageTellsKind ==
  ASSUME ProvFormed, NEW c \in Provisioners
  PROVE  /\ provs[c].pc \in {"role", "base"} => provs[c].op \in {"create", "at-time"}
         /\ provs[c].pc \in {"box"} => provs[c].op = "create"
         /\ provs[c].pc \in BoxSteps => provs[c].op \in {"create", "branch"}
         /\ provs[c].pc \in {"close", "branch-role", "copy", "reopen", "snapshot"} =>
              provs[c].op = "branch"
         /\ provs[c].pc = "adopt" => provs[c].op = "at-time"
         /\ provs[c].pc \in UndoSteps \cup {"record"} => provs[c].op \in Makers
         /\ provs[c].pc \in {"drop", "forget"} => provs[c].op = "delete"
         /\ provs[c].pc = "idle" => provs[c].op = "none"
<1>1. provs[c].pc \in StepsOf(provs[c].op) /\ provs[c].op \in Makers \cup {"delete", "none"}
  BY DEF ProvFormed, Proper, ProvTyped, HandlerRecs
<1> QED
  BY <1>1 DEF StepsOf, Makers, BoxSteps, UndoSteps, ListSteps

LEMMA StagesAreSteps ==
  /\ \A op \in Makers \cup {"delete", "none"} : StepsOf(op) \subseteq ProvSteps
  /\ {"base", "record"} \cup UndoSteps \cup ListSteps
       \subseteq StepsOf("create") \cap StepsOf("at-time")
  /\ {"copy", "record", "branch-role", "reopen"} \cup UndoSteps \cup BoxSteps \cup ListSteps
       \subseteq StepsOf("branch")
  /\ BoxSteps \subseteq StepsOf("create") /\ "adopt" \in StepsOf("at-time")
  /\ ListSteps \cup {"drop", "forget"} \subseteq StepsOf("delete")
BY DEF StepsOf, ProvSteps, Makers, BoxSteps, UndoSteps, ListSteps

LEMMA MakeRoleKept ==
  ASSUME ProvInv, NEW c \in Provisioners, MakeRole(c)
  PROVE  ProvInv'
<1>0. ProvTyped /\ ProvFormed /\ provs[c].pc = "role"
  BY DEF ProvInv, ProvFormed, MakeRole, ProvAt
<1>1. /\ provs[c].op \in {"create", "at-time"} /\ provs[c].op \in Makers
      /\ provs[c].s \in Slugs /\ provs[c].pw # 0 /\ provs[c].pw \in 0..MaxBirths
      /\ provs[c].s \notin marred => MadeSoFar(provs[c])
  BY <1>0, StageTellsKind, WhoIsWhere DEF Makers
<1>2. UNCHANGED <<databases, boxes, rows, routed, births, marred, torn>>
  BY DEF MakeRole, past
<1>3. \/ /\ roles[provs[c].s] = 0 /\ ProvTo(c, "base")
         /\ roles' = [roles EXCEPT ![provs[c].s] = provs[c].pw]
      \/ roles[provs[c].s] # 0 /\ ProvTo(c, "undo-base") /\ UNCHANGED roles
  BY DEF MakeRole
<1>4. {"base", "undo-base"} \subseteq ProvSteps \cap StepsOf(provs[c].op)
  BY <1>1, StagesAreSteps DEF UndoSteps, Makers
<1>5. /\ Alone1(c) /\ Proceeds(c) /\ provs' \in [Provisioners -> HandlerRecs]
      /\ provs'[c].pc \in {"base", "undo-base"}
      /\ provs'[c].pc = "base" <=> roles[provs[c].s] = 0
  BY <1>0, <1>3, <1>4, ProvToMoves DEF Proceeds
<1>6. /\ roles' \in [Slugs -> 0..MaxBirths]
      /\ \A s \in Slugs : s # provs[c].s => roles'[s] = roles[s]
      /\ roles[provs[c].s] = 0 => roles'[provs[c].s] = provs[c].pw
  BY <1>0, <1>1, <1>3 DEF ProvTyped
<1>7. ProvTyped'
  BY <1>0, <1>2, <1>5, <1>6 DEF ProvTyped
<1>8. provs[c].s \notin marred => MadeSoFar(provs[c])'
  BY <1>0, <1>1, <1>2, <1>5, <1>6 DEF MadeSoFar, Proceeds, Exists, Emptied, UndoSteps, BoxSteps,
     ListSteps
<1>9. provs'[c] # AtRest
  BY <1>5, RestIsNothing
<1> QED
  BY <1>0, <1>1, <1>2, <1>5, <1>6, <1>7, <1>8, <1>9, MakerSteps DEF SameAt, ListSteps

LEMMA MakeBaseKept ==
  ASSUME ProvInv, NEW c \in Provisioners, MakeBase(c)
  PROVE  ProvInv'
<1>0. ProvTyped /\ ProvFormed /\ provs[c].pc = "base"
  BY DEF ProvInv, ProvFormed, MakeBase, ProvAt
<1>1. /\ provs[c].op \in {"create", "at-time"} /\ provs[c].op \in Makers
      /\ provs[c].s \in Slugs
      /\ provs[c].s \notin marred => MadeSoFar(provs[c])
  BY <1>0, StageTellsKind, WhoIsWhere DEF Makers
<1>2. UNCHANGED <<roles, boxes, rows, routed, births, marred, torn>>
  BY DEF MakeBase, past
<1>3. \/ /\ databases' = [databases EXCEPT ![provs[c].s] = "open"] /\ ProvTo(c, "record")
      \/ ProvTo(c, "undo-base") /\ UNCHANGED databases
  BY DEF MakeBase
<1>4. {"record", "undo-base"} \subseteq ProvSteps \cap StepsOf(provs[c].op)
  BY <1>1, StagesAreSteps DEF UndoSteps, Makers
<1>5. /\ Alone1(c) /\ Proceeds(c) /\ provs' \in [Provisioners -> HandlerRecs]
      /\ provs'[c].pc \in {"record", "undo-base"}
  BY <1>0, <1>3, <1>4, ProvToMoves DEF Proceeds
<1>6. /\ databases' \in [Slugs -> {"none", "open", "closed"}]
      /\ \A s \in Slugs : s # provs[c].s => databases'[s] = databases[s]
      /\ provs'[c].pc = "record" => databases'[provs[c].s] = "open"
      /\ provs'[c].pc = "undo-base" => databases'[provs[c].s] = databases[provs[c].s]
  <2>1. CASE databases' = [databases EXCEPT ![provs[c].s] = "open"] /\ ProvTo(c, "record")
    <3>1. provs'[c].pc = "record"
      BY <1>0, <1>4, <2>1, ProvToMoves
    <3> QED
      BY <1>0, <1>1, <2>1, <3>1 DEF ProvTyped
  <2>2. CASE ProvTo(c, "undo-base") /\ UNCHANGED databases
    <3>1. provs'[c].pc = "undo-base"
      BY <1>0, <1>4, <2>2, ProvToMoves
    <3> QED
      BY <1>0, <2>2, <3>1 DEF ProvTyped
  <2> QED
    BY <1>3, <2>1, <2>2
<1>7. ProvTyped'
  BY <1>0, <1>2, <1>5, <1>6 DEF ProvTyped
<1>8. provs[c].s \notin marred => MadeSoFar(provs[c])'
  BY <1>0, <1>1, <1>2, <1>5, <1>6 DEF MadeSoFar, Proceeds, Exists, Emptied, UndoSteps, BoxSteps,
     ListSteps
<1>9. provs'[c] # AtRest
  BY <1>5, RestIsNothing
<1> QED
  BY <1>0, <1>1, <1>2, <1>5, <1>6, <1>7, <1>8, <1>9, MakerSteps DEF SameAt, ListSteps

LEMMA UndoBaseKept ==
  ASSUME ProvInv, NEW c \in Provisioners, UndoBase(c)
  PROVE  ProvInv'
<1>0. ProvTyped /\ ProvFormed /\ provs[c].pc = "undo-base"
  BY DEF ProvInv, ProvFormed, UndoBase, ProvAt
<1>1. /\ provs[c].op \in Makers /\ provs[c].s \in Slugs
      /\ provs[c].s \notin marred => MadeSoFar(provs[c])
  BY <1>0, StageTellsKind, WhoIsWhere DEF UndoSteps
<1>2. /\ UNCHANGED <<roles, boxes, rows, routed, births, marred, torn>>
      /\ databases' = [databases EXCEPT ![provs[c].s] = "none"] /\ ProvTo(c, "undo-role")
  BY DEF UndoBase, past
<1>3. "undo-role" \in ProvSteps \cap StepsOf(provs[c].op)
  BY <1>1, StagesAreSteps DEF UndoSteps, Makers
<1>4. /\ Alone1(c) /\ Proceeds(c) /\ provs' \in [Provisioners -> HandlerRecs]
      /\ provs'[c].pc = "undo-role"
  BY <1>0, <1>2, <1>3, ProvToMoves DEF Proceeds
<1>5. /\ databases' \in [Slugs -> {"none", "open", "closed"}]
      /\ \A s \in Slugs : s # provs[c].s => databases'[s] = databases[s]
      /\ databases'[provs[c].s] = "none"
  BY <1>0, <1>1, <1>2 DEF ProvTyped
<1>6. ProvTyped'
  BY <1>0, <1>2, <1>4, <1>5 DEF ProvTyped
<1>7. provs[c].s \notin marred => MadeSoFar(provs[c])'
  BY <1>0, <1>1, <1>2, <1>4, <1>5 DEF MadeSoFar, Proceeds, Exists, Emptied, UndoSteps, BoxSteps,
     ListSteps
<1>8. provs'[c] # AtRest
  BY <1>4, RestIsNothing
<1>9. provs'[c].pc \notin BoxSteps \cup {"snapshot"}
  BY <1>4 DEF BoxSteps
<1> QED
  BY <1>0, <1>1, <1>2, <1>4, <1>5, <1>6, <1>7, <1>8, <1>9, MakerSteps DEF SameAt, ListSteps, Proceeds

\* The role goes after its database, so it can.
LEMMA UndoRoleKept ==
  ASSUME ProvInv, NEW c \in Provisioners, UndoRole(c)
  PROVE  ProvInv'
<1>0. ProvTyped /\ ProvFormed /\ provs[c].pc = "undo-role"
  BY DEF ProvInv, ProvFormed, UndoRole, ProvAt
<1>1. /\ provs[c].op \in Makers /\ provs[c].s \in Slugs
      /\ provs[c].s \notin marred => MadeSoFar(provs[c])
  BY <1>0, StageTellsKind, WhoIsWhere DEF UndoSteps
<1>2. /\ UNCHANGED <<databases, boxes, rows, routed, births, marred, torn>>
      /\ roles' = IF databases[provs[c].s] = "none" THEN [roles EXCEPT ![provs[c].s] = 0]
                  ELSE roles
      /\ IF provs[c].op = "branch" THEN ProvTo(c, "reopen") ELSE ProvEnds(c)
  BY DEF UndoRole, past
<1>3. provs[c].op = "branch" => "reopen" \in ProvSteps \cap StepsOf(provs[c].op)
  <2>1. "reopen" \in StepsOf("branch") /\ StepsOf("branch") \subseteq ProvSteps
    BY StagesAreSteps DEF Makers
  <2> QED
    BY <2>1
<1>4. /\ Alone1(c) /\ provs' \in [Provisioners -> HandlerRecs]
      /\ IF provs[c].op = "branch" THEN Proceeds(c) /\ provs'[c].pc = "reopen"
         ELSE provs'[c] = AtRest
  BY <1>0, <1>2, <1>3, ProvToMoves, ProvEndsMoves DEF Proceeds
<1>5. /\ roles' \in [Slugs -> 0..MaxBirths]
      /\ \A s \in Slugs : s # provs[c].s => roles'[s] = roles[s]
      /\ databases[provs[c].s] = "none" => roles'[provs[c].s] = 0
  BY <1>0, <1>1, <1>2, ProvAssumption DEF ProvTyped
<1>6. ProvTyped'
  BY <1>0, <1>2, <1>4, <1>5 DEF ProvTyped
<1>7. \A s \in Slugs \ marred' : s = provs[c].s => Whole(s)'
  BY <1>0, <1>1, <1>2, <1>5 DEF MadeSoFar, Exists, Whole, UndoSteps
<1>8. \A s \in Slugs \ marred' : s = provs[c].s =>
        IF provs'[c] = AtRest THEN Whole(s)' ELSE MadeSoFar(provs[c])'
  BY <1>4, <1>7 DEF MadeSoFar, Proceeds, UndoSteps, BoxSteps, ListSteps
<1>9. provs[c].op = "branch" =>
        provs'[c].op = "branch" /\ provs'[c].pc \notin BoxSteps \cup {"snapshot"}
  BY <1>4 DEF BoxSteps, Proceeds
<1>10. provs'[c].pc # "write"
  BY <1>4, RestIsNothing
<1> QED
  BY <1>0, <1>1, <1>2, <1>4, <1>5, <1>6, <1>8, <1>9, <1>10, MakerSteps DEF SameAt, ListSteps

\* A row that could not be written marks what it leaves.
LEMMA RowRecordKept ==
  ASSUME ProvInv, NEW c \in Provisioners, Record1(c)
  PROVE  ProvInv'
<1>0. ProvTyped /\ ProvFormed /\ provs[c].pc = "record"
  <2>1. provs[c].pc = "record"
    BY DEF Record1, ProvAt
  <2> QED
    BY <2>1 DEF ProvInv, ProvFormed
<1>1. /\ provs[c].op \in Makers /\ provs[c].s \in Slugs /\ provs[c].pw # 0
      /\ provs[c].pw \in 0..MaxBirths /\ provs[c].from \in Slugs \cup {NoSlug}
      /\ provs[c].s \notin marred => MadeSoFar(provs[c])
  BY <1>0, StageTellsKind, WhoIsWhere
<1>2. UNCHANGED <<roles, databases, boxes, routed, births, torn>>
  BY DEF Record1, things
<1>3. "list" \in ProvSteps \cap StepsOf(provs[c].op)
  BY <1>1, StagesAreSteps DEF ListSteps, Makers
<1>4. /\ provs'[c].pc = "list" => provs'[c].pc \notin BoxSteps \cup {"snapshot"}
      /\ AtRest.pc # "write"
  BY RestIsNothing DEF BoxSteps
<1>5. CASE /\ ~Exists(provs[c].s) /\ rows' = [rows EXCEPT ![provs[c].s] = RowOf(provs[c], "shared")]
           /\ ProvTo(c, "list") /\ UNCHANGED marred
  <2>1. PICK r \in ProjectRows : r = RowOf(provs[c], "shared")
    <3>1. PICK p \in {NoSlug, provs[c].from} :
            p = IF provs[c].op = "branch" THEN provs[c].from ELSE NoSlug
      OBVIOUS
    <3>2. RowOf(provs[c], "shared") = [pw |-> provs[c].pw, mode |-> "shared", parent |-> p]
      BY <3>1 DEF RowOf
    <3> QED
      BY <1>1, <3>2 DEF ProjectRows
  <2>2. /\ r.pw = provs[c].pw /\ r.mode = "shared" /\ r.parent \in {NoSlug, provs[c].from}
    BY <2>1 DEF RowOf
  <2>3. /\ rows' \in [Slugs -> ProjectRows] /\ rows'[provs[c].s] = r /\ RowMade(c)
        /\ \A s \in Slugs : s # provs[c].s => rows'[s] = rows[s]
    BY <1>0, <1>1, <1>5, <2>1, <2>2 DEF ProvTyped, RowMade
  <2>4. /\ Alone1(c) /\ Proceeds(c) /\ provs' \in [Provisioners -> HandlerRecs]
        /\ provs'[c].pc = "list"
    BY <1>0, <1>3, <1>5, ProvToMoves DEF Proceeds
  <2>5. ProvTyped'
    BY <1>0, <1>2, <1>5, <2>3, <2>4 DEF ProvTyped
  <2>6. \A s \in Slugs \ marred' : s = provs[c].s => Whole(s)'
    BY <1>0, <1>1, <1>2, <1>5, <2>2, <2>3 DEF MadeSoFar, Exists, Whole
  <2>7. \A s \in Slugs \ marred' : s = provs[c].s => MadeSoFar(provs[c])'
    BY <2>4, <2>6 DEF MadeSoFar, Proceeds, BoxSteps, UndoSteps, ListSteps
  <2>8. provs'[c] # AtRest
    BY <2>4, RestIsNothing
  <2> QED
    BY <1>0, <1>1, <1>2, <1>4, <1>5, <2>3, <2>4, <2>5, <2>7, <2>8, MakerSteps
    DEF SameAt, ListSteps, Proceeds
<1>6. CASE /\ marred' = marred \cup {provs[c].s} /\ UNCHANGED rows
           /\ IF provs[c].op = "branch" THEN ProvTo(c, "list") ELSE ProvEnds(c)
  <2>1. /\ Alone1(c) /\ provs' \in [Provisioners -> HandlerRecs]
        /\ IF provs[c].op = "branch" THEN Proceeds(c) /\ provs'[c].pc = "list"
           ELSE provs'[c] = AtRest
    BY <1>0, <1>3, <1>6, ProvToMoves, ProvEndsMoves DEF Proceeds
  <2>2. ProvTyped'
    BY <1>0, <1>1, <1>2, <1>6, <2>1 DEF ProvTyped
  <2>3. \A s \in Slugs \ marred' : s # provs[c].s
    BY <1>6
  <2> QED
    BY <1>0, <1>1, <1>2, <1>4, <1>6, <2>1, <2>2, <2>3, MakerSteps
    DEF SameAt, ListSteps, Proceeds
<1> QED
  BY <1>5, <1>6 DEF Record1

LEMMA BranchRoleKept ==
  ASSUME ProvInv, NEW c \in Provisioners, BranchRole(c)
  PROVE  ProvInv'
<1>0. ProvTyped /\ ProvFormed /\ provs[c].pc = "branch-role"
  BY DEF ProvInv, ProvFormed, BranchRole, ProvAt
<1>1. /\ provs[c].op = "branch" /\ provs[c].op \in Makers
      /\ provs[c].s \in Slugs /\ provs[c].pw # 0 /\ provs[c].pw \in 0..MaxBirths
      /\ provs[c].s \notin marred => MadeSoFar(provs[c])
  BY <1>0, StageTellsKind, WhoIsWhere DEF Makers
<1>2. UNCHANGED <<databases, boxes, rows, routed, births, marred, torn>>
  BY DEF BranchRole, past
<1>3. \/ /\ roles[provs[c].s] = 0 /\ ProvTo(c, "copy")
         /\ roles' = [roles EXCEPT ![provs[c].s] = provs[c].pw]
      \/ roles[provs[c].s] # 0 /\ ProvTo(c, "reopen") /\ UNCHANGED roles
  BY DEF BranchRole
<1>4. {"copy", "reopen"} \subseteq ProvSteps \cap StepsOf(provs[c].op)
  BY <1>1, StagesAreSteps DEF Makers
<1>5. /\ Alone1(c) /\ Proceeds(c) /\ provs' \in [Provisioners -> HandlerRecs]
      /\ provs'[c].pc \in {"copy", "reopen"}
      /\ provs'[c].pc = "copy" <=> roles[provs[c].s] = 0
  BY <1>0, <1>3, <1>4, ProvToMoves DEF Proceeds
<1>6. /\ roles' \in [Slugs -> 0..MaxBirths]
      /\ \A s \in Slugs : s # provs[c].s => roles'[s] = roles[s]
      /\ roles[provs[c].s] = 0 => roles'[provs[c].s] = provs[c].pw
  BY <1>0, <1>1, <1>3 DEF ProvTyped
<1>7. ProvTyped'
  BY <1>0, <1>2, <1>5, <1>6 DEF ProvTyped
<1>8. provs[c].s \notin marred => MadeSoFar(provs[c])'
  BY <1>0, <1>1, <1>2, <1>5, <1>6 DEF MadeSoFar, Proceeds, Exists, Emptied, UndoSteps, BoxSteps,
     ListSteps
<1>9. provs'[c] # AtRest /\ provs'[c].pc \notin BoxSteps \cup {"snapshot"}
  BY <1>5, RestIsNothing DEF BoxSteps
<1> QED
  BY <1>0, <1>1, <1>2, <1>5, <1>6, <1>7, <1>8, <1>9, MakerSteps DEF SameAt, ListSteps, Proceeds

LEMMA CopyBaseKept ==
  ASSUME ProvInv, NEW c \in Provisioners, CopyBase(c)
  PROVE  ProvInv'
<1>0. ProvTyped /\ ProvFormed /\ provs[c].pc = "copy"
  BY DEF ProvInv, ProvFormed, CopyBase, ProvAt
<1>1. /\ provs[c].op = "branch" /\ provs[c].op \in Makers
      /\ provs[c].s \in Slugs
      /\ provs[c].s \notin marred => MadeSoFar(provs[c])
  BY <1>0, StageTellsKind, WhoIsWhere DEF Makers
<1>2. UNCHANGED <<roles, boxes, rows, routed, births, marred, torn>>
  BY DEF CopyBase, past
<1>3. \/ /\ databases' = [databases EXCEPT ![provs[c].s] = "open"] /\ ProvTo(c, "record")
      \/ ProvTo(c, "undo-base") /\ UNCHANGED databases
  BY DEF CopyBase
<1>4. {"record", "undo-base"} \subseteq ProvSteps \cap StepsOf(provs[c].op)
  BY <1>1, StagesAreSteps DEF UndoSteps, Makers
<1>5. /\ Alone1(c) /\ Proceeds(c) /\ provs' \in [Provisioners -> HandlerRecs]
      /\ provs'[c].pc \in {"record", "undo-base"}
  BY <1>0, <1>3, <1>4, ProvToMoves DEF Proceeds
<1>6. /\ databases' \in [Slugs -> {"none", "open", "closed"}]
      /\ \A s \in Slugs : s # provs[c].s => databases'[s] = databases[s]
      /\ provs'[c].pc = "record" => databases'[provs[c].s] = "open"
      /\ provs'[c].pc = "undo-base" => databases'[provs[c].s] = databases[provs[c].s]
  <2>1. CASE databases' = [databases EXCEPT ![provs[c].s] = "open"] /\ ProvTo(c, "record")
    <3>1. provs'[c].pc = "record"
      BY <1>0, <1>4, <2>1, ProvToMoves
    <3> QED
      BY <1>0, <1>1, <2>1, <3>1 DEF ProvTyped
  <2>2. CASE ProvTo(c, "undo-base") /\ UNCHANGED databases
    <3>1. provs'[c].pc = "undo-base"
      BY <1>0, <1>4, <2>2, ProvToMoves
    <3> QED
      BY <1>0, <2>2, <3>1 DEF ProvTyped
  <2> QED
    BY <1>3, <2>1, <2>2
<1>7. ProvTyped'
  BY <1>0, <1>2, <1>5, <1>6 DEF ProvTyped
<1>8. provs[c].s \notin marred => MadeSoFar(provs[c])'
  BY <1>0, <1>1, <1>2, <1>5, <1>6 DEF MadeSoFar, Proceeds, Exists, Emptied, UndoSteps, BoxSteps,
     ListSteps
<1>9. provs'[c] # AtRest /\ provs'[c].pc \notin BoxSteps \cup {"snapshot"}
  BY <1>5, RestIsNothing DEF BoxSteps
<1> QED
  BY <1>0, <1>1, <1>2, <1>5, <1>6, <1>7, <1>8, <1>9, MakerSteps DEF SameAt, ListSteps, Proceeds

LEMMA MakeBoxKept ==
  ASSUME ProvInv, NEW c \in Provisioners, MakeBox(c)
  PROVE  ProvInv'
<1>0. ProvTyped /\ ProvFormed /\ provs[c].pc = "box"
  BY DEF ProvInv, ProvFormed, MakeBox, ProvAt
<1>1. /\ provs[c].op = "create" /\ provs[c].op \in Makers
      /\ provs[c].s \in Slugs /\ provs[c].pw \in 0..MaxBirths
      /\ provs[c].s \notin marred => MadeSoFar(provs[c])
  BY <1>0, StageTellsKind, WhoIsWhere DEF Makers
<1>2. UNCHANGED <<roles, databases, rows, routed, births, marred, torn>>
  BY DEF MakeBox, past
<1>3. \/ /\ ProvTo(c, "box-record")
         /\ boxes' = [boxes EXCEPT ![provs[c].s] = provs[c].pw]
      \/ ProvTo(c, "undo-box") /\ UNCHANGED boxes
  BY DEF MakeBox
<1>4. {"box-record", "undo-box"} \subseteq ProvSteps \cap StepsOf(provs[c].op)
  BY <1>1, StagesAreSteps DEF BoxSteps, Makers
<1>5. /\ Alone1(c) /\ Proceeds(c) /\ provs' \in [Provisioners -> HandlerRecs]
      /\ provs'[c].pc \in {"box-record", "undo-box"}
      /\ provs'[c].pc = "box-record" => boxes' = [boxes EXCEPT ![provs[c].s] = provs[c].pw]
  BY <1>0, <1>3, <1>4, ProvToMoves DEF Proceeds
<1>6. /\ boxes' \in [Slugs -> 0..MaxBirths]
      /\ \A s \in Slugs : s # provs[c].s => boxes'[s] = boxes[s]
      /\ provs'[c].pc = "box-record" => boxes'[provs[c].s] = provs[c].pw
  BY <1>0, <1>1, <1>3, <1>5 DEF ProvTyped
<1>7. ProvTyped'
  BY <1>0, <1>2, <1>5, <1>6 DEF ProvTyped
<1>8. provs[c].s \notin marred => MadeSoFar(provs[c])'
  BY <1>0, <1>1, <1>2, <1>5, <1>6 DEF MadeSoFar, Proceeds, Exists, Emptied, UndoSteps, BoxSteps,
     ListSteps
<1>9. provs'[c] # AtRest
  BY <1>5, RestIsNothing
<1> QED
  BY <1>0, <1>1, <1>2, <1>5, <1>6, <1>7, <1>8, <1>9, MakerSteps DEF SameAt, ListSteps

\* A branching that fails after its snapshot marks it.
LEMMA SnapshotKept ==
  ASSUME ProvInv, NEW c \in Provisioners, Snapshot(c)
  PROVE  ProvInv'
<1>0. ProvTyped /\ ProvFormed /\ provs[c].pc = "snapshot"
  BY DEF ProvInv, ProvFormed, Snapshot, ProvAt
<1>1. /\ provs[c].op = "branch" /\ provs[c].op \in Makers
      /\ provs[c].s \in Slugs /\ provs[c].pw \in 0..MaxBirths
      /\ provs[c].s \notin marred => MadeSoFar(provs[c])
  BY <1>0, StageTellsKind, WhoIsWhere DEF Makers
<1>2. UNCHANGED <<roles, databases, rows, routed, births, torn>>
  BY DEF Snapshot
<1>3. \/ /\ boxes' = [boxes EXCEPT ![provs[c].s] = provs[c].pw]
         /\ ProvTo(c, "box-record") /\ UNCHANGED marred
      \/ /\ boxes' = [boxes EXCEPT ![provs[c].s] = provs[c].pw]
         /\ ProvEnds(c) /\ marred' = marred \cup {provs[c].s}
      \/ ProvEnds(c) /\ UNCHANGED <<boxes, marred>>
  BY DEF Snapshot
<1>4. "box-record" \in ProvSteps \cap StepsOf(provs[c].op)
  BY <1>1, StagesAreSteps DEF BoxSteps, Makers
<1>5. CASE /\ boxes' = [boxes EXCEPT ![provs[c].s] = provs[c].pw]
           /\ ProvTo(c, "box-record") /\ UNCHANGED marred
  <2>1. /\ Alone1(c) /\ Proceeds(c) /\ provs' \in [Provisioners -> HandlerRecs]
        /\ provs'[c].pc = "box-record"
    BY <1>0, <1>4, <1>5, ProvToMoves DEF Proceeds
  <2>2. /\ boxes' \in [Slugs -> 0..MaxBirths] /\ boxes'[provs[c].s] = provs[c].pw
        /\ \A s \in Slugs : s # provs[c].s => boxes'[s] = boxes[s]
    BY <1>0, <1>1, <1>5 DEF ProvTyped
  <2>3. ProvTyped'
    BY <1>0, <1>2, <1>5, <2>1, <2>2 DEF ProvTyped
  <2>4. provs[c].s \notin marred' => MadeSoFar(provs[c])'
    BY <1>0, <1>1, <1>2, <1>5, <2>1, <2>2 DEF MadeSoFar, Proceeds, Exists, Emptied, UndoSteps,
       BoxSteps, ListSteps
  <2>5. provs'[c] # AtRest
    BY <2>1, RestIsNothing
  <2> QED
    BY <1>0, <1>1, <1>2, <1>5, <2>1, <2>2, <2>3, <2>4, <2>5, MakerSteps DEF SameAt, ListSteps
<1>6. ASSUME ProvEnds(c),
             \/ /\ boxes' = [boxes EXCEPT ![provs[c].s] = provs[c].pw]
                /\ marred' = marred \cup {provs[c].s}
             \/ UNCHANGED <<boxes, marred>>
      PROVE  ProvInv'
  <2>1. /\ Alone1(c) /\ provs' \in [Provisioners -> HandlerRecs] /\ provs'[c] = AtRest
    BY <1>0, <1>6, ProvEndsMoves
  <2>2. /\ boxes' \in [Slugs -> 0..MaxBirths]
        /\ \A s \in Slugs : s # provs[c].s => boxes'[s] = boxes[s]
        /\ marred' \subseteq Slugs /\ marred \subseteq marred'
        /\ provs[c].s \notin marred' => UNCHANGED boxes
    BY <1>0, <1>1, <1>6 DEF ProvTyped
  <2>3. ProvTyped'
    BY <1>0, <1>2, <2>1, <2>2 DEF ProvTyped
  <2>4. \A s \in Slugs \ marred' : s = provs[c].s => Whole(s)'
    BY <1>0, <1>1, <1>2, <2>2 DEF MadeSoFar, Whole, Exists, Emptied
  <2> QED
    BY <1>0, <1>1, <1>2, <2>1, <2>2, <2>3, <2>4, MakerSteps, RestIsNothing
    DEF SameAt, ListSteps
<1> QED
  BY <1>3, <1>5, <1>6

\* The row of a dedicated project is none of the pooler's.
LEMMA RecordBoxKept ==
  ASSUME ProvInv, NEW c \in Provisioners, RecordBox(c)
  PROVE  ProvInv'
<1>0. ProvTyped /\ ProvFormed /\ provs[c].pc = "box-record"
  BY DEF ProvInv, ProvFormed, RecordBox, ProvAt
<1>1. /\ provs[c].op \in {"create", "branch"} /\ provs[c].op \in Makers
      /\ provs[c].s \in Slugs /\ provs[c].pw # 0 /\ provs[c].pw \in 0..MaxBirths
      /\ provs[c].from \in Slugs \cup {NoSlug}
      /\ provs[c].s \notin marred => MadeSoFar(provs[c])
  BY <1>0, StageTellsKind, WhoIsWhere DEF Makers, BoxSteps
<1>2. UNCHANGED <<roles, databases, boxes, routed, births, marred, torn>>
  BY DEF RecordBox, things, past
<1>3. "undo-box" \in ProvSteps \cap StepsOf(provs[c].op)
  BY <1>1, StagesAreSteps DEF BoxSteps, Makers
<1>4. CASE /\ ~Exists(provs[c].s)
           /\ rows' = [rows EXCEPT ![provs[c].s] = RowOf(provs[c], "instance")] /\ ProvEnds(c)
  <2>1. PICK r \in ProjectRows : r = RowOf(provs[c], "instance")
    <3>1. PICK p \in {NoSlug, provs[c].from} :
            p = IF provs[c].op = "branch" THEN provs[c].from ELSE NoSlug
      OBVIOUS
    <3>2. RowOf(provs[c], "instance") = [pw |-> provs[c].pw, mode |-> "instance", parent |-> p]
      BY <3>1 DEF RowOf
    <3> QED
      BY <1>1, <3>2 DEF ProjectRows
  <2>2. /\ r.pw = provs[c].pw /\ r.mode = "instance" /\ r.parent \in {NoSlug, provs[c].from}
    BY <2>1 DEF RowOf
  <2>3. /\ rows' \in [Slugs -> ProjectRows] /\ rows'[provs[c].s] = r /\ RowMade(c)
        /\ \A s \in Slugs : s # provs[c].s => rows'[s] = rows[s]
    BY <1>0, <1>1, <1>4, <2>1, <2>2 DEF ProvTyped, RowMade
  <2>4. /\ Alone1(c) /\ provs' \in [Provisioners -> HandlerRecs] /\ provs'[c] = AtRest
    BY <1>0, <1>4, ProvEndsMoves
  <2>5. ProvTyped'
    BY <1>0, <1>2, <2>3, <2>4 DEF ProvTyped
  <2>6. \A s \in Slugs \ marred' : s = provs[c].s => Whole(s)'
    BY <1>0, <1>1, <1>2, <2>2, <2>3 DEF MadeSoFar, Exists, Whole, BoxSteps
  <2>7. \A s \in Slugs : (IF rows'[s].mode = "shared" THEN rows'[s].pw ELSE 0)
                         = IF rows[s].mode = "shared" THEN rows[s].pw ELSE 0
    BY <1>1, <1>4, <2>2, <2>3 DEF Exists
  <2>8. Listable' = Listable
    BY <2>7 DEF Listable
  <2> QED
    BY <1>0, <1>1, <1>2, <2>3, <2>4, <2>5, <2>6, <2>8, MakerSteps, RestIsNothing
    DEF SameAt, ListSteps, BoxSteps
<1>5. CASE ProvTo(c, "undo-box") /\ UNCHANGED rows
  <2>1. /\ Alone1(c) /\ Proceeds(c) /\ provs' \in [Provisioners -> HandlerRecs]
        /\ provs'[c].pc = "undo-box"
    BY <1>0, <1>3, <1>5, ProvToMoves DEF Proceeds
  <2>2. ProvTyped'
    BY <1>0, <1>2, <1>5, <2>1 DEF ProvTyped
  <2>3. provs[c].s \notin marred => MadeSoFar(provs[c])'
    BY <1>0, <1>1, <1>2, <1>5, <2>1 DEF MadeSoFar, Proceeds, Exists, Emptied, UndoSteps,
       BoxSteps, ListSteps
  <2>4. provs'[c] # AtRest
    BY <2>1, RestIsNothing
  <2> QED
    BY <1>0, <1>1, <1>2, <1>5, <2>1, <2>2, <2>3, <2>4, MakerSteps
    DEF SameAt, ListSteps, BoxSteps
<1> QED
  BY <1>4, <1>5 DEF RecordBox

LEMMA UndoBoxKept ==
  ASSUME ProvInv, NEW c \in Provisioners, UndoBox(c)
  PROVE  ProvInv'
<1>0. ProvTyped /\ ProvFormed /\ provs[c].pc = "undo-box"
  BY DEF ProvInv, ProvFormed, UndoBox, ProvAt
<1>1. /\ provs[c].op \in Makers /\ provs[c].s \in Slugs
      /\ provs[c].s \notin marred => MadeSoFar(provs[c])
  BY <1>0, StageTellsKind, WhoIsWhere DEF Makers, BoxSteps
<1>2. /\ UNCHANGED <<roles, databases, rows, routed, births, marred, torn>>
      /\ boxes' = [boxes EXCEPT ![provs[c].s] = 0] /\ ProvEnds(c)
  BY DEF UndoBox, past
<1>3. /\ Alone1(c) /\ provs' \in [Provisioners -> HandlerRecs] /\ provs'[c] = AtRest
  BY <1>0, <1>2, ProvEndsMoves
<1>4. /\ boxes' \in [Slugs -> 0..MaxBirths] /\ boxes'[provs[c].s] = 0
      /\ \A s \in Slugs : s # provs[c].s => boxes'[s] = boxes[s]
  BY <1>0, <1>1, <1>2, ProvAssumption DEF ProvTyped
<1>5. ProvTyped'
  BY <1>0, <1>2, <1>3, <1>4 DEF ProvTyped
<1>6. \A s \in Slugs \ marred' : s = provs[c].s => Whole(s)'
  BY <1>0, <1>1, <1>2, <1>4 DEF MadeSoFar, Exists, Whole, BoxSteps
<1> QED
  BY <1>0, <1>1, <1>2, <1>3, <1>4, <1>5, <1>6, MakerSteps, RestIsNothing
  DEF SameAt, ListSteps, BoxSteps

LEMMA AdoptKept ==
  ASSUME ProvInv, NEW c \in Provisioners, Adopt(c)
  PROVE  ProvInv'
<1>0. ProvTyped /\ ProvFormed /\ provs[c].pc = "adopt"
  BY DEF ProvInv, ProvFormed, Adopt, ProvAt
<1>1. /\ provs[c].op = "at-time" /\ provs[c].op \in Makers /\ provs[c].s \in Slugs
      /\ provs[c].from \in Slugs \cup {NoSlug}
      /\ provs[c].s \notin marred => MadeSoFar(provs[c])
  BY <1>0, StageTellsKind, WhoIsWhere DEF Makers
<1>2. /\ UNCHANGED <<roles, databases, boxes, routed, births, marred, torn>> /\ ProvEnds(c)
      /\ rows' = IF Exists(provs[c].s) THEN [rows EXCEPT ![provs[c].s].parent = provs[c].from]
                 ELSE rows
  BY DEF Adopt, things, past
<1>3. PICK r \in ProjectRows : r = [rows[provs[c].s] EXCEPT !.parent = provs[c].from]
  BY <1>0, <1>1 DEF ProvTyped, ProjectRows
<1>4. /\ r.parent = provs[c].from /\ r.pw = rows[provs[c].s].pw
      /\ r.mode = rows[provs[c].s].mode
  BY <1>0, <1>1, <1>3 DEF ProvTyped, ProjectRows
<1>5. rows' = rows \/ (Exists(provs[c].s) /\ rows' = [rows EXCEPT ![provs[c].s] = r])
  BY <1>2, <1>3
<1>6. /\ rows' \in [Slugs -> ProjectRows] /\ (rows' = rows \/ RowMade(c))
      /\ \A s \in Slugs : s # provs[c].s => rows'[s] = rows[s]
      /\ \A s \in Slugs : rows'[s].pw = rows[s].pw /\ rows'[s].mode = rows[s].mode
  BY <1>0, <1>1, <1>4, <1>5 DEF ProvTyped, RowMade, Exists
<1>7. /\ Alone1(c) /\ provs' \in [Provisioners -> HandlerRecs] /\ provs'[c] = AtRest
  BY <1>0, <1>2, ProvEndsMoves
<1>8. ProvTyped'
  BY <1>0, <1>2, <1>6, <1>7 DEF ProvTyped
<1>9. \A s \in Slugs \ marred' : s = provs[c].s => Whole(s)'
  BY <1>0, <1>1, <1>2, <1>6 DEF MadeSoFar, Exists, Whole
<1>10. Listable' = Listable
  BY <1>6 DEF Listable
<1> QED
  BY <1>0, <1>1, <1>2, <1>6, <1>7, <1>8, <1>9, <1>10, MakerSteps, RestIsNothing
  DEF SameAt, ListSteps

\* Closing and opening what is copied.
LEMMA SourceMoves ==
  ASSUME ProvInv, ProvTyped', NEW c \in Provisioners, Alone1(c), provs[c].op = "branch",
         provs'[c] = AtRest \/ Proceeds(c), UNCHANGED <<roles, boxes, rows, routed, marred, torn>>,
         \A s \in Slugs : s # provs[c].from => databases'[s] = databases[s],
         \A p \in Slugs \ marred : p = provs[c].from => Near(p)',
         \A s \in Slugs \ marred : s = provs[c].s =>
           IF provs'[c] = AtRest THEN Whole(s)' ELSE MadeSoFar(provs[c])',
         provs[c].pc \notin ListSteps, provs'[c].pc \notin ListSteps
  PROVE  ProvInv'
<1>1. ProvFormed /\ ThingsKept /\ FamilyKept /\ ListKept /\ provs[c].op \in Makers
  BY DEF ProvInv, Makers
<1>2. Narrowed(provs[c], provs'[c]) /\ ProvFormed'
  BY <1>1, MakerProper
<1>3. /\ provs[c].s \in Slugs /\ Makes(provs[c]) = {provs[c].s} /\ Removes(provs[c]) = {}
      /\ provs[c].from \in Slugs /\ provs[c].from # provs[c].s
  BY <1>1 DEF ProvFormed, Proper, Makers, Makes, Removes
<1>4. ASSUME NEW s \in Slugs \ marred, s \notin Touches(provs[c])
      PROVE  SlugKept(s)'
  <2>1. SameAt(s)
    BY <1>3, <1>4, ProvAssumption DEF Touches, SameAt
  <2> QED
    BY <1>1, <1>2, <1>4, <2>1, OthersKept
<1>5. ASSUME NEW p \in Slugs \ marred, p = provs[c].from
      PROVE  SlugKept(p)'
  <2>1. ~Forgetting(p) /\ \A d \in Provisioners : p \notin Makes(provs[d])
    BY <1>1, <1>5, SourceStands
  <2>2. ~Forgetting(p)'
    BY <2>1, RestIsNothing DEF Forgetting, Alone1, ProvAt, Proceeds
  <2>3. \A d \in Provisioners : p \notin Makes(provs'[d])
    BY <1>2, <2>1, NarrowedTouches DEF Alone1
  <2> QED
    BY <1>5, <2>2, <2>3 DEF SlugKept
<1>6. ASSUME NEW s \in Slugs \ marred, s = provs[c].s
      PROVE  SlugKept(s)'
  <2>1. \A d \in Provisioners : d # c => s \notin Touches(provs[d])
    BY <1>1, <1>3, <1>6, MakerAlone
  <2>2. \A d \in Provisioners : d # c => s \notin Makes(provs'[d])
    BY <2>1 DEF Touches, Alone1
  <2>3. CASE provs'[c] = AtRest
    <3>1. Near(s)'
      BY <1>6, <2>3 DEF Whole, Near, Emptied
    <3>2. \A d \in Provisioners : d # c => provs'[d].from # s
      BY <1>6, <2>1, ProvAssumption DEF Touches, Alone1
    <3>3. ~Forgetting(s)'
      BY <2>3, <3>2, RestIsNothing, ProvAssumption DEF Forgetting
    <3> QED
      BY <2>2, <2>3, <3>1, <3>3, RestIsNothing DEF SlugKept
  <2>4. CASE provs'[c] # AtRest
    <3>1. MadeSoFar(provs[c])' /\ s \in Makes(provs'[c])
      BY <1>3, <1>6, <2>4 DEF Makes, Proceeds
    <3> QED
      BY <2>2, <3>1 DEF SlugKept
  <2> QED
    BY <2>3, <2>4
<1>7. ThingsKept'
  BY <1>3, <1>4, <1>5, <1>6 DEF ThingsKept, Touches
<1>8. FamilyKept'
  BY <1>1, <1>2, FamilyRests DEF Makers
<1>9. ListKept'
  <2>1. Listable' = Listable /\ ~Owes(provs[c])
    BY DEF Listable, Owes, ListSteps
  <2> QED
    BY <1>1, <2>1, ListRests DEF ListSteps
<1> QED
  BY <1>2, <1>7, <1>8, <1>9 DEF ProvInv

LEMMA CloseSourceKept ==
  ASSUME ProvInv, NEW c \in Provisioners, CloseSource(c)
  PROVE  ProvInv'
<1>0. ProvTyped /\ ProvFormed /\ ThingsKept /\ provs[c].pc = "close"
  BY DEF ProvInv, ProvFormed, CloseSource, ProvAt
<1>1. /\ provs[c].op = "branch" /\ provs[c].op \in Makers /\ provs[c].s \in Slugs
      /\ provs[c].s \notin marred => MadeSoFar(provs[c])
  BY <1>0, StageTellsKind, WhoIsWhere DEF Makers
<1>2. /\ UNCHANGED <<roles, boxes, rows, routed, births, marred, torn>>
      /\ ProvTo(c, "branch-role")
      /\ databases' = IF databases[provs[c].from] = "none" THEN databases
                      ELSE [databases EXCEPT ![provs[c].from] = "closed"]
  BY DEF CloseSource, past
<1>3. "branch-role" \in ProvSteps \cap StepsOf(provs[c].op)
  BY <1>1, StagesAreSteps DEF Makers
<1>4. /\ Alone1(c) /\ Proceeds(c) /\ provs' \in [Provisioners -> HandlerRecs]
      /\ provs'[c].pc = "branch-role"
  BY <1>0, <1>2, <1>3, ProvToMoves DEF Proceeds
<1>5. provs[c].from \in Slugs /\ provs[c].from # provs[c].s
  BY <1>0, <1>1 DEF ProvFormed, Proper
<1>6. /\ databases' \in [Slugs -> {"none", "open", "closed"}]
      /\ \A s \in Slugs : s # provs[c].from => databases'[s] = databases[s]
      /\ IF databases[provs[c].from] = "none" THEN databases'[provs[c].from] = "none"
         ELSE databases'[provs[c].from] = "closed"
  BY <1>0, <1>2, <1>5 DEF ProvTyped
<1>7. ProvTyped'
  BY <1>0, <1>2, <1>4, <1>6 DEF ProvTyped
<1>8. ASSUME NEW p \in Slugs \ marred, p = provs[c].from
      PROVE  Near(p)'
  <2>1. Near(p)
    BY <1>0, <1>1, <1>8, SourceStands
  <2>2. Closing(p)'
    BY <1>1, <1>4, <1>8 DEF Closing, Proceeds, BoxSteps
  <2> QED
    BY <1>2, <1>6, <1>8, <2>1, <2>2 DEF Near, Exists, Emptied
<1>9. provs[c].s \notin marred => MadeSoFar(provs[c])'
  BY <1>0, <1>1, <1>2, <1>4, <1>5, <1>6 DEF MadeSoFar, Proceeds, Exists, Emptied, UndoSteps,
     BoxSteps, ListSteps
<1>10. provs'[c] # AtRest
  BY <1>4, RestIsNothing
<1> QED
  BY <1>0, <1>1, <1>2, <1>4, <1>6, <1>7, <1>8, <1>9, <1>10, SourceMoves DEF ListSteps

LEMMA ReopenKept ==
  ASSUME ProvInv, NEW c \in Provisioners, Reopen(c)
  PROVE  ProvInv'
<1>0. ProvTyped /\ ProvFormed /\ ThingsKept /\ provs[c].pc = "reopen"
  BY DEF ProvInv, ProvFormed, Reopen, ProvAt
<1>1. /\ provs[c].op = "branch" /\ provs[c].op \in Makers /\ provs[c].s \in Slugs
      /\ provs[c].s \notin marred => MadeSoFar(provs[c])
  BY <1>0, StageTellsKind, WhoIsWhere DEF Makers
<1>2. /\ UNCHANGED <<roles, boxes, rows, routed, births, marred, torn>>
      /\ ProvEnds(c)
      /\ databases' = IF databases[provs[c].from] = "none" THEN databases
                      ELSE [databases EXCEPT ![provs[c].from] = "open"]
  BY DEF Reopen, past
<1>3. /\ Alone1(c) /\ provs' \in [Provisioners -> HandlerRecs] /\ provs'[c] = AtRest
  BY <1>0, <1>2, ProvEndsMoves
<1>4. provs[c].from \in Slugs /\ provs[c].from # provs[c].s
  BY <1>0, <1>1 DEF ProvFormed, Proper
<1>5. /\ databases' \in [Slugs -> {"none", "open", "closed"}]
      /\ \A s \in Slugs : s # provs[c].from => databases'[s] = databases[s]
      /\ IF databases[provs[c].from] = "none" THEN databases'[provs[c].from] = "none"
         ELSE databases'[provs[c].from] = "open"
  BY <1>0, <1>2, <1>4 DEF ProvTyped
<1>6. ProvTyped'
  BY <1>0, <1>2, <1>3, <1>5 DEF ProvTyped
<1>7. ASSUME NEW p \in Slugs \ marred, p = provs[c].from
      PROVE  Near(p)'
  <2>1. Near(p)
    BY <1>0, <1>1, <1>7, SourceStands
  <2> QED
    BY <1>2, <1>5, <1>7, <2>1 DEF Near, Exists, Emptied
<1>8. \A s \in Slugs \ marred : s = provs[c].s => Whole(s)'
  BY <1>0, <1>1, <1>2, <1>4, <1>5 DEF MadeSoFar, Exists, Whole
<1> QED
  BY <1>0, <1>1, <1>2, <1>3, <1>5, <1>6, <1>7, <1>8, SourceMoves, RestIsNothing DEF ListSteps

\* One that deletes makes nothing and has nothing closed.
LEMMA DeleterMoves ==
  ASSUME ProvFormed, ThingsKept, NEW c \in Provisioners, Alone1(c),
         provs[c].op \in {"none", "delete"}, provs'[c].op \in {"none", "delete"},
         provs[c].pc # "forget", provs'[c].pc # "forget",
         marred \subseteq marred', NEW s \in Slugs \ marred', SameAt(s)
  PROVE  SlugKept(s)'
<1>1. s \notin Makes(provs[c]) /\ s \notin Makes(provs'[c])
  BY DEF Makes
<1>2. Closing(s) => Closing(s)'
  BY DEF Closing, Alone1
<1>3. Forgetting(s) <=> Forgetting(s)'
  BY DEF Forgetting, Alone1, ProvAt
<1>4. SlugKept(s)
  BY DEF ThingsKept
<1>5. \A d \in Provisioners : s \in Makes(provs[d]) \/ s \in Makes(provs'[d]) =>
        provs'[d] = provs[d]
  BY <1>1 DEF Alone1
<1> QED
  BY <1>2, <1>3, <1>4, <1>5, SlugStays

\* Writing the list changes no project.
LEMMA ListersMove ==
  ASSUME ProvFormed, ThingsKept, NEW c \in Provisioners, Alone1(c),
         provs[c].pc \in ListSteps, provs[c].op \in Makers \cup {"delete"},
         \/ Proceeds(c) /\ provs'[c].pc \in ListSteps
         \/ Proceeds(c) /\ provs[c].op = "branch" /\ provs'[c].pc = "reopen"
         \/ Proceeds(c) /\ provs[c].op = "at-time" /\ provs'[c].pc = "adopt"
         \/ provs[c].op \in {"create", "delete"} /\ provs'[c] = AtRest,
         UNCHANGED <<roles, databases, boxes, rows, marred>>
  PROVE  ThingsKept'
<1>1. \A s \in Slugs : SameAt(s)
  BY DEF SameAt
<1>2. CASE provs[c].op = "delete"
  <2>1. provs'[c].op \in {"none", "delete"} /\ provs'[c].pc # "forget" /\ provs[c].pc # "forget"
    BY <1>2, RestIsNothing DEF Proceeds, ListSteps
  <2> QED
    BY <1>1, <1>2, <2>1, DeleterMoves DEF ThingsKept
<1>3. CASE provs[c].op \in Makers
  <2>1. ASSUME NEW s \in Slugs \ marred, s = provs[c].s
        PROVE  Whole(s)' /\ (provs'[c] # AtRest => MadeSoFar(provs[c])')
    <3>1. s \in Makes(provs[c])
      BY <1>3, <2>1 DEF Makes, Makers
    <3>2. Whole(s)
      BY <2>1, <3>1 DEF ThingsKept, SlugKept, MadeSoFar, ListSteps
    <3>3. Whole(s)'
      BY <3>2 DEF Whole, Exists
    <3>4. provs'[c] # AtRest => provs'[c].s = s
      BY <2>1 DEF Proceeds
    <3>5. provs'[c] # AtRest => provs'[c].pc \in ListSteps \cup {"adopt", "reopen"}
      OBVIOUS
    <3> QED
      BY <3>3, <3>4, <3>5 DEF MadeSoFar, ListSteps, UndoSteps, BoxSteps
  <2>2. (provs[c].op = "branch" /\ provs[c].pc \notin BoxSteps \cup {"snapshot"}) =>
           provs'[c].op = "branch" /\ provs'[c].pc \notin BoxSteps \cup {"snapshot"}
    BY DEF Proceeds, BoxSteps, ListSteps
  <2> QED
    BY <1>1, <1>3, <2>1, <2>2, MakerMoves DEF Proceeds
<1> QED
  BY <1>2, <1>3

\* What is known of a handler that is at the list, or at the deletion.
LEMMA ListersAre ==
  ASSUME ProvFormed, NEW c \in Provisioners
  PROVE  /\ provs[c].pc \in ListSteps => provs[c].op \in Makers \cup {"delete"}
         /\ provs[c].op = "delete" => /\ provs[c].s \in Slugs /\ provs[c].left \subseteq Slugs
                                      /\ provs[c].s \notin provs[c].left
         /\ provs[c].op = "delete" /\ provs[c].pc \in ListSteps => provs[c].left = {}
<1>1. Proper(provs[c]) /\ provs[c] \in HandlerRecs
  BY DEF ProvFormed, ProvTyped
<1>2. provs[c].op = "none" => provs[c].pc = "idle"
  BY <1>1 DEF Proper, StepsOf
<1> QED
  BY <1>1, <1>2 DEF Proper, HandlerRecs, ListSteps

LEMMA ListReadKept ==
  ASSUME ProvInv, NEW c \in Provisioners, ListRead(c)
  PROVE  ProvInv'
<1>0. /\ ProvTyped /\ ProvFormed /\ ThingsKept /\ FamilyKept /\ ListKept
      /\ provs[c].pc = "list" /\ provs \in [Provisioners -> HandlerRecs]
  BY DEF ProvInv, ProvFormed, ProvTyped, ListRead, ProvAt
<1>1. /\ UNCHANGED <<roles, databases, boxes, rows, routed, births, marred>>
      /\ provs' = [provs EXCEPT ![c].pc = "write", ![c].seen = Listable]
      /\ torn' = (torn \/ Writing(c))
  BY DEF ListRead, things
<1>2. PICK k \in HandlerRecs : k = [provs[c] EXCEPT !.pc = "write", !.seen = Listable]
  BY <1>0, ProvTypesSplit, StagesAreSteps DEF HandlerRecs, Makers, ListSteps
<1>3. /\ k.pc = "write" /\ k.seen = Listable /\ k.op = provs[c].op /\ k.s = provs[c].s
      /\ k.from = provs[c].from /\ k.left = provs[c].left /\ k.pw = provs[c].pw
  BY <1>0, <1>2 DEF HandlerRecs
<1>4. /\ provs' \in [Provisioners -> HandlerRecs] /\ provs'[c] = k /\ Alone1(c)
  BY <1>0, <1>1, <1>2 DEF Alone1
<1>5. ProvTyped'
  BY <1>0, <1>1, <1>4 DEF ProvTyped
<1>6. provs[c].pc \in ListSteps /\ provs[c].op \in Makers \cup {"delete"}
  BY <1>0, ListersAre DEF ListSteps
<1>7. "write" \in StepsOf(provs[c].op)
  BY <1>6, StagesAreSteps DEF ListSteps, Makers
<1>8. Narrowed(provs[c], k) /\ Proper(k) /\ Proceeds(c)
  <2>1. Proper(provs[c])
    BY <1>0 DEF ProvFormed
  <2>2. Narrowed(provs[c], k) /\ Proceeds(c)
    BY <1>3, <1>4, <1>7 DEF Narrowed, Proceeds
  <2> QED
    BY <1>0, <1>3, <1>6, <1>7, <2>1, <2>2 DEF Proper, Makers, ListSteps
<1>9. ProvFormed'
  BY <1>0, <1>1, <1>4, <1>5, <1>8, FormedStays DEF ProvFormed
<1>10. ThingsKept'
  BY <1>0, <1>1, <1>3, <1>4, <1>6, <1>8, ListersMove DEF ListSteps
<1>11. FamilyKept'
  BY <1>0, <1>1, <1>3, <1>4, <1>8, FamilyRests, RestIsNothing
<1>12. ListKept'
  <2> SUFFICES ASSUME ~torn'
               PROVE  /\ \A d, e \in Provisioners : ProvAt(d, "write")' /\ ProvAt(e, "write")' => d = e
                      /\ \A d \in Provisioners : ProvAt(d, "write")' =>
                           OwesList' \/ provs'[d].seen = Listable'
                      /\ OwesList' \/ routed' = Listable'
                           \/ \E d \in Provisioners : ProvAt(d, "write")'
    BY DEF ListKept
  <2>1. \A d \in Provisioners : d # c => ~ProvAt(d, "write")'
    BY <1>1, <1>4 DEF Writing, ProvAt, Alone1
  <2>2. Listable' = Listable
    BY <1>1 DEF Listable
  <2>3. ProvAt(c, "write")' /\ provs'[c].seen = Listable'
    BY <1>3, <1>4, <2>2 DEF ProvAt
  <2> QED
    BY <2>1, <2>3
<1> QED
  BY <1>9, <1>10, <1>11, <1>12 DEF ProvInv

\* What is written is what the rows are, or somebody will write again.
LEMMA ListWriteKept ==
  ASSUME ProvInv, NEW c \in Provisioners, ListWrite(c)
  PROVE  ProvInv'
<1>0. /\ ProvTyped /\ ProvFormed /\ ThingsKept /\ FamilyKept /\ ListKept
      /\ provs[c].pc = "write" /\ provs \in [Provisioners -> HandlerRecs]
  BY DEF ProvInv, ProvFormed, ProvTyped, ListWrite, ProvAt
<1>1. /\ UNCHANGED <<roles, databases, boxes, rows, births, marred, torn>>
      /\ routed' = provs[c].seen
  BY DEF ListWrite, things, past
<1>2. /\ provs[c].pc \in ListSteps /\ provs[c].op \in Makers \cup {"delete"}
      /\ provs[c].op = "delete" => provs[c].left = {}
  BY <1>0, ListersAre DEF ListSteps
<1>3. \/ provs[c].op = "branch" /\ ProvTo(c, "reopen")
      \/ provs[c].op = "at-time" /\ ProvTo(c, "adopt")
      \/ provs[c].op \in {"create", "delete"} /\ ProvEnds(c)
  BY <1>2 DEF ListWrite, ProvTo, Makers
<1>4. /\ "reopen" \in ProvSteps \cap StepsOf("branch")
      /\ "adopt" \in ProvSteps \cap StepsOf("at-time")
  BY StagesAreSteps DEF Makers
<1>5. /\ provs' \in [Provisioners -> HandlerRecs] /\ Alone1(c)
      /\ \/ Proceeds(c) /\ provs[c].op = "branch" /\ provs'[c].pc = "reopen"
         \/ Proceeds(c) /\ provs[c].op = "at-time" /\ provs'[c].pc = "adopt"
         \/ provs[c].op \in {"create", "delete"} /\ provs'[c] = AtRest
  BY <1>0, <1>3, <1>4, ProvToMoves, ProvEndsMoves DEF Proceeds
<1>6. ProvTyped'
  <2>1. routed' \in [Slugs -> 0..MaxBirths]
    BY <1>0, <1>1 DEF HandlerRecs
  <2> QED
    BY <1>0, <1>1, <1>5, <2>1 DEF ProvTyped
<1>7. Narrowed(provs[c], provs'[c]) /\ Proper(provs'[c])
  <2>1. Proper(provs[c])
    BY <1>0 DEF ProvFormed
  <2>2. CASE provs'[c] = AtRest
    BY <2>2, RestIsNothing DEF Narrowed
  <2>3. CASE Proceeds(c) /\ provs[c].op \in {"branch", "at-time"}
    BY <2>1, <2>3 DEF Narrowed, Proceeds, Proper, Makers
  <2> QED
    BY <1>5, <2>2, <2>3
<1>8. ProvFormed'
  BY <1>0, <1>1, <1>5, <1>6, <1>7, FormedStays DEF ProvFormed
<1>9. ThingsKept'
  BY <1>0, <1>1, <1>2, <1>5, ListersMove
<1>10. FamilyKept'
  BY <1>0, <1>1, <1>2, <1>5, <1>7, FamilyRests
<1>11. ListKept'
  <2> SUFFICES ASSUME ~torn
               PROVE  /\ \A d \in Provisioners : ~ProvAt(d, "write")'
                      /\ OwesList' \/ routed' = Listable'
    BY <1>1 DEF ListKept
  <2>1. \A d \in Provisioners : d # c => ~ProvAt(d, "write")
    BY <1>0 DEF ListKept, ProvAt
  <2>2. provs'[c].pc # "write"
    BY <1>5, RestIsNothing
  <2>3. ~Owes(provs[c])
    BY <1>0 DEF Owes
  <2>4. OwesList => OwesList'
    BY <1>5, <2>3 DEF OwesList, Alone1
  <2>5. OwesList \/ provs[c].seen = Listable
    BY <1>0 DEF ListKept, ProvAt
  <2>6. Listable' = Listable
    BY <1>1 DEF Listable
  <2> QED
    BY <1>1, <1>5, <2>1, <2>2, <2>4, <2>5, <2>6 DEF ProvAt, Alone1
<1> QED
  BY <1>8, <1>9, <1>10, <1>11 DEF ProvInv

\* What is known of one that is about to drop s.
LEMMA DropperKnows ==
  ASSUME ProvInv, NEW c \in Provisioners, NEW s \in Slugs, DropData(c, s)
  PROVE  /\ ProvTyped /\ ProvFormed /\ ThingsKept /\ FamilyKept /\ ListKept
         /\ provs[c].pc = "drop" /\ provs[c].op = "delete" /\ provs[c].from = NoSlug
         /\ provs[c].s \in Slugs /\ provs[c].left \subseteq Slugs
         /\ provs[c].s \notin provs[c].left
         /\ provs \in [Provisioners -> HandlerRecs] /\ provs[c] \in HandlerRecs
         /\ s \in NextToDrop(provs[c]) /\ s \in Removes(provs[c])
         /\ s = provs[c].s <=> provs[c].left = {}
         /\ "forget" \in ProvSteps
<1>1. /\ ProvTyped /\ ProvFormed /\ ThingsKept /\ FamilyKept /\ ListKept
      /\ provs \in [Provisioners -> HandlerRecs] /\ provs[c] \in HandlerRecs
  BY DEF ProvInv, ProvFormed, ProvTyped
<1>2. provs[c].pc = "drop" /\ s \in NextToDrop(provs[c])
  BY DEF DropData, ProvAt
<1>3. provs[c].op = "delete"
  BY <1>1, <1>2, StageTellsKind
<1>4. /\ provs[c].s \in Slugs /\ provs[c].left \subseteq Slugs
      /\ provs[c].s \notin provs[c].left
  BY <1>1, <1>3, ListersAre
<1>5. provs[c].from = NoSlug
  BY <1>1, <1>2, <1>3 DEF ProvFormed, Proper
<1>6. s \in Removes(provs[c]) /\ (s = provs[c].s <=> provs[c].left = {})
  BY <1>2, <1>3, <1>4 DEF NextToDrop, Removes
<1>7. "forget" \in ProvSteps
  BY StagesAreSteps DEF Makers
<1> QED
  BY <1>1, <1>2, <1>3, <1>4, <1>5, <1>6, <1>7

\* Whoever removes s is its only hand, with others that remove it.
LEMMA RemovedIsNotMade ==
  ASSUME ProvFormed, NEW c \in Provisioners, NEW s \in Slugs \ marred, s \in Removes(provs[c])
  PROVE  /\ \A d \in Provisioners : s \notin Makes(provs[d])
         /\ \A d \in Provisioners :
              ~(provs[d].op \in {"at-time", "branch"} /\ provs[d].from = s)
<1>1. s \in Touches(provs[c]) /\ provs[c].op = "delete" /\ Makes(provs[c]) = {}
  BY DEF Touches, Removes, Makes
<1>2. \A d \in Provisioners : d # c => s \notin Makes(provs[d])
  BY <1>1, MakerAlone
<1> QED
  BY <1>1, <1>2, MakerAlone

\* A dropped name is empty, and its row goes next.
LEMMA DropDataKept ==
  ASSUME ProvInv, NEW c \in Provisioners, NEW s \in Slugs, DropData(c, s),
         provs' = [provs EXCEPT ![c].pc = "forget", ![c].from = s]
  PROVE  ProvInv'
<1>0. /\ ProvTyped /\ ProvFormed /\ ThingsKept /\ FamilyKept /\ ListKept
      /\ provs[c].pc = "drop" /\ provs[c].op = "delete" /\ provs[c].from = NoSlug
      /\ provs[c].s \in Slugs /\ provs[c].left \subseteq Slugs
      /\ provs[c].s \notin provs[c].left
      /\ provs \in [Provisioners -> HandlerRecs] /\ provs[c] \in HandlerRecs
      /\ s \in NextToDrop(provs[c]) /\ s \in Removes(provs[c])
      /\ s = provs[c].s <=> provs[c].left = {}
      /\ "forget" \in ProvSteps
  BY DropperKnows
<1>1. PICK k \in HandlerRecs : k = [provs[c] EXCEPT !.pc = "forget", !.from = s]
  BY <1>0 DEF HandlerRecs
<1>2. /\ k.pc = "forget" /\ k.from = s /\ k.op = "delete" /\ k.s = provs[c].s
      /\ k.left = provs[c].left /\ k # AtRest
  BY <1>0, <1>1, RestIsNothing DEF HandlerRecs
<1>3. /\ provs' \in [Provisioners -> HandlerRecs] /\ provs'[c] = k /\ Alone1(c)
  BY <1>0, <1>1 DEF Alone1
<1>4. /\ UNCHANGED <<rows, routed, births, marred, torn>>
      /\ IF rows[s].mode = "instance"
         THEN boxes' = [boxes EXCEPT ![s] = 0] /\ UNCHANGED <<roles, databases>>
         ELSE /\ databases' = [databases EXCEPT ![s] = "none"]
              /\ roles' = [roles EXCEPT ![s] = 0]
              /\ UNCHANGED boxes
  <2>1. provs' # [provs EXCEPT ![c].left = @ \ {s}] /\ ~ProvEnds(c)
    <3>1. [provs EXCEPT ![c].left = @ \ {s}][c].pc = provs[c].pc
      BY <1>0 DEF HandlerRecs
    <3>2. [provs EXCEPT ![c] = AtRest][c].pc = "idle"
      BY <1>0, RestIsNothing
    <3>3. provs'[c].pc = "forget"
      BY <1>2, <1>3
    <3>4. ~ProvEnds(c)
      BY <3>2, <3>3 DEF ProvEnds
    <3> QED
      BY <1>0, <3>1, <3>3, <3>4
  <2> QED
    BY <2>1 DEF DropData
<1>5. /\ roles' \in [Slugs -> 0..MaxBirths] /\ boxes' \in [Slugs -> 0..MaxBirths]
      /\ databases' \in [Slugs -> {"none", "open", "closed"}]
      /\ \A t \in Slugs : t # s => SameAt(t)
      /\ IF rows[s].mode = "instance"
         THEN boxes'[s] = 0 /\ roles'[s] = roles[s] /\ databases'[s] = databases[s]
         ELSE boxes'[s] = boxes[s] /\ roles'[s] = 0 /\ databases'[s] = "none"
  BY <1>0, <1>4, ProvAssumption DEF ProvTyped, SameAt
<1>6. ProvTyped'
  BY <1>0, <1>3, <1>4, <1>5 DEF ProvTyped
<1>7. Narrowed(provs[c], k) /\ Proper(k)
  <2>1. "forget" \in StepsOf("delete")
    BY StagesAreSteps
  <2> QED
    BY <1>0, <1>2, <2>1 DEF Narrowed, Proper, Makers, NextToDrop, ListSteps
<1>8. ProvFormed'
  BY <1>0, <1>3, <1>4, <1>6, <1>7, FormedStays DEF ProvFormed
<1>9. ASSUME NEW t \in Slugs \ marred, t # s
      PROVE  SlugKept(t)'
  <2>1. Closing(t) => Closing(t)'
    BY <1>0, <1>3 DEF Closing, Alone1
  <2>2. Forgetting(t) <=> Forgetting(t)'
    BY <1>0, <1>2, <1>3, <1>9 DEF Forgetting, Alone1, ProvAt
  <2>3. t \notin Makes(provs[c]) /\ t \notin Makes(provs'[c])
    BY <1>0, <1>2, <1>3 DEF Makes
  <2> QED
    BY <1>0, <1>3, <1>5, <1>9, <2>1, <2>2, <2>3, SlugStays DEF ThingsKept, Alone1
<1>10. s \notin marred => SlugKept(s)'
  <2> SUFFICES ASSUME s \notin marred
               PROVE  SlugKept(s)'
    OBVIOUS
  <2>1. \A d \in Provisioners : s \notin Makes(provs[d])
    BY <1>0, RemovedIsNotMade
  <2>2. \A d \in Provisioners : s \notin Makes(provs'[d])
    BY <1>3, <1>7, <2>1, NarrowedTouches DEF Alone1
  <2>3. Emptied(s) \/ Near(s)
    BY <1>0, <2>1 DEF ThingsKept, SlugKept
  <2>4. rows[s].mode \in {"shared", "instance"}
    BY <1>0, ProvTypesSplit DEF ProjectRows
  <2>5. Emptied(s)'
    BY <1>5, <2>3, <2>4 DEF Near, Emptied
  <2>6. Forgetting(s)'
    BY <1>2, <1>3 DEF Forgetting, ProvAt
  <2> QED
    BY <2>2, <2>5, <2>6 DEF SlugKept
<1>11. ThingsKept'
  BY <1>4, <1>9, <1>10 DEF ThingsKept
<1>12. FamilyKept'
  BY <1>0, <1>2, <1>3, <1>4, <1>7, FamilyRests
<1>13. ListKept'
  <2>1. Listable' = Listable
    BY <1>4 DEF Listable
  <2> QED
    BY <1>0, <1>2, <1>3, <1>4, <2>1, ListRests DEF Owes
<1> QED
  BY <1>8, <1>11, <1>12, <1>13 DEF ProvInv

\* A drop that failed: a branch is left as it is and marked, a project ends it.
LEMMA DropFailedKept ==
  ASSUME ProvInv, NEW c \in Provisioners, NEW s \in Slugs, DropData(c, s),
         marred' = marred \cup (IF s = provs[c].s THEN {} ELSE {s}), torn' = TRUE,
         IF s = provs[c].s THEN ProvEnds(c) ELSE provs' = [provs EXCEPT ![c].left = @ \ {s}],
         UNCHANGED things
  PROVE  ProvInv'
<1>0. /\ ProvTyped /\ ProvFormed /\ ThingsKept /\ FamilyKept /\ ListKept
      /\ provs[c].pc = "drop" /\ provs[c].op = "delete" /\ provs[c].from = NoSlug
      /\ provs[c].s \in Slugs /\ provs[c].left \subseteq Slugs
      /\ provs[c].s \notin provs[c].left
      /\ provs \in [Provisioners -> HandlerRecs] /\ provs[c] \in HandlerRecs
      /\ s \in NextToDrop(provs[c]) /\ s \in Removes(provs[c])
      /\ s = provs[c].s <=> provs[c].left = {}
  BY DropperKnows
<1>1. UNCHANGED <<roles, databases, boxes, rows, routed, births>>
  BY DEF DropData, things
<1>2. PICK k \in HandlerRecs : k = [provs[c] EXCEPT !.left = @ \ {s}]
  <2>1. PICK b \in SUBSET Slugs : b = provs[c].left \ {s}
    BY <1>0
  <2> QED
    BY <1>0, <2>1 DEF HandlerRecs
<1>3. /\ k.pc = "drop" /\ k.op = "delete" /\ k.s = provs[c].s /\ k.from = NoSlug
      /\ k.left = provs[c].left \ {s}
  BY <1>0, <1>2 DEF HandlerRecs
<1>4. /\ provs' \in [Provisioners -> HandlerRecs] /\ Alone1(c)
      /\ IF s = provs[c].s THEN provs'[c] = AtRest ELSE provs'[c] = k
  <2>1. CASE s = provs[c].s
    BY <1>0, <2>1, ProvEndsMoves
  <2>2. CASE s # provs[c].s
    BY <1>0, <1>2, <2>2 DEF Alone1
  <2> QED
    BY <2>1, <2>2
<1>5. ProvTyped' /\ marred \subseteq marred' /\ (s # provs[c].s => s \in marred')
  BY <1>0, <1>1, <1>4 DEF ProvTyped
<1>6. Narrowed(provs[c], provs'[c]) /\ Proper(provs'[c])
  <2>1. CASE s = provs[c].s
    BY <1>4, <2>1, RestIsNothing DEF Narrowed
  <2>2. CASE s # provs[c].s
    <3>1. Proper(provs[c])
      BY <1>0 DEF ProvFormed
    <3> QED
      BY <1>0, <1>3, <1>4, <2>2, <3>1 DEF Narrowed, Proper, Makers, ListSteps
  <2> QED
    BY <2>1, <2>2
<1>7. ProvFormed'
  BY <1>0, <1>1, <1>4, <1>5, <1>6, FormedStays DEF ProvFormed
<1>8. \A t \in Slugs : SameAt(t)
  BY <1>1 DEF SameAt
<1>9. /\ provs'[c].op \in {"none", "delete"} /\ provs'[c].pc \in {"idle", "drop"}
      /\ provs'[c] = AtRest => s = provs[c].s
  BY <1>3, <1>4, RestIsNothing
<1>10. ThingsKept'
  BY <1>0, <1>4, <1>5, <1>8, <1>9, DeleterMoves DEF ThingsKept
<1>11. FamilyKept'
  BY <1>0, <1>1, <1>3, <1>4, <1>5, <1>6, <1>9, FamilyRests
<1>12. ListKept'
  BY DEF ListKept
<1> QED
  BY <1>7, <1>10, <1>11, <1>12 DEF ProvInv

\* A row goes after what it stood for, and with it no branch's parent that a
\* deletion does not answer for.
LEMMA ForgetRowsKept ==
  ASSUME ProvInv, NEW c \in Provisioners, ForgetRows(c)
  PROVE  ProvInv'
<1>0. /\ ProvTyped /\ ProvFormed /\ ThingsKept /\ FamilyKept /\ ListKept
      /\ provs[c].pc = "forget" /\ provs[c] \in HandlerRecs
      /\ provs \in [Provisioners -> HandlerRecs]
  BY DEF ProvInv, ProvFormed, ProvTyped, ForgetRows, ProvAt
<1>1. /\ provs[c].op = "delete" /\ provs[c].s \in Slugs /\ provs[c].left \subseteq Slugs
      /\ provs[c].s \notin provs[c].left
  BY <1>0, StageTellsKind, ListersAre
<1>2. provs[c].from \in NextToDrop(provs[c])
  BY <1>0, <1>1 DEF ProvFormed, Proper
<1>3. PICK s \in Slugs : s = provs[c].from
  BY <1>1, <1>2 DEF NextToDrop
<1>4. /\ s \in Removes(provs[c]) /\ (s = provs[c].s => provs[c].left = {})
      /\ s # provs[c].s => s \in provs[c].left
  BY <1>1, <1>2, <1>3 DEF NextToDrop, Removes
<1>5. /\ UNCHANGED <<roles, databases, boxes, routed, births, marred, torn>>
      /\ rows' = [rows EXCEPT ![s] = NoProject]
      /\ provs' = [provs EXCEPT ![c] =
            [provs[c] EXCEPT !.from = NoSlug, !.left = @ \ {s},
                             !.pc = IF s = provs[c].s THEN "list" ELSE "drop"]]
  BY <1>3 DEF ForgetRows, things, past
<1>6. PICK k \in HandlerRecs :
        k = [provs[c] EXCEPT !.from = NoSlug, !.left = @ \ {s},
                             !.pc = IF s = provs[c].s THEN "list" ELSE "drop"]
  <2>1. PICK b \in SUBSET Slugs : b = provs[c].left \ {s}
    BY <1>1
  <2>2. PICK pc \in ProvSteps : pc = IF s = provs[c].s THEN "list" ELSE "drop"
    BY StagesAreSteps DEF Makers, ListSteps
  <2>3. [provs[c] EXCEPT !.from = NoSlug, !.left = b, !.pc = pc] \in HandlerRecs
    BY <1>0, <2>1, <2>2 DEF HandlerRecs
  <2> QED
    BY <2>1, <2>2, <2>3
<1>7. /\ k.op = "delete" /\ k.s = provs[c].s /\ k.from = NoSlug
      /\ k.left = provs[c].left \ {s}
      /\ k.pc = IF s = provs[c].s THEN "list" ELSE "drop"
  BY <1>0, <1>1, <1>6 DEF HandlerRecs
<1>8. /\ provs' \in [Provisioners -> HandlerRecs] /\ provs'[c] = k /\ Alone1(c)
  BY <1>0, <1>5, <1>6 DEF Alone1
<1>9. /\ NoProject \in ProjectRows /\ NoProject.pw = 0 /\ NoProject.parent = NoSlug
      /\ NoProject.mode = "shared"
  BY ProvAssumption DEF NoProject, ProjectRows
<1>10. /\ rows' \in [Slugs -> ProjectRows] /\ rows'[s] = NoProject
       /\ \A t \in Slugs : t # s => rows'[t] = rows[t]
  BY <1>0, <1>5, <1>9 DEF ProvTyped
<1>11. ProvTyped'
  BY <1>0, <1>5, <1>8, <1>10 DEF ProvTyped
<1>12. Narrowed(provs[c], k) /\ Proper(k)
  <2>1. {"list", "drop"} \subseteq StepsOf("delete")
    BY StagesAreSteps DEF ListSteps
  <2> QED
    BY <1>1, <1>4, <1>7, <2>1 DEF Narrowed, Proper, Makers, ListSteps
<1>13. ProvFormed'
  <2>1. \A t \in Slugs : rows'[t].parent # t
    BY <1>0, <1>9, <1>10, ProvAssumption DEF ProvFormed
  <2> QED
    BY <1>0, <1>5, <1>8, <1>11, <1>12, <2>1, FormedStays
<1>14. ASSUME NEW t \in Slugs \ marred, t # s
       PROVE  SlugKept(t)'
  <2>1. SameAt(t)
    BY <1>5, <1>10, <1>14 DEF SameAt
  <2>2. Closing(t) => Closing(t)'
    BY <1>1, <1>8 DEF Closing, Alone1
  <2>3. Forgetting(t) <=> Forgetting(t)'
    BY <1>3, <1>7, <1>8, <1>14 DEF Forgetting, Alone1, ProvAt
  <2>4. t \notin Makes(provs[c]) /\ t \notin Makes(provs'[c])
    BY <1>1, <1>7, <1>8 DEF Makes
  <2> QED
    BY <1>0, <1>8, <1>14, <2>1, <2>2, <2>3, <2>4, SlugStays DEF ThingsKept, Alone1
<1>15. s \notin marred => SlugKept(s)'
  <2> SUFFICES ASSUME s \notin marred
               PROVE  SlugKept(s)'
    OBVIOUS
  <2>1. \A d \in Provisioners : s \notin Makes(provs[d])
    BY <1>0, <1>4, RemovedIsNotMade
  <2>2. \A d \in Provisioners : s \notin Makes(provs'[d])
    BY <1>8, <1>12, <2>1, NarrowedTouches DEF Alone1
  <2>3. Forgetting(s)
    BY <1>0, <1>1, <1>3 DEF Forgetting, ProvAt
  <2>4. Emptied(s)
    BY <1>0, <2>1, <2>3 DEF ThingsKept, SlugKept
  <2>5. Emptied(s)' /\ ~Exists(s)'
    BY <1>5, <1>9, <1>10, <2>4 DEF Emptied, Exists
  <2>6. Near(s)'
    BY <2>5 DEF Near
  <2> QED
    BY <2>2, <2>5, <2>6 DEF SlugKept
<1>16. ThingsKept'
  BY <1>5, <1>14, <1>15 DEF ThingsKept
<1>17. FamilyKept'
  <2>1. ASSUME NEW b \in Slugs \ marred, NEW p \in Slugs, rows'[b].parent = p
        PROVE  BranchKept(b, p)'
    <3>1. b # s /\ rows'[b] = rows[b]
      BY <1>9, <1>10, <2>1, ProvAssumption
    <3>2. BranchKept(b, p)
      BY <1>0, <2>1, <3>1 DEF FamilyKept
    <3>3. Exists(b)' /\ p # b
      BY <3>1, <3>2 DEF BranchKept, Exists
    <3>4. Deleted(p) => Deleted(p)'
      BY <1>1, <1>7, <1>8 DEF Deleted, Alone1
    <3>5. p = s => p \in marred \/ Deleted(p)
      <4>1. p = s => s # provs[c].s
        BY <1>1, <1>4, <3>2 DEF BranchKept
      <4>2. LeftKnown(provs[c])
        BY <1>0 DEF FamilyKept
      <4>3. p = s => s \in marred \/ ~Exists(s) \/ rows[s].parent = provs[c].s
        BY <1>1, <1>4, <4>1, <4>2 DEF LeftKnown
      <4> QED
        BY <1>1, <3>2, <4>3, ProvAssumption DEF BranchKept
    <3>6. p # s => p \in marred \/ Deleted(p)' \/ (Exists(p)' /\ rows'[p].parent = NoSlug)
      BY <1>10, <2>1, <3>2, <3>4 DEF BranchKept, Exists
    <3>7. ASSUME NEW d \in Provisioners
          PROVE  /\ provs'[d].op = "delete" /\ provs'[d].s = p => b \in provs'[d].left
                 /\ p \in marred \/ p \notin Makes(provs'[d])
      <4>1. CASE d = c
        BY <1>1, <1>7, <1>8, <3>1, <3>2, <4>1 DEF BranchKept, Makes
      <4>2. CASE d # c
        BY <1>8, <3>2, <4>2 DEF BranchKept, Alone1
      <4> QED
        BY <4>1, <4>2
    <3>8. p \in marred \/ Deleted(p)' \/ (Exists(p)' /\ rows'[p].parent = NoSlug)
      BY <3>4, <3>5, <3>6
    <3> QED
      BY <1>5, <3>3, <3>7, <3>8 DEF BranchKept
  <2>2. ASSUME NEW d \in Provisioners
        PROVE  SourceKnown(provs[d])' /\ LeftKnown(provs[d])'
    <3>1. SourceKnown(provs[d]) /\ LeftKnown(provs[d]) /\ Proper(provs[d])
      BY <1>0 DEF FamilyKept, ProvFormed
    <3>2. SourceKnown(provs[d])'
      <4>1. CASE d = c
        BY <1>7, <1>8, <4>1 DEF SourceKnown
      <4>2. CASE d # c
        <5>1. provs[d].op \in {"at-time", "branch"} =>
                provs[d].from \in Slugs /\ (provs[d].from = s => s \in marred)
          BY <1>0, <1>4, <3>1, RemovedIsNotMade DEF Proper
        <5> QED
          BY <1>5, <1>8, <1>10, <3>1, <4>2, <5>1 DEF SourceKnown, Alone1, Exists
      <4> QED
        BY <4>1, <4>2
    <3>3. LeftKnown(provs[d])'
      <4>1. /\ provs'[d].op = provs[d].op /\ provs'[d].s = provs[d].s
            /\ provs'[d].left \subseteq provs[d].left
        BY <1>1, <1>7, <1>8 DEF Alone1
      <4>2. provs[d].left \subseteq Slugs
        BY <1>0 DEF HandlerRecs
      <4>3. ~Exists(s)'
        BY <1>9, <1>10 DEF Exists
      <4> QED
        BY <1>5, <1>10, <3>1, <4>1, <4>2, <4>3 DEF LeftKnown, Exists
    <3> QED
      BY <3>2, <3>3
  <2> QED
    BY <1>5, <2>1, <2>2 DEF FamilyKept
<1>18. ListKept'
  <2>1. Owes(provs'[c]) /\ provs'[c].pc # "write"
    BY <1>7, <1>8 DEF Owes
  <2> QED
    BY <1>0, <1>5, <1>8, <2>1, ListRests
<1> QED
  BY <1>13, <1>16, <1>17, <1>18 DEF ProvInv

LEMMA TouchesAreSlugs ==
  ASSUME NEW h \in HandlerRecs, Proper(h)
  PROVE  Touches(h) \subseteq Slugs
BY DEF Touches, Makes, Removes, Proper, HandlerRecs, Makers

\* Whom a new handler meets, it mars.
LEMMA MeetingMars ==
  ASSUME NEW c \in Provisioners, NEW h, NEW d \in Provisioners, d # c,
         Crosses(h, provs[d]) \/ Crosses(provs[d], h)
  PROVE  Touches(h) \cup Touches(provs[d]) \subseteq Meeting(c, h)
<1>1. Clash(h, provs[d]) \/ Clash(provs[d], h)
  BY DEF Crosses, Clash
<1> DEFINE met == {e \in Provisioners \ {c} : Clash(h, provs[e]) \/ Clash(provs[e], h)}
<1>2. d \in met
  BY <1>1
<1>3. Touches(provs[d]) \subseteq UNION {Touches(provs[e]) : e \in met}
  BY <1>2
<1> QED
  BY <1>2, <1>3 DEF Meeting

LEMMA MeetingIsSlugs ==
  ASSUME ProvFormed, NEW c \in Provisioners, NEW h \in HandlerRecs, Proper(h)
  PROVE  Meeting(c, h) \subseteq Slugs
<1>1. \A d \in Provisioners : Touches(provs[d]) \subseteq Slugs
  BY TouchesAreSlugs DEF ProvFormed, ProvTyped
<1>2. Touches(h) \subseteq Slugs
  BY TouchesAreSlugs
<1> QED
  BY <1>1, <1>2 DEF Meeting

\* A request that begins claims what nobody makes, or mars it.
LEMMA ProvStarts ==
  ASSUME ProvInv, NEW c \in Provisioners, provs[c] = AtRest,
         NEW h \in HandlerRecs, Proper(h), Starts(c, h),
         h.op \in Makers \cup {"delete"}, h.pc \notin {"forget"} \cup ListSteps,
         UNCHANGED <<roles, databases, boxes, rows, routed, torn>>, births' \in 0..MaxBirths,
         h.op \in Makers =>
           ~Exists(h.s) /\ h.pc \in {"role", "close", "branch-role", "box", "snapshot"},
         SourceKnown(h), LeftKnown(h),
         h.op = "delete" => \A b \in Slugs : rows[b].parent = h.s => b \in h.left
  PROVE  ProvInv'
<1>0. /\ ProvTyped /\ ProvFormed /\ ThingsKept /\ FamilyKept /\ ListKept
      /\ provs \in [Provisioners -> HandlerRecs]
  BY DEF ProvInv, ProvFormed, ProvTyped
<1>1. /\ provs' \in [Provisioners -> HandlerRecs] /\ provs'[c] = h /\ Alone1(c)
      /\ marred' = marred \cup Meeting(c, h)
  BY <1>0 DEF Starts, Alone1
<1>2. marred' \subseteq Slugs /\ marred \subseteq marred'
  BY <1>0, <1>1, MeetingIsSlugs DEF ProvTyped
<1>3. ProvTyped'
  BY <1>0, <1>1, <1>2 DEF ProvTyped
<1>4. ASSUME NEW d \in Provisioners, d # c, Crosses(h, provs[d]) \/ Crosses(provs[d], h)
      PROVE  Touches(h) \cup Touches(provs[d]) \subseteq marred'
  BY <1>1, <1>4, MeetingMars
<1>5. ProvFormed'
  <2>1. ASSUME NEW d \in Provisioners, NEW e \in Provisioners, d # e,
               Crosses(provs'[d], provs'[e])
        PROVE  Touches(provs'[d]) \cup Touches(provs'[e]) \subseteq marred'
    <3>1. CASE d = c
      BY <1>1, <1>4, <2>1, <3>1 DEF Alone1
    <3>2. CASE e = c
      BY <1>1, <1>4, <2>1, <3>2 DEF Alone1
    <3>3. CASE d # c /\ e # c
      BY <1>0, <1>1, <1>2, <2>1, <3>3 DEF Alone1, ProvFormed, ProvApart
    <3> QED
      BY <3>1, <3>2, <3>3
  <2>2. ProvApart'
    BY <2>1 DEF ProvApart
  <2>3. \A d \in Provisioners : Proper(provs'[d])
    BY <1>0, <1>1 DEF ProvFormed, Alone1
  <2> QED
    BY <1>0, <1>3, <2>2, <2>3 DEF ProvFormed, Proper, NextToDrop
<1>6. \A s \in Slugs : SameAt(s) /\ (Exists(s)' <=> Exists(s)) /\ (Emptied(s)' <=> Emptied(s))
  BY DEF SameAt, Exists, Emptied
<1>7. \A s \in Slugs : (Closing(s) => Closing(s)') /\ (Forgetting(s) <=> Forgetting(s)')
  BY <1>1, RestIsNothing DEF Closing, Forgetting, Alone1, ProvAt
<1>8. ASSUME NEW s \in Slugs \ marred', s \notin Makes(h)
      PROVE  SlugKept(s)'
  <2>1. \A d \in Provisioners : s \in Makes(provs[d]) \/ s \in Makes(provs'[d]) =>
          provs'[d] = provs[d]
    BY <1>1, <1>8, RestIsNothing DEF Alone1
  <2>2. SlugKept(s)
    BY <1>0, <1>2, <1>8 DEF ThingsKept
  <2> QED
    BY <1>6, <1>7, <1>8, <2>1, <2>2, SlugStays
<1>9. ASSUME NEW s \in Slugs \ marred', s \in Makes(h)
      PROVE  SlugKept(s)' /\ \A d \in Provisioners : d # c => s \notin Touches(provs[d])
  <2>1. s = h.s /\ h.op \in Makers /\ s \in Touches(h)
    BY <1>9 DEF Makes, Makers, Touches
  <2>2. \A d \in Provisioners : d # c => s \notin Touches(provs[d])
    BY <1>4, <1>9, <2>1 DEF Crosses
  <2>3. \A d \in Provisioners : s \notin Touches(provs[d])
    BY <2>2, RestIsNothing
  <2>4. ~Forgetting(s) /\ \A d \in Provisioners : s \notin Makes(provs[d])
    BY <2>3, ProvAssumption DEF Forgetting, Touches
  <2>5. Near(s) /\ ~Exists(s)
    BY <1>0, <1>2, <1>9, <2>1, <2>4 DEF ThingsKept, SlugKept
  <2>6. Emptied(s)
    BY <2>5 DEF Near
  <2>7. Emptied(s)' /\ ~Exists(s)'
    BY <1>6, <2>5, <2>6
  <2>8. MadeSoFar(provs[c])'
    BY <1>1, <2>1, <2>7 DEF MadeSoFar, ListSteps, BoxSteps, UndoSteps
  <2>9. \A d \in Provisioners : d # c => s \notin Makes(provs'[d])
    BY <1>1, <2>4 DEF Alone1
  <2> QED
    BY <1>1, <1>9, <2>2, <2>8, <2>9 DEF SlugKept
<1>10. ThingsKept'
  BY <1>8, <1>9 DEF ThingsKept
<1>11. FamilyKept'
  <2>1. ASSUME NEW b \in Slugs \ marred', NEW p \in Slugs, rows'[b].parent = p
        PROVE  BranchKept(b, p)'
    <3>1. BranchKept(b, p) /\ rows[b].parent = p
      BY <1>0, <1>2, <2>1 DEF FamilyKept
    <3>2. Deleted(p) => Deleted(p)'
      BY <1>1, RestIsNothing DEF Deleted, Alone1
    <3>3. p \in Makes(h) => p \in marred'
      <4> SUFFICES ASSUME p \in Makes(h), p \notin marred'
                   PROVE  FALSE
        OBVIOUS
      <4>1. ~Exists(p)
        BY DEF Makes, Makers
      <4>2. PICK d \in Provisioners : provs[d].op = "delete" /\ provs[d].s = p
        BY <1>2, <3>1, <4>1 DEF BranchKept, Deleted
      <4>3. d # c /\ p \in Touches(provs[d])
        BY <4>2, RestIsNothing DEF Touches, Removes
      <4> QED
        BY <1>9, <4>3
    <3>4. ASSUME NEW d \in Provisioners
          PROVE  /\ provs'[d].op = "delete" /\ provs'[d].s = p => b \in provs'[d].left
                 /\ p \in marred' \/ p \notin Makes(provs'[d])
      <4>1. CASE d = c
        BY <1>1, <2>1, <3>1, <3>3, <4>1
      <4>2. CASE d # c
        BY <1>1, <1>2, <3>1, <4>2 DEF BranchKept, Alone1
      <4> QED
        BY <4>1, <4>2
    <3> QED
      BY <1>2, <1>6, <3>1, <3>2, <3>4 DEF BranchKept
  <2>2. ASSUME NEW d \in Provisioners
        PROVE  SourceKnown(provs[d])' /\ LeftKnown(provs[d])'
    <3>1. provs'[d] = provs[d] \/ provs'[d] = h
      BY <1>1 DEF Alone1
    <3>2. SourceKnown(provs[d]) /\ LeftKnown(provs[d])
      BY <1>0 DEF FamilyKept
    <3> QED
      BY <1>2, <3>1, <3>2 DEF SourceKnown, LeftKnown, Exists
  <2> QED
    BY <2>1, <2>2 DEF FamilyKept
<1>12. ListKept'
  <2>1. Listable' = Listable
    BY DEF Listable
  <2> QED
    BY <1>0, <1>1, <2>1, ListRests, RestIsNothing DEF ListSteps
<1> QED
  BY <1>5, <1>10, <1>11, <1>12 DEF ProvInv

LEMMA IdleIsAtRest ==
  ASSUME ProvInv, NEW c \in Provisioners, ProvAt(c, "idle")
  PROVE  provs[c] = AtRest
<1>1. provs[c].op = "none" /\ Proper(provs[c])
  BY StageTellsKind DEF ProvInv, ProvFormed, ProvAt
<1> QED
  BY <1>1 DEF Proper

LEMMA CreateProjectKept ==
  ASSUME ProvInv, NEW c \in Provisioners, NEW s \in Slugs, NEW mode \in Modes,
         CreateProject(c, s, mode)
  PROVE  ProvInv'
<1>1. provs[c] = AtRest
  BY IdleIsAtRest DEF CreateProject
<1>2. births + 1 \in 0..MaxBirths /\ births + 1 # 0
  BY ProvAssumption DEF ProvInv, ProvFormed, ProvTyped, CreateProject
<1>3. PICK pc \in {"box", "role"} : pc = IF mode = "instance" THEN "box" ELSE "role"
  OBVIOUS
<1>4. PICK h \in HandlerRecs :
        h = [AtRest EXCEPT !.pc = pc, !.op = "create", !.s = s, !.pw = births + 1]
  <2>1. pc \in ProvSteps
    BY DEF ProvSteps, StepsOf, Makers
  <2> QED
    BY <1>2, <2>1, RestIsNothing DEF HandlerRecs, Makers
<1>5. /\ h.pc = pc /\ h.op = "create" /\ h.s = s /\ h.pw = births + 1
      /\ h.from = NoSlug /\ h.left = {}
  BY <1>4, RestIsNothing DEF HandlerRecs
<1>6. Proper(h)
  BY <1>2, <1>5, ProvAssumption DEF Proper, StepsOf, Makers
<1>7. /\ ~Exists(s) /\ births' = births + 1 /\ Starts(c, h)
      /\ UNCHANGED <<roles, databases, boxes, rows, routed, torn>>
  BY <1>3, <1>4 DEF CreateProject, things
<1>8. SourceKnown(h) /\ LeftKnown(h)
  BY <1>5 DEF SourceKnown, LeftKnown
<1> QED
  BY <1>1, <1>2, <1>5, <1>6, <1>7, <1>8, ProvStarts DEF Makers, ListSteps

LEMMA BranchCreateKept ==
  ASSUME ProvInv, NEW c \in Provisioners, NEW s \in Slugs, NEW timed \in BOOLEAN,
         BranchCreate(c, s, timed)
  PROVE  ProvInv'
<1>1. provs[c] = AtRest
  BY IdleIsAtRest DEF BranchCreate
<1>2. births + 1 \in 0..MaxBirths /\ births + 1 # 0
  BY ProvAssumption DEF ProvInv, ProvFormed, ProvTyped, BranchCreate
<1>3. PICK p \in Slugs : p = ParentOf[s]
  BY ProvAssumption DEF BranchCreate
<1>4. /\ Exists(p) /\ rows[p].parent = NoSlug /\ ~Exists(s) /\ p # s
  BY <1>3 DEF BranchCreate
<1>5. PICK pc \in {"role", "snapshot", "close"} :
        /\ pc = IF timed THEN "role" ELSE IF rows[p].mode = "instance" THEN "snapshot"
                ELSE "close"
        /\ timed => pc = "role"
        /\ ~timed => pc \in {"snapshot", "close"}
  OBVIOUS
<1>6. PICK op \in {"at-time", "branch"} :
        /\ op = IF timed THEN "at-time" ELSE "branch"
        /\ timed => op = "at-time"
        /\ ~timed => op = "branch"
  OBVIOUS
<1>7. PICK h \in HandlerRecs :
        h = [AtRest EXCEPT !.pc = pc, !.op = op, !.s = s, !.from = p, !.pw = births + 1]
  <2>1. pc \in ProvSteps
    BY DEF ProvSteps, StepsOf, Makers
  <2> QED
    BY <1>2, <2>1, RestIsNothing DEF HandlerRecs, Makers
<1>8. /\ h.pc = pc /\ h.op = op /\ h.s = s /\ h.pw = births + 1
      /\ h.from = p /\ h.left = {}
  BY <1>7, RestIsNothing DEF HandlerRecs
<1>9. pc \in StepsOf(op)
  BY <1>5, <1>6 DEF StepsOf
<1>10. Proper(h)
  BY <1>2, <1>4, <1>8, <1>9 DEF Proper, Makers
<1>11. /\ births' = births + 1 /\ Starts(c, h)
       /\ UNCHANGED <<roles, databases, boxes, rows, routed, torn>>
  BY <1>3, <1>5, <1>6, <1>7 DEF BranchCreate, things
<1>12. SourceKnown(h) /\ LeftKnown(h)
  BY <1>4, <1>8 DEF SourceKnown, LeftKnown
<1> QED
  BY <1>1, <1>2, <1>4, <1>8, <1>10, <1>11, <1>12, ProvStarts DEF Makers, ListSteps

LEMMA DeleteProjectKept ==
  ASSUME ProvInv, NEW c \in Provisioners, NEW s \in Slugs, DeleteProject(c, s)
  PROVE  ProvInv'
<1>1. provs[c] = AtRest
  BY IdleIsAtRest DEF DeleteProject
<1>2. PICK left \in SUBSET Slugs : left = {b \in Slugs : rows[b].parent = s}
  OBVIOUS
<1>3. PICK h \in HandlerRecs :
        h = [AtRest EXCEPT !.pc = "drop", !.op = "delete", !.s = s, !.left = left]
  <2>1. "drop" \in ProvSteps
    BY DEF ProvSteps, StepsOf, Makers
  <2> QED
    BY <2>1, RestIsNothing DEF HandlerRecs, Makers
<1>4. /\ h.pc = "drop" /\ h.op = "delete" /\ h.s = s /\ h.left = left /\ h.from = NoSlug
  BY <1>3, RestIsNothing DEF HandlerRecs
<1>5. s \notin left
  BY <1>2 DEF ProvInv, ProvFormed
<1>6. Proper(h)
  BY <1>4, <1>5 DEF Proper, StepsOf, Makers, ListSteps
<1>7. /\ Starts(c, h) /\ UNCHANGED births
      /\ UNCHANGED <<roles, databases, boxes, rows, routed, torn>>
  BY <1>2, <1>3 DEF DeleteProject, things
<1>8. SourceKnown(h) /\ LeftKnown(h)
  BY <1>2, <1>4 DEF SourceKnown, LeftKnown
<1>9. births' \in 0..MaxBirths
  BY <1>7 DEF ProvInv, ProvFormed, ProvTyped
<1> QED
  BY <1>1, <1>2, <1>4, <1>6, <1>7, <1>8, <1>9, ProvStarts DEF Makers, ListSteps

\* A restart cuts every handler and marks what it had in hand.
LEMMA ProvBootKept ==
  ASSUME ProvInv, ProvBoot
  PROVE  ProvInv'
<1>0. ProvTyped /\ ProvFormed /\ ThingsKept /\ FamilyKept
  BY DEF ProvInv, ProvFormed
<1>1. /\ \A c \in Provisioners : provs'[c] = AtRest
      /\ provs' = [c \in Provisioners |-> AtRest] /\ torn' = TRUE
      /\ UNCHANGED <<roles, databases, boxes, rows, routed, births>>
  BY DEF ProvBoot, things
<1>2. \A c \in Provisioners : ProvAt(c, "idle") => Touches(provs[c]) = {}
  <2>1. ASSUME NEW c \in Provisioners, ProvAt(c, "idle")
        PROVE  Touches(provs[c]) = {}
    <3>1. provs[c] = AtRest
      BY <2>1, IdleIsAtRest
    <3> QED
      BY <3>1, RestIsNothing
  <2> QED
    BY <2>1
<1>3. PICK ended \in SUBSET Provisioners :
        /\ ended = {c \in Provisioners : ~ProvAt(c, "idle")}
        /\ marred' = marred \cup UNION {Touches(provs[c]) : c \in ended}
  BY DEF ProvBoot
<1>4. marred \subseteq marred' /\ \A c \in Provisioners : Touches(provs[c]) \subseteq marred'
  BY <1>2, <1>3
<1>5. marred' \subseteq Slugs
  <2>1. \A c \in Provisioners : Touches(provs[c]) \subseteq Slugs
    BY <1>0, TouchesAreSlugs DEF ProvFormed, ProvTyped
  <2> QED
    BY <1>0, <1>3, <2>1 DEF ProvTyped
<1>6. ProvTyped'
  BY <1>0, <1>1, <1>5, RestIsNothing DEF ProvTyped
<1>7. ProvFormed'
  <2>1. ProvApart'
    BY <1>1, RestIsNothing DEF ProvApart, Crosses
  <2>2. \A c \in Provisioners : Proper(provs'[c])
    BY <1>1, RestIsNothing
  <2> QED
    BY <1>0, <1>1, <1>6, <2>1, <2>2 DEF ProvFormed, Proper, NextToDrop
<1>8. ASSUME NEW s \in Slugs \ marred'
      PROVE  SlugKept(s)'
  <2>1. \A c \in Provisioners : s \notin Makes(provs[c]) /\ provs[c].from # s
    BY <1>4, <1>8, ProvAssumption DEF Touches
  <2>2. ~Forgetting(s) /\ ~Closing(s)
    BY <2>1 DEF Forgetting, Closing
  <2>3. Near(s)
    BY <1>0, <1>4, <1>8, <2>1, <2>2 DEF ThingsKept, SlugKept
  <2>4. Whole(s)
    BY <1>0, <1>8, <2>2, <2>3, NearIsWhole
  <2>5. Near(s)'
    BY <1>1, <2>4 DEF Whole, Near, Exists, Emptied
  <2>6. ~Forgetting(s)'
    BY <1>1, RestIsNothing DEF Forgetting
  <2>7. \A c \in Provisioners : s \notin Makes(provs'[c])
    BY <1>1, RestIsNothing
  <2> QED
    BY <2>5, <2>6, <2>7 DEF SlugKept
<1>9. FamilyKept'
  <2>1. ASSUME NEW b \in Slugs \ marred', NEW p \in Slugs, rows'[b].parent = p
        PROVE  BranchKept(b, p)'
    <3>1. BranchKept(b, p)
      BY <1>0, <1>1, <1>4, <2>1 DEF FamilyKept
    <3>2. Deleted(p) => p \in marred'
      BY <1>4 DEF Deleted, Touches, Removes
    <3>3. \A c \in Provisioners :
            provs'[c].op # "delete" /\ p \notin Makes(provs'[c])
      BY <1>1, RestIsNothing
    <3> QED
      BY <1>1, <1>4, <3>1, <3>2, <3>3 DEF BranchKept, Exists
  <2>2. \A c \in Provisioners : SourceKnown(provs[c])' /\ LeftKnown(provs[c])'
    BY <1>1, RestIsNothing DEF SourceKnown, LeftKnown
  <2> QED
    BY <2>1, <2>2 DEF FamilyKept
<1>10. ListKept'
  BY <1>1 DEF ListKept
<1> QED
  BY <1>7, <1>8, <1>9, <1>10 DEF ProvInv, ThingsKept

LEMMA ProvBegins == ProvInit => ProvInv
<1> SUFFICES ASSUME ProvInit PROVE ProvInv
  OBVIOUS
<1>1. /\ \A c \in Provisioners : provs[c] = AtRest
      /\ \A s \in Slugs : /\ roles[s] = 0 /\ boxes[s] = 0 /\ databases[s] = "none"
                          /\ rows[s] = NoProject
  BY DEF ProvInit
<1>2. /\ NoProject \in ProjectRows /\ NoProject.pw = 0 /\ NoProject.parent = NoSlug
      /\ NoProject.mode = "shared" /\ 0 \in 0..MaxBirths
  BY ProvAssumption DEF NoProject, ProjectRows
<1>3. ProvTyped
  BY <1>2, RestIsNothing DEF ProvInit, ProvTyped
<1>4. ProvFormed
  <2>1. ProvApart
    BY <1>1, RestIsNothing DEF ProvApart, Crosses
  <2> QED
    BY <1>1, <1>2, <1>3, <2>1, RestIsNothing, ProvAssumption DEF ProvFormed
<1>5. \A s \in Slugs : Emptied(s) /\ ~Exists(s) /\ ~Forgetting(s)
  BY <1>1, <1>2, RestIsNothing DEF Emptied, Exists, Forgetting
<1>6. ThingsKept
  <2>1. \A s \in Slugs : Near(s)
    BY <1>5 DEF Near
  <2>2. \A c \in Provisioners : Makes(provs[c]) = {}
    BY <1>1, RestIsNothing
  <2> QED
    BY <1>5, <2>1, <2>2 DEF ThingsKept, SlugKept
<1>7. FamilyKept
  <2>1. \A b \in Slugs : rows[b].parent \notin Slugs
    BY <1>1, <1>2, ProvAssumption
  <2>2. \A c \in Provisioners : SourceKnown(provs[c]) /\ LeftKnown(provs[c])
    BY <1>1, RestIsNothing DEF SourceKnown, LeftKnown
  <2> QED
    BY <2>1, <2>2 DEF FamilyKept
<1>8. ListKept
  <2>1. \A c \in Provisioners : ~ProvAt(c, "write")
    BY <1>1, RestIsNothing DEF ProvAt
  <2>2. \A s \in Slugs : (IF rows[s].mode = "shared" THEN rows[s].pw ELSE 0) = 0
    BY <1>1, <1>2
  <2>3. Listable = [s \in Slugs |-> 0]
    BY <2>2 DEF Listable
  <2> QED
    BY <2>1, <2>3 DEF ListKept, ProvInit
<1> QED
  BY <1>4, <1>6, <1>7, <1>8 DEF ProvInv

LEMMA ProvStep ==
  ASSUME ProvInv, [ProvNext]_provVars
  PROVE  ProvInv'
<1>1. ASSUME NEW c \in Provisioners, NEW s \in Slugs, NEW mode \in Modes,
             CreateProject(c, s, mode)
      PROVE  ProvInv'
  BY <1>1, CreateProjectKept
<1>2. ASSUME NEW c \in Provisioners, NEW s \in Slugs, NEW timed \in BOOLEAN,
             BranchCreate(c, s, timed)
      PROVE  ProvInv'
  BY <1>2, BranchCreateKept
<1>3. ASSUME NEW c \in Provisioners, NEW s \in Slugs, DeleteProject(c, s)
      PROVE  ProvInv'
  BY <1>3, DeleteProjectKept
<1>4. ASSUME NEW c \in Provisioners, NEW s \in Slugs, DropData(c, s)
      PROVE  ProvInv'
  <2>1. \/ provs' = [provs EXCEPT ![c].pc = "forget", ![c].from = s]
        \/ /\ marred' = marred \cup (IF s = provs[c].s THEN {} ELSE {s}) /\ torn' = TRUE
           /\ IF s = provs[c].s THEN ProvEnds(c)
              ELSE provs' = [provs EXCEPT ![c].left = @ \ {s}]
           /\ UNCHANGED things
    BY <1>4 DEF DropData
  <2> QED
    BY <1>4, <2>1, DropDataKept, DropFailedKept
<1>5. ASSUME NEW c \in Provisioners,
             \/ MakeRole(c) \/ MakeBase(c) \/ UndoBase(c) \/ UndoRole(c) \/ Record1(c)
             \/ CloseSource(c) \/ BranchRole(c) \/ CopyBase(c) \/ Reopen(c)
      PROVE  ProvInv'
  BY <1>5, MakeRoleKept, MakeBaseKept, UndoBaseKept, UndoRoleKept, RowRecordKept,
     CloseSourceKept, BranchRoleKept, CopyBaseKept, ReopenKept
<1>6. ASSUME NEW c \in Provisioners,
             \/ MakeBox(c) \/ Snapshot(c) \/ RecordBox(c) \/ UndoBox(c)
             \/ ForgetRows(c) \/ ListRead(c) \/ ListWrite(c) \/ Adopt(c)
      PROVE  ProvInv'
  BY <1>6, MakeBoxKept, SnapshotKept, RecordBoxKept, UndoBoxKept, ForgetRowsKept,
     ListReadKept, ListWriteKept, AdoptKept
<1>7. CASE ProvBoot
  BY <1>7, ProvBootKept
<1>8. CASE UNCHANGED provVars
  <2>1. /\ UNCHANGED <<roles, databases, boxes, rows, routed, provs, births, marred, torn>>
    BY <1>8 DEF provVars
  <2>2. ProvFormed'
    BY <2>1 DEF ProvInv, ProvFormed, ProvTyped, ProvApart, Crosses, Proper, NextToDrop
  <2>3. ThingsKept'
    BY <2>1 DEF ProvInv, ThingsKept, SlugKept, Forgetting, Emptied, Near, Exists, Closing,
       MadeSoFar, Whole, ProvAt
  <2>4. FamilyKept'
    BY <2>1 DEF ProvInv, FamilyKept, BranchKept, Exists, Deleted, SourceKnown, LeftKnown
  <2>5. Listable' = Listable
    BY <2>1 DEF Listable
  <2>6. ListKept'
    BY <2>1, <2>5 DEF ProvInv, ListKept, ProvAt, OwesList
  <2> QED
    BY <2>2, <2>3, <2>4, <2>6 DEF ProvInv
<1> QED
  BY <1>1, <1>2, <1>3, <1>4, <1>5, <1>6, <1>7, <1>8 DEF ProvNext

LEMMA ProvInvSuffices == ProvInv => ProjectsWhole
<1> SUFFICES ASSUME ProvInv PROVE ProjectsWhole
  OBVIOUS
<1>0. ProvTyped /\ ProvFormed /\ ThingsKept /\ FamilyKept /\ ListKept
  BY DEF ProvInv, ProvFormed
<1> DEFINE worked == UNION {Touches(provs[c]) : c \in Provisioners}
<1>1. \A c \in Provisioners : Touches(provs[c]) \subseteq worked
  OBVIOUS
<1>2. ASSUME NEW s \in Slugs \ (marred \cup worked)
      PROVE  /\ Whole(s)
             /\ rows[s].parent # NoSlug =>
                  Exists(rows[s].parent) \/ rows[s].parent \in marred \cup worked
  <2>1. \A c \in Provisioners : s \notin Makes(provs[c]) /\ provs[c].from # s
    BY <1>1, <1>2, ProvAssumption DEF Touches
  <2>2. ~Forgetting(s) /\ ~Closing(s)
    BY <2>1 DEF Forgetting, Closing
  <2>3. Whole(s)
    BY <1>0, <1>2, <2>1, <2>2, NearIsWhole DEF ThingsKept, SlugKept
  <2>4. ASSUME NEW p \in Slugs, p = rows[s].parent
        PROVE  Exists(p) \/ p \in marred \cup worked
    <3>1. p \in marred \/ Deleted(p) \/ Exists(p)
      BY <1>0, <1>2, <2>4 DEF FamilyKept, BranchKept
    <3>2. Deleted(p) => p \in worked
      BY <1>1 DEF Deleted, Touches, Removes
    <3> QED
      BY <3>1, <3>2
  <2>5. rows[s].parent \in Slugs \cup {NoSlug}
    BY <1>0, ProvTypesSplit DEF ProjectRows
  <2> QED
    BY <2>3, <2>4, <2>5
<1>3. ASSUME ~torn, worked = {}
      PROVE  routed = Listable
  <2>1. \A c \in Provisioners : provs[c].op \in Makers \cup {"delete"} => Touches(provs[c]) # {}
    BY DEF Touches, Makes, Removes, Makers
  <2>2. \A c \in Provisioners : provs[c].op \notin Makers \cup {"delete"}
    BY <1>1, <1>3, <2>1
  <2>3. \A c \in Provisioners : provs[c].pc \notin ListSteps
    BY <1>0, <2>2, ListersAre
  <2>4. ~OwesList /\ \A c \in Provisioners : ~ProvAt(c, "write")
    BY <2>2, <2>3 DEF OwesList, Owes, ListSteps, ProvAt
  <2> QED
    BY <1>0, <1>3, <2>4 DEF ListKept
<1> QED
  BY <1>2, <1>3 DEF ProjectsWhole

\* A name nobody works on is a whole project or nothing at all, with its
\* parent, and the pooler lists what is there (projects.go, branching.go,
\* instances.go, sync.go).
THEOREM ProjectsStayWhole == ProvSpec => []ProjectsWhole
<1>1. ProvSpec => []ProvInv
  BY ProvBegins, ProvStep, PTL DEF ProvSpec
<1> QED
  BY <1>1, ProvInvSuffices, PTL

-----------------------------------------------------------------------------
(* The types, which the invariants above hold or imply.                    *)

LEMMA StoreTypes == StoreSpec => []StoreTypeOK
<1>1. StoreInv => StoreTypeOK
  BY DEF StoreInv
<1> QED
  BY <1>1, StoreInitInv, StoreNextInv, PTL DEF StoreSpec

LEMMA TusTypes == TusSpec => []TusTypeOK
<1>1. TusInv => TusTypeOK
  BY DEF TusInv
<1> QED
  BY <1>1, TusInitInv, TusNextInv, PTL DEF TusSpec

LEMMA QueueTypes == QueueSpec => []QueueTypeOK
<1>1. QueueInv => QueueTypeOK
  BY DEF QueueInv
<1> QED
  BY <1>1, QueueInitInv, QueueNextInv, PTL DEF QueueSpec

LEMMA AccessTypes == AccessSpec => []AccessTypeOK
<1>1. AccessInv => AccessTypeOK
  BY DEF AccessInv
<1> QED
  BY <1>1, AccessInitInv, AccessNextInv, PTL DEF AccessSpec

LEMMA UpdateTypes == UpdateSpec => []UpdateTypeOK
<1>1. UpdateInv => UpdateTypeOK
  BY DEF UpdateInv
<1> QED
  BY <1>1, UpdateStarts, UpdateStep, PTL DEF UpdateSpec

LEMMA ProvTypes == ProvSpec => []ProvTypeOK
<1>1. ASSUME ProvInv PROVE ProvTypeOK
  <2>1. ProvTyped
    BY <1>1 DEF ProvInv, ProvFormed
  <2>2. ASSUME NEW s \in Slugs
        PROVE  /\ rows[s].pw \in 0..MaxBirths
               /\ rows[s].parent \in Slugs \cup {NoSlug}
               /\ rows[s].mode \in {"shared", "instance"}
    BY <2>1, ProvTypesSplit DEF ProjectRows
  <2> QED
    BY <2>1, <2>2 DEF ProvTyped, ProvTypeOK
<1> QED
  BY <1>1, ProvBegins, ProvStep, PTL DEF ProvSpec

\* A row of the log is of an attempt on the ladder.
LEMMA HooksTypes == HooksSpec => []HooksTypeOK
<1>1. ASSUME HooksInv PROVE HooksTypeOK
  <2>1. ASSUME NEW d \in DOMAIN deliveries
        PROVE  /\ deliveries[d].hook \in Hooks
               /\ deliveries[d].pc \in {"try", "log", "trim", "over", "cut"}
               /\ deliveries[d].tried \in Seq(BOOLEAN)
               /\ deliveries[d].got \in 0..Attempts
               /\ DOMAIN deliveries[d].tried \subseteq 1..Attempts
    <3>1. /\ deliveries[d] \in DeliveryRows /\ deliveries[d].hook \in Hooks
          /\ deliveries[d].got \in Nat /\ deliveries[d].tried \in Seq(BOOLEAN)
          /\ Len(deliveries[d].tried) \in Nat
          /\ DOMAIN deliveries[d].tried = 1..Len(deliveries[d].tried)
      BY <1>1, RowTypes DEF HooksInv
    <3>2. deliveries[d].pc \in {"try", "log", "trim", "over", "cut"}
      BY <3>1 DEF DeliveryRows, HookSteps
    <3>3. deliveries[d].got <= Attempts /\ Len(deliveries[d].tried) <= Attempts
      BY <1>1 DEF HooksInv, OnLadder
    <3> QED
      BY <3>1, <3>2, <3>3, HooksAssumption
  <2>2. ASSUME NEW i \in DOMAIN log
        PROVE  /\ log[i].of \in DOMAIN deliveries /\ log[i].attempt \in 1..Attempts
               /\ log[i].ok \in BOOLEAN /\ log[i].payload \in BOOLEAN
    <3>1. log[i] \in LogRows
      BY <1>1 DEF HooksInv
    <3>2. log[i].ok \in BOOLEAN /\ log[i].payload \in BOOLEAN
      BY <3>1 DEF LogRows
    <3>3. log[i].of \in DOMAIN deliveries /\ log[i].attempt \in DOMAIN deliveries[log[i].of].tried
      BY <1>1 DEF HooksInv, RowsAreAttempts, IsAttempt
    <3>4. log[i].attempt \in 1..Attempts
      BY <2>1, <3>3
    <3> QED
      BY <3>2, <3>3, <3>4
  <2>3. /\ hooks \subseteq Hooks /\ Len(deliveries) <= MaxDeliveries
        /\ firing \in [on : BOOLEAN, left : SUBSET Hooks]
    BY <1>1 DEF HooksInv
  <2>4. firing.on \in BOOLEAN /\ firing.left \subseteq Hooks
    BY <2>3
  <2> QED
    BY <2>1, <2>2, <2>3, <2>4 DEF HooksTypeOK
<1> QED
  BY <1>1, HooksInitInv, HooksNextInv, PTL DEF HooksSpec

\* Who has a slot is a request.
LEMMA EdgeTypes == EdgeSpec => []EdgeTypeOK
<1>1. ASSUME EdgeInv PROVE EdgeTypeOK
  <2>1. ASSUME NEW hs, hs \subseteq EdgeClients
        PROVE  Cardinality(hs) \in 0..Cardinality(EdgeClients)
    <3>1. /\ Cardinality(hs) <= Cardinality(EdgeClients)
          /\ Cardinality(hs) \in Nat /\ Cardinality(EdgeClients) \in Nat
      BY <2>1, EdgeAssumption, FS_Subset, FS_CardinalityType
    <3> QED
      BY <3>1
  <2>2. Holding(Running) \subseteq EdgeClients /\ \A s \in Tenants : Seated(s) \subseteq EdgeClients
    BY DEF Holding, Seated
  <2>3. slotsHeld \in 0..Cardinality(EdgeClients)
    <3>1. slotsHeld = Cardinality(Holding(Running))
      BY <1>1 DEF EdgeInv, SlotsCounted
    <3>2. Cardinality(Holding(Running)) \in 0..Cardinality(EdgeClients)
      BY <2>1, <2>2
    <3> QED
      BY <3>1, <3>2
  <2>4. slugHeld \in [Tenants -> 0..Cardinality(EdgeClients)]
    <3>1. slugHeld \in [Tenants -> Nat] /\ \A s \in Tenants : slugHeld[s] = Cardinality(Seated(s))
      BY <1>1 DEF EdgeInv, SlotsCounted
    <3>2. \A s \in Tenants : Cardinality(Seated(s)) \in 0..Cardinality(EdgeClients)
      BY <2>1, <2>2
    <3> QED
      BY <3>1, <3>2
  <2>5. ToSet(warm) \subseteq Procs
    <3>1. warm \in Seq(Procs)
      BY <1>1 DEF EdgeInv, WarmCounted, WarmOnes
    <3> QED
      BY <3>1 DEF ToSet
  <2> QED
    BY <1>1, <2>3, <2>4, <2>5 DEF EdgeInv, EdgeTypeOK
<1> QED
  BY <1>1, EdgeInitInv, EdgeNextInv, PTL DEF EdgeSpec

=============================================================================
