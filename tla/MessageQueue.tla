------------------------------ MODULE MessageQueue ------------------------------
(***************************************************************************)
(* One message queue of a project (src/pgforge/queues.go): the SQL         *)
(* functions queue_send, queue_read, queue_delete_msg and queue_archive,   *)
(* called in transactions of consumers that may be slow, crash or come     *)
(* back late.  now() is the time a transaction began.                      *)
(***************************************************************************)
EXTENDS Naturals, FiniteSets, FiniteSetsExt

CONSTANTS
    MaxMsgs,        \* bound: messages ever sent; msg_id counts them
    Consumers,
    VisibleAfter,   \* vt_seconds of the reads
    Quantities,     \* qty of the reads
    LastSecond      \* bound: time stops here

ASSUME QueueAssumption ==
    /\ MaxMsgs \in Nat /\ VisibleAfter \in Nat /\ LastSecond \in Nat
    /\ Quantities \subseteq Nat /\ IsFiniteSet(Consumers)

VARIABLES
    queue,      \* the table: msg_id -> vt and read_ct of the rows there are
    archive,    \* ids in the archive table
    sent,       \* bigserial: the ids given out
    second,     \* the time
    reading,    \* open transactions of queue_read: begin, rows locked
    leases,     \* what each consumer was handed: id and the time it is for
    acked,      \* ids deleted by a consumer that had been handed them
    purged      \* ids removed by queuePurge

queueVars == <<queue, archive, sent, second, reading, leases, acked, purged>>

NoRead == [at |-> 0, rows |-> {}]
MsgIds == 1..MaxMsgs
Times == 0..LastSecond + VisibleAfter

QueueTypeOK ==
    /\ DOMAIN queue \subseteq MsgIds
    /\ \A m \in DOMAIN queue : queue[m] \in [vt : Times, ct : Nat]
    /\ archive \subseteq MsgIds /\ acked \subseteq MsgIds /\ purged \subseteq MsgIds
    /\ sent \in 0..MaxMsgs /\ second \in 0..LastSecond
    /\ reading \in [Consumers -> [at : 0..LastSecond, rows : SUBSET MsgIds]]
    /\ leases \in [Consumers -> SUBSET (MsgIds \X Times)]

QueueInit ==
    /\ queue = <<>> /\ archive = {} /\ sent = 0 /\ second = 0
    /\ reading = [c \in Consumers |-> NoRead]
    /\ leases = [c \in Consumers |-> {}]
    /\ acked = {} /\ purged = {}

Locked == UNION {reading[c].rows : c \in Consumers}
Drop(ids) == [m \in DOMAIN queue \ ids |-> queue[m]]

-----------------------------------------------------------------------------

Send ==      \* queue_send, queueSendTest
    /\ sent < MaxMsgs
    /\ sent' = sent + 1
    /\ queue' = [m \in DOMAIN queue \cup {sent + 1} |->
         IF m = sent + 1 THEN [vt |-> second, ct |-> 0] ELSE queue[m]]
    /\ UNCHANGED <<archive, second, reading, leases, acked, purged>>

\* FOR UPDATE without SKIP LOCKED would hand out what another transaction has.
VisibleToAll(c) == {m \in DOMAIN queue : queue[m].vt <= second}

\* The rows queue_read may take.
Visible(c) == {m \in DOMAIN queue : queue[m].vt <= second} \ Locked

\* The lowest ids first; the rows stay locked until the transaction ends.
ReadBegin(c, qty) ==
    /\ reading[c] = NoRead
    /\ \E rows \in SUBSET Visible(c) :
         /\ rows # {} /\ Cardinality(rows) = Min({qty, Cardinality(Visible(c))})
         /\ \A m \in rows, n \in Visible(c) \ rows : m < n
         /\ reading' = [reading EXCEPT ![c] = [at |-> second, rows |-> rows]]
    /\ UNCHANGED <<queue, archive, sent, second, leases, acked, purged>>

ReadCommit(c) ==
    LET vt == reading[c].at + VisibleAfter IN
    /\ reading[c] # NoRead
    /\ queue' = [m \in DOMAIN queue |->
         IF m \in reading[c].rows THEN [vt |-> vt, ct |-> queue[m].ct + 1] ELSE queue[m]]
    /\ leases' = [leases EXCEPT ![c] = @ \cup {<<m, vt>> : m \in reading[c].rows}]
    /\ reading' = [reading EXCEPT ![c] = NoRead]
    /\ UNCHANGED <<archive, sent, second, acked, purged>>

\* The consumer is gone: its transaction is rolled back, what it had been
\* handed is nobody's until the lock lapses.
ConsumerCrash(c) ==
    /\ reading' = [reading EXCEPT ![c] = NoRead]
    /\ leases' = [leases EXCEPT ![c] = {}]
    /\ UNCHANGED <<queue, archive, sent, second, acked, purged>>

\* queue_delete_msg with the id alone: also when the lock has lapsed, and when
\* another consumer has the message by now.  It waits for a row lock.
Ack(c, l) ==
    /\ l \in leases[c] /\ l[1] \notin Locked
    /\ queue' = Drop({l[1]})
    /\ acked' = acked \cup ({l[1]} \cap DOMAIN queue)
    /\ leases' = [leases EXCEPT ![c] = @ \ {l}]
    /\ UNCHANGED <<archive, sent, second, reading, purged>>

\* queue_archive: one statement deletes the row and inserts what it deleted.
Archive(c, l) ==
    /\ l \in leases[c] /\ l[1] \notin Locked
    /\ queue' = Drop({l[1]})
    /\ archive' = archive \cup ({l[1]} \cap DOMAIN queue)
    /\ leases' = [leases EXCEPT ![c] = @ \ {l}]
    /\ UNCHANGED <<sent, second, reading, acked, purged>>

\* TRUNCATE waits for every transaction that has the table, and keeps the ids.
queuePurge ==
    /\ Locked = {} /\ DOMAIN queue # {}
    /\ queue' = Drop(DOMAIN queue)
    /\ purged' = purged \cup DOMAIN queue
    /\ UNCHANGED <<archive, sent, second, reading, leases, acked>>

SecondPasses ==
    /\ second < LastSecond
    /\ second' = second + 1
    /\ UNCHANGED <<queue, archive, sent, reading, leases, acked, purged>>

QueueNext ==
    \/ Send \/ queuePurge \/ SecondPasses
    \/ \E c \in Consumers :
         \/ \E qty \in Quantities : ReadBegin(c, qty)
         \/ ReadCommit(c) \/ ConsumerCrash(c)
         \/ \E l \in leases[c] : Ack(c, l) \/ Archive(c, l)

QueueSpec == QueueInit /\ [][QueueNext]_queueVars

-----------------------------------------------------------------------------
\* Delivery is at least once and the lock is a lock: no two consumers hold a
\* message for the same time, not even when one's transaction took longer than
\* the timeout; a message that was sent is in the queue or the archive, never
\* in both, until a consumer that had been handed it deletes it or the queue is
\* purged; and one that nobody holds is there for the next reader.
QueueKeepsPromise ==
    /\ \A c, d \in Consumers, l \in UNION {leases[e] : e \in Consumers} :
         c # d /\ l \in leases[c] /\ l[2] > second =>
           \A k \in leases[d] : k[1] = l[1] => k[2] <= second
    /\ LET places == <<DOMAIN queue, archive, acked, purged>> IN
       \A m \in 1..sent :
         \E i \in DOMAIN places : \A j \in DOMAIN places : m \in places[j] <=> i = j
    /\ \A m \in DOMAIN queue :
         queue[m].vt > second =>
           queue[m].ct > 0
=============================================================================
