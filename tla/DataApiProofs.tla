---------------------------- MODULE DataApiProofs ----------------------------
(***************************************************************************)
(* Proofs about DataApi, for every number of projects, handlers, processes *)
(* and ports: type correctness, exclusive ports, no stray process, a proxy *)
(* that reaches its own project, settings that reach the process, and the  *)
(* lease book that the port pool implements.                               *)
(*                                                                         *)
(* PortsExclusive alone is not inductive. A claim writes a new object, and *)
(* only CachedBorn says that this object is not in the cache yet, so that  *)
(* no live port changes; HandlersNamed says that a handler which evicts an *)
(* entry has a project whose entry it can be.                              *)
(***************************************************************************)
EXTENDS DataApi, SequenceTheorems, FiniteSetTheorems, TLAPS

CachedBorn == \A s \in Cached : process[pgrstProc[s]] # "unborn"

HandlersNamed ==
  \A w \in Workers :
    /\ h[w].at # "idle" => h[w].slug \in Slugs
    /\ h[w].at \in {"probe", "proxy"} => h[w].pid \in Pids

IInv == TypeOK /\ PortsExclusive /\ CachedBorn /\ HandlersNamed

-----------------------------------------------------------------------------
(***************************************************************************)
(* The port pool.                                                          *)
(***************************************************************************)
\* The port handed out is free of every live entry, and leaves the pool.
LEMMA AllocExclusive ==
  ASSUME TypeOK, PortsExclusive, NEW q \in Ports, allocPgrstPort(q)
  PROVE  /\ q \notin Live
         /\ pgrstNext' \in FirstPort..(LastPort + 1)
         /\ pgrstFree' \in Seq(Ports)
         /\ \A i, j \in 1..Len(pgrstFree') : pgrstFree'[i] = pgrstFree'[j] => i = j
         /\ \A i \in 1..Len(pgrstFree') : pgrstFree'[i] \notin Live \cup {q}
<1> USE DataApiAssumption DEF Ports
<1>1. CASE pgrstFree # << >>
  <2> DEFINE n == Len(pgrstFree)
  <2>1. n \in Nat /\ n >= 1 /\ q = pgrstFree[n]
    BY <1>1 DEF TypeOK, allocPgrstPort
  <2>2. pgrstFree' = SubSeq(pgrstFree, 1, n - 1) /\ UNCHANGED pgrstNext
    BY <1>1 DEF allocPgrstPort
  <2>3. pgrstFree' \in Seq(Ports) /\ Len(pgrstFree') = n - 1
        /\ \A i \in 1..(n - 1) : pgrstFree'[i] = pgrstFree[i]
    <3>1. \A i \in 1..(n - 1) : pgrstFree[i] \in Ports
      BY <2>1 DEF TypeOK
    <3> HIDE DEF n, Ports
    <3> QED
      BY <2>1, <2>2, <3>1, SubSeqProperties, Z3
  <2>4. \A i \in 1..(n - 1) : i \in 1..n /\ i # n
    BY <2>1
  <2>5. n \in 1..n
    BY <2>1
  <2>6. /\ \A i, j \in 1..n : pgrstFree[i] = pgrstFree[j] => i = j
        /\ \A i \in 1..n : pgrstFree[i] \notin Live
    BY DEF PortsExclusive
  <2>7. q \notin Live /\ \A i \in 1..(n - 1) : pgrstFree[i] # q
    BY <2>1, <2>4, <2>5, <2>6
  <2>8. \A i, j \in 1..Len(pgrstFree') : pgrstFree'[i] = pgrstFree'[j] => i = j
    BY <2>3, <2>4, <2>6
  <2>9. \A i \in 1..Len(pgrstFree') : pgrstFree'[i] \notin Live \cup {q}
    BY <2>3, <2>4, <2>6, <2>7
  <2> QED
    BY <2>2, <2>3, <2>7, <2>8, <2>9 DEF TypeOK
<1>2. CASE pgrstFree = << >>
  <2>1. q \in Ports \ Live /\ pgrstNext' = q + 1 /\ pgrstFree' = << >>
    BY <1>2 DEF allocPgrstPort
  <2> QED
    BY <2>1 DEF TypeOK
<1> QED
  BY <1>1, <1>2

\* Killing processes neither creates one nor changes what is known of types.
LEMMA KillKeepsBirths ==
  ASSUME NEW S, process \in [Pids -> Lifetimes], Kill(S)
  PROVE  /\ process' \in [Pids -> Lifetimes]
         /\ \A i \in Pids : process'[i] = "unborn" <=> process[i] = "unborn"
BY DEF Kill, Lifetimes

\* An entry leaves the cache: the other live ports stay exclusive, and the
\* released port enters the pool exactly once.
LEMMA EvictExclusive ==
  ASSUME TypeOK, PortsExclusive, NEW s \in Cached, Evict(s)
  PROVE  /\ PortsExclusive'
         /\ pgrstProc' \in [Slugs -> Pids \cup {None}]
         /\ pgrstFree' \in Seq(Ports)
         /\ process' \in [Pids -> Lifetimes]
         /\ recent' \subseteq Slugs /\ proven' \subseteq Slugs
         /\ Cached' = Cached \ {s}
         /\ \A t \in Cached' : pgrstProc'[t] = pgrstProc[t]
         /\ \A i \in Pids : process'[i] = "unborn" <=> process[i] = "unborn"
<1> USE DataApiAssumption
<1> DEFINE n == Len(pgrstFree)
<1>1. s \in Slugs /\ pgrstProc[s] \in Pids /\ Port(s) \in Ports
  BY DEF TypeOK, Cached, Port
<1>2. /\ pgrstProc' = [pgrstProc EXCEPT ![s] = None]
      /\ pgrstFree' = Append(pgrstFree, Port(s))
      /\ object' = object
      /\ recent' = recent \ {s} /\ proven' = proven \ {s}
      /\ Kill({pgrstProc[s]})
  BY DEF Evict
<1>3. /\ pgrstProc' \in [Slugs -> Pids \cup {None}]
      /\ Cached' = Cached \ {s}
      /\ \A t \in Cached' : pgrstProc'[t] = pgrstProc[t]
  BY <1>1, <1>2 DEF TypeOK, Cached
<1>4. /\ process' \in [Pids -> Lifetimes]
      /\ \A i \in Pids : process'[i] = "unborn" <=> process[i] = "unborn"
  BY <1>2, KillKeepsBirths DEF TypeOK
<1>5. \A t \in Cached' : t \in Cached /\ t # s /\ Port(t)' = Port(t)
  BY <1>2, <1>3 DEF Port
<1>6. /\ \A t, u \in Cached : Port(t) = Port(u) => t = u
      /\ \A i, j \in 1..n : pgrstFree[i] = pgrstFree[j] => i = j
      /\ \A i \in 1..n : \A t \in Cached : pgrstFree[i] # Port(t)
  BY DEF PortsExclusive, Live
<1>7. /\ n \in Nat
      /\ pgrstFree' \in Seq(Ports) /\ Len(pgrstFree') = n + 1
      /\ \A i \in 1..n : pgrstFree'[i] = pgrstFree[i]
      /\ pgrstFree'[n + 1] = Port(s)
  <2>1. pgrstFree \in Seq(Ports) /\ n \in Nat
    BY DEF TypeOK
  <2> HIDE DEF n, Ports
  <2> QED
    BY <1>1, <1>2, <2>1, AppendProperties, Z3 DEF n
<1>8. \A i \in 1..(n + 1) : i \in 1..n \/ i = n + 1
  BY <1>7
<1>9. \A i, j \in 1..Len(pgrstFree') : pgrstFree'[i] = pgrstFree'[j] => i = j
  BY <1>6, <1>7, <1>8
<1>10. \A i \in 1..Len(pgrstFree') : \A t \in Cached' : pgrstFree'[i] # Port(t)'
  BY <1>5, <1>6, <1>7, <1>8
<1>11. \A t, u \in Cached' : Port(t)' = Port(u)' => t = u
  BY <1>5, <1>6
<1>12. PortsExclusive'
  BY <1>9, <1>10, <1>11 DEF PortsExclusive, Live
<1> QED
  BY <1>2, <1>3, <1>4, <1>7, <1>12 DEF TypeOK

\* One sweep of the reaper, whatever the order the map yields.
LEMMA ReapExclusive ==
  ASSUME TypeOK, PortsExclusive, Reap
  PROVE  /\ PortsExclusive'
         /\ pgrstProc' \in [Slugs -> Pids \cup {None}]
         /\ pgrstFree' \in Seq(Ports)
         /\ process' \in [Pids -> Lifetimes]
         /\ proven' \subseteq Slugs
         /\ \A t \in Cached' : t \in Cached /\ pgrstProc'[t] = pgrstProc[t]
         /\ \A i \in Pids : process'[i] = "unborn" <=> process[i] = "unborn"
<1> USE DataApiAssumption
<1> DEFINE D == Cached \ (Pinned \cup recent)
           m == Len(pgrstFree)
<1>1. D \subseteq Slugs /\ Cardinality(D) \in Nat
  BY FS_Subset, FS_CardinalityType DEF Cached
<1>2. PICK n \in 1..Cardinality(D) : \E order \in [1..n -> D] :
        /\ \A i, j \in 1..n : order[i] = order[j] => i = j
        /\ \A s \in D : \E i \in 1..n : order[i] = s
        /\ Kill({pgrstProc[s] : s \in D})
        /\ pgrstProc' = [s \in Slugs |-> IF s \in D THEN None ELSE pgrstProc[s]]
        /\ pgrstFree' = pgrstFree \o [i \in 1..n |-> Port(order[i])]
        /\ proven' = proven \ D
        /\ object' = object
  BY DEF Reap
<1>3. PICK order \in [1..n -> D] :
        /\ \A i, j \in 1..n : order[i] = order[j] => i = j
        /\ \A s \in D : \E i \in 1..n : order[i] = s
        /\ Kill({pgrstProc[s] : s \in D})
        /\ pgrstProc' = [s \in Slugs |-> IF s \in D THEN None ELSE pgrstProc[s]]
        /\ pgrstFree' = pgrstFree \o [i \in 1..n |-> Port(order[i])]
        /\ proven' = proven \ D
        /\ object' = object
  BY <1>2
<1> DEFINE released == [i \in 1..n |-> Port(order[i])]
<1>4. /\ n \in Nat /\ m \in Nat
      /\ \A i \in 1..n : order[i] \in D /\ released[i] = Port(order[i])
  <2>1. m \in Nat
    BY DEF TypeOK
  <2> HIDE DEF D, m
  <2> QED
    BY <1>1, <1>2, <1>3, <2>1
<1>5. \A s \in Cached : s \in Slugs /\ pgrstProc[s] \in Pids /\ Port(s) \in Ports
  BY DEF TypeOK, Cached, Port
<1>6. released \in Seq(Ports) /\ Len(released) = n
  <2>1. released \in [1..n -> Ports]
    BY <1>4, <1>5
  <2> HIDE DEF released
  <2> QED
    BY <2>1, <1>4
<1>7. /\ pgrstProc' \in [Slugs -> Pids \cup {None}]
      /\ \A t \in Cached' : t \in Cached /\ t \notin D /\ pgrstProc'[t] = pgrstProc[t]
  BY <1>1, <1>3 DEF TypeOK, Cached
<1>8. /\ process' \in [Pids -> Lifetimes]
      /\ \A i \in Pids : process'[i] = "unborn" <=> process[i] = "unborn"
  BY <1>3, KillKeepsBirths DEF TypeOK
<1>9. \A t \in Cached' : Port(t)' = Port(t)
  BY <1>3, <1>7 DEF Port
<1>10. /\ pgrstFree' \in Seq(Ports) /\ Len(pgrstFree') = m + n
       /\ \A i \in 1..(m + n) : pgrstFree'[i] =
            IF i <= m THEN pgrstFree[i] ELSE released[i - m]
  <2>1. pgrstFree \in Seq(Ports) /\ pgrstFree' = pgrstFree \o released
    BY <1>3 DEF TypeOK
  <2> HIDE DEF released, Ports
  <2>2. /\ pgrstFree \o released \in Seq(Ports)
        /\ Len(pgrstFree \o released) = Len(pgrstFree) + Len(released)
        /\ \A i \in 1..(Len(pgrstFree) + Len(released)) : (pgrstFree \o released)[i] =
             IF i <= Len(pgrstFree) THEN pgrstFree[i] ELSE released[i - Len(pgrstFree)]
    BY <1>6, <2>1, ConcatProperties
  <2> QED
    BY <1>6, <2>1, <2>2
<1>11. /\ \A t, u \in Cached : Port(t) = Port(u) => t = u
       /\ \A i, j \in 1..m : pgrstFree[i] = pgrstFree[j] => i = j
       /\ \A i \in 1..m : \A t \in Cached : pgrstFree[i] # Port(t)
  BY DEF PortsExclusive, Live
<1>12. \A i \in 1..n : released[i] \in Ports /\ order[i] \in Cached \cap D
  BY <1>4, <1>5
<1>13. \A i \in 1..(m + n) :
         \/ i \in 1..m /\ pgrstFree'[i] = pgrstFree[i]
         \/ i - m \in 1..n /\ ~(i <= m) /\ pgrstFree'[i] = Port(order[i - m])
  <2> HIDE DEF released, D, m
  <2> SUFFICES ASSUME NEW i \in 1..(m + n)
               PROVE  \/ i \in 1..m /\ pgrstFree'[i] = pgrstFree[i]
                      \/ i - m \in 1..n /\ ~(i <= m) /\ pgrstFree'[i] = Port(order[i - m])
    OBVIOUS
  <2>1. CASE i <= m
    BY <2>1, <1>4, <1>10
  <2>2. CASE ~(i <= m)
    <3>1. i - m \in 1..n
      BY <2>2, <1>4
    <3> QED
      BY <2>2, <3>1, <1>4, <1>10
  <2> QED
    BY <2>1, <2>2
<1>14. \A i, j \in 1..Len(pgrstFree') : pgrstFree'[i] = pgrstFree'[j] => i = j
  <2> HIDE DEF released, D, m
  <2> SUFFICES ASSUME NEW i \in 1..(m + n), NEW j \in 1..(m + n),
                      pgrstFree'[i] = pgrstFree'[j]
               PROVE  i = j
    BY <1>10
  <2>1. CASE i \in 1..m /\ j \in 1..m
    BY <2>1, <1>11, <1>13, <1>4
  <2>2. CASE ~(i \in 1..m) /\ ~(j \in 1..m)
    <3>1. i - m \in 1..n /\ j - m \in 1..n /\ Port(order[i - m]) = Port(order[j - m])
      BY <2>2, <1>13
    <3>2. i - m = j - m
      BY <3>1, <1>3, <1>11, <1>12
    <3> QED
      BY <3>2, <1>4
  <2>3. CASE i \in 1..m /\ ~(j \in 1..m)
    BY <2>3, <1>4, <1>11, <1>12, <1>13
  <2>4. CASE ~(i \in 1..m) /\ j \in 1..m
    BY <2>4, <1>4, <1>11, <1>12, <1>13
  <2> QED
    BY <2>1, <2>2, <2>3, <2>4
<1>15. \A i \in 1..Len(pgrstFree') : \A t \in Cached' : pgrstFree'[i] # Port(t)'
  <2> HIDE DEF released, D, m
  <2> SUFFICES ASSUME NEW i \in 1..(m + n), NEW t \in Cached'
               PROVE  pgrstFree'[i] # Port(t)
    BY <1>9, <1>10
  <2>1. CASE i \in 1..m
    BY <2>1, <1>4, <1>7, <1>11, <1>13
  <2>2. CASE ~(i \in 1..m)
    BY <2>2, <1>4, <1>7, <1>11, <1>12, <1>13
  <2> QED
    BY <2>1, <2>2
<1>16. \A t, u \in Cached' : Port(t)' = Port(u)' => t = u
  BY <1>7, <1>9, <1>11
<1>17. PortsExclusive'
  BY <1>14, <1>15, <1>16 DEF PortsExclusive, Live
<1> QED
  <2> proven' \subseteq Slugs
    BY <1>3 DEF TypeOK
  <2> QED
    BY <1>7, <1>8, <1>10, <1>17

\* A new entry: its object was unborn, so no live entry's port changes.
LEMMA ClaimExclusive ==
  ASSUME IInv, NEW w \in Workers, NEW s \in Slugs, Claim(w, s)
  PROVE  IInv'
<1> USE DataApiAssumption
<1>1. /\ pgrstProc[s] = None /\ Unborn # {}
      /\ TypeOK /\ PortsExclusive /\ CachedBorn /\ HandlersNamed
  BY DEF Claim, IInv
<1> DEFINE i == NextPid
<1>2. PICK q \in Ports :
        /\ allocPgrstPort(q)
        /\ object' = [object EXCEPT ![i] = [slug |-> s, port |-> q, settings |-> settings[s]]]
        /\ process' = [process EXCEPT ![i] = "starting"]
        /\ recent' = recent \cup {s}
        /\ pgrstProc' = [pgrstProc EXCEPT ![s] = i]
        /\ h' = [h EXCEPT ![w] = [at |-> "probe", slug |-> s, pid |-> i]]
        /\ UNCHANGED <<proven, config, ops>>
  BY DEF Claim
<1>3. i \in Pids /\ process[i] = "unborn" /\ i # None
  BY <1>1 DEF NextPid, Unborn
<1> HIDE DEF i
<1>4. /\ q \notin Live
      /\ pgrstNext' \in FirstPort..(LastPort + 1)
      /\ pgrstFree' \in Seq(Ports)
      /\ \A j, k \in 1..Len(pgrstFree') : pgrstFree'[j] = pgrstFree'[k] => j = k
      /\ \A j \in 1..Len(pgrstFree') : pgrstFree'[j] \notin Live \cup {q}
  BY <1>1, <1>2, AllocExclusive
<1>5. TypeOK'
  <2>1. /\ object' \in [Pids -> [slug : Slugs \cup {None}, port : Ports, settings : Nat]]
        /\ process' \in [Pids -> Lifetimes]
        /\ pgrstProc' \in [Slugs -> Pids \cup {None}]
        /\ h' \in [Workers -> [at : Steps, slug : Slugs \cup {None}, pid : Pids \cup {None}]]
    BY <1>1, <1>2, <1>3 DEF TypeOK, Lifetimes, Steps
  <2> QED
    BY <1>1, <1>2, <1>4, <2>1 DEF TypeOK, config
<1>6. /\ Cached' = Cached \cup {s} /\ s \notin Cached
      /\ pgrstProc'[s] = i
      /\ \A t \in Cached : pgrstProc'[t] = pgrstProc[t] /\ pgrstProc[t] \in Pids \ {i}
  BY <1>1, <1>2, <1>3 DEF TypeOK, Cached, CachedBorn
<1>7. /\ Port(s)' = q
      /\ \A t \in Cached : Port(t)' = Port(t)
  BY <1>1, <1>2, <1>3, <1>6 DEF TypeOK, Port
<1>8. PortsExclusive'
  <2>1. Live' = Live \cup {q}
    BY <1>6, <1>7 DEF Live
  <2>2. \A t, u \in Cached' : Port(t)' = Port(u)' => t = u
    BY <1>1, <1>4, <1>6, <1>7 DEF PortsExclusive, Live
  <2> QED
    BY <1>4, <2>1, <2>2 DEF PortsExclusive
<1>9. CachedBorn'
  BY <1>1, <1>2, <1>3, <1>6 DEF TypeOK, CachedBorn
<1>10. HandlersNamed'
  BY <1>1, <1>2, <1>3 DEF TypeOK, HandlersNamed
<1> QED
  BY <1>5, <1>8, <1>9, <1>10 DEF IInv

\* A handler moves on within its own request.
LEMMA GotoNamed ==
  ASSUME TypeOK, HandlersNamed, NEW w \in Workers, NEW from \in Steps, NEW to \in Steps,
         from # "idle", to # "probe", to = "proxy" => from = "probe",
         Goto(w, from, to)
  PROVE  /\ h[w].slug \in Slugs
         /\ h' \in [Workers -> [at : Steps, slug : Slugs \cup {None}, pid : Pids \cup {None}]]
         /\ HandlersNamed'
<1>1. h[w].slug \in Slugs /\ h[w].at = from
  BY DEF HandlersNamed, Goto
<1>2. CASE to = "idle"
  BY <1>1, <1>2 DEF TypeOK, HandlersNamed, Goto, Idle, Steps
<1>3. CASE to # "idle"
  <2>1. h' = [h EXCEPT ![w] = [@ EXCEPT !.at = to]]
    BY <1>3 DEF Goto
  <2>2. h[w] \in [at : Steps, slug : Slugs \cup {None}, pid : Pids \cup {None}]
    BY DEF TypeOK
  <2>3. /\ h'[w].at = to /\ h'[w].slug = h[w].slug /\ h'[w].pid = h[w].pid
        /\ \A v \in Workers : v # w => h'[v] = h[v]
    BY <2>1, <2>2 DEF TypeOK
  <2>4. HandlersNamed'
    BY <1>1, <2>3 DEF HandlersNamed
  <2>5. h' \in [Workers -> [at : Steps, slug : Slugs \cup {None}, pid : Pids \cup {None}]]
    BY <2>1, <2>2 DEF TypeOK
  <2> QED
    BY <1>1, <2>4, <2>5
<1> QED
  BY <1>2, <1>3

\* stopPostgREST keeps the invariant's part about the cache.
LEMMA StopKeeps ==
  ASSUME TypeOK, PortsExclusive, CachedBorn, NEW s \in Slugs, stopPostgREST(s)
  PROVE  /\ PortsExclusive' /\ CachedBorn'
         /\ pgrstProc' \in [Slugs -> Pids \cup {None}]
         /\ pgrstNext' = pgrstNext /\ object' = object
         /\ pgrstFree' \in Seq(Ports)
         /\ process' \in [Pids -> Lifetimes]
         /\ recent' \subseteq Slugs /\ proven' \subseteq Slugs
<1>1. CASE pgrstProc[s] = None
  BY <1>1 DEF stopPostgREST, cache, TypeOK, PortsExclusive, CachedBorn, Cached, Live, Port
<1>2. CASE pgrstProc[s] # None
  <2>1. s \in Cached /\ Evict(s)
    BY <1>2 DEF stopPostgREST, Cached
  <2>2. CachedBorn'
    BY <2>1, EvictExclusive DEF CachedBorn, TypeOK, Cached
  <2> QED
    BY <2>1, <2>2, EvictExclusive DEF Evict
<1> QED
  BY <1>1, <1>2

\* The invariant's part about the cache survives any step that leaves the
\* cache and the objects alone and brings no process back to "unborn".
LEMMA SameCache ==
  ASSUME TypeOK, PortsExclusive, CachedBorn,
         UNCHANGED <<pgrstProc, pgrstFree, object>>,
         \A i \in Pids : process'[i] = "unborn" => process[i] = "unborn"
  PROVE  PortsExclusive' /\ CachedBorn'
BY DEF TypeOK, PortsExclusive, CachedBorn, Cached, Live, Port

-----------------------------------------------------------------------------
(***************************************************************************)
(* The inductive invariant.                                                *)
(***************************************************************************)
LEMMA InitIInv == Init => IInv
<1> SUFFICES ASSUME Init PROVE IInv
  OBVIOUS
<1> USE DataApiAssumption
<1>1. TypeOK
  <2>1. pgrstFree \in Seq(Ports) /\ Len(pgrstFree) = 0
    BY DEF Init
  <2> QED
    BY <2>1 DEF Init, TypeOK, Blank, Idle, Steps, Lifetimes, Ports
<1>2. PortsExclusive /\ CachedBorn
  BY DEF Init, PortsExclusive, CachedBorn, Cached
<1>3. HandlersNamed
  BY DEF Init, HandlersNamed, Idle
<1> QED
  BY <1>1, <1>2, <1>3 DEF IInv

\* A request, its probe and its proxying.
LEMMA RequestStep ==
  ASSUME IInv, NEW w \in Workers, NEW s \in Slugs,
         Hit(w, s) \/ Claim(w, s) \/ StartFails(w, s)
           \/ ProbeOk(w) \/ ProbeFails(w) \/ Proxy(w)
  PROVE  IInv'
<1> USE DataApiAssumption DEF cache, config
<1>0. TypeOK /\ PortsExclusive /\ CachedBorn /\ HandlersNamed
  BY DEF IInv
<1>1. CASE Hit(w, s)
  <2>1. /\ h' \in [Workers -> [at : Steps, slug : Slugs \cup {None}, pid : Pids \cup {None}]]
        /\ HandlersNamed'
    BY <1>0, <1>1 DEF Hit, TypeOK, HandlersNamed, Steps
  <2>2. PortsExclusive' /\ CachedBorn'
    BY <1>0, <1>1, SameCache DEF Hit
  <2> QED
    BY <1>0, <1>1, <2>1, <2>2 DEF Hit, TypeOK, IInv
<1>2. CASE Claim(w, s)
  BY <1>2, ClaimExclusive
<1>3. CASE StartFails(w, s)
  <2>1. PICK q \in Ports : allocPgrstPort(q)
    BY <1>3 DEF StartFails
  <2>2. /\ pgrstNext' \in FirstPort..(LastPort + 1)
        /\ pgrstFree' \in Seq(Ports)
        /\ \A j, k \in 1..Len(pgrstFree') : pgrstFree'[j] = pgrstFree'[k] => j = k
        /\ \A j \in 1..Len(pgrstFree') : pgrstFree'[j] \notin Live
    BY <1>0, <2>1, AllocExclusive
  <2>3. Cached' = Cached /\ Live' = Live /\ \A t \in Cached : Port(t)' = Port(t)
    BY <1>3 DEF StartFails, Cached, Live, Port
  <2>4. PortsExclusive'
    BY <1>0, <2>2, <2>3 DEF PortsExclusive
  <2>5. CachedBorn' /\ HandlersNamed'
    BY <1>0, <1>3, <2>3 DEF StartFails, CachedBorn, HandlersNamed
  <2>6. ops' \in 0..MaxOps
    BY <1>0, <1>3 DEF StartFails, TypeOK
  <2> QED
    BY <1>0, <1>3, <2>2, <2>4, <2>5, <2>6 DEF StartFails, TypeOK, IInv
<1>4. CASE ProbeOk(w)
  <2>1. /\ h' \in [Workers -> [at : Steps, slug : Slugs \cup {None}, pid : Pids \cup {None}]]
        /\ HandlersNamed'
    BY <1>0, <1>4, GotoNamed DEF ProbeOk, Steps
  <2>2. PortsExclusive' /\ CachedBorn'
    BY <1>0, <1>4, SameCache DEF ProbeOk
  <2>3. proven' \subseteq Slugs
    BY <1>0, <1>4 DEF ProbeOk, Own, TypeOK
  <2> QED
    BY <1>0, <1>4, <2>1, <2>2, <2>3 DEF ProbeOk, TypeOK, IInv
<1>5. CASE ProbeFails(w)
  <2>1. /\ h' \in [Workers -> [at : Steps, slug : Slugs \cup {None}, pid : Pids \cup {None}]]
        /\ HandlersNamed' /\ h[w].slug \in Slugs /\ h[w].pid \in Pids
    BY <1>0, <1>5, GotoNamed DEF ProbeFails, Steps, Goto, HandlersNamed
  <2>2. CASE pgrstProc[h[w].slug] = h[w].pid
    <3>1. h[w].slug \in Cached /\ stopPostgREST(h[w].slug)
      BY <1>5, <2>1, <2>2 DEF ProbeFails, stopPostgREST, Cached
    <3> QED
      BY <1>0, <1>5, <2>1, <3>1, StopKeeps DEF ProbeFails, TypeOK, IInv
  <2>3. CASE pgrstProc[h[w].slug] # h[w].pid
    <3>1. PortsExclusive' /\ CachedBorn'
      BY <1>0, <1>5, <2>3, SameCache DEF ProbeFails
    <3> QED
      BY <1>0, <1>5, <2>1, <2>3, <3>1 DEF ProbeFails, TypeOK, IInv
  <2> QED
    BY <2>2, <2>3
<1>6. CASE Proxy(w)
  <2>1. /\ h' \in [Workers -> [at : Steps, slug : Slugs \cup {None}, pid : Pids \cup {None}]]
        /\ HandlersNamed'
    BY <1>0, <1>6, GotoNamed DEF Proxy, Steps
  <2>2. PortsExclusive' /\ CachedBorn'
    BY <1>0, <1>6, SameCache DEF Proxy
  <2>3. recent' \subseteq Slugs
    BY <1>0, <1>6 DEF Proxy, Own, TypeOK
  <2> QED
    BY <1>0, <1>6, <2>1, <2>2, <2>3 DEF Proxy, TypeOK, IInv
<1> QED
  BY <1>1, <1>2, <1>3, <1>4, <1>5, <1>6

\* Operators' commands.
LEMMA CommandStep ==
  ASSUME IInv, NEW w \in Workers, NEW s \in Slugs,
         ChangeSettings(w, s) \/ Disable(w, s) \/ Delete(w, s)
  PROVE  IInv'
<1> USE DataApiAssumption DEF cache, config
<1>0. TypeOK /\ PortsExclusive /\ CachedBorn /\ HandlersNamed
  BY DEF IInv
<1>1. ASSUME NEW to \in Steps \ {"idle", "probe", "proxy"}, Command(w, s, to)
      PROVE  /\ h' \in [Workers -> [at : Steps, slug : Slugs \cup {None}, pid : Pids \cup {None}]]
             /\ HandlersNamed'
             /\ ops < MaxOps /\ ops' = ops + 1
  BY <1>0, <1>1 DEF TypeOK, HandlersNamed, Command, Steps
<1>2. ops < MaxOps /\ ops' = ops + 1 => ops' \in 0..MaxOps
  BY <1>0 DEF TypeOK
<1>3. PortsExclusive' /\ CachedBorn'
  BY <1>0, SameCache DEF ChangeSettings, Disable, Delete
<1>4. CASE ChangeSettings(w, s)
  BY <1>0, <1>1, <1>2, <1>3, <1>4 DEF ChangeSettings, TypeOK, IInv, Steps
<1>5. CASE Disable(w, s)
  BY <1>0, <1>1, <1>2, <1>3, <1>5 DEF Disable, TypeOK, IInv, Steps
<1>6. CASE Delete(w, s)
  BY <1>0, <1>1, <1>2, <1>3, <1>6 DEF Delete, TypeOK, IInv, Steps
<1> QED
  BY <1>4, <1>5, <1>6

\* stopPostgREST by its callers, and the delete that goes on from there.
LEMMA StopStep ==
  ASSUME IInv, NEW w \in Workers,
         Stop(w) \/ DropStop(w) \/ DropDatabase(w) \/ DropRows(w)
  PROVE  IInv'
<1> USE DataApiAssumption DEF config
<1>0. TypeOK /\ PortsExclusive /\ CachedBorn /\ HandlersNamed
  BY DEF IInv
<1>1. CASE Stop(w)
  <2>1. /\ h[w].slug \in Slugs
        /\ h' \in [Workers -> [at : Steps, slug : Slugs \cup {None}, pid : Pids \cup {None}]]
        /\ HandlersNamed'
    BY <1>0, <1>1, GotoNamed DEF Stop, Steps
  <2> QED
    BY <1>0, <1>1, <2>1, StopKeeps DEF Stop, TypeOK, IInv
<1>2. CASE DropStop(w)
  <2>1. /\ h[w].slug \in Slugs
        /\ h' \in [Workers -> [at : Steps, slug : Slugs \cup {None}, pid : Pids \cup {None}]]
        /\ HandlersNamed'
    BY <1>0, <1>2, GotoNamed DEF DropStop, Steps
  <2> QED
    BY <1>0, <1>2, <2>1, StopKeeps DEF DropStop, TypeOK, IInv
<1>3. CASE DropDatabase(w)
  <2>1. /\ h' \in [Workers -> [at : Steps, slug : Slugs \cup {None}, pid : Pids \cup {None}]]
        /\ HandlersNamed'
    BY <1>0, <1>3, GotoNamed DEF DropDatabase, Steps
  <2>2. PortsExclusive' /\ CachedBorn'
    BY <1>0, <1>3, SameCache DEF DropDatabase, cache
  <2> QED
    BY <1>0, <1>3, <2>1, <2>2 DEF DropDatabase, TypeOK, IInv, cache
<1>4. CASE DropRows(w)
  <2>1. /\ h' \in [Workers -> [at : Steps, slug : Slugs \cup {None}, pid : Pids \cup {None}]]
        /\ HandlersNamed'
    BY <1>0, <1>4, GotoNamed DEF DropRows, Steps
  <2>2. PortsExclusive' /\ CachedBorn'
    BY <1>0, <1>4, SameCache DEF DropRows, cache
  <2> QED
    BY <1>0, <1>4, <2>1, <2>2 DEF DropRows, TypeOK, IInv, cache
<1> QED
  BY <1>1, <1>2, <1>3, <1>4

\* Steps that involve no handler in flight.
LEMMA ProjectStep ==
  ASSUME IInv, NEW s \in Slugs,
         Enable(s) \/ StopOnly(s) \/ IdleWindowElapses(s)
  PROVE  IInv'
<1> USE DataApiAssumption DEF config
<1>0. TypeOK /\ PortsExclusive /\ CachedBorn /\ HandlersNamed
  BY DEF IInv
<1>1. CASE Enable(s)
  <2>1. HandlersNamed' /\ ops' \in 0..MaxOps
    BY <1>0, <1>1 DEF Enable, HandlersNamed, TypeOK
  <2>2. PortsExclusive' /\ CachedBorn'
    BY <1>0, <1>1, SameCache DEF Enable, cache
  <2> QED
    BY <1>0, <1>1, <2>1, <2>2 DEF Enable, TypeOK, IInv, cache
<1>2. CASE StopOnly(s)
  <2>1. HandlersNamed' /\ ops' \in 0..MaxOps
    BY <1>0, <1>2 DEF StopOnly, HandlersNamed, TypeOK
  <2> QED
    BY <1>0, <1>2, <2>1, StopKeeps DEF StopOnly, TypeOK, IInv
<1>3. CASE IdleWindowElapses(s)
  <2>1. PortsExclusive' /\ CachedBorn'
    BY <1>0, <1>3, SameCache DEF IdleWindowElapses
  <2> QED
    BY <1>0, <1>3, <2>1 DEF IdleWindowElapses, TypeOK, HandlersNamed, IInv
<1> QED
  BY <1>1, <1>2, <1>3

LEMMA ReapStep ==
  ASSUME IInv, Reap
  PROVE  IInv'
<1>0. TypeOK /\ PortsExclusive /\ CachedBorn /\ HandlersNamed
  BY DEF IInv
<1>1. UNCHANGED <<pgrstNext, recent, object, enabled, settings, database, h, ops>>
  BY DEF Reap, config
<1>2. CachedBorn'
  BY <1>0, ReapExclusive DEF CachedBorn, TypeOK, Cached
<1>3. TypeOK' /\ PortsExclusive'
  BY <1>0, <1>1, ReapExclusive DEF TypeOK
<1> QED
  BY <1>0, <1>1, <1>2, <1>3 DEF HandlersNamed, IInv

LEMMA ProcessStep ==
  ASSUME IInv, NEW i \in Pids, Bind(i) \/ Exit(i) \/ Crash(i)
  PROVE  IInv'
<1>0. TypeOK /\ PortsExclusive /\ CachedBorn /\ HandlersNamed
  BY DEF IInv
<1>1. /\ process[i] # "unborn"
      /\ \E p \in {"up", "gone"} : process' = [process EXCEPT ![i] = p]
      /\ UNCHANGED <<cache, object, config, h, ops>>
  BY DEF Bind, Exit, Crash
<1>2. /\ process' \in [Pids -> Lifetimes]
      /\ \A j \in Pids : process'[j] = "unborn" => process[j] = "unborn"
  BY <1>0, <1>1 DEF TypeOK, Lifetimes
<1>3. PortsExclusive' /\ CachedBorn'
  BY <1>0, <1>1, <1>2, SameCache DEF cache
<1> QED
  BY <1>0, <1>1, <1>2, <1>3 DEF cache, config, TypeOK, HandlersNamed, IInv

LEMMA NextIInv == IInv /\ [Next]_vars => IInv'
<1> SUFFICES ASSUME IInv, [Next]_vars PROVE IInv'
  OBVIOUS
<1>1. CASE UNCHANGED vars
  BY <1>1 DEF IInv, TypeOK, PortsExclusive, CachedBorn, HandlersNamed,
              vars, Cached, Live, Port
<1>2. ASSUME NEW w \in Workers, HandlerStep(w)
      PROVE  IInv'
  <2>1. h[w].slug \in Slugs
    BY <1>2 DEF IInv, HandlersNamed, HandlerStep, ProbeOk, ProbeFails, Proxy,
                Stop, DropStop, DropDatabase, DropRows, Goto
  <2> QED
    BY <1>2, <2>1, RequestStep, StopStep DEF HandlerStep
<1>3. ASSUME NEW w \in Workers, NEW s \in Slugs,
             \/ Hit(w, s) \/ Claim(w, s) \/ StartFails(w, s)
             \/ ChangeSettings(w, s) \/ Disable(w, s) \/ Delete(w, s)
      PROVE  IInv'
  BY <1>3, RequestStep, CommandStep
<1>4. ASSUME NEW s \in Slugs, Enable(s) \/ StopOnly(s) \/ IdleWindowElapses(s)
      PROVE  IInv'
  BY <1>4, ProjectStep
<1>5. CASE Reap
  BY <1>5, ReapStep
<1>6. ASSUME NEW i \in Pids, Bind(i) \/ Exit(i) \/ Crash(i)
      PROVE  IInv'
  BY <1>6, ProcessStep
<1> QED
  BY <1>1, <1>2, <1>3, <1>4, <1>5, <1>6 DEF Next

LEMMA SpecIInv == Spec => []IInv
<1> QED
  BY InitIInv, NextIInv, PTL DEF Spec

\* Type correctness of the Data API component.
THEOREM TypeCorrect == Spec => []TypeOK
<1>1. IInv => TypeOK
  BY DEF IInv
<1> QED
  BY <1>1, SpecIInv, PTL

\* For every number of projects, handlers and ports: two projects never
\* share a Data API port, and the pool of released ports holds no port
\* twice and none that is in use.
THEOREM PortsAlwaysExclusive == Spec => []PortsExclusive
<1>1. IInv => PortsExclusive
  BY DEF IInv
<1> QED
  BY <1>1, SpecIInv, PTL

-----------------------------------------------------------------------------
(***************************************************************************)
(* Processes: none is lost, and a proven proxy stays in its project. The   *)
(* second needs the first (a process that binds a port is some entry's, so *)
(* by PortsExclusive the entry that holds the port), that one process at a *)
(* time holds a port, and that an entry's object is its own project's.     *)
(***************************************************************************)
OneHolder ==
  \A i, j \in Pids :
    /\ process[i] \in {"up", "killed"} /\ process[j] \in {"up", "killed"}
    /\ object[i].port = object[j].port
    => i = j

OwnObject    == \A s \in Cached : object[pgrstProc[s]].slug = s
ProvenCached == proven \subseteq Cached

PInv == NoStrayProcess /\ OneHolder /\ OwnObject /\ ProvenCached /\ ProvenProxyIsOwn

\* The entries of a set of projects leave the cache and are killed.
LEMMA EvictAllKeepsPInv ==
  ASSUME TypeOK, PInv, NEW D \in SUBSET Cached,
         Kill({pgrstProc[s] : s \in D}),
         pgrstProc' = [s \in Slugs |-> IF s \in D THEN None ELSE pgrstProc[s]],
         proven' = proven \ D, object' = object
  PROVE  PInv'
<1> USE DataApiAssumption
<1>1. /\ Cached' = Cached \ D
      /\ \A s \in Cached' : pgrstProc'[s] = pgrstProc[s]
  BY DEF TypeOK, Cached
<1>2. \A i \in Pids :
        /\ process'[i] \in {"up", "killed"} => process[i] \in {"up", "killed"}
        /\ process'[i] \in {"starting", "up"} =>
             process[i] \in {"starting", "up"} /\ \A s \in D : pgrstProc[s] # i
  BY DEF Kill, TypeOK
<1>3. NoStrayProcess'
  BY <1>1, <1>2 DEF NoStrayProcess, PInv, TypeOK, Cached
<1>4. OneHolder'
  BY <1>2 DEF OneHolder, PInv
<1>5. OwnObject' /\ ProvenCached'
  BY <1>1 DEF OwnObject, ProvenCached, PInv
<1>6. ProvenProxyIsOwn'
  BY <1>1, <1>2 DEF ProvenProxyIsOwn, PInv, Holders, Port
<1> QED
  BY <1>3, <1>4, <1>5, <1>6 DEF PInv

LEMMA StopKeepsPInv ==
  ASSUME TypeOK, PInv, NEW s \in Slugs, stopPostgREST(s)
  PROVE  PInv'
<1>1. CASE pgrstProc[s] = None
  BY <1>1 DEF stopPostgREST, cache, PInv, NoStrayProcess, OneHolder, OwnObject,
              ProvenCached, ProvenProxyIsOwn, Cached, Holders, Port
<1>2. CASE pgrstProc[s] # None
  <2>1. {s} \in SUBSET Cached /\ {pgrstProc[t] : t \in {s}} = {pgrstProc[s]}
    BY <1>2 DEF Cached
  <2>2. /\ Kill({pgrstProc[t] : t \in {s}})
        /\ pgrstProc' = [t \in Slugs |-> IF t \in {s} THEN None ELSE pgrstProc[t]]
        /\ proven' = proven \ {s} /\ object' = object
    BY <1>2, <2>1 DEF stopPostgREST, Evict, TypeOK
  <2> QED
    BY <2>1, <2>2, EvictAllKeepsPInv
<1> QED
  BY <1>1, <1>2

LEMMA ClaimKeepsPInv ==
  ASSUME IInv, PInv, NEW w \in Workers, NEW s \in Slugs, Claim(w, s)
  PROVE  PInv'
<1> USE DataApiAssumption
<1> DEFINE i == NextPid
<1>1. PICK q \in Ports :
        /\ allocPgrstPort(q)
        /\ object' = [object EXCEPT ![i] = [slug |-> s, port |-> q, settings |-> settings[s]]]
        /\ process' = [process EXCEPT ![i] = "starting"]
        /\ pgrstProc' = [pgrstProc EXCEPT ![s] = i]
        /\ proven' = proven
  BY DEF Claim
<1>2. i \in Pids /\ process[i] = "unborn" /\ i # None /\ pgrstProc[s] = None
  BY DEF Claim, NextPid, Unborn
<1> HIDE DEF i
<1>3. TypeOK /\ PortsExclusive /\ CachedBorn
  BY DEF IInv
<1>4. /\ Cached' = Cached \cup {s} /\ s \notin Cached /\ pgrstProc'[s] = i
      /\ \A t \in Cached : pgrstProc'[t] = pgrstProc[t] /\ pgrstProc[t] \in Pids \ {i}
  BY <1>1, <1>2, <1>3 DEF TypeOK, Cached, CachedBorn
<1>5. /\ process'[i] = "starting" /\ object'[i].slug = s
      /\ \A j \in Pids \ {i} : process'[j] = process[j] /\ object'[j] = object[j]
  BY <1>1, <1>2, <1>3 DEF TypeOK
<1>6. NoStrayProcess'
  <2> SUFFICES ASSUME NEW j \in Pids, process'[j] \in {"starting", "up"}
               PROVE  \E t \in Slugs : pgrstProc'[t] = j
    BY DEF NoStrayProcess
  <2>1. CASE j = i
    BY <2>1, <1>4
  <2>2. CASE j # i
    <3>1. PICK t \in Slugs : pgrstProc[t] = j
      BY <2>2, <1>5 DEF NoStrayProcess, PInv
    <3>2. t \in Cached
      BY <3>1 DEF Cached
    <3> QED
      BY <3>1, <3>2, <1>4
  <2> QED
    BY <2>1, <2>2
<1>7. OneHolder'
  BY <1>5 DEF OneHolder, PInv
<1>8. OwnObject' /\ ProvenCached'
  BY <1>1, <1>4, <1>5 DEF OwnObject, ProvenCached, PInv
<1>9. ProvenProxyIsOwn'
  <2> SUFFICES ASSUME NEW t \in Cached' \cap proven', NEW j \in Holders(Port(t))'
               PROVE  object'[j].slug = t
    BY DEF ProvenProxyIsOwn
  <2>1. t \in Cached \cap proven
    BY <1>1 DEF PInv, ProvenCached
  <2>2. j \in Pids \ {i} /\ Port(t)' = Port(t)
    BY <2>1, <1>4, <1>5 DEF Holders, Port
  <2>3. j \in Holders(Port(t))
    BY <2>2, <1>5 DEF Holders
  <2> QED
    BY <2>1, <2>2, <2>3, <1>5 DEF PInv, ProvenProxyIsOwn
<1> QED
  BY <1>6, <1>7, <1>8, <1>9 DEF PInv

\* The probe's 200 came from the only process on the port, and that process
\* knows this project's secret.
LEMMA ProbeOkKeepsPInv ==
  ASSUME IInv, PInv, NEW w \in Workers, ProbeOk(w)
  PROVE  PInv'
<1> DEFINE s == h[w].slug
<1>1. s \in Slugs /\ h[w].pid \in Pids
  BY DEF IInv, HandlersNamed, ProbeOk, Goto
<1>2. PICK i \in Holders(object[h[w].pid].port) : object[i].slug = s
  BY DEF ProbeOk
<1>3. UNCHANGED <<pgrstProc, object, process>> /\ proven' = proven \cup Own(w)
  BY DEF ProbeOk
<1>4. NoStrayProcess' /\ OneHolder' /\ OwnObject'
  BY <1>3 DEF PInv, NoStrayProcess, OneHolder, OwnObject, Cached
<1>5. Own(w) \subseteq Cached /\ \A t \in Own(w) : t = s /\ Port(t) = object[h[w].pid].port
  BY <1>1, DataApiAssumption DEF Own, Cached, Port
<1>6. ProvenCached'
  BY <1>3, <1>5 DEF PInv, ProvenCached, Cached
<1>7. ASSUME NEW t \in Cached \cap (proven \cup Own(w)), NEW j \in Holders(Port(t))
      PROVE  object[j].slug = t
  <2>1. CASE t \in Own(w)
    <3>1. j = i
      BY <1>2, <1>5, <1>7, <2>1 DEF PInv, OneHolder, Holders
    <3> QED
      BY <1>2, <1>5, <2>1, <3>1
  <2>2. CASE t \in proven
    BY <1>7, <2>2 DEF PInv, ProvenProxyIsOwn
  <2> QED
    BY <2>1, <2>2
<1>8. ProvenProxyIsOwn'
  BY <1>3, <1>7 DEF ProvenProxyIsOwn, Cached, Holders, Port
<1> QED
  BY <1>4, <1>6, <1>8 DEF PInv

\* A process that binds a free port is the entry's that owns the port.
LEMMA ProcessKeepsPInv ==
  ASSUME IInv, PInv, NEW i \in Pids, Bind(i) \/ Exit(i) \/ Crash(i)
  PROVE  PInv'
<1>0. TypeOK /\ PortsExclusive
  BY DEF IInv
<1>1. UNCHANGED <<pgrstProc, object, proven>>
  BY DEF Bind, Exit, Crash, cache
<1>2. CASE process' = [process EXCEPT ![i] = "gone"]
  <2>1. \A j \in Pids : process'[j] # "gone" => process'[j] = process[j]
    BY <1>0, <1>2 DEF TypeOK
  <2>2. NoStrayProcess' /\ OneHolder' /\ OwnObject' /\ ProvenCached'
    BY <1>1, <2>1 DEF PInv, NoStrayProcess, OneHolder, OwnObject, ProvenCached, Cached
  <2>3. ProvenProxyIsOwn'
    BY <1>1, <2>1 DEF PInv, ProvenProxyIsOwn, Holders, Port, Cached
  <2> QED
    BY <2>2, <2>3 DEF PInv
<1>3. CASE /\ process[i] = "starting" /\ Holders(object[i].port) = {}
           /\ process' = [process EXCEPT ![i] = "up"]
  <2>1. process'[i] = "up" /\ \A j \in Pids \ {i} : process'[j] = process[j]
    BY <1>0, <1>3 DEF TypeOK
  <2>2. NoStrayProcess' /\ OwnObject' /\ ProvenCached'
    BY <1>1, <1>3, <2>1 DEF PInv, NoStrayProcess, OwnObject, ProvenCached, Cached
  <2>3. \A j \in Pids : object[j].port = object[i].port => process[j] \notin {"up", "killed"}
    BY <1>3 DEF Holders
  <2>4. OneHolder'
    BY <1>1, <2>1, <2>3 DEF PInv, OneHolder
  <2>5. PICK t \in Slugs : pgrstProc[t] = i
    BY <1>3 DEF PInv, NoStrayProcess
  <2>6. t \in Cached /\ object[i].slug = t /\ Port(t) = object[i].port
    BY <2>5, DataApiAssumption DEF PInv, OwnObject, Cached, Port
  <2>7. ASSUME NEW s \in Cached \cap proven, NEW j \in Pids,
               object[j].port = Port(s), process'[j] \in {"up", "killed"}
        PROVE  object[j].slug = s
    <3>1. CASE j = i
      BY <2>6, <2>7, <3>1, <1>0 DEF PortsExclusive
    <3>2. CASE j # i
      BY <2>1, <2>7, <3>2 DEF PInv, ProvenProxyIsOwn, Holders
    <3> QED
      BY <3>1, <3>2
  <2>8. ProvenProxyIsOwn'
    BY <1>1, <2>7 DEF ProvenProxyIsOwn, Holders, Port, Cached
  <2> QED
    BY <2>2, <2>4, <2>8 DEF PInv
<1> QED
  BY <1>2, <1>3 DEF Bind, Exit, Crash

LEMMA NextPInv == IInv /\ PInv /\ [Next]_vars => PInv'
<1> SUFFICES ASSUME IInv, PInv, [Next]_vars PROVE PInv'
  OBVIOUS
<1>0. TypeOK /\ HandlersNamed
  BY DEF IInv
<1>1. ASSUME UNCHANGED <<pgrstProc, object, process, proven>>
      PROVE  PInv'
  BY <1>1 DEF PInv, NoStrayProcess, OneHolder, OwnObject, ProvenCached,
              ProvenProxyIsOwn, Cached, Holders, Port
<1>2. CASE UNCHANGED vars
  BY <1>1, <1>2 DEF vars
<1>3. ASSUME NEW w \in Workers, HandlerStep(w)
      PROVE  PInv'
  <2>1. h[w].slug \in Slugs
    BY <1>0, <1>3 DEF HandlersNamed, HandlerStep, ProbeOk, ProbeFails, Proxy,
                      Stop, DropStop, DropDatabase, DropRows, Goto
  <2>2. CASE ProbeOk(w)
    BY <2>2, ProbeOkKeepsPInv
  <2>3. CASE ProbeFails(w)
    <3>1. CASE pgrstProc[h[w].slug] = h[w].pid
      <4>1. h[w].pid \in Pids
        BY <1>0, <2>3 DEF ProbeFails, Goto, HandlersNamed
      <4>2. stopPostgREST(h[w].slug)
        BY <2>3, <3>1, <4>1, DataApiAssumption DEF ProbeFails, stopPostgREST
      <4> QED
        BY <1>0, <2>1, <4>2, StopKeepsPInv
    <3>2. CASE pgrstProc[h[w].slug] # h[w].pid
      BY <1>1, <2>3, <3>2 DEF ProbeFails, cache
    <3> QED
      BY <3>1, <3>2
  <2>4. CASE Proxy(w) \/ DropDatabase(w) \/ DropRows(w)
    BY <1>1, <2>4 DEF Proxy, DropDatabase, DropRows, cache
  <2>5. CASE Stop(w) \/ DropStop(w)
    BY <1>0, <2>1, <2>5, StopKeepsPInv DEF Stop, DropStop
  <2> QED
    BY <1>3, <2>2, <2>3, <2>4, <2>5 DEF HandlerStep
<1>4. ASSUME NEW w \in Workers, NEW s \in Slugs,
             \/ Hit(w, s) \/ Claim(w, s) \/ StartFails(w, s)
             \/ ChangeSettings(w, s) \/ Disable(w, s) \/ Delete(w, s)
      PROVE  PInv'
  <2>1. CASE Claim(w, s)
    BY <2>1, ClaimKeepsPInv
  <2> QED
    BY <1>1, <1>4, <2>1 DEF Hit, StartFails, ChangeSettings, Disable, Delete, cache
<1>5. ASSUME NEW s \in Slugs, Enable(s) \/ StopOnly(s) \/ IdleWindowElapses(s)
      PROVE  PInv'
  <2>1. CASE StopOnly(s)
    BY <1>0, <2>1, StopKeepsPInv DEF StopOnly
  <2> QED
    BY <1>1, <1>5, <2>1 DEF Enable, IdleWindowElapses, cache
<1>6. CASE Reap
  <2> DEFINE D == Cached \ (Pinned \cup recent)
  <2>1. /\ Kill({pgrstProc[s] : s \in D})
        /\ pgrstProc' = [s \in Slugs |-> IF s \in D THEN None ELSE pgrstProc[s]]
        /\ proven' = proven \ D /\ object' = object
    BY <1>6 DEF Reap
  <2> HIDE DEF D
  <2>2. D \in SUBSET Cached
    BY DEF D
  <2> QED
    BY <1>0, <2>1, <2>2, EvictAllKeepsPInv
<1>7. ASSUME NEW i \in Pids, Bind(i) \/ Exit(i) \/ Crash(i)
      PROVE  PInv'
  BY <1>7, ProcessKeepsPInv
<1> QED
  BY <1>2, <1>3, <1>4, <1>5, <1>6, <1>7 DEF Next

LEMMA SpecPInv == Spec => []PInv
<1>1. Init => PInv
  BY DEF Init, PInv, NoStrayProcess, OneHolder, OwnObject, ProvenCached,
         ProvenProxyIsOwn, Cached
<1> QED
  BY <1>1, NextPInv, SpecIInv, PTL DEF Spec

\* No PostgREST process is ever lost: one that runs and has not been killed
\* is some project's cached entry, so a stop or the reaper will find it.
THEOREM NoProcessIsLost == Spec => []NoStrayProcess
<1>1. PInv => NoStrayProcess
  BY DEF PInv
<1> QED
  BY <1>1, SpecPInv, PTL

\* Once probed, a cached proxy never points at another project's process,
\* for every number of projects, handlers, processes and ports.
THEOREM ProvenProxyStaysOwn == Spec => []ProvenProxyIsOwn
<1>1. PInv => ProvenProxyIsOwn
  BY DEF PInv
<1> QED
  BY <1>1, SpecPInv, PTL

-----------------------------------------------------------------------------
(***************************************************************************)
(* Settings reach the process. ConfigFollowed alone is not inductive: the  *)
(* last step of a deletion disables a project without stopping anything,   *)
(* and only DroppedFirst says that its database is gone by then.           *)
(***************************************************************************)
DroppedFirst ==
  \A w \in Workers : h[w].at = "dropRows" => ~database[h[w].slug]

CInv == ConfigFollowed /\ DroppedFirst

\* A cached process that runs with what its project has no longer.
Stale(s) == database[s] /\ (~enabled[s] \/ object[pgrstProc[s]].settings # settings[s])

\* A step that caches nothing new, makes nothing stale and ends no handler
\* that has yet to stop a process that is still there.
LEMMA StaysFollowed ==
  ASSUME ConfigFollowed, Cached' \subseteq Cached,
         \A s \in Cached' : Stale(s)' => Stale(s),
         \A w \in Workers : h[w].at = "stop" /\ h[w].slug \in Cached' => h'[w] = h[w]
  PROVE  ConfigFollowed'
BY DEF ConfigFollowed, Stale

\* What stopPostgREST leaves in the cache is as it was.
LEMMA StopLeaves ==
  ASSUME TypeOK, NEW s \in Slugs, stopPostgREST(s), UNCHANGED config
  PROVE  /\ Cached' \subseteq Cached /\ s \notin Cached'
         /\ \A t \in Cached' : Stale(t)' => Stale(t)
<1> USE DataApiAssumption
<1>1. CASE pgrstProc[s] = None
  BY <1>1 DEF stopPostgREST, cache, config, Cached, Stale
<1>2. CASE pgrstProc[s] # None
  BY <1>2 DEF stopPostgREST, Evict, TypeOK, config, Cached, Stale
<1> QED
  BY <1>1, <1>2

\* A request: what it starts has the settings of this moment, and what its
\* probe gives up leaves the cache.
LEMMA RequestFollowed ==
  ASSUME IInv, CInv, NEW w \in Workers, NEW s \in Slugs,
         Hit(w, s) \/ Claim(w, s) \/ StartFails(w, s)
           \/ ProbeOk(w) \/ ProbeFails(w) \/ Proxy(w)
  PROVE  CInv'
<1> USE DataApiAssumption
<1>0. TypeOK /\ CachedBorn /\ HandlersNamed /\ ConfigFollowed /\ DroppedFirst
  BY DEF IInv, CInv
<1>1. UNCHANGED config
  BY DEF Hit, Claim, StartFails, ProbeOk, ProbeFails, Proxy
<1>2. /\ \A v \in Workers : h[v].at = "stop" => h'[v] = h[v]
      /\ DroppedFirst'
  <2>1. CASE Hit(w, s) \/ Claim(w, s)
    <3>1. /\ h[w] = Idle /\ h'[w].at \in {"proxy", "probe"}
          /\ \A v \in Workers : v # w => h'[v] = h[v]
      BY <2>1, <1>0 DEF Hit, Claim, TypeOK
    <3>2. h[w].at = "idle" /\ database' = database
      BY <3>1, <1>1 DEF Idle, config
    <3> QED
      BY <3>1, <3>2, <1>0 DEF DroppedFirst
  <2>2. CASE StartFails(w, s)
    BY <2>2, <1>0 DEF StartFails, DroppedFirst, config
  <2>3. CASE ProbeOk(w) \/ ProbeFails(w) \/ Proxy(w)
    <3>1. h[w].at \in {"probe", "proxy"}
      BY <2>3 DEF ProbeOk, ProbeFails, Proxy, Goto
    <3>2. h[w] \in [at : Steps, slug : Slugs \cup {None}, pid : Pids \cup {None}]
      BY <1>0 DEF TypeOK
    <3>3. /\ h'[w].at \in {"idle", "proxy"}
          /\ \A v \in Workers : v # w => h'[v] = h[v]
      BY <2>3, <3>2, <1>0 DEF ProbeOk, ProbeFails, Proxy, Goto, Idle, TypeOK
    <3> QED
      BY <3>1, <3>3, <1>0, <1>1 DEF TypeOK, DroppedFirst, config
  <2> QED
    BY <2>1, <2>2, <2>3
<1>3. CASE Claim(w, s)
  <2>1. pgrstProc[s] = None /\ enabled[s] /\ Unborn # {}
    BY <1>3 DEF Claim
  <2> DEFINE i == NextPid
  <2>2. PICK q \in Ports :
          /\ object' = [object EXCEPT ![i] = [slug |-> s, port |-> q, settings |-> settings[s]]]
          /\ pgrstProc' = [pgrstProc EXCEPT ![s] = i]
    BY <1>3 DEF Claim
  <2>3. i \in Pids /\ process[i] = "unborn"
    BY <2>1 DEF NextPid, Unborn
  <2> HIDE DEF i
  <2>4. /\ pgrstProc'[s] = i /\ object'[i].settings = settings[s]
        /\ \A t \in Cached' \ {s} : /\ t \in Cached /\ pgrstProc'[t] = pgrstProc[t]
                                    /\ pgrstProc[t] \in Pids \ {i}
    BY <1>0, <2>1, <2>2, <2>3 DEF TypeOK, Cached, CachedBorn
  <2>5. \A t \in Cached' \ {s} : object'[pgrstProc'[t]] = object[pgrstProc[t]]
    BY <1>0, <2>2, <2>3, <2>4 DEF TypeOK
  <2>6. \A t \in Cached' : Stale(t)' => t \in Cached /\ Stale(t)
    BY <1>1, <2>1, <2>4, <2>5 DEF Stale, config
  <2>7. ConfigFollowed'
    BY <1>0, <1>2, <2>6 DEF ConfigFollowed, Stale
  <2> QED
    BY <1>2, <2>7 DEF CInv
<1>4. CASE ProbeFails(w) /\ pgrstProc[h[w].slug] = h[w].pid
  <2>1. h[w].pid \in Pids /\ h[w].slug \in Slugs
    BY <1>0, <1>4 DEF ProbeFails, Goto, HandlersNamed
  <2>2. stopPostgREST(h[w].slug)
    BY <1>4, <2>1 DEF ProbeFails, stopPostgREST
  <2>3. /\ Cached' \subseteq Cached
        /\ \A t \in Cached' : Stale(t)' => Stale(t)
    BY <1>0, <1>1, <2>1, <2>2, StopLeaves
  <2>4. ConfigFollowed'
    BY <1>0, <1>2, <2>3, StaysFollowed
  <2> QED
    BY <1>2, <2>4 DEF CInv
<1>5. CASE UNCHANGED <<pgrstProc, object>>
  <2>1. Cached' = Cached /\ \A t \in Cached : Stale(t)' <=> Stale(t)
    BY <1>1, <1>5 DEF Cached, Stale, config
  <2>2. ConfigFollowed'
    BY <1>0, <1>2, <2>1, StaysFollowed
  <2> QED
    BY <1>2, <2>2 DEF CInv
<1>6. Claim(w, s) \/ (ProbeFails(w) /\ pgrstProc[h[w].slug] = h[w].pid)
        \/ UNCHANGED <<pgrstProc, object>>
  BY DEF Hit, StartFails, ProbeOk, ProbeFails, Proxy, cache
<1> QED
  BY <1>3, <1>4, <1>5, <1>6

\* What an operator changes, the same handler is about to stop.
LEMMA CommandFollowed ==
  ASSUME IInv, CInv, NEW w \in Workers, NEW s \in Slugs,
         ChangeSettings(w, s) \/ Disable(w, s) \/ Delete(w, s)
  PROVE  CInv'
<1>0. TypeOK /\ ConfigFollowed /\ DroppedFirst
  BY DEF IInv, CInv
<1>1. PICK to \in {"stop", "dropStop"} : Command(w, s, to)
  BY DEF ChangeSettings, Disable, Delete
<1>2. /\ h[w] = Idle
      /\ h' = [h EXCEPT ![w] = [at |-> to, slug |-> s, pid |-> None]]
  BY <1>1 DEF Command
<1>3. /\ h'[w].at = to /\ h'[w].slug = s
      /\ \A v \in Workers : v # w => h'[v] = h[v]
      /\ \A v \in Workers : h[v].at = "stop" => h'[v] = h[v]
  BY <1>0, <1>2 DEF TypeOK, Idle
<1>4. UNCHANGED <<pgrstProc, object, database>> /\ Cached' = Cached
  BY DEF ChangeSettings, Disable, Delete, cache, config, Cached
<1>5. DroppedFirst'
  BY <1>0, <1>1, <1>3, <1>4 DEF DroppedFirst
<1>6. CASE Delete(w, s)
  <2>1. \A t \in Cached : Stale(t)' <=> Stale(t)
    BY <1>4, <1>6 DEF Delete, Stale, config
  <2> QED
    BY <1>0, <1>3, <1>4, <1>5, <2>1, StaysFollowed DEF CInv
<1>7. CASE ChangeSettings(w, s) \/ Disable(w, s)
  <2>1. to = "stop"
    <3>1. Command(w, s, "stop")
      BY <1>7 DEF ChangeSettings, Disable
    <3>2. h'[w].at = "stop"
      BY <1>0, <3>1 DEF Command, TypeOK
    <3> QED
      BY <1>3, <3>2
  <2>2. \A t \in Slugs : t # s => settings'[t] = settings[t] /\ enabled'[t] = enabled[t]
    BY <1>0, <1>7 DEF ChangeSettings, Disable, TypeOK
  <2>3. \A t \in Cached : t # s => (Stale(t)' <=> Stale(t))
    BY <1>4, <2>2 DEF Stale, Cached
  <2>4. ConfigFollowed'
    BY <1>0, <1>3, <1>4, <2>1, <2>3 DEF ConfigFollowed, Stale
  <2> QED
    BY <1>5, <2>4 DEF CInv
<1> QED
  BY <1>6, <1>7

\* The stop itself, and the steps of a deletion.
LEMMA StopFollowed ==
  ASSUME IInv, CInv, NEW w \in Workers,
         Stop(w) \/ DropStop(w) \/ DropDatabase(w) \/ DropRows(w)
  PROVE  CInv'
<1>0. TypeOK /\ HandlersNamed /\ ConfigFollowed /\ DroppedFirst
  BY DEF IInv, CInv
<1>1. /\ h[w].slug \in Slugs
      /\ h[w] \in [at : Steps, slug : Slugs \cup {None}, pid : Pids \cup {None}]
  BY <1>0 DEF Stop, DropStop, DropDatabase, DropRows, Goto, HandlersNamed, TypeOK
<1>2. \A v \in Workers : v # w => h'[v] = h[v]
  BY <1>0 DEF Stop, DropStop, DropDatabase, DropRows, Goto, TypeOK
<1>3. CASE Stop(w)
  <2>1. h'[w] = Idle /\ stopPostgREST(h[w].slug) /\ UNCHANGED config
    BY <1>0, <1>3 DEF Stop, Goto, TypeOK
  <2>2. /\ Cached' \subseteq Cached /\ h[w].slug \notin Cached'
        /\ \A t \in Cached' : Stale(t)' => Stale(t)
    BY <1>0, <1>1, <2>1, StopLeaves
  <2>3. \A v \in Workers : h[v].at = "stop" /\ h[v].slug \in Cached' => h'[v] = h[v]
    BY <1>2, <2>2
  <2>4. ConfigFollowed'
    BY <1>0, <2>2, <2>3, StaysFollowed
  <2>5. DroppedFirst'
    BY <1>0, <1>2, <2>1 DEF DroppedFirst, config, Idle
  <2> QED
    BY <2>4, <2>5 DEF CInv
<1>4. CASE DropStop(w)
  <2>1. h[w].at = "dropStop" /\ h'[w].at = "dropDatabase"
        /\ stopPostgREST(h[w].slug) /\ UNCHANGED config
    BY <1>0, <1>1, <1>4 DEF DropStop, Goto, TypeOK
  <2>2. /\ Cached' \subseteq Cached
        /\ \A t \in Cached' : Stale(t)' => Stale(t)
    BY <1>0, <1>1, <2>1, StopLeaves
  <2>3. ConfigFollowed'
    BY <1>0, <1>2, <2>1, <2>2, StaysFollowed
  <2>4. DroppedFirst'
    BY <1>0, <1>2, <2>1 DEF DroppedFirst, config
  <2> QED
    BY <2>3, <2>4 DEF CInv
<1>5. CASE DropDatabase(w)
  <2>1. /\ h[w].at = "dropDatabase" /\ h'[w].at = "dropRows" /\ h'[w].slug = h[w].slug
        /\ database' = [database EXCEPT ![h[w].slug] = FALSE]
        /\ UNCHANGED <<pgrstProc, object, enabled, settings>>
    BY <1>0, <1>1, <1>5 DEF DropDatabase, Goto, TypeOK, cache
  <2>2. ~database'[h[w].slug] /\ \A t \in Slugs : database'[t] => database[t]
    BY <1>0, <1>1, <2>1 DEF TypeOK
  <2>3. Cached' = Cached /\ \A t \in Cached : Stale(t)' => Stale(t)
    BY <2>1, <2>2 DEF Cached, Stale
  <2>4. ConfigFollowed'
    BY <1>0, <1>2, <2>1, <2>3, StaysFollowed
  <2>5. DroppedFirst'
    <3>1. \A v \in Workers : h[v].at = "dropRows" => h[v].slug \in Slugs
      BY <1>0 DEF HandlersNamed
    <3> QED
      BY <1>0, <1>2, <2>1, <2>2, <3>1 DEF DroppedFirst
  <2> QED
    BY <2>4, <2>5 DEF CInv
<1>6. CASE DropRows(w)
  <2>1. /\ h[w].at = "dropRows" /\ h'[w] = Idle
        /\ enabled' = [enabled EXCEPT ![h[w].slug] = FALSE]
        /\ UNCHANGED <<pgrstProc, object, settings, database>>
    BY <1>0, <1>6 DEF DropRows, Goto, TypeOK, cache
  <2>2. /\ ~database[h[w].slug]
        /\ \A t \in Slugs : t # h[w].slug => enabled'[t] = enabled[t]
    BY <1>0, <2>1 DEF DroppedFirst, TypeOK
  <2>3. Cached' = Cached /\ \A t \in Cached : Stale(t)' => Stale(t)
    BY <2>1, <2>2 DEF Cached, Stale
  <2>4. ConfigFollowed'
    BY <1>0, <1>2, <2>1, <2>3, StaysFollowed
  <2>5. DroppedFirst'
    BY <1>0, <1>2, <2>1 DEF DroppedFirst, Idle
  <2> QED
    BY <2>4, <2>5 DEF CInv
<1> QED
  BY <1>3, <1>4, <1>5, <1>6

LEMMA NextCInv == IInv /\ CInv /\ [Next]_vars => CInv'
<1> SUFFICES ASSUME IInv, CInv, [Next]_vars PROVE CInv'
  OBVIOUS
<1>0. TypeOK /\ ConfigFollowed /\ DroppedFirst
  BY DEF IInv, CInv
<1>1. ASSUME UNCHANGED <<pgrstProc, object, settings, database, h>>,
             \A s \in Slugs : enabled[s] => enabled'[s]
      PROVE  CInv'
  <2>1. Cached' = Cached /\ \A s \in Cached : Stale(s)' => Stale(s)
    BY <1>1 DEF Cached, Stale
  <2>2. ConfigFollowed' /\ DroppedFirst'
    BY <1>0, <1>1, <2>1, StaysFollowed DEF DroppedFirst
  <2> QED
    BY <2>2 DEF CInv
<1>2. CASE UNCHANGED vars
  BY <1>1, <1>2 DEF vars
<1>3. ASSUME NEW w \in Workers, NEW s \in Slugs,
             \/ Hit(w, s) \/ Claim(w, s) \/ StartFails(w, s)
             \/ ChangeSettings(w, s) \/ Disable(w, s) \/ Delete(w, s)
      PROVE  CInv'
  BY <1>3, RequestFollowed, CommandFollowed
<1>4. ASSUME NEW w \in Workers, HandlerStep(w) PROVE CInv'
  <2>1. h[w].slug \in Slugs
    BY <1>4 DEF HandlerStep, ProbeOk, ProbeFails, Proxy, Stop, DropStop, DropDatabase,
                DropRows, Goto, IInv, HandlersNamed
  <2> QED
    BY <1>4, <2>1, RequestFollowed, StopFollowed DEF HandlerStep
<1>5. ASSUME NEW s \in Slugs, Enable(s) \/ StopOnly(s) \/ IdleWindowElapses(s)
      PROVE  CInv'
  <2>1. CASE Enable(s)
    BY <1>0, <1>1, <2>1 DEF Enable, cache, TypeOK
  <2>2. CASE IdleWindowElapses(s)
    BY <1>1, <2>2 DEF IdleWindowElapses, config
  <2>3. CASE StopOnly(s)
    <3>1. stopPostgREST(s) /\ UNCHANGED config /\ h' = h
      BY <2>3 DEF StopOnly
    <3>2. ConfigFollowed' /\ DroppedFirst'
      BY <1>0, <3>1, StopLeaves, StaysFollowed DEF DroppedFirst, config
    <3> QED
      BY <3>2 DEF CInv
  <2> QED
    BY <1>5, <2>1, <2>2, <2>3
<1>6. CASE Reap
  <2>1. /\ \E D : pgrstProc' = [s \in Slugs |-> IF s \in D THEN None ELSE pgrstProc[s]]
        /\ UNCHANGED <<object, enabled, settings, database, h>>
    BY <1>6 DEF Reap, config
  <2>2. Cached' \subseteq Cached /\ \A s \in Cached' : Stale(s)' => Stale(s)
    BY <2>1 DEF Cached, Stale
  <2>3. ConfigFollowed' /\ DroppedFirst'
    BY <1>0, <2>1, <2>2, StaysFollowed DEF DroppedFirst
  <2> QED
    BY <2>3 DEF CInv
<1>7. ASSUME NEW i \in Pids, Bind(i) \/ Exit(i) \/ Crash(i)
      PROVE  CInv'
  BY <1>1, <1>7 DEF Bind, Exit, Crash, cache, config
<1> QED
  BY <1>2, <1>3, <1>4, <1>5, <1>6, <1>7 DEF Next

\* A process that was started before its project's API was disabled, or its
\* settings or keys were changed, is cached only as long as the handler that
\* made the change has yet to stop it, however many handlers there are.
THEOREM ConfigIsFollowed == Spec => []ConfigFollowed
<1>1. Init => CInv
  BY DEF Init, CInv, ConfigFollowed, DroppedFirst, Cached, Idle
<1>2. CInv => ConfigFollowed
  BY DEF CInv
<1> QED
  BY <1>1, <1>2, NextCInv, SpecIInv, PTL DEF Spec

-----------------------------------------------------------------------------
(***************************************************************************)
(* The refinement of PortLease. Only a claim, an eviction and a successful *)
(* probe change what the abstraction sees; all other steps stutter.        *)
(***************************************************************************)
leaseVars == <<Addresses, proven>>

\* The cached entries of D, none or several, are given back.
LEMMA EvictionGivesBack ==
  ASSUME TypeOK, NEW D \in SUBSET Cached, object' = object, proven' = proven \ D,
         pgrstProc' = [s \in Slugs |-> IF s \in D THEN None ELSE pgrstProc[s]]
  PROVE  Leases!GiveBack(D)
<1>1. Addresses' = [s \in Slugs |-> IF s \in D THEN None ELSE Addresses[s]]
  BY DEF Addresses, Port
<1> QED
  BY <1>1 DEF Leases!GiveBack

LEMMA StopRefines ==
  ASSUME TypeOK, NEW s \in Slugs, stopPostgREST(s)
  PROVE  [Leases!LeaseNext]_leaseVars
<1>1. CASE pgrstProc[s] = None
  BY <1>1 DEF stopPostgREST, cache, leaseVars, Addresses, Port
<1>2. CASE pgrstProc[s] # None
  <2>1. {s} \in SUBSET Cached /\ {s} \in SUBSET Slugs
    BY <1>2 DEF Cached
  <2>2. /\ pgrstProc' = [t \in Slugs |-> IF t \in {s} THEN None ELSE pgrstProc[t]]
        /\ proven' = proven \ {s} /\ object' = object
    BY <1>2 DEF stopPostgREST, Evict, TypeOK
  <2>3. Leases!GiveBack({s})
    BY <2>1, <2>2, EvictionGivesBack
  <2> QED
    BY <2>1, <2>3 DEF Leases!LeaseNext
<1> QED
  BY <1>1, <1>2

\* The port that is claimed is no live entry's, so it is leased to nobody.
LEMMA ClaimRefines ==
  ASSUME IInv, NEW w \in Workers, NEW s \in Slugs, Claim(w, s)
  PROVE  Leases!LeaseNext
<1> USE DataApiAssumption
<1> DEFINE i == NextPid
<1>1. PICK q \in Ports :
        /\ allocPgrstPort(q)
        /\ object' = [object EXCEPT ![i] = [slug |-> s, port |-> q, settings |-> settings[s]]]
        /\ pgrstProc' = [pgrstProc EXCEPT ![s] = i]
        /\ proven' = proven
  BY DEF Claim
<1>2. i \in Pids /\ process[i] = "unborn" /\ i # None /\ pgrstProc[s] = None
  BY DEF Claim, NextPid, Unborn
<1> HIDE DEF i
<1>3. TypeOK /\ PortsExclusive /\ CachedBorn
  BY DEF IInv
<1>4. q \notin Live /\ q # None
  BY <1>1, <1>3, AllocExclusive
<1>5. \A t \in Slugs : t # s => pgrstProc'[t] = pgrstProc[t] /\ pgrstProc[t] # i
  BY <1>1, <1>2, <1>3 DEF TypeOK, Cached, CachedBorn
<1>6. pgrstProc'[s] = i /\ object'[i].port = q
      /\ \A j \in Pids : j # i => object'[j] = object[j]
  BY <1>1, <1>2, <1>3 DEF TypeOK
<1>7. Addresses[s] = None /\ \A t \in Slugs : Addresses[t] # q
  BY <1>2, <1>4 DEF Addresses, Live, Cached
<1>8. ASSUME NEW t \in Slugs
      PROVE  Addresses'[t] = IF t = s THEN q ELSE Addresses[t]
  <2>1. CASE t = s
    BY <1>2, <1>6, <2>1 DEF Addresses, Port
  <2>2. CASE t # s /\ pgrstProc[t] = None
    BY <1>5, <2>2 DEF Addresses
  <2>3. CASE t # s /\ pgrstProc[t] # None
    <3>1. pgrstProc[t] \in Pids
      BY <1>3, <2>3 DEF TypeOK
    <3> QED
      BY <1>5, <1>6, <2>3, <3>1 DEF Addresses, Port
  <2> QED
    BY <2>1, <2>2, <2>3
<1>9. Addresses' = [Addresses EXCEPT ![s] = q]
  BY <1>8 DEF Addresses
<1>10. Leases!Take(s, q)
  BY <1>1, <1>7, <1>9 DEF Leases!Take
<1> QED
  BY <1>10 DEF Leases!LeaseNext

\* What the probe notes belongs to a project that has a port.
LEMMA ProbeOkRefines ==
  ASSUME IInv, NEW w \in Workers, ProbeOk(w)
  PROVE  [Leases!LeaseNext]_leaseVars
<1> USE DataApiAssumption
<1> DEFINE s == h[w].slug
<1>1. s \in Slugs /\ h[w].pid \in Pids /\ TypeOK
  BY DEF IInv, HandlersNamed, ProbeOk, Goto
<1>2. Addresses' = Addresses /\ proven' = proven \cup Own(w)
  BY DEF ProbeOk, Addresses, Port
<1>3. CASE Own(w) = {}
  BY <1>2, <1>3 DEF leaseVars
<1>4. CASE Own(w) # {}
  <2>1. Own(w) = {s} /\ pgrstProc[s] \in Pids
    BY <1>1, <1>4 DEF Own
  <2>2. Addresses[s] \in Ports
    BY <1>1, <2>1 DEF Addresses, Port, TypeOK
  <2>3. Leases!Confirm(s)
    BY <1>2, <2>1, <2>2 DEF Leases!Confirm
  <2> QED
    BY <1>1, <2>3 DEF Leases!LeaseNext
<1> QED
  BY <1>3, <1>4

LEMMA StepRefines == IInv /\ [Next]_vars => [Leases!LeaseNext]_leaseVars
<1> SUFFICES ASSUME IInv, [Next]_vars PROVE [Leases!LeaseNext]_leaseVars
  OBVIOUS
<1>0. TypeOK /\ HandlersNamed
  BY DEF IInv
<1>1. ASSUME UNCHANGED <<pgrstProc, object, proven>>
      PROVE  [Leases!LeaseNext]_leaseVars
  BY <1>1 DEF leaseVars, Addresses, Port
<1>2. CASE UNCHANGED vars
  BY <1>1, <1>2 DEF vars
<1>3. ASSUME NEW w \in Workers, HandlerStep(w)
      PROVE  [Leases!LeaseNext]_leaseVars
  <2>1. h[w].slug \in Slugs
    BY <1>0, <1>3 DEF HandlersNamed, HandlerStep, ProbeOk, ProbeFails, Proxy,
                      Stop, DropStop, DropDatabase, DropRows, Goto
  <2>2. CASE ProbeOk(w)
    BY <2>2, ProbeOkRefines
  <2>3. CASE ProbeFails(w)
    <3>1. CASE pgrstProc[h[w].slug] = h[w].pid
      <4>1. h[w].pid \in Pids
        BY <1>0, <2>3 DEF ProbeFails, Goto, HandlersNamed
      <4>2. stopPostgREST(h[w].slug)
        BY <2>3, <3>1, <4>1, DataApiAssumption DEF ProbeFails, stopPostgREST
      <4> QED
        BY <1>0, <2>1, <4>2, StopRefines
    <3>2. CASE pgrstProc[h[w].slug] # h[w].pid
      BY <1>1, <2>3, <3>2 DEF ProbeFails, cache
    <3> QED
      BY <3>1, <3>2
  <2>4. CASE Proxy(w) \/ DropDatabase(w) \/ DropRows(w)
    BY <1>1, <2>4 DEF Proxy, DropDatabase, DropRows, cache
  <2>5. CASE Stop(w) \/ DropStop(w)
    BY <1>0, <2>1, <2>5, StopRefines DEF Stop, DropStop
  <2> QED
    BY <1>3, <2>2, <2>3, <2>4, <2>5 DEF HandlerStep
<1>4. ASSUME NEW w \in Workers, NEW s \in Slugs,
             \/ Hit(w, s) \/ Claim(w, s) \/ StartFails(w, s)
             \/ ChangeSettings(w, s) \/ Disable(w, s) \/ Delete(w, s)
      PROVE  [Leases!LeaseNext]_leaseVars
  <2>1. CASE Claim(w, s)
    BY <2>1, ClaimRefines
  <2> QED
    BY <1>1, <1>4, <2>1 DEF Hit, StartFails, ChangeSettings, Disable, Delete, cache
<1>5. ASSUME NEW s \in Slugs, Enable(s) \/ StopOnly(s) \/ IdleWindowElapses(s)
      PROVE  [Leases!LeaseNext]_leaseVars
  <2>1. CASE StopOnly(s)
    BY <1>0, <2>1, StopRefines DEF StopOnly
  <2> QED
    BY <1>1, <1>5, <2>1 DEF Enable, IdleWindowElapses, cache
<1>6. CASE Reap
  <2> DEFINE D == Cached \ (Pinned \cup recent)
  <2>1. /\ pgrstProc' = [s \in Slugs |-> IF s \in D THEN None ELSE pgrstProc[s]]
        /\ proven' = proven \ D /\ object' = object
    BY <1>6 DEF Reap
  <2> HIDE DEF D
  <2>2. D \in SUBSET Cached /\ D \in SUBSET Slugs
    BY DEF D, Cached
  <2>3. Leases!GiveBack(D)
    BY <1>0, <2>1, <2>2, EvictionGivesBack
  <2> QED
    BY <2>2, <2>3 DEF Leases!LeaseNext
<1>7. ASSUME NEW i \in Pids, Bind(i) \/ Exit(i) \/ Crash(i)
      PROVE  [Leases!LeaseNext]_leaseVars
  BY <1>1, <1>7 DEF Bind, Exit, Crash, cache
<1> QED
  BY <1>2, <1>3, <1>4, <1>5, <1>6, <1>7 DEF Next

\* The Data API implements PortLease, for every number of projects, handlers,
\* processes and ports: no port is leased twice, an address changes only by
\* being given back, and is ready only while it is the one that was probed.
THEOREM LeasesAreKept == Spec => KeepsLeases
<1>1. Init => Leases!LeaseInit
  BY DEF Init, Leases!LeaseInit, Addresses
<1> QED
  BY <1>1, StepRefines, SpecIInv, PTL DEF Spec, KeepsLeases, Leases!LeaseSpec, leaseVars

=============================================================================
