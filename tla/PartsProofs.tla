------------------------------ MODULE PartsProofs ------------------------------
(***************************************************************************)
(* Proofs about the parts that share Services with others: EdgeCron,       *)
(* ObjectListing, Renditions, BucketGates, InstanceMemory, Reports, and    *)
(* the three of the backups, LogicalDumps, BaseBackups and BackupsPage,    *)
(* for any schedules, keys, images, uploads, nights and bounds.            *)
(***************************************************************************)
EXTENDS EdgeCron, ObjectListing, Renditions, BucketGates, InstanceMemory, Reports,
        LogicalDumps, BaseBackups, BackupsPage,
        SequenceTheorems, FiniteSetTheorems, NaturalsInduction, TLAPS

-----------------------------------------------------------------------------
(* Cron: a field means a set of values, and a minute is claimed once.      *)

\* A multiple of a step leaves nothing, and only a multiple does.
LEMMA WholeSteps ==
  ASSUME NEW d \in Nat, NEW n \in Nat \ {0}
  PROVE  d % n = 0 <=> \E k \in 0..d : d = k * n
<1>1. d = n * (d \div n) + (d % n) /\ d \div n \in Nat
  OBVIOUS
<1>2. ASSUME d % n = 0 PROVE \E k \in 0..d : d = k * n
  <2>1. PICK q \in Nat : q = d \div n
    BY <1>1
  <2>2. d = q * n
    BY <1>1, <1>2, <2>1
  <2>3. q * n >= q
    OBVIOUS
  <2> QED
    BY <2>2, <2>3
<1>3. ASSUME NEW k \in 0..d, d = k * n PROVE d % n = 0
  BY <1>3
<1> QED
  BY <1>2, <1>3

\* A part matches the values it stands for (cronFieldMatch).
LEMMA PartMeans ==
  ASSUME NEW part \in CronParts,
         part.step > 0, NEW lo \in Nat, NEW hi \in Nat, NEW val \in lo..hi
  PROVE  PartMatches(part, val, lo, hi) <=> val \in Values(part, lo, hi)
<1>0. /\ part.base \in {"star", "value", "range"}
      /\ part.from \in Nat /\ part.to \in Int /\ part.step \in Nat \ {0}
  BY DEF CronParts
<1>1. CASE part.base = "value" /\ part.step = 1
  <2>1. Values(part, lo, hi) = {part.from + k * part.step : k \in 0..hi} \cap part.from..part.from
    BY <1>1 DEF Values
  <2>2. part.from + 0 * part.step = part.from /\ 0 \in 0..hi
    BY <1>0
  <2>3. val \in Values(part, lo, hi) <=> val = part.from
    BY <2>1, <2>2
  <2> QED
    BY <1>1, <2>3 DEF PartMatches
<1>2. CASE ~(part.base = "value" /\ part.step = 1)
  <2>1. PICK start \in Nat : start = IF part.base = "star" THEN lo ELSE part.from
    BY <1>0
  <2>2. PICK end \in Int : end = IF part.base = "range" THEN part.to ELSE hi
    BY <1>0
  <2>3. PartMatches(part, val, lo, hi) <=>
          val >= start /\ val <= end /\ (val - start) % part.step = 0
    BY <1>2, <2>1, <2>2 DEF PartMatches
  <2>4. end = IF part.base = "star" \/ (part.base = "value" /\ part.step > 1)
              THEN hi ELSE IF part.base = "range" THEN part.to ELSE part.from
    BY <1>0, <1>2, <2>2
  <2>5. Values(part, lo, hi) = {start + k * part.step : k \in 0..hi} \cap start..end
    BY <2>1, <2>4 DEF Values
  <2>6. ASSUME val >= start, val <= end, (val - start) % part.step = 0
        PROVE  val \in Values(part, lo, hi)
    <3>0. PICK d \in Nat : d = val - start
      BY <2>6
    <3>1. PICK k \in 0..d : d = k * part.step
      <4>1. part.step \in Nat \ {0} /\ d % part.step = 0
        BY <1>0, <2>6, <3>0
      <4> QED
        BY <4>1, WholeSteps
    <3>2. k \in 0..hi /\ val = start + k * part.step
      BY <3>0, <3>1, <2>6
    <3> QED
      BY <2>5, <2>6, <3>2
  <2>7. ASSUME val \in Values(part, lo, hi)
        PROVE  val >= start /\ val <= end /\ (val - start) % part.step = 0
    <3>1. PICK k \in 0..hi : val = start + k * part.step
      BY <2>5, <2>7
    <3>2. val \in start..end
      BY <2>5, <2>7
    <3>3. val - start \in Nat /\ part.step \in Nat \ {0}
      BY <1>0, <3>2
    <3>4. PICK d \in Nat : d = val - start
      BY <3>3
    <3>5. d = k * part.step
      BY <1>0, <3>1, <3>4
    <3>6. k \in 0..d
      <4>1. k * part.step >= k
        BY <3>3
      <4> QED
        BY <3>5, <4>1
    <3>7. d % part.step = 0
      BY <3>3, <3>5, <3>6, WholeSteps
    <3> QED
      BY <3>2, <3>4, <3>7
  <2> QED
    BY <2>3, <2>6, <2>7
<1> QED
  BY <1>1, <1>2

\* A field that matches stands for the value; with steps that can be read it
\* matches every value it stands for.
LEMMA FieldMeans ==
  ASSUME NEW field \in CronFields, NEW lo \in Nat, NEW hi \in Nat, NEW val \in lo..hi
  PROVE  /\ cronFieldMatch(field, val, lo, hi) => val \in Means(field, lo, hi)
         /\ (\A i \in DOMAIN field : field[i].step > 0) =>
              (cronFieldMatch(field, val, lo, hi) <=> val \in Means(field, lo, hi))
<1>1. \A i \in DOMAIN field : field[i].step > 0 =>
        (PartMatches(field[i], val, lo, hi) <=> val \in Values(field[i], lo, hi))
  <2>1. \A i \in DOMAIN field : field[i] \in CronParts
    BY DEF CronFields
  <2> QED
    BY <2>1, PartMeans
<1>2. \A i \in DOMAIN field : i \in 1..i /\ 1..i \subseteq DOMAIN field
  BY DEF CronFields
<1>3. ASSUME cronFieldMatch(field, val, lo, hi)
      PROVE  val \in Means(field, lo, hi)
  <2>1. PICK i \in DOMAIN field : (\A j \in 1..i : field[j].step > 0)
                                  /\ PartMatches(field[i], val, lo, hi)
    BY <1>3 DEF cronFieldMatch
  <2>2. val \in Values(field[i], lo, hi)
    BY <1>1, <1>2, <2>1
  <2> QED
    BY <2>2 DEF Means
<1>4. ASSUME \A i \in DOMAIN field : field[i].step > 0, val \in Means(field, lo, hi)
      PROVE  cronFieldMatch(field, val, lo, hi)
  <2>1. PICK i \in DOMAIN field : val \in Values(field[i], lo, hi)
    BY <1>4 DEF Means
  <2>2. PartMatches(field[i], val, lo, hi)
    BY <1>1, <1>4, <2>1
  <2> QED
    BY <1>2, <1>4, <2>2 DEF cronFieldMatch
<1> QED
  BY <1>3, <1>4

LEMMA CalendarTypes ==
  ASSUME NEW m \in Nat
  PROVE  MinuteOf(m) \in 0..3 /\ DayOf(m) \in 1..3 /\ WeekdayOf(m) \in 0..1
BY DEF MinuteOf, DayOf, WeekdayOf

\* A field that is a star matches every value.
LEMMA StarMatches ==
  ASSUME NEW lo \in Nat, NEW hi \in Nat, NEW val \in lo..hi
  PROVE  cronFieldMatch(<<Star>>, val, lo, hi) /\ val \in Means(<<Star>>, lo, hi)
<1>1. Star \in CronParts
      /\ Star.base = "star" /\ Star.step = 1
  BY DEF Star, CronParts
<1>2. PartMatches(Star, val, lo, hi)
  BY <1>1 DEF PartMatches
<1>3. <<Star>> \in CronFields /\ DOMAIN <<Star>> = {1} /\ <<Star>>[1] = Star /\ 1..1 = {1}
  BY <1>1 DEF CronFields
<1>4. cronFieldMatch(<<Star>>, val, lo, hi)
  <2>1. \A j \in 1..1 : <<Star>>[j].step > 0
    BY <1>1, <1>3
  <2> QED
    BY <1>2, <1>3, <2>1 DEF cronFieldMatch
<1> QED
  BY <1>3, <1>4, FieldMeans

\* What a whole schedule means for a minute it matches.
LEMMA MatchMeans ==
  ASSUME NEW s \in Schedules, NEW m \in Nat
  PROVE  /\ cronMatch(s, m) =>
              /\ MinuteOf(m) \in Means(s.minute, 0, 3)
              /\ s.dom = <<Star>> => WeekdayOf(m) \in Means(s.dow, 0, 1)
              /\ s.dow = <<Star>> => DayOf(m) \in Means(s.dom, 1, 3)
              /\ DayOf(m) \in Means(s.dom, 1, 3) \/ WeekdayOf(m) \in Means(s.dow, 0, 1)
         /\ (\A i \in DOMAIN s.minute : s.minute[i].step > 0)
              /\ s.dom = <<Star>> /\ s.dow = <<Star>> =>
              (cronMatch(s, m) <=> MinuteOf(m) \in Means(s.minute, 0, 3))
<1>1. s.minute \in CronFields /\ s.dom \in CronFields /\ s.dow \in CronFields
  BY CronAssumption
<1>2. MinuteOf(m) \in 0..3 /\ DayOf(m) \in 1..3 /\ WeekdayOf(m) \in 0..1
  BY CalendarTypes
<1>3. /\ cronFieldMatch(s.minute, MinuteOf(m), 0, 3) => MinuteOf(m) \in Means(s.minute, 0, 3)
      /\ (\A i \in DOMAIN s.minute : s.minute[i].step > 0) =>
           (cronFieldMatch(s.minute, MinuteOf(m), 0, 3) <=> MinuteOf(m) \in Means(s.minute, 0, 3))
  BY <1>1, <1>2, FieldMeans
<1>4. cronFieldMatch(s.dom, DayOf(m), 1, 3) => DayOf(m) \in Means(s.dom, 1, 3)
  BY <1>1, <1>2, FieldMeans
<1>5. cronFieldMatch(s.dow, WeekdayOf(m), 0, 1) => WeekdayOf(m) \in Means(s.dow, 0, 1)
  BY <1>1, <1>2, FieldMeans
<1>6. /\ s.dom = <<Star>> => cronFieldMatch(s.dom, DayOf(m), 1, 3)
      /\ s.dow = <<Star>> => cronFieldMatch(s.dow, WeekdayOf(m), 0, 1)
  BY <1>2, StarMatches
<1> QED
  BY <1>3, <1>4, <1>5, <1>6 DEF cronMatch

-----------------------------------------------------------------------------
\* A run has claimed its minute, with a schedule that matched.
CronInv ==
    /\ clock \in Minutes
    /\ pass \in [at : Minutes \cup {-1}, jobs : SUBSET (CronFunctions \X Schedules)]
    /\ pass.jobs # {} => pass.at \in Minutes
    /\ schedule \in [CronFunctions -> Schedules]
    /\ lastCron \in [CronFunctions -> Minutes \cup {-1}]
    /\ fired \subseteq CronFunctions \X Minutes \X Schedules
    /\ again = {}
    /\ \A run \in fired : run[2] <= lastCron[run[1]] /\ cronMatch(run[3], run[2])

LEMMA CronBegins == CronInit => CronInv
BY CronAssumption DEF CronInit, CronInv, NoPass, Minutes

\* Who claims a minute is the first to run in it.
LEMMA ClaimKept ==
  ASSUME CronInv, PassJob
  PROVE  CronInv'
<1>1. PICK job \in pass.jobs :
        /\ pass' = [pass EXCEPT !.jobs = @ \ {job}]
        /\ IF cronMatch(job[2], pass.at) THEN ClaimMinute(job)
           ELSE UNCHANGED <<lastCron, fired, again>>
        /\ UNCHANGED <<clock, schedule>>
  BY DEF PassJob
<1>2. PICK f \in CronFunctions, s \in Schedules : job = <<f, s>> /\ job[1] = f /\ job[2] = s
  BY DEF CronInv
<1>3. PICK m \in Minutes : m = pass.at
  BY DEF CronInv
<1>m. Minutes \subseteq Nat
  BY CronAssumption DEF Minutes
<1>n. /\ \A g \in CronFunctions : lastCron[g] \in Nat \cup {-1} 
      /\ \A run \in fired : run[1] \in CronFunctions /\ run[2] \in Nat
  BY <1>m DEF CronInv
<1>4. /\ pass' \in [at : Minutes \cup {-1}, jobs : SUBSET (CronFunctions \X Schedules)]
      /\ pass'.jobs # {} => pass'.at \in Minutes
  BY <1>1, <1>3 DEF CronInv
<1>5. CASE UNCHANGED <<lastCron, fired, again>>
  BY <1>1, <1>4, <1>5 DEF CronInv
<1>6. CASE cronMatch(s, m) /\ lastCron[f] < m
           /\ lastCron' = [lastCron EXCEPT ![f] = m] /\ FireCron(f, m, s)
  <2>1. /\ lastCron' \in [CronFunctions -> Minutes \cup {-1}] /\ lastCron'[f] = m
        /\ \A g \in CronFunctions : lastCron'[g] >= lastCron[g]
    BY <1>n, <1>m, <1>6 DEF CronInv
  <2>2. fired' = fired \cup {<<f, m, s>>} /\ fired' \subseteq CronFunctions \X Minutes \X Schedules
    BY <1>6 DEF FireCron, CronInv
  <2>3. ASSUME NEW t \in Schedules, <<f, m, t>> \in fired PROVE FALSE
    <3>1. m <= lastCron[f]
      BY <2>3 DEF CronInv
    <3> QED
      BY <1>m, <1>n, <1>6, <3>1
  <2>4. again' = {}
    BY <1>6, <2>3 DEF FireCron, CronInv
  <2>5. ASSUME NEW run \in fired'
        PROVE  run[2] <= lastCron'[run[1]] /\ cronMatch(run[3], run[2])
    <3>1. CASE run = <<f, m, s>>
      BY <1>m, <1>6, <2>1, <3>1
    <3>2. CASE run \in fired
      <4>1. /\ run[1] \in CronFunctions /\ run[2] \in Nat
            /\ run[2] <= lastCron[run[1]] /\ cronMatch(run[3], run[2])
        BY <1>n, <3>2 DEF CronInv
      <4>2. lastCron'[run[1]] >= lastCron[run[1]] /\ lastCron'[run[1]] \in Nat \cup {-1}
        BY <1>m, <2>1, <4>1
      <4> QED
        BY <1>n, <2>1, <4>1, <4>2
    <3> QED
      BY <2>2, <3>1, <3>2
  <2> QED
    BY <1>1, <1>4, <2>1, <2>2, <2>4, <2>5 DEF CronInv
<1> QED
  BY <1>1, <1>2, <1>3, <1>5, <1>6 DEF ClaimMinute

LEMMA CronStep ==
  ASSUME CronInv, [CronNext]_cronVars
  PROVE  CronInv'
<1>1. CASE PassBegins
  <2>1. /\ pass'.at = clock
        /\ pass' \in [at : Minutes \cup {-1}, jobs : SUBSET (CronFunctions \X Schedules)]
    BY <1>1 DEF PassBegins, CronInv
  <2> QED
    BY <1>1, <2>1 DEF PassBegins, CronInv
<1>2. CASE PassJob
  BY <1>2, ClaimKept
<1>3. CASE PassEnds \/ CronBoot
  BY <1>3 DEF PassEnds, CronBoot, CronInv, NoPass
<1>4. CASE MinutePasses \/ ClockSetBack
  BY <1>4, CronAssumption DEF MinutePasses, ClockSetBack, Minutes, CronInv
<1>5. ASSUME NEW f \in CronFunctions, NEW s \in Schedules, SaveSchedule(f, s)
      PROVE  CronInv'
  BY <1>5 DEF SaveSchedule, CronInv
<1>6. CASE UNCHANGED cronVars
  BY <1>6 DEF cronVars, CronInv
<1> QED
  BY <1>1, <1>2, <1>3, <1>4, <1>5, <1>6 DEF CronNext

LEMMA CronInvSuffices == CronInv => CronFiresAsScheduled
<1> SUFFICES ASSUME CronInv PROVE CronFiresAsScheduled
  OBVIOUS
<1>m. Minutes \subseteq Nat
  BY CronAssumption DEF Minutes
<1>1. ASSUME NEW run \in fired
      PROVE  /\ run[2] \in Nat /\ run[3] \in Schedules /\ cronMatch(run[3], run[2])
  BY <1>m DEF CronInv
<1>2. ASSUME NEW job \in pass.jobs
      PROVE  job[2] \in Schedules /\ pass.at \in Nat
  BY <1>m DEF CronInv
<1> QED
  BY <1>1, <1>2, MatchMeans DEF CronFiresAsScheduled, CronInv

\* A function runs at most once for a minute, and in the minutes its schedule
\* stands for; the reading of a field agrees with the values it means
\* (edgecron.go).
THEOREM CronAlwaysFiresAsScheduled == CronSpec => []CronFiresAsScheduled
<1>1. CronSpec => []CronInv
  BY CronBegins, CronStep, PTL DEF CronSpec
<1> QED
  BY <1>1, CronInvSuffices, PTL

-----------------------------------------------------------------------------
(* Numbers: a set of them has a least one, and a bounded set a greatest.   *)
LEMMA LeastNatural ==
  ASSUME NEW T, T \subseteq Nat, T # {}
  PROVE  \E m \in T : \A n \in T : m <= n
<1>1. PICK x \in T : \A y \in T : ~(<<y, x>> \in OpToRel(<, Nat))
  BY WFMin, NatLessThanWellFounded, Zenon
<1>2. \A y \in T : ~(y < x)
  BY <1>1 DEF OpToRel
<1> QED
  BY <1>2

LEMMA GreatestNatural ==
  ASSUME NEW N \in Nat, NEW T, T \subseteq 0..N, T # {}
  PROVE  \E m \in T : \A n \in T : n <= m
<1> DEFINE U == {n \in 0..N : N - n \in T}
<1>1. U \subseteq Nat /\ U # {}
  <2>1. PICK t \in T : TRUE
    OBVIOUS
  <2>2. N - t \in U
    BY <2>1
  <2> QED
    BY <2>2
<1> HIDE DEF U
<1>2. PICK u \in U : \A v \in U : u <= v
  BY <1>1, LeastNatural
<1>3. N - u \in T /\ u \in 0..N
  BY <1>2 DEF U
<1>4. ASSUME NEW n \in T PROVE n <= N - u
  <2>1. N - n \in U /\ n \in 0..N
    BY <1>4 DEF U
  <2> QED
    BY <1>2, <1>3, <2>1
<1> QED
  BY <1>3, <1>4

(* Listing: the first keys of a set, and what is left.                     *)
KeysUnder(s, k) == {j \in s : j < k}

LEMMA KeysFinite ==
  ASSUME NEW s \in SUBSET PathKeys
  PROVE  /\ s \subseteq 0..LastKey /\ LastKey \in Nat
         /\ \A t \in SUBSET s : /\ IsFiniteSet(t) /\ Cardinality(t) \in Nat
                                /\ \A r \in SUBSET t : Cardinality(r) <= Cardinality(t)
<1>1. LastKey \in Nat /\ s \subseteq 1..LastKey
  BY ListingAssumption DEF PathKeys
<1>2. IsFiniteSet(1..LastKey)
  BY <1>1, FS_Interval
<1>3. IsFiniteSet(s)
  BY <1>1, <1>2, FS_Subset
<1>4. \A t \in SUBSET s : IsFiniteSet(t) /\ Cardinality(t) \in Nat
  BY <1>3, FS_Subset, FS_CardinalityType
<1>5. \A t \in SUBSET s : \A r \in SUBSET t : Cardinality(r) <= Cardinality(t)
  BY <1>4, FS_Subset
<1> QED
  BY <1>1, <1>4, <1>5

\* The first n are those below the rest; there are n of them, or they are all.
LEMMA FirstFacts ==
  ASSUME NEW s \in SUBSET PathKeys, NEW n \in Nat
  PROVE  /\ FirstOf(s, n) \in SUBSET s
         /\ \A k \in FirstOf(s, n) : \A j \in s : j < k => j \in FirstOf(s, n)
         /\ Cardinality(FirstOf(s, n)) \in Nat /\ Cardinality(FirstOf(s, n)) <= n
         /\ FirstOf(s, n) # s => Cardinality(FirstOf(s, n)) = n
         /\ Cardinality(s) <= n => FirstOf(s, n) = s
<1> DEFINE f == FirstOf(s, n)
<1>0. /\ f \in SUBSET s
      /\ \A k \in s : KeysUnder(s, k) \in SUBSET s
      /\ \A k \in s : k \in f <=> Cardinality(KeysUnder(s, k)) < n
  BY DEF FirstOf, KeysUnder
<1> HIDE DEF f
<1>1. s \subseteq 0..LastKey /\ LastKey \in Nat /\ \A k \in s : k \in Nat
  <2>1. s \subseteq 0..LastKey /\ LastKey \in Nat
    BY KeysFinite
  <2> QED
    BY <2>1
<1>2. \A t \in SUBSET s : /\ IsFiniteSet(t) /\ Cardinality(t) \in Nat
                          /\ \A r \in SUBSET t : Cardinality(r) <= Cardinality(t)
  BY KeysFinite
<1>3. ASSUME NEW k \in f, NEW j \in s, j < k PROVE j \in f
  <2>1. KeysUnder(s, j) \in SUBSET KeysUnder(s, k)
    <3>1. k \in Nat /\ j \in Nat /\ \A i \in s : i \in Nat
      BY <1>0, <1>1, <1>3
    <3> QED
      <4> SUFFICES ASSUME NEW i \in KeysUnder(s, j) PROVE i \in KeysUnder(s, k)
        OBVIOUS
      <4>1. i \in s /\ i < j /\ i \in Nat
        BY <3>1 DEF KeysUnder
      <4>2. i < k
        BY <1>3, <3>1, <4>1
      <4> QED
        BY <4>1, <4>2 DEF KeysUnder
  <2>2. Cardinality(KeysUnder(s, j)) <= Cardinality(KeysUnder(s, k))
    BY <1>0, <1>2, <1>3, <2>1
  <2>3. /\ Cardinality(KeysUnder(s, j)) \in Nat /\ Cardinality(KeysUnder(s, k)) \in Nat
        /\ Cardinality(KeysUnder(s, k)) < n
    BY <1>0, <1>2, <1>3
  <2> QED
    BY <1>0, <2>2, <2>3
<1>4. Cardinality(f) <= n
  <2>1. CASE f = {}
    BY <2>1, FS_EmptySet
  <2>2. CASE f # {}
    <3>1. PICK m \in f : \A k \in f : k <= m
      BY <1>0, <1>1, <2>2, GreatestNatural
    <3>2. f \subseteq KeysUnder(s, m) \cup {m}
      BY <1>0, <1>1, <3>1 DEF KeysUnder
    <3>3. /\ IsFiniteSet(KeysUnder(s, m) \cup {m})
          /\ Cardinality(KeysUnder(s, m) \cup {m}) <= Cardinality(KeysUnder(s, m)) + 1
      <4>1. m \in s /\ IsFiniteSet(KeysUnder(s, m)) /\ Cardinality(KeysUnder(s, m)) \in Nat
        BY <1>0, <1>2, <3>1
      <4>2. m \notin KeysUnder(s, m)
        BY <1>1, <4>1 DEF KeysUnder
      <4>3. /\ IsFiniteSet(KeysUnder(s, m) \cup {m})
            /\ Cardinality(KeysUnder(s, m) \cup {m}) = Cardinality(KeysUnder(s, m)) + 1
        BY <4>1, <4>2, FS_AddElement, Zenon
      <4> QED
        BY <4>1, <4>3
    <3>4. Cardinality(f) <= Cardinality(KeysUnder(s, m) \cup {m})
      BY <3>2, <3>3, FS_Subset
    <3>5. Cardinality(KeysUnder(s, m)) < n /\ Cardinality(KeysUnder(s, m)) \in Nat
      BY <1>0, <1>2, <3>1
    <3>6. Cardinality(KeysUnder(s, m) \cup {m}) \in Nat /\ Cardinality(f) \in Nat
      BY <1>0, <1>2, <3>3, FS_CardinalityType
    <3> QED
      BY <3>3, <3>4, <3>5, <3>6
  <2> QED
    BY <2>1, <2>2
<1>5. ASSUME f # s PROVE Cardinality(f) = n
  <2>1. PICK k \in s \ f : \A j \in s \ f : k <= j
    <3>1. s \ f \subseteq Nat
      BY <1>1
    <3>2. s \ f # {}
      BY <1>0, <1>5
    <3> QED
      BY <3>1, <3>2, LeastNatural
  <2>2. KeysUnder(s, k) \subseteq f
    <3>1. k \in Nat /\ \A i \in s : i \in Nat
      BY <1>1, <2>1
    <3> SUFFICES ASSUME NEW i \in KeysUnder(s, k) PROVE i \in f
      OBVIOUS
    <3>2. i \in s /\ i < k /\ i \in Nat
      BY <3>1 DEF KeysUnder
    <3> QED
      BY <2>1, <3>1, <3>2
  <2>3. Cardinality(KeysUnder(s, k)) <= Cardinality(f) /\ ~(Cardinality(KeysUnder(s, k)) < n)
    BY <1>0, <1>2, <2>1, <2>2
  <2>4. Cardinality(KeysUnder(s, k)) \in Nat /\ Cardinality(f) \in Nat
    BY <1>0, <1>2, <2>1
  <2> QED
    BY <1>4, <2>3, <2>4
<1>6. ASSUME Cardinality(s) <= n, f # s PROVE FALSE
  <2>1. Cardinality(f) = n /\ Cardinality(s) \in Nat
    BY <1>2, <1>5, <1>6
  <2>2. Cardinality(f) <= Cardinality(s)
    BY <1>0, <1>2
  <2>3. Cardinality(f) = Cardinality(s)
    BY <1>6, <2>1, <2>2
  <2>4. IsFiniteSet(s)
    BY <1>2
  <2> QED
    BY <1>0, <1>6, <2>3, <2>4, FS_Subset
<1> QED
  BY <1>0, <1>2, <1>3, <1>4, <1>5, <1>6 DEF f

\* The first of the rest are the next.
LEMMA NextPage ==
  ASSUME NEW s \in SUBSET PathKeys, NEW from \in Nat, NEW n \in Nat \ {0}
  PROVE  LET leaf == FirstOf(AllBut(s, from), n) IN
         /\ leaf \in SUBSET s /\ leaf \cap FirstOf(s, from) = {}
         /\ Cardinality(leaf) = n => FirstOf(s, from + n) = FirstOf(s, from) \cup leaf
         /\ Cardinality(leaf) # n => s = FirstOf(s, from) \cup leaf
<1> DEFINE f == FirstOf(s, from)
           r == AllBut(s, from)
           leaf == FirstOf(r, n)
<1>1. /\ f \in SUBSET s /\ Cardinality(f) \in Nat
      /\ \A k \in f : \A j \in s : j < k => j \in f
      /\ f # s => Cardinality(f) = from
  BY FirstFacts
<1>2. r = s \ f /\ r \in SUBSET PathKeys
  BY DEF AllBut
<1>3. /\ leaf \in SUBSET r /\ Cardinality(leaf) \in Nat
      /\ leaf # r => Cardinality(leaf) = n
  BY <1>2, FirstFacts
<1>4. ASSUME Cardinality(leaf) = n PROVE FirstOf(s, from + n) = f \cup leaf
  <2>1. f # s
    <3> SUFFICES ASSUME f = s PROVE FALSE
      OBVIOUS
    <3>1. leaf = {}
      BY <1>2, <1>3
    <3> QED
      BY <1>4, <3>1, FS_EmptySet
  <2>2. ASSUME NEW k \in s PROVE k \in FirstOf(s, from + n) <=> k \in f \cup leaf
    <3>0. /\ s \subseteq 0..LastKey /\ LastKey \in Nat
          /\ \A t \in SUBSET s : IsFiniteSet(t) /\ Cardinality(t) \in Nat
      BY KeysFinite
    <3>1. k \in FirstOf(s, from + n) <=> Cardinality(KeysUnder(s, k)) < from + n
      BY <2>2 DEF FirstOf, KeysUnder
    <3>2. CASE k \in f
      <4>1. Cardinality(KeysUnder(s, k)) < from /\ Cardinality(KeysUnder(s, k)) \in Nat
        BY <3>0, <3>2 DEF FirstOf, KeysUnder
      <4> QED
        BY <3>1, <3>2, <4>1
    <3>3. CASE k \notin f
      <4>1. KeysUnder(s, k) = f \cup KeysUnder(r, k) /\ f \cap KeysUnder(r, k) = {}
        <5>1. \A j \in f : j < k
          <6>1. \A j \in s : j \in Nat
            BY <3>0
          <6>2. \A j \in f : j \in s /\ ~(k < j) /\ j # k
            BY <1>1, <2>2, <3>3
          <6> QED
            BY <2>2, <6>1, <6>2
        <5> QED
          BY <1>1, <1>2, <5>1 DEF KeysUnder
      <4>2. /\ IsFiniteSet(f) /\ IsFiniteSet(KeysUnder(r, k)) /\ Cardinality(KeysUnder(r, k)) \in Nat
        <5>1. KeysUnder(r, k) \in SUBSET s
          BY <1>2 DEF KeysUnder
        <5> QED
          BY <1>1, <3>0, <5>1
      <4>3. Cardinality(KeysUnder(s, k)) = from + Cardinality(KeysUnder(r, k))
        <5>1. Cardinality(f \cap KeysUnder(r, k)) = 0
          BY <4>1, FS_EmptySet
        <5>2. Cardinality(f \cup KeysUnder(r, k)) = Cardinality(f) + Cardinality(KeysUnder(r, k)) - 0
          BY <4>2, <5>1, FS_Union
        <5> QED
          BY <1>1, <2>1, <4>1, <4>2, <5>2
      <4>4. k \in leaf <=> Cardinality(KeysUnder(r, k)) < n
        BY <1>2, <2>2, <3>3 DEF FirstOf, KeysUnder
      <4> QED
        BY <3>1, <3>3, <4>2, <4>3, <4>4
    <3> QED
      BY <3>2, <3>3
  <2>3. FirstOf(s, from + n) \subseteq s
    BY DEF FirstOf
  <2> QED
    BY <1>1, <1>2, <1>3, <2>2, <2>3
<1> QED
  BY <1>1, <1>2, <1>3, <1>4

\* Up to where a client has come it has what stayed, and once.
ListInv ==
    /\ stirred \in BOOLEAN
    /\ keys \in SUBSET PathKeys /\ stayed \in SUBSET keys /\ got \in [PathKeys -> Nat]
    /\ lister \in [by : {"none", "key", "offset", "key-done", "offset-done"}, from : Nat]
    /\ lister.by = "none" => \A k \in PathKeys : got[k] = 0
    /\ lister.by = "key" =>
         \A k \in PathKeys : /\ got[k] <= 1 /\ (k > lister.from => got[k] = 0)
                             /\ k <= lister.from /\ k \in stayed => got[k] = 1
    /\ lister.by = "key-done" =>
         \A k \in PathKeys : got[k] <= 1 /\ (k \in stayed => got[k] = 1)
    /\ lister.by = "offset" /\ ~stirred /\ Cardinality(keys) <= RowCap =>
         \A k \in PathKeys :
            got[k] = IF k \in FirstOf(EntriesOf(keys), lister.from) THEN 1 ELSE 0
    /\ lister.by = "offset-done" /\ ~stirred /\ Cardinality(keys) <= RowCap =>
         \A k \in PathKeys : got[k] = IF k \in EntriesOf(keys) THEN 1 ELSE 0

\* A page by key: everything from the token to the next one, or to the end.
LEMMA KeyPage ==
  ASSUME NEW ks \in SUBSET PathKeys, NEW from \in Nat
  PROVE  LET ahead == {k \in ks : k > from}
             more == FirstOf(ahead, MaxKeys + 1)
             leaf == FirstOf(more, MaxKeys)
         IN /\ leaf \in SUBSET ahead
            /\ IF Cardinality(more) > MaxKeys
               THEN /\ LastOf(leaf) \in Nat /\ LastOf(leaf) > from
                    /\ \A k \in leaf : k <= LastOf(leaf)
                    /\ \A k \in ahead : k <= LastOf(leaf) => k \in leaf
               ELSE leaf = ahead
<1> DEFINE ahead == {k \in ks : k > from}
           more == FirstOf(ahead, MaxKeys + 1)
           leaf == FirstOf(more, MaxKeys)
<1>0. MaxKeys \in Nat \ {0} /\ LastKey \in Nat /\ MaxKeys + 1 \in Nat
  BY ListingAssumption
<1>1. ahead \in SUBSET PathKeys /\ ks \subseteq 0..LastKey
  BY KeysFinite
<1> HIDE DEF ahead
<1>2. /\ more \in SUBSET ahead /\ Cardinality(more) \in Nat
      /\ \A k \in more : \A j \in ahead : j < k => j \in more
      /\ more # ahead => Cardinality(more) = MaxKeys + 1
  BY <1>0, <1>1, FirstFacts
<1> HIDE DEF more
<1>3. /\ leaf \in SUBSET more /\ Cardinality(leaf) <= MaxKeys
      /\ \A k \in leaf : \A j \in more : j < k => j \in leaf
      /\ leaf # more => Cardinality(leaf) = MaxKeys
      /\ Cardinality(more) <= MaxKeys => leaf = more
  BY <1>0, <1>1, <1>2, FirstFacts
<1> HIDE DEF leaf
<1>4. CASE Cardinality(more) > MaxKeys
  <2>1. leaf # {}
    <3> SUFFICES ASSUME leaf = {} PROVE FALSE
      OBVIOUS
    <3>1. Cardinality(leaf) = 0
      BY FS_EmptySet
    <3>2. Cardinality(leaf) = MaxKeys
      BY <1>0, <1>3, <1>4, <3>1
    <3> QED
      BY <1>0, <3>1, <3>2
  <2>2. \A k \in leaf : k \in ahead /\ k \in more
    BY <1>2, <1>3
  <2>3. PICK m \in leaf : \A k \in leaf : k <= m
    <3>1. leaf \subseteq 0..LastKey
      BY <1>1, <2>2 DEF ahead
    <3> QED
      BY <1>0, <2>1, <3>1, GreatestNatural
  <2>4. LastOf(leaf) \in leaf /\ \A k \in leaf : k <= LastOf(leaf)
    BY <2>3 DEF LastOf
  <2>5. LastOf(leaf) \in Nat /\ LastOf(leaf) > from
    <3>1. LastOf(leaf) \in ks /\ LastOf(leaf) > from
      BY <2>2, <2>4 DEF ahead
    <3>2. LastOf(leaf) \in 0..LastKey
      BY <1>1, <3>1
    <3> QED
      BY <1>0, <3>1, <3>2
  <2>6. ASSUME NEW k \in ahead, k <= LastOf(leaf) PROVE k \in leaf
    <3>1. k \in Nat
      BY <1>1, <2>6 DEF ahead
    <3>2. CASE k = LastOf(leaf)
      BY <2>4, <3>2
    <3>3. CASE k < LastOf(leaf)
      BY <1>2, <1>3, <2>2, <2>4, <2>6, <3>3
    <3> QED
      BY <2>5, <2>6, <3>1, <3>2, <3>3
  <2> QED
    BY <1>2, <1>3, <1>4, <2>4, <2>5, <2>6 DEF more, leaf, ahead
<1>5. CASE ~(Cardinality(more) > MaxKeys)
  <2>1. more = ahead
    BY <1>0, <1>2, <1>5
  <2>2. leaf = more
    BY <1>0, <1>2, <1>3, <1>5
  <2> QED
    BY <1>5, <2>1, <2>2 DEF more, leaf, ahead
<1> QED
  BY <1>4, <1>5 DEF more, leaf, ahead

LEMMA ListStep ==
  ASSUME ListInv, [ListNext]_listVars
  PROVE  ListInv'
<1>0. /\ keys \in SUBSET PathKeys /\ stayed \in SUBSET keys /\ got \in [PathKeys -> Nat]
      /\ lister \in [by : {"none", "key", "offset", "key-done", "offset-done"}, from : Nat]
      /\ MaxKeys \in Nat \ {0} /\ PageLimit \in Nat \ {0} /\ RowCap \in Nat \ {0}
      /\ lister.from \in Nat /\ \A k \in PathKeys : k \in Nat
  BY ListingAssumption DEF ListInv, PathKeys
<1>1. ASSUME NEW k \in PathKeys, KeyPut(k) PROVE ListInv'
  BY <1>0, <1>1 DEF KeyPut, ListInv
<1>2. ASSUME NEW k \in PathKeys, KeyGone(k) PROVE ListInv'
  BY <1>0, <1>2 DEF KeyGone, ListInv
<1>3. ASSUME NEW by \in {"key", "offset"}, ListStarts(by) PROVE ListInv'
  <2>1. /\ lister'.by = by /\ lister'.from = 0 /\ lister.by = "none"
        /\ lister' \in [by : {"none", "key", "offset", "key-done", "offset-done"}, from : Nat]
        /\ keys' = keys /\ stayed' = keys /\ got' = got
    BY <1>3 DEF ListStarts, Away
  <2>2. \A k \in PathKeys : got[k] = 0
    BY <2>1 DEF ListInv
  <2>3. FirstOf(EntriesOf(keys), 0) = {}
    <3>1. EntriesOf(keys) \in SUBSET PathKeys
      BY <1>0 DEF EntriesOf
    <3>2. Cardinality(FirstOf(EntriesOf(keys), 0)) = 0 /\ IsFiniteSet(FirstOf(EntriesOf(keys), 0))
      BY <3>1, FirstFacts, KeysFinite
    <3> QED
      BY <3>2, FS_EmptySet
  <2>4. FirstOf(EntriesOf(keys), lister.from)' = {}
    BY <2>1, <2>3 DEF FirstOf, EntriesOf
  <2>5. lister'.by = "key" =>
          \A k \in PathKeys : /\ got'[k] <= 1 /\ (k > lister'.from => got'[k] = 0)
                              /\ k <= lister'.from /\ k \in stayed' => got'[k] = 1
    <3>1. \A k \in PathKeys : k > 0
      BY DEF PathKeys
    <3> QED
      BY <1>0, <2>1, <2>2, <3>1
  <2>6. lister'.by \in {"key", "offset"}
    BY <2>1
  <2>7. stirred' \in BOOLEAN
    BY <1>3 DEF ListStarts, ListInv
  <2> QED
    BY <1>0, <2>1, <2>2, <2>4, <2>5, <2>6, <2>7 DEF ListInv
<1>4. ASSUME s3ListObjects PROVE ListInv'
  <2> DEFINE ahead == {k \in keys : k > lister.from}
             more == FirstOf(ahead, MaxKeys + 1)
             leaf == FirstOf(more, MaxKeys)
  <2>1. /\ leaf \in SUBSET ahead
        /\ IF Cardinality(more) > MaxKeys
           THEN /\ LastOf(leaf) \in Nat /\ LastOf(leaf) > lister.from
                /\ \A k \in leaf : k <= LastOf(leaf)
                /\ \A k \in ahead : k <= LastOf(leaf) => k \in leaf
           ELSE leaf = ahead
    <3>1. keys \in SUBSET PathKeys /\ lister.from \in Nat
      BY <1>0
    <3> QED
      BY <3>1, KeyPage, Zenon
  <2>2. /\ lister.by = "key"
        /\ got' = [k \in PathKeys |-> IF k \in leaf THEN got[k] + 1 ELSE got[k]]
        /\ lister' = IF Cardinality(more) > MaxKeys THEN [lister EXCEPT !.from = LastOf(leaf)]
                     ELSE [lister EXCEPT !.by = "key-done"]
        /\ UNCHANGED <<keys, stayed, stirred>>
    BY <1>4 DEF s3ListObjects, PageOf, Counts
  <2>3. \A k \in PathKeys : /\ got[k] <= 1 /\ (k > lister.from => got[k] = 0)
                            /\ k <= lister.from /\ k \in stayed => got[k] = 1
    BY <2>2 DEF ListInv
  <2> HIDE DEF leaf, more
  <2>4. got' \in [PathKeys -> Nat]
    BY <1>0, <2>2
  <2>5. ASSUME NEW k \in PathKeys
        PROVE  /\ got'[k] <= 1
               /\ k \in leaf => got'[k] = 1 /\ k > lister.from
               /\ k \notin leaf => got'[k] = got[k]
    <3>1. k \in leaf => k > lister.from
      BY <2>1
    <3> QED
      BY <1>0, <2>2, <2>3, <3>1
  <2>6. CASE Cardinality(more) > MaxKeys
    <3>1. /\ lister'.by = "key" /\ lister'.from = LastOf(leaf) /\ lister'.from \in Nat
          /\ lister' \in [by : {"none", "key", "offset", "key-done", "offset-done"}, from : Nat]
      BY <1>0, <2>1, <2>2, <2>6
    <3>2. ASSUME NEW k \in PathKeys
          PROVE  /\ got'[k] <= 1 /\ (k > lister'.from => got'[k] = 0)
                 /\ k <= lister'.from /\ k \in stayed => got'[k] = 1
      <4>1. k \in Nat /\ lister.from \in Nat /\ lister.from < lister'.from
        BY <1>0, <2>1, <2>6, <3>1
      <4>2. k > lister'.from => k \notin leaf /\ k > lister.from
        BY <2>1, <2>6, <3>1, <4>1
      <4>3. k <= lister'.from /\ k \in stayed => k <= lister.from \/ k \in leaf
        BY <1>0, <2>1, <2>6, <3>1, <4>1
      <4> QED
        BY <1>0, <2>3, <2>5, <4>1, <4>2, <4>3
    <3> QED
      BY <1>0, <2>2, <2>4, <3>1, <3>2 DEF ListInv
  <2>7. CASE ~(Cardinality(more) > MaxKeys)
    <3>1. /\ lister'.by = "key-done"
          /\ lister' \in [by : {"none", "key", "offset", "key-done", "offset-done"}, from : Nat]
      BY <1>0, <2>2, <2>7
    <3>2. ASSUME NEW k \in PathKeys, k \in stayed PROVE got'[k] = 1
      <4>1. k <= lister.from \/ k \in leaf
        BY <1>0, <2>1, <2>7, <3>2
      <4>2. k \in leaf \/ got[k] = 1
        BY <2>3, <3>2, <4>1
      <4> QED
        BY <2>5, <4>2
    <3> QED
      BY <1>0, <2>2, <2>4, <2>5, <3>1, <3>2 DEF ListInv
  <2> QED
    BY <2>6, <2>7
<1>5. ASSUME storageListAPI PROVE ListInv'
  <2> DEFINE all == EntriesOf(FirstOf(keys, RowCap))
             leaf == FirstOf(AllBut(all, lister.from), PageLimit)
  <2>1. /\ lister.by = "offset"
        /\ got' = [k \in PathKeys |-> IF k \in leaf THEN got[k] + 1 ELSE got[k]]
        /\ lister' = IF Cardinality(leaf) = PageLimit
                     THEN [lister EXCEPT !.from = lister.from + PageLimit]
                     ELSE [lister EXCEPT !.by = "offset-done"]
        /\ UNCHANGED <<keys, stayed, stirred>>
    BY <1>5 DEF storageListAPI, Counts
  <2>2. /\ got' \in [PathKeys -> Nat]
        /\ lister' \in [by : {"none", "key", "offset", "key-done", "offset-done"}, from : Nat]
        /\ lister'.by \in {"offset", "offset-done"}
    BY <1>0, <2>1
  <2>3. ASSUME ~stirred, Cardinality(keys) <= RowCap
        PROVE  \A k \in PathKeys :
                 got'[k] = IF k \in FirstOf(EntriesOf(keys), lister.from) \cup leaf THEN 1 ELSE 0
    <3>1. all = EntriesOf(keys)
      BY <1>0, <2>3, FirstFacts
    <3>2. leaf \cap FirstOf(EntriesOf(keys), lister.from) = {}
      <4>1. EntriesOf(keys) \in SUBSET PathKeys /\ lister.from \in Nat /\ PageLimit \in Nat \ {0}
        BY <1>0 DEF EntriesOf
      <4>2. leaf = FirstOf(AllBut(EntriesOf(keys), lister.from), PageLimit)
        BY <3>1
      <4> HIDE DEF leaf, all
      <4>3. FirstOf(EntriesOf(keys), lister.from)
              \cap FirstOf(AllBut(EntriesOf(keys), lister.from), PageLimit) = {}
        BY <4>1, NextPage, Zenon
      <4> QED
        BY <4>2, <4>3
    <3>3. \A k \in PathKeys :
            got[k] = IF k \in FirstOf(EntriesOf(keys), lister.from) THEN 1 ELSE 0
      BY <2>1, <2>3 DEF ListInv
    <3> HIDE DEF leaf
    <3> QED
      BY <1>0, <2>1, <3>2, <3>3
  <2>4. ASSUME ~stirred, Cardinality(keys) <= RowCap
        PROVE  /\ Cardinality(leaf) = PageLimit =>
                    FirstOf(EntriesOf(keys), lister.from + PageLimit)
                      = FirstOf(EntriesOf(keys), lister.from) \cup leaf
               /\ Cardinality(leaf) # PageLimit =>
                    EntriesOf(keys) = FirstOf(EntriesOf(keys), lister.from) \cup leaf
    <3>1. all = EntriesOf(keys)
      BY <1>0, <2>4, FirstFacts
    <3>2. EntriesOf(keys) \in SUBSET PathKeys
      BY <1>0 DEF EntriesOf
    <3>3. lister.from \in Nat /\ PageLimit \in Nat \ {0}
      BY <1>0
    <3> DEFINE next == FirstOf(AllBut(EntriesOf(keys), lister.from), PageLimit)
    <3>4. /\ Cardinality(next) = PageLimit =>
               FirstOf(EntriesOf(keys), lister.from + PageLimit)
                 = FirstOf(EntriesOf(keys), lister.from) \cup next
          /\ Cardinality(next) # PageLimit =>
               EntriesOf(keys) = FirstOf(EntriesOf(keys), lister.from) \cup next
      BY <3>2, <3>3, NextPage, Zenon
    <3>5. leaf = next
      BY <3>1
    <3> QED
      BY <3>4, <3>5
  <2> HIDE DEF leaf
  <2>5. EntriesOf(keys)' = EntriesOf(keys)
    BY <2>1 DEF EntriesOf
  <2>6. ASSUME lister'.by = "offset", ~stirred, Cardinality(keys) <= RowCap
        PROVE  \A k \in PathKeys :
                 got'[k] = IF k \in FirstOf(EntriesOf(keys), lister'.from) THEN 1 ELSE 0
    <3>1. Cardinality(leaf) = PageLimit /\ lister'.from = lister.from + PageLimit
      BY <1>0, <2>1, <2>6
    <3> QED
      BY <2>3, <2>4, <2>6, <3>1
  <2>7. ASSUME lister'.by = "offset-done", ~stirred, Cardinality(keys) <= RowCap
        PROVE  \A k \in PathKeys : got'[k] = IF k \in EntriesOf(keys) THEN 1 ELSE 0
    <3>1. Cardinality(leaf) # PageLimit
      BY <1>0, <2>1, <2>7
    <3> QED
      BY <2>3, <2>4, <2>7, <3>1
  <2>8. FirstOf(EntriesOf(keys), lister.from)' = FirstOf(EntriesOf(keys), lister'.from)
    BY <2>1 DEF FirstOf, EntriesOf
  <2> QED
    BY <1>0, <2>1, <2>2, <2>5, <2>6, <2>7, <2>8 DEF ListInv
<1>6. ASSUME UNCHANGED listVars PROVE ListInv'
  BY <1>6 DEF listVars, ListInv, FirstOf, EntriesOf
<1> QED
  BY <1>1, <1>2, <1>3, <1>4, <1>5, <1>6 DEF ListNext

\* Every state keeps the invariant.
LEMMA ListAlways == ListSpec => []ListInv
<1>1. ListInit => ListInv
  <2> SUFFICES ASSUME ListInit PROVE ListInv
    OBVIOUS
  <2> QED
    BY DEF ListInit, ListInv, Away
<1>2. ListInv /\ [ListNext]_listVars => ListInv'
  BY ListStep
<1> QED
  BY <1>1, <1>2, PTL DEF ListSpec

\* Whatever is put and deleted between the pages, an S3 client has what stayed
\* once and nothing twice, and a client of the project's API every entry of a
\* bucket at rest, for any bucket and sizes of pages (s3proto.go, storage.go).
THEOREM ListingsShowOnce == ListSpec => []ListedOnce
<1>3. ListInv => ListedOnce
  BY DEF ListInv, ListedOnce
<1> QED
  BY <1>3, ListAlways, PTL

-----------------------------------------------------------------------------
(* Renditions: sizes, samples, and files two names lead to.                *)

\* How often a divisor goes into a product is at most the other factor.
LEMMA QuotientWithin ==
  ASSUME NEW x \in Nat, NEW d \in Nat \ {0}, NEW b \in Nat, x <= b * d
  PROVE  x \div d \in 0..b /\ x = d * (x \div d) + (x % d) /\ x % d \in 0..d - 1
<1>1. PICK q \in Nat, r \in 0..d - 1 : q = x \div d /\ r = x % d /\ x = d * q + r
  OBVIOUS
<1>2. ~(q > b)
  <2> SUFFICES ASSUME q > b PROVE FALSE
    OBVIOUS
  <2>1. d * q >= d * (b + 1)
    OBVIOUS
  <2>2. d * (b + 1) = b * d + d
    OBVIOUS
  <2> QED
    BY <1>1, <2>1, <2>2
<1> QED
  BY <1>1, <1>2

\* A side scaled down is between one and what the scale allows.
LEMMA ScaledWithin ==
  ASSUME NEW n \in Nat \ {0}, NEW p \in Nat \ {0}, NEW q \in Nat \ {0},
         NEW b \in Nat \ {0}, n * p <= b * q, NEW k \in Scaled(n, <<p, q>>)
  PROVE  k \in 1..b
<1>1. PICK x \in Nat : x = n * p
  OBVIOUS
<1>2. x \div q \in 0..b
  BY <1>1, QuotientWithin
<1>3. k = 1 \/ k = x \div q \/ (k = x \div q - 1 /\ k >= 1)
  BY <1>1, <1>2 DEF Scaled
<1>4. k >= 1
  BY <1>2, <1>3 DEF Scaled
<1> QED
  BY <1>2, <1>3, <1>4

\* What fits a box is no larger than it, nor than the image (fitBox).
FitsBox(t, b) == t.w >= 1 /\ t.h >= 1 /\ (b.w > 0 => t.w <= b.w) /\ (b.h > 0 => t.h <= b.h)

\* The scale of two sides, each of which may be unbounded.
LEMMA ScaleWithin ==
  ASSUME NEW s \in [w : Nat \ {0}, h : Nat \ {0}], NEW b \in [w : Nat, h : Nat]
  PROVE  \E p, q \in Nat \ {0} :
            /\ Scale(s, b) = <<p, q>> /\ p <= q
            /\ b.w > 0 => s.w * p <= b.w * q
            /\ b.h > 0 => s.h * p <= b.h * q
<1>1. PICK sw \in Nat \ {0}, sh \in Nat \ {0}, bw \in Nat, bh \in Nat :
        sw = s.w /\ sh = s.h /\ bw = b.w /\ bh = b.h
  OBVIOUS
<1>2. PICK wp \in Nat \ {0}, wq \in Nat \ {0} :
        /\ <<wp, wq>> = (IF bw > 0 /\ sw > bw THEN <<bw, sw>> ELSE <<1, 1>>)
        /\ wp <= wq
        /\ (wp = bw /\ wq = sw) \/ (wp = 1 /\ wq = 1 /\ (bw > 0 => sw <= bw))
  <2>1. CASE bw > 0 /\ sw > bw
    <3>1. bw \in Nat \ {0} /\ bw <= sw /\ <<bw, sw>> = (IF bw > 0 /\ sw > bw THEN <<bw, sw>> ELSE <<1, 1>>)
      BY <2>1
    <3> WITNESS bw \in Nat \ {0}, sw \in Nat \ {0}
    <3> QED
      BY <3>1
  <2>2. CASE ~(bw > 0 /\ sw > bw)
    <3>1. 1 \in Nat \ {0} /\ (bw > 0 => sw <= bw)
      BY <2>2
    <3>2. <<1, 1>> = (IF bw > 0 /\ sw > bw THEN <<bw, sw>> ELSE <<1, 1>>)
      BY <2>2
    <3> WITNESS 1 \in Nat \ {0}, 1 \in Nat \ {0}
    <3> QED
      BY <3>1, <3>2
  <2> QED
    BY <2>1, <2>2
<1>3. PICK hp \in Nat \ {0}, hq \in Nat \ {0} :
        /\ <<hp, hq>> = (IF bh > 0 /\ sh > bh THEN <<bh, sh>> ELSE <<1, 1>>)
        /\ hp <= hq
        /\ (hp = bh /\ hq = sh) \/ (hp = 1 /\ hq = 1 /\ (bh > 0 => sh <= bh))
  <2>1. CASE bh > 0 /\ sh > bh
    <3>1. bh \in Nat \ {0} /\ bh <= sh /\ <<bh, sh>> = (IF bh > 0 /\ sh > bh THEN <<bh, sh>> ELSE <<1, 1>>)
      BY <2>1
    <3> WITNESS bh \in Nat \ {0}, sh \in Nat \ {0}
    <3> QED
      BY <3>1
  <2>2. CASE ~(bh > 0 /\ sh > bh)
    <3>1. 1 \in Nat \ {0} /\ (bh > 0 => sh <= bh)
      BY <2>2
    <3>2. <<1, 1>> = (IF bh > 0 /\ sh > bh THEN <<bh, sh>> ELSE <<1, 1>>)
      BY <2>2
    <3> WITNESS 1 \in Nat \ {0}, 1 \in Nat \ {0}
    <3> QED
      BY <3>1, <3>2
  <2> QED
    BY <2>1, <2>2
<1>4. Scale(s, b) = IF hp * wq < wp * hq THEN <<hp, hq>> ELSE <<wp, wq>>
  BY <1>1, <1>2, <1>3 DEF Scale
<1>5. CASE hp * wq < wp * hq
  <2>1. bh > 0 => sh * hp <= bh * hq
    <3>1. CASE hp = bh /\ hq = sh
      BY <3>1
    <3>2. CASE hp = 1 /\ hq = 1 /\ (bh > 0 => sh <= bh)
      BY <3>2
    <3> QED
      BY <1>3, <3>1, <3>2
  <2>2. bw > 0 => sw * hp <= bw * hq
    <3>1. CASE wp = bw /\ wq = sw
      BY <1>5, <3>1
    <3>2. CASE wp = 1 /\ wq = 1 /\ (bw > 0 => sw <= bw)
      <4> SUFFICES ASSUME bw > 0 PROVE sw * hp <= bw * hq
        OBVIOUS
      <4>1. sw * hp <= sw * hq
        BY <1>3
      <4>2. sw * hq <= bw * hq
        BY <3>2
      <4> QED
        BY <4>1, <4>2
    <3> QED
      BY <1>2, <3>1, <3>2
  <2> QED
    BY <1>1, <1>3, <1>4, <1>5, <2>1, <2>2
<1>6. CASE ~(hp * wq < wp * hq)
  <2>1. bw > 0 => sw * wp <= bw * wq
    <3>1. CASE wp = bw /\ wq = sw
      BY <3>1
    <3>2. CASE wp = 1 /\ wq = 1 /\ (bw > 0 => sw <= bw)
      BY <3>2
    <3> QED
      BY <1>2, <3>1, <3>2
  <2>2. bh > 0 => sh * wp <= bh * wq
    <3>1. CASE hp = bh /\ hq = sh
      <4>1. wp * sh <= bh * wq
        BY <1>6, <3>1
      <4> QED
        BY <4>1
    <3>2. CASE hp = 1 /\ hq = 1 /\ (bh > 0 => sh <= bh)
      <4> SUFFICES ASSUME bh > 0 PROVE sh * wp <= bh * wq
        OBVIOUS
      <4>1. sh * wp <= sh * wq
        BY <1>2
      <4>2. sh * wq <= bh * wq
        BY <3>2
      <4> QED
        BY <4>1, <4>2
    <3> QED
      BY <1>3, <3>1, <3>2
  <2> QED
    BY <1>1, <1>2, <1>4, <1>6, <2>1, <2>2
<1> QED
  BY <1>5, <1>6

LEMMA FitBoxFits ==
  ASSUME NEW s \in [w : Nat \ {0}, h : Nat \ {0}], NEW b \in [w : Nat, h : Nat],
         NEW t \in fitBox(s, b)
  PROVE  t.w \in 1..s.w /\ t.h \in 1..s.h /\ FitsBox(t, b)
<1>1. CASE b.w = 0 /\ b.h = 0
  BY <1>1 DEF fitBox, FitsBox
<1>2. CASE ~(b.w = 0 /\ b.h = 0)
  <2>1. PICK p \in Nat \ {0}, q \in Nat \ {0} :
            /\ Scale(s, b) = <<p, q>> /\ p <= q
            /\ b.w > 0 => s.w * p <= b.w * q
            /\ b.h > 0 => s.h * p <= b.h * q
    BY ScaleWithin
  <2>2. t.w \in Scaled(s.w, <<p, q>>) /\ t.h \in Scaled(s.h, <<p, q>>)
    BY <1>2, <2>1 DEF fitBox
  <2>3. s.w \in Nat \ {0} /\ s.h \in Nat \ {0} /\ b.w \in Nat /\ b.h \in Nat
    OBVIOUS
  <2>4. s.w * p <= s.w * q /\ s.h * p <= s.h * q
    BY <2>1, <2>3
  <2>5. t.w \in 1..s.w /\ t.h \in 1..s.h
    BY <2>2, <2>3, <2>4, ScaledWithin
  <2>6. b.w > 0 => t.w \in 1..b.w
    BY <2>1, <2>2, <2>3, ScaledWithin
  <2>7. b.h > 0 => t.h \in 1..b.h
    BY <2>1, <2>2, <2>3, ScaledWithin
  <2> QED
    BY <2>3, <2>5, <2>6, <2>7 DEF FitsBox
<1> QED
  BY <1>1, <1>2

\* Scaled down, no pixel is sampled outside of the image (bilinearResize).
LEMMA SamplesStayInside ==
  ASSUME NEW n \in Nat \ {0}, NEW m \in 1..n
  PROVE  SamplesInside(n, m)
<1> SUFFICES ASSUME NEW k \in 0..m - 1
             PROVE  /\ {Between(n, m, k).first, Between(n, m, k).next} \subseteq 0..n - 1
                    /\ Between(n, m, k).far \in 0..2 * m
  BY DEF SamplesInside
<1>1. PICK at \in Int : at = (2 * k + 1) * n - m
  OBVIOUS
<1>2. at >= 0
  <2>1. (2 * k + 1) * n >= n
    OBVIOUS
  <2> QED
    BY <1>1, <2>1
<1>3. at + n + m <= n * (2 * m)
  <2>1. (2 * k + 1) * n <= (2 * m - 1) * n
    OBVIOUS
  <2>2. (2 * m - 1) * n = n * (2 * m) - n
    OBVIOUS
  <2> QED
    BY <1>1, <2>1, <2>2
<1>4. PICK d \in Nat \ {0} : d = 2 * m
  OBVIOUS
<1>5. at \in Nat /\ at <= n * d
  BY <1>2, <1>3, <1>4
<1>6. PICK q \in Nat, r \in 0..d - 1 : q = at \div d /\ r = at % d /\ at = d * q + r
  <2>1. /\ at \div d \in 0..n /\ at = d * (at \div d) + (at % d) /\ at % d \in 0..d - 1
    BY <1>4, <1>5, QuotientWithin
  <2> QED
    BY <2>1
<1>7. q <= n - 1
  <2> SUFFICES ASSUME q >= n PROVE FALSE
    BY <1>6
  <2>1. d * q >= d * n
    BY <1>4
  <2>2. d * n = n * d
    BY <1>4
  <2> QED
    BY <1>3, <1>4, <1>5, <1>6, <2>1, <2>2
<1>8. Between(n, m, k) = [first |-> q, next |-> IF q + 1 >= n THEN n - 1 ELSE q + 1,
                          far |-> at - d * q]
  <2>1. ~(at < 0) /\ at \div (2 * m) = q /\ 2 * m * q = d * q
    BY <1>2, <1>4, <1>6
  <2> QED
    BY <1>1, <2>1 DEF Between
<1>9. at - d * q = r
  BY <1>4, <1>6
<1>10. Between(n, m, k).far \in 0..2 * m
  BY <1>4, <1>6, <1>8, <1>9
<1>11. {Between(n, m, k).first, Between(n, m, k).next} \subseteq 0..n - 1
  <2>1. Between(n, m, k).first = q /\ Between(n, m, k).next = IF q + 1 >= n THEN n - 1 ELSE q + 1
    BY <1>8
  <2>2. q \in 0..n - 1 /\ (IF q + 1 >= n THEN n - 1 ELSE q + 1) \in 0..n - 1
    BY <1>7
  <2> QED
    BY <2>1, <2>2
<1> QED
  BY <1>10, <1>11

\* What a request is about to write is whole and fits.
Ready(out) == out.whole /\ FitsBox(out, box)
EncodersWithFile == {c \in Encoders : encoders[c].f # 0}

RenditionTypes ==
    /\ image \in [of : Nat, w : Nat \ {0}, h : Nat \ {0}] /\ box \in [w : Nat, h : Nat]
    /\ DOMAIN names = {"cached", "part"} /\ names["cached"] \in {0} \cup Inodes
    /\ names["part"] \in {0} \cup Inodes
    /\ DOMAIN files = Inodes /\ DOMAIN encoders = Encoders
    /\ \A c \in Encoders :
         /\ DOMAIN encoders[c] = {"pc", "f", "out"}
         /\ encoders[c].pc \in {"idle", "create", "encode", "rename"}
         /\ encoders[c].f \in {0} \cup Inodes
         /\ encoders[c].f # 0 <=> encoders[c].pc \in {"encode", "rename"}
         /\ encoders[c].pc # "idle" => Ready(encoders[c].out)

\* One request at most has a file, the one .part leads to, and what the cached
\* name leads to is another.
OneWrites ==
    /\ \A c \in EncodersWithFile : encoders[c].f = names["part"]
    /\ \A c, d \in EncodersWithFile : c = d
    /\ \A c \in Encoders : encoders[c].pc = "rename" => Ready(files[encoders[c].f])
    /\ names["cached"] # 0 =>
         Ready(files[names["cached"]]) /\ names["part"] # names["cached"]

RenditionInv ==
    /\ image \in [of : Nat, w : Nat \ {0}, h : Nat \ {0}] /\ box \in [w : Nat, h : Nat]
    /\ sharing \in BOOLEAN /\ badly = FALSE
    /\ ~sharing => RenditionTypes /\ OneWrites

\* With no file in use but the cached one there is another, the least of them.
LEMMA PartIsFree ==
  ASSUME RenditionTypes, OneWrites, names["part"] = 0
  PROVE  LET f == CHOOSE g \in Free : \A h \in Free : g <= h
         IN  f \in Inodes /\ f # 0 /\ f # names["cached"] /\ \A c \in Encoders : encoders[c].f # f
<1>1. \A c \in Encoders : encoders[c].f = 0
  BY DEF OneWrites, EncodersWithFile
<1>2. Inodes \subseteq Nat \ {0} /\ 1 \in Inodes /\ 2 \in Inodes
  <2>1. Cardinality(Encoders) \in Nat
    BY RenditionAssumption, FS_CardinalityType
  <2> QED
    BY <2>1 DEF Inodes
<1>3. Free \subseteq Nat /\ Free # {}
  <2>1. Free = Inodes \ {names["cached"]}
    BY <1>1, <1>2 DEF Free, RenditionTypes
  <2>2. 1 \in Free \/ 2 \in Free
    BY <1>2, <2>1
  <2>3. Free \subseteq Nat
    BY <1>2, <2>1
  <2> QED
    BY <2>2, <2>3
<1>4. \E g \in Free : \A h \in Free : g <= h
  BY <1>3, LeastNatural
<1> DEFINE f == CHOOSE g \in Free : \A h \in Free : g <= h
<1>5. f \in Free
  BY <1>4
<1> HIDE DEF f
<1>6. /\ f \in Inodes /\ f # names["cached"]
      /\ \A c \in Encoders : encoders[c].f # f
  BY <1>5 DEF Free, RenditionTypes
<1> QED
  BY <1>2, <1>6 DEF f

LEMMA RenditionBegins == RenditionInit => RenditionInv
<1> SUFFICES ASSUME RenditionInit PROVE RenditionInv
  OBVIOUS
<1>1. image \in [of : Nat, w : Nat \ {0}, h : Nat \ {0}] /\ box \in [w : Nat, h : Nat]
  BY RenditionAssumption DEF RenditionInit
<1>2. RenditionTypes
  BY <1>1 DEF RenditionInit, RenditionTypes, NoEncoder
<1>3. OneWrites
  BY DEF RenditionInit, OneWrites, EncodersWithFile, NoEncoder
<1> QED
  BY <1>1, <1>2, <1>3 DEF RenditionInit, RenditionInv

LEMMA RenditionStep ==
  ASSUME RenditionInv, [RenditionNext]_renditionVars
  PROVE  RenditionInv'
<1>0. /\ image \in [of : Nat, w : Nat \ {0}, h : Nat \ {0}] /\ box \in [w : Nat, h : Nat]
      /\ sharing \in BOOLEAN /\ badly = FALSE
      /\ ~sharing => RenditionTypes /\ OneWrites
  BY DEF RenditionInv
<1>1. ASSUME NEW c \in Encoders, FindsCached(c) PROVE RenditionInv'
  <2>1. /\ UNCHANGED <<image, box, names, files, encoders, sharing>>
        /\ badly' = (badly \/ (~files[names["cached"]].whole /\ ~sharing))
        /\ names["cached"] # 0
    BY <1>1 DEF FindsCached
  <2>2. ~(~files[names["cached"]].whole /\ ~sharing)
    BY <1>0, <2>1 DEF OneWrites, Ready
  <2>3. badly' = FALSE
    BY <1>0, <2>1, <2>2
  <2>4. (RenditionTypes <=> RenditionTypes') /\ (OneWrites <=> OneWrites')
    BY <2>1 DEF RenditionTypes, OneWrites, EncodersWithFile, Ready, FitsBox
  <2> QED
    BY <1>0, <2>1, <2>3, <2>4 DEF RenditionInv
<1>2. ASSUME NEW c \in Encoders, Decodes(c) PROVE RenditionInv'
  <2>1. PICK t \in fitBox(image, box) :
          encoders' = [encoders EXCEPT ![c] =
             [pc |-> "create", f |-> 0, out |-> [of |-> image.of, whole |-> TRUE, w |-> t.w, h |-> t.h]]]
    BY <1>2 DEF Decodes
  <2>2. UNCHANGED <<image, box, names, files, sharing, badly>> /\ encoders[c].pc = "idle"
    BY <1>2 DEF Decodes, AtPoint
  <2>3. FitsBox(t, box)
    <3>1. [w |-> image.w, h |-> image.h] \in [w : Nat \ {0}, h : Nat \ {0}]
      BY <1>0
    <3>2. fitBox(image, box) = fitBox([w |-> image.w, h |-> image.h], box)
      BY DEF fitBox, Scale
    <3> QED
      BY <1>0, <2>1, <3>1, <3>2, FitBoxFits
  <2>4. ASSUME ~sharing PROVE RenditionTypes' /\ OneWrites'
    <3>1. RenditionTypes /\ OneWrites /\ DOMAIN encoders = Encoders /\ encoders[c].f = 0
      BY <1>0, <2>2, <2>4 DEF RenditionTypes
    <3>2. /\ DOMAIN encoders' = Encoders
          /\ encoders'[c] = [pc |-> "create", f |-> 0,
                             out |-> [of |-> image.of, whole |-> TRUE, w |-> t.w, h |-> t.h]]
          /\ \A d \in Encoders : d # c => encoders'[d] = encoders[d]
      BY <2>1, <3>1
    <3>3. Ready(encoders[c].out)'
      <4>1. /\ encoders'[c].out.w = t.w /\ encoders'[c].out.h = t.h /\ encoders'[c].out.whole
            /\ box' = box
        BY <2>2, <3>2
      <4> QED
        BY <2>3, <4>1 DEF Ready, FitsBox
    <3>4. RenditionTypes'
      <4>1. \A d \in Encoders : d # c => Ready(encoders[d].out)' = Ready(encoders[d].out)
        BY <2>2, <3>2 DEF Ready, FitsBox
      <4>2. DOMAIN encoders'[c] = {"pc", "f", "out"} /\ encoders'[c].pc = "create" /\ encoders'[c].f = 0
        BY <3>2
      <4>3. ASSUME NEW d \in Encoders
            PROVE  /\ DOMAIN encoders'[d] = {"pc", "f", "out"}
                   /\ encoders'[d].pc \in {"idle", "create", "encode", "rename"}
                   /\ encoders'[d].f \in {0} \cup Inodes
                   /\ encoders'[d].f # 0 <=> encoders'[d].pc \in {"encode", "rename"}
                   /\ encoders'[d].pc # "idle" => Ready(encoders[d].out)'
        <5>1. CASE d = c
          BY <3>3, <4>2, <5>1
        <5>2. CASE d # c
          BY <3>1, <3>2, <4>1, <5>2 DEF RenditionTypes
        <5> QED
          BY <5>1, <5>2
      <4> QED
        BY <1>0, <2>2, <3>1, <3>2, <4>3 DEF RenditionTypes, Inodes
    <3>5. EncodersWithFile' = EncodersWithFile
      BY <3>1, <3>2 DEF EncodersWithFile
    <3>6. OneWrites'
      BY <2>2, <3>1, <3>2, <3>5 DEF OneWrites, Ready, FitsBox, EncodersWithFile
    <3> QED
      BY <3>4, <3>6
  <2> QED
    BY <1>0, <2>2, <2>4 DEF RenditionInv
<1>3. ASSUME NEW c \in Encoders, CreatePart(c) PROVE RenditionInv'
  <2> DEFINE f == IF names["part"] # 0 THEN names["part"] ELSE CHOOSE g \in Free : \A h \in Free : g <= h
  <2>1. /\ encoders[c].pc = "create"
        /\ names' = [names EXCEPT !["part"] = f] /\ files' = [files EXCEPT ![f] = Blank]
        /\ encoders' = [encoders EXCEPT ![c].pc = "encode", ![c].f = f]
        /\ sharing' = (sharing \/ \E d \in Encoders \ {c} : encoders[d].f = f)
        /\ UNCHANGED <<image, box, badly>>
    BY <1>3 DEF CreatePart, AtPoint
  <2>2. sharing' \in BOOLEAN
    BY <1>0, <2>1
  <2>3. ASSUME ~sharing' PROVE RenditionTypes' /\ OneWrites'
    <3>1. RenditionTypes /\ OneWrites /\ \A d \in Encoders : d # c => encoders[d].f # f
      BY <1>0, <2>1, <2>3
    <3>2. /\ f \in Inodes /\ f # 0 /\ (names["cached"] # 0 => f # names["cached"])
      <4>1. CASE names["part"] = 0
        BY <3>1, <4>1, PartIsFree
      <4>2. CASE names["part"] # 0
        BY <3>1, <4>2 DEF RenditionTypes, OneWrites
      <4> QED
        BY <4>1, <4>2
    <3>3. encoders[c].f = 0 /\ \A d \in Encoders : encoders[d].f = 0
      <4>1. encoders[c].f = 0
        BY <2>1, <3>1 DEF RenditionTypes
      <4>2. ASSUME NEW d \in Encoders, encoders[d].f # 0 PROVE FALSE
        <5>1. encoders[d].f = names["part"] /\ d # c
          BY <3>1, <4>1, <4>2 DEF OneWrites, EncodersWithFile
        <5> QED
          BY <3>1, <4>2, <5>1
      <4> QED
        BY <4>1, <4>2
    <3> HIDE DEF f
    <3>4. /\ DOMAIN encoders' = Encoders
          /\ encoders'[c] = [encoders[c] EXCEPT !.pc = "encode", !.f = f]
          /\ \A d \in Encoders : d # c => encoders'[d] = encoders[d]
      BY <2>1, <3>1 DEF RenditionTypes
    <3>5. /\ encoders'[c].pc = "encode" /\ encoders'[c].f = f /\ encoders'[c].out = encoders[c].out
          /\ DOMAIN encoders'[c] = {"pc", "f", "out"}
      BY <3>1, <3>4 DEF RenditionTypes
    <3>6. /\ DOMAIN names' = {"cached", "part"} /\ names'["cached"] = names["cached"]
          /\ names'["part"] = f
          /\ DOMAIN files' = Inodes /\ \A g \in Inodes : g # f => files'[g] = files[g]
      BY <2>1, <3>1 DEF RenditionTypes
    <3>7. RenditionTypes'
      BY <1>0, <2>1, <3>1, <3>2, <3>4, <3>5, <3>6 DEF RenditionTypes, Ready, FitsBox, Inodes
    <3>8. EncodersWithFile' = {c}
      <4>1. \A d \in Encoders : d # c => encoders'[d].f = 0
        BY <3>3, <3>4
      <4>2. EncodersWithFile' = {d \in Encoders : encoders'[d].f # 0}
        BY DEF EncodersWithFile
      <4> QED
        BY <3>2, <3>5, <4>1, <4>2
    <3>9. OneWrites'
      <4>1. \A d \in Encoders : encoders'[d].pc # "rename"
        BY <3>1, <3>3, <3>4, <3>5 DEF RenditionTypes
      <4>2. names["cached"] # 0 => files'[names["cached"]] = files[names["cached"]]
        BY <3>1, <3>2, <3>6 DEF RenditionTypes
      <4>3. names'["cached"] # 0 =>
              Ready(files[names["cached"]])' /\ names'["part"] # names'["cached"]
        BY <2>1, <3>1, <3>2, <3>6, <4>2 DEF OneWrites, Ready, FitsBox
      <4> QED
        BY <3>5, <3>6, <3>8, <4>1, <4>3 DEF OneWrites
    <3> QED
      BY <3>7, <3>9
  <2> QED
    BY <1>0, <2>1, <2>2, <2>3 DEF RenditionInv
<1>4. ASSUME NEW c \in Encoders, Encode(c) PROVE RenditionInv'
  <2>1. encoders[c].pc = "encode" /\ UNCHANGED <<image, box, sharing, badly>>
    BY <1>4 DEF Encode, AtPoint
  <2>2. ASSUME ~sharing PROVE RenditionTypes' /\ OneWrites'
    <3>1. RenditionTypes /\ OneWrites
      BY <1>0, <2>2
    <3>2. PICK f \in Inodes : f = encoders[c].f /\ f # 0 /\ f = names["part"]
      BY <2>1, <3>1 DEF RenditionTypes, OneWrites, EncodersWithFile
    <3>3. \A d \in Encoders : d # c => encoders[d].f = 0
      BY <3>1, <3>2 DEF OneWrites, EncodersWithFile
    <3>4. Ready(encoders[c].out)
      BY <2>1, <3>1 DEF RenditionTypes
    <3>5. CASE /\ files' = [files EXCEPT ![f] = encoders[c].out]
               /\ encoders' = [encoders EXCEPT ![c].pc = "rename"] /\ UNCHANGED names
      <4>1. /\ DOMAIN encoders' = Encoders /\ DOMAIN encoders'[c] = {"pc", "f", "out"}
            /\ encoders'[c].pc = "rename" /\ encoders'[c].f = f /\ encoders'[c].out = encoders[c].out
            /\ \A d \in Encoders : d # c => encoders'[d] = encoders[d]
        BY <3>1, <3>2, <3>5 DEF RenditionTypes
      <4>2. /\ DOMAIN files' = Inodes /\ files'[f] = encoders[c].out
            /\ \A g \in Inodes : g # f => files'[g] = files[g]
        BY <3>1, <3>2, <3>5 DEF RenditionTypes
      <4>3. RenditionTypes'
        BY <2>1, <3>1, <3>2, <3>4, <3>5, <4>1, <4>2 DEF RenditionTypes, Ready, FitsBox, Inodes
      <4>4. EncodersWithFile' = {c}
        BY <3>2, <3>3, <4>1 DEF EncodersWithFile
      <4>5. ASSUME NEW d \in Encoders, encoders'[d].pc = "rename"
            PROVE  Ready(files[encoders[d].f])'
        <5>1. d = c
          BY <3>1, <3>3, <4>1, <4>5 DEF RenditionTypes
        <5> QED
          BY <2>1, <3>4, <4>1, <4>2, <5>1 DEF Ready, FitsBox
      <4>6. names'["cached"] # 0 =>
              Ready(files[names["cached"]])' /\ names'["part"] # names'["cached"]
        <5>1. names["cached"] # 0 => files'[names["cached"]] = files[names["cached"]]
          BY <3>1, <3>2, <4>2 DEF RenditionTypes, OneWrites
        <5> QED
          BY <2>1, <3>1, <3>5, <5>1 DEF OneWrites, Ready, FitsBox
      <4> QED
        BY <3>2, <3>5, <4>1, <4>3, <4>4, <4>5, <4>6 DEF OneWrites
    <3>6. CASE names' = [names EXCEPT !["part"] = 0] /\ Leaves(c) /\ UNCHANGED files
      <4>1. /\ DOMAIN encoders' = Encoders /\ encoders'[c] = NoEncoder
            /\ \A d \in Encoders : d # c => encoders'[d] = encoders[d]
        BY <3>1, <3>6 DEF RenditionTypes, Leaves
      <4>2. /\ DOMAIN names' = {"cached", "part"} /\ names'["cached"] = names["cached"]
            /\ names'["part"] = 0
        BY <3>1, <3>6 DEF RenditionTypes
      <4>3. RenditionTypes'
        BY <2>1, <3>1, <3>6, <4>1, <4>2 DEF RenditionTypes, Ready, FitsBox, Inodes, NoEncoder
      <4>4. \A d \in Encoders : encoders'[d].f = 0 /\ encoders'[d].pc # "rename"
        BY <3>1, <3>3, <4>1 DEF NoEncoder, RenditionTypes
      <4>5. names'["cached"] # 0 =>
              Ready(files[names["cached"]])' /\ names'["part"] # names'["cached"]
        BY <2>1, <3>1, <3>6, <4>2 DEF OneWrites, Ready, FitsBox
      <4> QED
        BY <4>3, <4>4, <4>5 DEF OneWrites, EncodersWithFile
    <3>7. ~\E d \in Encoders \ {c} : encoders[d].f = f
      BY <3>2, <3>3
    <3> QED
      BY <1>4, <3>2, <3>5, <3>6, <3>7 DEF Encode
  <2> QED
    BY <1>0, <2>1, <2>2 DEF RenditionInv
<1>5. ASSUME NEW c \in Encoders, Rename(c) PROVE RenditionInv'
  <2>1. /\ encoders[c].pc = "rename" /\ UNCHANGED <<image, box, files, sharing, badly>>
        /\ Leaves(c)
        /\ names' = IF names["part"] = 0 THEN names ELSE [cached |-> names["part"], part |-> 0]
    BY <1>5 DEF Rename, AtPoint
  <2>2. ASSUME ~sharing PROVE RenditionTypes' /\ OneWrites'
    <3>1. RenditionTypes /\ OneWrites
      BY <1>0, <2>2
    <3>2. /\ encoders[c].f # 0 /\ encoders[c].f = names["part"]
          /\ \A d \in Encoders : d # c => encoders[d].f = 0
      BY <2>1, <3>1 DEF RenditionTypes, OneWrites, EncodersWithFile
    <3>3. Ready(files[names["part"]])
      BY <2>1, <3>1, <3>2 DEF OneWrites
    <3>4. names' = [cached |-> names["part"], part |-> 0]
      BY <2>1, <3>2
    <3>5. /\ DOMAIN encoders' = Encoders /\ encoders'[c] = NoEncoder
          /\ \A d \in Encoders : d # c => encoders'[d] = encoders[d]
      BY <2>1, <3>1 DEF RenditionTypes, Leaves
    <3>6. RenditionTypes'
      BY <2>1, <3>1, <3>4, <3>5 DEF RenditionTypes, Ready, FitsBox, Inodes, NoEncoder
    <3>7. \A d \in Encoders : encoders'[d].f = 0 /\ encoders'[d].pc # "rename"
      BY <3>1, <3>2, <3>5 DEF NoEncoder, RenditionTypes
    <3>8. Ready(files[names["cached"]])' /\ names'["part"] # names'["cached"]
      BY <2>1, <3>2, <3>3, <3>4 DEF Ready, FitsBox
    <3> QED
      BY <3>6, <3>7, <3>8 DEF OneWrites, EncodersWithFile
  <2> QED
    BY <1>0, <2>1, <2>2 DEF RenditionInv
<1>6. ASSUME ImageReplaced PROVE RenditionInv'
  <2>1. UNCHANGED <<box, names, files, encoders, sharing, badly>>
    BY <1>6 DEF ImageReplaced
  <2>2. image' \in [of : Nat, w : Nat \ {0}, h : Nat \ {0}]
    BY <1>0, <1>6, RenditionAssumption DEF ImageReplaced
  <2>3. (RenditionTypes => RenditionTypes') /\ (OneWrites => OneWrites')
    BY <2>1, <2>2 DEF RenditionTypes, OneWrites, EncodersWithFile, Ready, FitsBox
  <2> QED
    BY <1>0, <2>1, <2>2, <2>3 DEF RenditionInv
<1>7. ASSUME EncodersStop PROVE RenditionInv'
  <2>1. UNCHANGED <<image, box, names, files, sharing, badly>> /\ encoders' = [c \in Encoders |-> NoEncoder]
    BY <1>7 DEF EncodersStop
  <2>2. \A c \in Encoders : encoders'[c] = NoEncoder /\ encoders'[c].f = 0 /\ encoders'[c].pc = "idle"
    BY <2>1 DEF NoEncoder
  <2>3. RenditionTypes => RenditionTypes'
    BY <2>1, <2>2 DEF RenditionTypes, NoEncoder, Inodes
  <2>4. OneWrites => OneWrites'
    BY <2>1, <2>2 DEF OneWrites, EncodersWithFile, Ready, FitsBox
  <2> QED
    BY <1>0, <2>1, <2>3, <2>4 DEF RenditionInv
<1>8. ASSUME UNCHANGED renditionVars PROVE RenditionInv'
  BY <1>8 DEF renditionVars, RenditionInv, RenditionTypes, OneWrites, EncodersWithFile, Ready, FitsBox
<1> QED
  BY <1>1, <1>2, <1>3, <1>4, <1>5, <1>6, <1>7, <1>8 DEF RenditionNext

LEMMA RenditionInvSuffices == RenditionInv => RenditionsWhole
<1> SUFFICES ASSUME RenditionInv PROVE RenditionsWhole
  OBVIOUS
<1>1. /\ [w |-> image.w, h |-> image.h] \in [w : Nat \ {0}, h : Nat \ {0}]
      /\ box \in [w : Nat, h : Nat]
  BY DEF RenditionInv
<1>2. ASSUME NEW t \in fitBox(image, box)
      PROVE  SamplesInside(image.w, t.w) /\ SamplesInside(image.h, t.h)
  <2>1. fitBox(image, box) = fitBox([w |-> image.w, h |-> image.h], box)
    BY DEF fitBox, Scale
  <2>2. t.w \in 1..image.w /\ t.h \in 1..image.h
    BY <1>1, <1>2, <2>1, FitBoxFits
  <2> QED
    BY <1>1, <2>2, SamplesStayInside
<1> QED
  BY <1>2 DEF RenditionInv, OneWrites, Ready, FitsBox, RenditionsWhole

\* What the cached name leads to is a whole rendition that fits the box, through
\* failures, replacements and restarts, until two requests share a .part file;
\* and the scaler samples no pixel outside, for any image and box
\* (transform.go).
THEOREM RenditionsAppearWhole == RenditionSpec => []RenditionsWhole
<1>1. RenditionInv /\ [RenditionNext]_renditionVars => RenditionInv'
  BY RenditionStep
<1> QED
  BY <1>1, RenditionBegins, RenditionInvSuffices, PTL DEF RenditionSpec

-----------------------------------------------------------------------------
(* Gates: the sum of what is stored, and what each writer may add to it.   *)

\* The sum over a finite set, one element after the other, as a function of
\* the subsets.  Induction is by a subset of least size on which a claim fails.
Elem(t) == CHOOSE x \in t : TRUE
IsSum(g, S, sz) ==
    g = [t \in SUBSET S |-> IF t = {} THEN 0 ELSE sz[Elem(t)] + g[t \ {Elem(t)}]]

LEMMA OneLess ==
  ASSUME NEW S, IsFiniteSet(S), NEW t \in SUBSET S
  PROVE  /\ IsFiniteSet(t) /\ Cardinality(t) \in Nat
         /\ t # {} => /\ Elem(t) \in t /\ t \ {Elem(t)} \in SUBSET S
                      /\ Cardinality(t \ {Elem(t)}) = Cardinality(t) - 1
                      /\ Cardinality(t) > 0
<1>1. IsFiniteSet(t) /\ Cardinality(t) \in Nat
  BY FS_Subset, FS_CardinalityType
<1>2. ASSUME t # {} PROVE Elem(t) \in t
  BY <1>2 DEF Elem
<1>3. ASSUME t # {} PROVE Cardinality(t \ {Elem(t)}) = Cardinality(t) - 1
  BY <1>1, <1>2, <1>3, FS_RemoveElement
<1>4. ASSUME t # {} PROVE Cardinality(t) > 0
  BY <1>1, <1>4, FS_EmptySet
<1> QED
  BY <1>1, <1>2, <1>3, <1>4

LEMMA SumExists ==
  ASSUME NEW S, IsFiniteSet(S), NEW sz \in [S -> Nat]
  PROVE  \E g : IsSum(g, S, sz)
<1> DEFINE SumsUpTo(g, n) ==
             \A t \in SUBSET S : Cardinality(t) <= n =>
                g[t] = IF t = {} THEN 0 ELSE sz[Elem(t)] + g[t \ {Elem(t)}]
           Fails == {n \in Nat : ~\E g \in [SUBSET S -> Nat] : SumsUpTo(g, n)}
<1>1. 0 \notin Fails
  <2>1. [t \in SUBSET S |-> 0] \in [SUBSET S -> Nat]
    OBVIOUS
  <2>2. SumsUpTo([t \in SUBSET S |-> 0], 0)
    <3> SUFFICES ASSUME NEW t \in SUBSET S, Cardinality(t) <= 0 PROVE t = {}
      OBVIOUS
    <3>1. Cardinality(t) \in Nat /\ (t # {} => Cardinality(t) > 0)
      BY OneLess
    <3> QED
      BY <3>1
  <2> QED
    BY <2>1, <2>2
<1>2. ASSUME NEW n \in Nat, n \notin Fails PROVE n + 1 \notin Fails
  <2>1. PICK g \in [SUBSET S -> Nat] : SumsUpTo(g, n)
    BY <1>2
  <2> DEFINE h == [t \in SUBSET S |-> IF Cardinality(t) <= n THEN g[t]
                                      ELSE sz[Elem(t)] + g[t \ {Elem(t)}]]
  <2>2. ASSUME NEW t \in SUBSET S PROVE h[t] \in Nat
    <3>1. Cardinality(t) \in Nat /\ IsFiniteSet(t)
      BY OneLess
    <3>2. CASE Cardinality(t) <= n
      BY <3>2
    <3>3. CASE ~(Cardinality(t) <= n)
      <4>1. t # {}
        BY <3>1, <3>3, FS_EmptySet
      <4>2. Elem(t) \in S /\ t \ {Elem(t)} \in SUBSET S
        BY <4>1, OneLess
      <4>3. sz[Elem(t)] \in Nat /\ g[t \ {Elem(t)}] \in Nat
        BY <4>2
      <4> QED
        BY <3>3, <4>3
    <3> QED
      BY <3>2, <3>3
  <2>3. h \in [SUBSET S -> Nat]
    BY <2>2
  <2>4. ASSUME NEW t \in SUBSET S, Cardinality(t) <= n + 1
        PROVE  h[t] = IF t = {} THEN 0 ELSE sz[Elem(t)] + h[t \ {Elem(t)}]
    <3>1. CASE t = {}
      <4>1. Cardinality(t) <= n
        BY <3>1, FS_EmptySet
      <4>2. h[t] = g[t] /\ g[t] = 0
        BY <2>1, <3>1, <4>1
      <4> QED
        BY <3>1, <4>2
    <3>2. CASE t # {}
      <4>1. /\ t \ {Elem(t)} \in SUBSET S /\ Cardinality(t) \in Nat
            /\ Cardinality(t \ {Elem(t)}) = Cardinality(t) - 1
        BY <3>2, OneLess
      <4>2. Cardinality(t \ {Elem(t)}) <= n
        BY <2>4, <4>1
      <4>3. h[t \ {Elem(t)}] = g[t \ {Elem(t)}]
        BY <4>1, <4>2
      <4>4. h[t] = sz[Elem(t)] + g[t \ {Elem(t)}]
        <5>1. CASE Cardinality(t) <= n
          <6>1. g[t] = sz[Elem(t)] + g[t \ {Elem(t)}]
            BY <2>1, <3>2, <5>1
          <6> QED
            BY <5>1, <6>1
        <5>2. CASE ~(Cardinality(t) <= n)
          BY <5>2
        <5> QED
          BY <5>1, <5>2
      <4> QED
        BY <3>2, <4>3, <4>4
    <3> QED
      BY <3>1, <3>2
  <2> HIDE DEF h
  <2> QED
    BY <2>3, <2>4
<1> HIDE DEF Fails
<1>3. Fails = {}
  <2> SUFFICES ASSUME Fails # {} PROVE FALSE
    OBVIOUS
  <2>1. Fails \subseteq Nat
    BY DEF Fails
  <2>2. PICK m \in Fails : \A n \in Fails : m <= n
    BY <2>1, LeastNatural
  <2>3. m \in Nat /\ m # 0
    BY <1>1, <2>1
  <2>4. m - 1 \in Nat /\ m - 1 \notin Fails
    BY <2>2, <2>3
  <2>5. (m - 1) + 1 \notin Fails
    BY <1>2, <2>4
  <2> QED
    BY <2>3, <2>5
<1>4. Cardinality(S) \in Nat
  BY FS_CardinalityType
<1>5. PICK g \in [SUBSET S -> Nat] : SumsUpTo(g, Cardinality(S))
  BY <1>3, <1>4 DEF Fails
<1>6. \A t \in SUBSET S : Cardinality(t) <= Cardinality(S)
  BY FS_Subset
<1>7. IsSum(g, S, sz)
  BY <1>5, <1>6 DEF IsSum
<1> QED
  BY <1>7

\* A sum of numbers is a number.
LEMMA SumIsNatural ==
  ASSUME NEW S, IsFiniteSet(S), NEW sz \in [S -> Nat], NEW g, IsSum(g, S, sz)
  PROVE  \A t \in SUBSET S : g[t] \in Nat
<1> DEFINE Fails == {n \in Nat : \E t \in SUBSET S : Cardinality(t) = n /\ g[t] \notin Nat}
<1> SUFFICES ASSUME NEW t \in SUBSET S, g[t] \notin Nat PROVE FALSE
  OBVIOUS
<1>1. Cardinality(t) \in Fails
  BY OneLess
<1>2. PICK m \in Fails : \A n \in Fails : m <= n
  BY <1>1, LeastNatural
<1>3. PICK u \in SUBSET S : Cardinality(u) = m /\ g[u] \notin Nat
  BY <1>2
<1>4. g[u] = IF u = {} THEN 0 ELSE sz[Elem(u)] + g[u \ {Elem(u)}]
  BY <1>3 DEF IsSum
<1>5. u # {}
  BY <1>3, <1>4
<1>6. /\ Elem(u) \in S /\ u \ {Elem(u)} \in SUBSET S
      /\ Cardinality(u) \in Nat /\ Cardinality(u) > 0
      /\ Cardinality(u \ {Elem(u)}) = m - 1 /\ m \in Nat /\ m > 0
  BY <1>3, <1>5, OneLess
<1>7. m - 1 \notin Fails /\ m - 1 \in Nat
  BY <1>2, <1>6
<1>8. g[u \ {Elem(u)}] \in Nat
  BY <1>6, <1>7
<1> QED
  BY <1>3, <1>4, <1>5, <1>6, <1>8

\* What changes at one element changes the sum by as much.
LEMMA SumFollows ==
  ASSUME NEW S, IsFiniteSet(S), NEW a \in [S -> Nat], NEW b \in [S -> Nat],
         NEW g, IsSum(g, S, a), NEW h, IsSum(h, S, b),
         NEW p \in S, \A q \in S \ {p} : b[q] = a[q]
  PROVE  h[S] = g[S] - a[p] + b[p]
<1> DEFINE Follows(t) == h[t] = IF p \in t THEN g[t] - a[p] + b[p] ELSE g[t]
           Fails == {n \in Nat : \E t \in SUBSET S : Cardinality(t) = n /\ ~Follows(t)}
<1>1. ASSUME NEW t \in SUBSET S, ~Follows(t) PROVE FALSE
  <2>1. Cardinality(t) \in Fails
    BY <1>1, OneLess
  <2>2. PICK m \in Fails : \A n \in Fails : m <= n
    BY <2>1, LeastNatural
  <2>3. PICK u \in SUBSET S : Cardinality(u) = m /\ ~Follows(u)
    BY <2>2
  <2>4. /\ h[u] = IF u = {} THEN 0 ELSE b[Elem(u)] + h[u \ {Elem(u)}]
        /\ g[u] = IF u = {} THEN 0 ELSE a[Elem(u)] + g[u \ {Elem(u)}]
    BY <2>3 DEF IsSum
  <2>5. u # {}
    BY <2>3, <2>4
  <2>6. /\ Elem(u) \in u /\ Elem(u) \in S /\ u \ {Elem(u)} \in SUBSET S
        /\ Cardinality(u \ {Elem(u)}) = m - 1 /\ m \in Nat /\ m > 0
    BY <2>3, <2>5, OneLess
  <2>7. m - 1 \notin Fails /\ m - 1 \in Nat
    BY <2>2, <2>6
  <2>8. Follows(u \ {Elem(u)})
    BY <2>6, <2>7
  <2>9. /\ g[u \ {Elem(u)}] \in Nat /\ h[u \ {Elem(u)}] \in Nat
        /\ a[Elem(u)] \in Nat /\ b[Elem(u)] \in Nat /\ a[p] \in Nat /\ b[p] \in Nat
    BY <2>6, SumIsNatural
  <2>10. Elem(u) # p => b[Elem(u)] = a[Elem(u)]
    BY <2>6
  <2> QED
    BY <2>3, <2>4, <2>5, <2>6, <2>8, <2>9, <2>10
<1> QED
  BY <1>1

LEMMA UsageIsSum ==
  Usage = (CHOOSE g : g = [t \in SUBSET ObjectPaths |->
             IF t = {} THEN 0 ELSE sizes[Elem(t)] + g[t \ {Elem(t)}]])[ObjectPaths]
  BY DEF Usage, MapThenSumSet, MapThenFoldSet, Elem

\* What is used of the quota, and what one path's change makes of it.
Total(sz) == (CHOOSE g : IsSum(g, ObjectPaths, sz))[ObjectPaths]

LEMMA TotalIsUsage == Usage = Total(sizes)
  BY UsageIsSum DEF Total, IsSum

LEMMA TotalFollows ==
  ASSUME NEW a \in [ObjectPaths -> Nat]
  PROVE  /\ Total(a) \in Nat
         /\ \A p \in ObjectPaths, n \in Nat :
              Total([a EXCEPT ![p] = n]) = Total(a) - a[p] + n
<1>0. IsFiniteSet(ObjectPaths)
  BY GateAssumption
<1>1. ASSUME NEW b \in [ObjectPaths -> Nat]
      PROVE  IsSum(CHOOSE g : IsSum(g, ObjectPaths, b), ObjectPaths, b)
  BY <1>0, SumExists
<1>2. Total(a) \in Nat
  BY <1>0, <1>1, SumIsNatural DEF Total
<1>3. ASSUME NEW p \in ObjectPaths, NEW n \in Nat
      PROVE  Total([a EXCEPT ![p] = n]) = Total(a) - a[p] + n
  <2>1. PICK b \in [ObjectPaths -> Nat] : b = [a EXCEPT ![p] = n]
    BY <1>3
  <2>2. b[p] = n /\ \A q \in ObjectPaths \ {p} : b[q] = a[q]
    BY <1>3, <2>1
  <2>3. Total(b) = Total(a) - a[p] + b[p]
    BY <1>0, <1>1, <1>3, <2>2, SumFollows DEF Total
  <2> QED
    BY <2>1, <2>2, <2>3
<1> QED
  BY <1>2, <1>3

\* Of no sizes there is no use.
LEMMA TotalOfNone == Total([p \in ObjectPaths |-> 0]) = 0
<1> DEFINE z == [p \in ObjectPaths |-> 0]
           g == [t \in SUBSET ObjectPaths |-> 0]
<1>0. IsFiniteSet(ObjectPaths) /\ z \in [ObjectPaths -> Nat]
  BY GateAssumption
<1>1. PICK h : IsSum(h, ObjectPaths, z) /\ h = CHOOSE f : IsSum(f, ObjectPaths, z)
  BY <1>0, SumExists
<1> DEFINE Fails == {n \in Nat : \E t \in SUBSET ObjectPaths : Cardinality(t) = n /\ h[t] # 0}
<1>2. ASSUME NEW t \in SUBSET ObjectPaths, h[t] # 0 PROVE FALSE
  <2>1. Cardinality(t) \in Fails
    BY <1>0, <1>2, OneLess
  <2>2. PICK m \in Fails : \A n \in Fails : m <= n
    BY <2>1, LeastNatural
  <2>3. PICK u \in SUBSET ObjectPaths : Cardinality(u) = m /\ h[u] # 0
    BY <2>2
  <2>4. h[u] = IF u = {} THEN 0 ELSE z[Elem(u)] + h[u \ {Elem(u)}]
    BY <1>1, <2>3 DEF IsSum
  <2>5. u # {}
    BY <2>3, <2>4
  <2>6. /\ Elem(u) \in ObjectPaths /\ u \ {Elem(u)} \in SUBSET ObjectPaths
        /\ Cardinality(u \ {Elem(u)}) = m - 1 /\ m \in Nat /\ m > 0
    BY <1>0, <2>3, <2>5, OneLess
  <2>7. m - 1 \notin Fails /\ m - 1 \in Nat
    BY <2>2, <2>6
  <2>8. h[u \ {Elem(u)}] = 0 /\ z[Elem(u)] = 0
    BY <2>6, <2>7
  <2> QED
    BY <2>3, <2>4, <2>5, <2>8
<1> QED
  BY <1>1, <1>2 DEF Total

\* A finite set of numbers has a greatest one.
LEMMA FiniteHasGreatest ==
  ASSUME NEW S, IsFiniteSet(S), S \subseteq Nat, S # {}
  PROVE  \E m \in S : \A n \in S : n <= m
<1> DEFINE Has(t) == \E m \in t : \A n \in t : n <= m
           Fails == {n \in Nat : \E t \in SUBSET S : Cardinality(t) = n /\ t # {} /\ ~Has(t)}
<1>1. ASSUME ~Has(S) PROVE FALSE
  <2>1. Cardinality(S) \in Fails
    BY <1>1, OneLess
  <2>2. PICK m \in Fails : \A n \in Fails : m <= n
    BY <2>1, LeastNatural
  <2>3. PICK u \in SUBSET S : Cardinality(u) = m /\ u # {} /\ ~Has(u)
    BY <2>2
  <2>4. /\ Elem(u) \in u /\ u \ {Elem(u)} \in SUBSET S
        /\ Cardinality(u \ {Elem(u)}) = m - 1 /\ m \in Nat /\ m > 0
    BY <2>3, OneLess
  <2>5. m - 1 \notin Fails /\ m - 1 \in Nat
    BY <2>2, <2>4
  <2>6. PICK x \in Nat : x = Elem(u)
    BY <2>4
  <2>7. CASE u \ {Elem(u)} = {}
    <3>1. \A n \in u : n = x
      BY <2>6, <2>7
    <3> QED
      BY <2>3, <2>4, <2>6, <3>1
  <2>8. CASE u \ {Elem(u)} # {}
    <3>1. PICK y \in u \ {x} : \A n \in u \ {x} : n <= y
      BY <2>4, <2>5, <2>6, <2>8
    <3>2. y \in Nat /\ \A n \in u : n \in Nat
      BY <2>3, <3>1
    <3>3. CASE x <= y
      <4>1. \A n \in u : n <= y
        BY <3>1, <3>3
      <4> QED
        BY <2>3, <3>1, <4>1
    <3>4. CASE ~(x <= y)
      <4>1. \A n \in u : n <= x
        BY <2>6, <3>1, <3>2, <3>4
      <4> QED
        BY <2>3, <2>4, <2>6, <4>1
    <3> QED
      BY <3>3, <3>4
  <2> QED
    BY <2>7, <2>8
<1> QED
  BY <1>1

LEMMA BiggestBody == Biggest \in Bodies /\ Biggest \in Nat \ {0} /\ \A n \in Bodies : n <= Biggest
<1>1. PICK m \in Bodies : \A n \in Bodies : n <= m
  <2>1. IsFiniteSet(Bodies) /\ Bodies \subseteq Nat /\ Bodies # {}
    BY GateAssumption
  <2> QED
    BY <2>1, FiniteHasGreatest
<1>2. m \in Bodies /\ \A n \in Bodies : m >= n
  <2>1. \A n \in Bodies : n \in Nat
    BY GateAssumption
  <2> QED
    BY <1>1, <2>1
<1>3. Biggest \in Bodies /\ \A n \in Bodies : Biggest >= n
  BY <1>2 DEF Biggest, Max
<1>4. \A n \in Bodies : n \in Nat \ {0}
  BY GateAssumption
<1> QED
  BY <1>3, <1>4

Upload == [size : 1..Biggest, path : SUBSET ObjectPaths]

GateTypes ==
    /\ bucket \in [there : BOOLEAN, max : MaxSizes \cup {0}]
    /\ sizes \in [ObjectPaths -> 0..Biggest]
    /\ writers \in [Writers -> Upload \cup {NotWriting}]

\* Each upload under way may still add the biggest body to what is used, and
\* it was let in below the quota: alone, or with the others.
QuotaKept ==
    "lifted" \notin slipped =>
       /\ quota = Quota
       /\ "together" \notin slipped => Cardinality(Underway) <= 1
       /\ Total(sizes) + Biggest * Cardinality(Underway)
            <= Quota - 1 + Biggest * (IF "together" \in slipped THEN Cardinality(Writers) ELSE 1)

\* While a bucket is removed nobody uploads, and its rows go before it; what is
\* stored and what is under way were measured against the bucket that is there.
LimitsKept ==
    "crossed" \notin slipped =>
       /\ remover # "none" => Underway = {}
       /\ remover = "bucket" => \A p \in ObjectPaths : sizes[p] = 0
       /\ \A p \in ObjectPaths : sizes[p] # 0 => bucket.there /\ WithinLimit(sizes[p])
       /\ \A c \in Underway : bucket.there /\ WithinLimit(writers[c].size)

GateInv == GateTypes /\ QuotaKept /\ LimitsKept

LEMMA UnderwayFinite ==
  /\ IsFiniteSet(Underway) /\ Cardinality(Underway) \in Nat /\ Cardinality(Writers) \in Nat
  /\ Cardinality(Underway) <= Cardinality(Writers)
  /\ \A c \in Writers : c \notin Underway =>
       /\ Cardinality(Underway \cup {c}) = Cardinality(Underway) + 1
       /\ Cardinality(Underway) + 1 <= Cardinality(Writers)
  /\ \A c \in Underway : Cardinality(Underway \ {c}) = Cardinality(Underway) - 1
<1>1. IsFiniteSet(Writers) /\ Underway \in SUBSET Writers
  BY GateAssumption DEF Underway
<1>2. IsFiniteSet(Underway) /\ Cardinality(Underway) \in Nat /\ Cardinality(Writers) \in Nat
  BY <1>1, FS_Subset, FS_CardinalityType
<1>3. Cardinality(Underway) <= Cardinality(Writers)
  BY <1>1, FS_Subset
<1>4. ASSUME NEW c \in Writers, c \notin Underway
      PROVE  /\ Cardinality(Underway \cup {c}) = Cardinality(Underway) + 1
             /\ Cardinality(Underway) + 1 <= Cardinality(Writers)
  <2>1. Cardinality(Underway \cup {c}) = Cardinality(Underway) + 1
    BY <1>2, <1>4, FS_AddElement
  <2>2. Underway \cup {c} \in SUBSET Writers
    BY <1>1
  <2>3. Cardinality(Underway \cup {c}) <= Cardinality(Writers)
    BY <1>1, <2>2, FS_Subset
  <2> QED
    BY <2>1, <2>3
<1>5. ASSUME NEW c \in Underway PROVE Cardinality(Underway \ {c}) = Cardinality(Underway) - 1
  BY <1>2, FS_RemoveElement
<1> QED
  BY <1>2, <1>3, <1>4, <1>5

LEMMA GateBegins == GateInit => GateInv
<1> SUFFICES ASSUME GateInit PROVE GateInv
  OBVIOUS
<1>1. Underway = {} /\ Cardinality(Underway) = 0
  BY FS_EmptySet DEF GateInit, Underway
<1>2. GateTypes
  BY BiggestBody DEF GateInit, GateTypes, NoBucket
<1>3. Total(sizes) = 0
  BY TotalOfNone DEF GateInit
<1>4. Quota \in Nat \ {0} /\ Biggest \in Nat
  BY GateAssumption, BiggestBody
<1>5. QuotaKept
  BY <1>1, <1>3, <1>4 DEF GateInit, QuotaKept
<1>6. LimitsKept
  BY <1>1 DEF GateInit, LimitsKept
<1> QED
  BY <1>2, <1>5, <1>6 DEF GateInv

\* What the actions do to who is under way.
LEMMA UnderwayMoves ==
  ASSUME GateTypes, NEW c \in Writers
  PROVE  /\ writers' = writers => Underway' = Underway
         /\ writers' = [writers EXCEPT ![c] = NotWriting] =>
              /\ Underway' = Underway \ {c}
              /\ \A d \in Underway' : writers'[d] = writers[d]
         /\ \A u \in Upload : writers' = [writers EXCEPT ![c] = u] =>
              /\ Underway' = Underway \cup {c}
              /\ \A d \in Writers \ {c} : writers'[d] = writers[d]
              /\ writers'[c] = u
<1>1. \A u \in Upload : u # NotWriting
  <2>1. \A u \in Upload : u.size \in 1..Biggest
    BY DEF Upload
  <2>2. NotWriting.size = 0
    BY DEF NotWriting
  <2> QED
    BY <2>1, <2>2, BiggestBody
<1>2. writers \in [Writers -> Upload \cup {NotWriting}]
  BY DEF GateTypes
<1> QED
  BY <1>1, <1>2 DEF Underway

\* An upload is let in: of a size within the limit, below the quota.
LEMMA LetInStep ==
  ASSUME GateInv, NEW c \in Writers, NEW p \in ObjectPaths, NEW body \in 1..Biggest,
         WithinLimit(body), LetIn(c, p, body)
  PROVE  GateInv'
<1> DEFINE u == [size |-> body, path |-> {p}]
<1>1. u \in Upload /\ writers' = [writers EXCEPT ![c] = u]
  BY DEF Upload, LetIn
<1>2. GateTypes /\ QuotaKept /\ LimitsKept
  BY DEF GateInv
<1>3. /\ Underway' = Underway \cup {c} /\ writers'[c] = u
      /\ \A d \in Writers \ {c} : writers'[d] = writers[d]
  BY <1>1, <1>2, UnderwayMoves
<1>4. GateTypes'
  BY <1>1, <1>2 DEF GateTypes, LetIn, Upload
<1>5. c \notin Underway /\ sizes' = sizes /\ bucket' = bucket /\ quota' = quota
      /\ remover' = remover /\ bucket.there
  BY DEF LetIn
<1>6. /\ Cardinality(Underway') = Cardinality(Underway) + 1
      /\ Cardinality(Underway) + 1 <= Cardinality(Writers)
      /\ Cardinality(Underway) \in Nat /\ Cardinality(Writers) \in Nat
  BY <1>3, <1>5, UnderwayFinite
<1>7. slipped \subseteq slipped'
  BY DEF LetIn
<1>8. ASSUME "lifted" \notin slipped'
      PROVE  /\ quota' = Quota
             /\ "together" \notin slipped' => Cardinality(Underway') <= 1
             /\ Total(sizes') + Biggest * Cardinality(Underway')
                  <= Quota - 1 + Biggest * (IF "together" \in slipped' THEN Cardinality(Writers) ELSE 1)
  <2>1. quota = Quota
    BY <1>2, <1>7, <1>8 DEF QuotaKept
  <2>2. Total(sizes) \in Nat /\ Quota \in Nat \ {0} /\ Biggest \in Nat
    <3>1. sizes \in [ObjectPaths -> Nat]
      BY <1>2, BiggestBody DEF GateTypes
    <3> QED
      BY <3>1, TotalFollows, GateAssumption, BiggestBody
  <2>3. Total(sizes) <= Quota - 1
    <3>1. ~(Quota > 0 /\ Total(sizes) >= Quota)
      BY <2>1, TotalIsUsage DEF LetIn, quotaExceeded
    <3> QED
      BY <2>2, <3>1
  <2>4. Underway # {} => "together" \in slipped'
    BY DEF LetIn
  <2>5. "together" \notin slipped' => Cardinality(Underway) = 0
    BY <2>4, FS_EmptySet
  <2>6. CASE "together" \in slipped'
    <3>1. Biggest * (Cardinality(Underway) + 1) <= Biggest * Cardinality(Writers)
      <4> DEFINE n == Cardinality(Underway) + 1
                 m == Cardinality(Writers)
      <4>1. n \in Nat /\ m \in Nat /\ n <= m /\ Biggest \in Nat
        BY <1>6, <2>2
      <4> HIDE DEF n, m
      <4>2. m - n \in Nat /\ m = n + (m - n)
        BY <4>1
      <4>3. Biggest * (m - n) >= 0
        BY <4>1, <4>2
      <4>4. Biggest * m = Biggest * n + Biggest * (m - n)
        BY <4>1, <4>2
      <4>5. Biggest * n <= Biggest * m
        BY <4>1, <4>2, <4>3, <4>4
      <4> QED
        BY <4>5 DEF n, m
    <3>2. Biggest * (Cardinality(Underway) + 1) \in Nat /\ Biggest * Cardinality(Writers) \in Nat
      BY <1>6, <2>2
    <3>3. Total(sizes) + Biggest * (Cardinality(Underway) + 1)
            <= Quota - 1 + Biggest * Cardinality(Writers)
      BY <2>2, <2>3, <3>1, <3>2
    <3> QED
      BY <1>5, <1>6, <2>1, <2>6, <3>3
  <2>7. CASE "together" \notin slipped'
    <3>1. Cardinality(Underway') = 1
      BY <1>6, <2>5, <2>7
    <3>2. Total(sizes) + Biggest * 1 <= Quota - 1 + Biggest * 1
      BY <2>2, <2>3
    <3> QED
      BY <1>5, <2>1, <2>7, <3>1, <3>2
  <2> QED
    BY <2>6, <2>7
<1>9. QuotaKept'
  BY <1>8 DEF QuotaKept
<1>10. ASSUME "crossed" \notin slipped'
       PROVE  /\ remover = "none"
              /\ \A q \in ObjectPaths : sizes[q] # 0 => bucket.there /\ WithinLimit(sizes[q])
              /\ \A d \in Underway' : bucket.there /\ WithinLimit(writers'[d].size)
  <2>1. remover = "none"
    BY <1>10 DEF LetIn
  <2>2. "crossed" \notin slipped
    BY <1>7, <1>10
  <2>3. writers'[c].size = body
    BY <1>3
  <2>4. \A d \in Underway : d \in Writers \ {c}
    BY <1>5 DEF Underway
  <2> QED
    BY <1>2, <1>3, <1>5, <2>1, <2>2, <2>3, <2>4 DEF LimitsKept
<1>11. LimitsKept'
  BY <1>5, <1>10 DEF LimitsKept, WithinLimit
<1> QED
  BY <1>4, <1>9, <1>11 DEF GateInv

\* What is used and who is under way, no more of either: the quota is kept.
LEMMA RoomStays ==
  ASSUME GateTypes, QuotaKept, "lifted" \notin slipped' => "lifted" \notin slipped /\ quota' = quota,
         "together" \in slipped <=> "together" \in slipped', Cardinality(Underway') \in Nat,
         Total(sizes') \in Nat, Cardinality(Underway') <= Cardinality(Underway),
         Total(sizes') + Biggest * Cardinality(Underway')
           <= Total(sizes) + Biggest * Cardinality(Underway)
  PROVE  QuotaKept'
<1> SUFFICES ASSUME "lifted" \notin slipped'
             PROVE  /\ quota' = Quota
                    /\ "together" \notin slipped' => Cardinality(Underway') <= 1
                    /\ Total(sizes') + Biggest * Cardinality(Underway')
                         <= Quota - 1 + Biggest * (IF "together" \in slipped' THEN Cardinality(Writers) ELSE 1)
  BY DEF QuotaKept
<1>1. quota' = Quota /\ ("together" \notin slipped => Cardinality(Underway) <= 1)
  BY DEF QuotaKept
<1>2. Total(sizes) + Biggest * Cardinality(Underway)
        <= Quota - 1 + Biggest * (IF "together" \in slipped THEN Cardinality(Writers) ELSE 1)
  BY DEF QuotaKept
<1>3. /\ Biggest \in Nat /\ Quota \in Nat \ {0} /\ Cardinality(Underway) \in Nat
      /\ Cardinality(Writers) \in Nat
  BY BiggestBody, GateAssumption, UnderwayFinite
<1>4. Total(sizes) \in Nat
  <2>1. sizes \in [ObjectPaths -> Nat]
    BY BiggestBody DEF GateTypes
  <2> QED
    BY <2>1, TotalFollows
<1>5. /\ Biggest * Cardinality(Underway) \in Nat /\ Biggest * Cardinality(Underway') \in Nat
      /\ Biggest * Cardinality(Writers) \in Nat
  BY <1>3
<1> DEFINE roof == Quota - 1 + Biggest * (IF "together" \in slipped THEN Cardinality(Writers) ELSE 1)
<1>6. roof \in Nat
  BY <1>3, <1>5
<1> HIDE DEF roof
<1>7. Total(sizes') + Biggest * Cardinality(Underway') <= roof
  BY <1>2, <1>4, <1>5, <1>6 DEF roof
<1> QED
  BY <1>1, <1>3, <1>7 DEF roof

\* An upload ends: with its row, or without.
LEMMA UploadEnds ==
  ASSUME GateInv, NEW c \in Writers, UploadLands(c) \/ UploadGone(c)
  PROVE  GateInv'
<1>1. GateTypes /\ QuotaKept /\ LimitsKept
  BY DEF GateInv
<1>2. /\ c \in Underway /\ writers' = [writers EXCEPT ![c] = NotWriting]
      /\ bucket' = bucket /\ quota' = quota /\ remover' = remover /\ slipped' = slipped
  BY DEF UploadLands, UploadGone
<1>3. Underway' = Underway \ {c} /\ \A d \in Underway' : writers'[d] = writers[d]
  BY <1>1, <1>2, UnderwayMoves
<1>4. /\ Cardinality(Underway') = Cardinality(Underway) - 1
      /\ Cardinality(Underway) \in Nat /\ Cardinality(Underway') \in Nat
  <2>1. IsFiniteSet(Underway \ {c}) /\ Cardinality(Underway \ {c}) \in Nat
    BY UnderwayFinite, FS_Difference, FS_CardinalityType
  <2> QED
    BY <1>2, <1>3, <2>1, UnderwayFinite
<1>5. writers[c] \in Upload /\ writers[c].size \in 1..Biggest /\ writers[c].path \subseteq ObjectPaths
  BY <1>1, <1>2 DEF GateTypes, Underway, Upload
<1>6. \/ sizes' = sizes
      \/ \E p \in ObjectPaths : sizes' = [sizes EXCEPT ![p] = writers[c].size]
  BY <1>5 DEF UploadLands, UploadGone
<1>7. sizes \in [ObjectPaths -> Nat] /\ Biggest \in Nat
  BY <1>1, BiggestBody DEF GateTypes
<1>8. GateTypes'
  <2>1. sizes' \in [ObjectPaths -> 0..Biggest]
    BY <1>1, <1>5, <1>6 DEF GateTypes
  <2>2. writers' \in [Writers -> Upload \cup {NotWriting}]
    BY <1>1, <1>2 DEF GateTypes
  <2> QED
    BY <1>1, <1>2, <2>1, <2>2 DEF GateTypes
<1>9. Total(sizes') \in Nat /\ Total(sizes) \in Nat /\ Total(sizes') <= Total(sizes) + Biggest
  <2>1. Total(sizes) \in Nat
    BY <1>7, TotalFollows
  <2>2. CASE sizes' = sizes
    BY <1>7, <2>1, <2>2
  <2>3. ASSUME NEW p \in ObjectPaths, sizes' = [sizes EXCEPT ![p] = writers[c].size]
        PROVE  Total(sizes') \in Nat /\ Total(sizes') <= Total(sizes) + Biggest
    <3>1. writers[c].size \in Nat /\ writers[c].size <= Biggest /\ sizes[p] \in Nat
      BY <1>5, <1>7
    <3>2. Total(sizes') = Total(sizes) - sizes[p] + writers[c].size
      BY <1>7, <2>3, <3>1, TotalFollows
    <3>3. sizes' \in [ObjectPaths -> Nat]
      BY <1>7, <2>3, <3>1
    <3>4. Total(sizes') \in Nat
      BY <3>3, TotalFollows
    <3> QED
      BY <1>7, <2>1, <3>1, <3>2, <3>4
  <2> QED
    BY <1>6, <2>1, <2>2, <2>3
<1>10. QuotaKept'
  <2>1. Biggest * Cardinality(Underway') = Biggest * Cardinality(Underway) - Biggest
    <3> DEFINE n == Cardinality(Underway)
    <3>1. n \in Nat /\ Biggest \in Nat
      BY <1>4, <1>7
    <3> HIDE DEF n
    <3>2. Biggest * (n - 1) = Biggest * n - Biggest
      BY <3>1
    <3> QED
      BY <1>4, <3>2 DEF n
  <2>2. Biggest * Cardinality(Underway) \in Nat
    BY <1>4, <1>7
  <2>3. Total(sizes') + Biggest * Cardinality(Underway')
          <= Total(sizes) + Biggest * Cardinality(Underway)
    BY <1>7, <1>9, <2>1, <2>2
  <2> QED
    BY <1>1, <1>2, <1>4, <1>9, <2>3, RoomStays
<1>11. ASSUME "crossed" \notin slipped
       PROVE  /\ remover = "none"
              /\ \A q \in ObjectPaths : sizes'[q] # 0 => bucket.there /\ WithinLimit(sizes'[q])
              /\ \A d \in Underway' : bucket.there /\ WithinLimit(writers'[d].size)
  <2>1. /\ remover # "none" => Underway = {}
        /\ \A q \in ObjectPaths : sizes[q] # 0 => bucket.there /\ WithinLimit(sizes[q])
        /\ \A d \in Underway : bucket.there /\ WithinLimit(writers[d].size)
    BY <1>1, <1>11 DEF LimitsKept
  <2>2. remover = "none"
    BY <1>2, <2>1
  <2>3. bucket.there /\ WithinLimit(writers[c].size)
    BY <1>2, <2>1
  <2>4. \A q \in ObjectPaths : sizes'[q] = sizes[q] \/ sizes'[q] = writers[c].size
    BY <1>6, <1>7
  <2>5. ASSUME NEW q \in ObjectPaths, sizes'[q] # 0
        PROVE  bucket.there /\ WithinLimit(sizes'[q])
    BY <2>1, <2>3, <2>4, <2>5
  <2>6. ASSUME NEW d \in Underway' PROVE bucket.there /\ WithinLimit(writers'[d].size)
    BY <1>3, <2>1, <2>6
  <2> QED
    BY <2>2, <2>5, <2>6
<1>12. LimitsKept'
  BY <1>2, <1>11 DEF LimitsKept, WithinLimit
<1> QED
  BY <1>8, <1>10, <1>12 DEF GateInv

\* A row goes, or the rows of the bucket.
LEMMA RowsGo ==
  ASSUME GateInv, RemoveRows \/ \E p \in ObjectPaths : ObjectDeleted(p)
  PROVE  GateInv'
<1>1. GateTypes /\ QuotaKept /\ LimitsKept
  BY DEF GateInv
<1>2. /\ bucket' = bucket /\ quota' = quota /\ writers' = writers /\ slipped' = slipped
      /\ \/ remover' = remover
         \/ remover' = "bucket" /\ remover = "rows" /\ \A p \in ObjectPaths : sizes'[p] = 0
      /\ Underway' = Underway
  <2>1. CASE RemoveRows
    BY <2>1 DEF RemoveRows, Underway
  <2>2. ASSUME NEW p \in ObjectPaths, ObjectDeleted(p)
        PROVE  /\ bucket' = bucket /\ quota' = quota /\ writers' = writers /\ slipped' = slipped
               /\ remover' = remover /\ Underway' = Underway
    BY <2>2 DEF ObjectDeleted, Underway
  <2> QED
    BY <2>1, <2>2
<1>3. sizes \in [ObjectPaths -> Nat] /\ Biggest \in Nat
  BY <1>1, BiggestBody DEF GateTypes
<1>4. /\ sizes' \in [ObjectPaths -> 0..Biggest]
      /\ \A p \in ObjectPaths : sizes'[p] = sizes[p] \/ sizes'[p] = 0
  <2>1. CASE RemoveRows
    BY <1>3, <2>1 DEF RemoveRows
  <2>2. ASSUME NEW p \in ObjectPaths, ObjectDeleted(p)
        PROVE  /\ sizes' \in [ObjectPaths -> 0..Biggest]
               /\ \A q \in ObjectPaths : sizes'[q] = sizes[q] \/ sizes'[q] = 0
    BY <1>1, <1>3, <2>2 DEF ObjectDeleted, GateTypes
  <2> QED
    BY <2>1, <2>2
<1>5. Total(sizes) \in Nat /\ Total(sizes') \in Nat /\ Total(sizes') <= Total(sizes)
  <2>1. Total(sizes) \in Nat
    BY <1>3, TotalFollows
  <2>2. CASE RemoveRows
    <3>1. Total(sizes') = 0
      BY <2>2, TotalOfNone DEF RemoveRows
    <3> QED
      BY <2>1, <3>1
  <2>3. ASSUME NEW p \in ObjectPaths, ObjectDeleted(p)
        PROVE  Total(sizes') \in Nat /\ Total(sizes') <= Total(sizes)
    <3>1. Total(sizes') = Total(sizes) - sizes[p] + 0 /\ sizes[p] \in Nat
      BY <1>3, <2>3, TotalFollows DEF ObjectDeleted
    <3>2. sizes' \in [ObjectPaths -> Nat]
      BY <1>3, <1>4
    <3>3. Total(sizes') \in Nat
      BY <3>2, TotalFollows
    <3> QED
      BY <2>1, <3>1, <3>3
  <2> QED
    BY <2>1, <2>2, <2>3
<1>6. GateTypes'
  BY <1>1, <1>2, <1>4 DEF GateTypes
<1>7. QuotaKept'
  <2>1. Cardinality(Underway) \in Nat /\ Biggest * Cardinality(Underway) \in Nat
    BY <1>3, UnderwayFinite
  <2>2. /\ Cardinality(Underway') \in Nat /\ Cardinality(Underway') <= Cardinality(Underway)
        /\ Total(sizes') + Biggest * Cardinality(Underway')
             <= Total(sizes) + Biggest * Cardinality(Underway)
    BY <1>2, <1>5, <2>1
  <2> QED
    BY <1>1, <1>2, <1>5, <2>2, RoomStays
<1>8. ASSUME "crossed" \notin slipped
      PROVE  /\ remover' # "none" => Underway = {}
             /\ remover' = "bucket" => \A p \in ObjectPaths : sizes'[p] = 0
             /\ \A p \in ObjectPaths : sizes'[p] # 0 => bucket.there /\ WithinLimit(sizes'[p])
             /\ \A d \in Underway : bucket.there /\ WithinLimit(writers[d].size)
  <2>1. /\ remover # "none" => Underway = {}
        /\ remover = "bucket" => \A p \in ObjectPaths : sizes[p] = 0
        /\ \A p \in ObjectPaths : sizes[p] # 0 => bucket.there /\ WithinLimit(sizes[p])
        /\ \A d \in Underway : bucket.there /\ WithinLimit(writers[d].size)
    BY <1>1, <1>8 DEF LimitsKept
  <2>2. ASSUME NEW p \in ObjectPaths, sizes'[p] # 0
        PROVE  bucket.there /\ WithinLimit(sizes'[p])
    BY <1>4, <2>1, <2>2
  <2>3. remover' = "bucket" => \A p \in ObjectPaths : sizes'[p] = 0
    BY <1>2, <1>4, <2>1
  <2> QED
    BY <1>2, <2>1, <2>2, <2>3
<1>9. LimitsKept'
  BY <1>2, <1>8 DEF LimitsKept, WithinLimit
<1> QED
  BY <1>6, <1>7, <1>9 DEF GateInv

\* The quota, the bucket and its remover: what is stored stays as it is.
LEMMA SettingsMove ==
  ASSUME GateInv,
         \/ \E max \in MaxSizes : createBucket(max)
         \/ RemoveFiles \/ RemoveBucket \/ RemoverCut \/ setStorageQuota
         \/ UNCHANGED <<bucket, quota, sizes, writers, remover, slipped>>
  PROVE  GateInv'
<1>1. GateTypes /\ QuotaKept /\ LimitsKept
  BY DEF GateInv
<1>2. sizes' = sizes /\ slipped \subseteq slipped'
  <2>1. CASE RemoveFiles
    BY <2>1 DEF RemoveFiles
  <2>2. CASE setStorageQuota
    BY <2>2 DEF setStorageQuota
  <2>3. CASE \E max \in MaxSizes : createBucket(max)
    BY <2>3 DEF createBucket
  <2>4. CASE RemoveBucket \/ RemoverCut
    BY <2>4 DEF RemoveBucket, RemoverCut
  <2>5. CASE UNCHANGED <<bucket, quota, sizes, writers, remover, slipped>>
    BY <2>5
  <2> QED
    BY <2>1, <2>2, <2>3, <2>4, <2>5
<1>3. writers' = writers \/ writers' = [d \in Writers |-> NotWriting]
  <2>1. CASE RemoverCut
    BY <2>1 DEF RemoverCut
  <2>2. CASE \E max \in MaxSizes : createBucket(max)
    BY <2>2 DEF createBucket
  <2>3. CASE RemoveFiles \/ RemoveBucket \/ setStorageQuota
    BY <2>3 DEF RemoveFiles, RemoveBucket, setStorageQuota
  <2>4. CASE UNCHANGED <<bucket, quota, sizes, writers, remover, slipped>>
    BY <2>4
  <2> QED
    BY <2>1, <2>2, <2>3, <2>4
<1>4. Underway' = Underway \/ Underway' = {}
  BY <1>3 DEF Underway
<1>5. Total(sizes) \in Nat /\ Biggest \in Nat /\ Cardinality(Underway) \in Nat
  <2>1. sizes \in [ObjectPaths -> Nat]
    BY <1>1, BiggestBody DEF GateTypes
  <2> QED
    BY <2>1, TotalFollows, BiggestBody, UnderwayFinite
<1>6. GateTypes'
  <2>1. bucket' \in [there : BOOLEAN, max : MaxSizes \cup {0}]
    <3>1. bucket \in [there : BOOLEAN, max : MaxSizes \cup {0}]
      BY <1>1 DEF GateTypes
    <3>2. ASSUME NEW max \in MaxSizes, createBucket(max)
          PROVE  bucket' \in [there : BOOLEAN, max : MaxSizes \cup {0}]
      BY <3>1, <3>2 DEF createBucket
    <3>3. CASE RemoveBucket
      BY <3>3 DEF RemoveBucket, NoBucket
    <3>4. CASE RemoveFiles \/ RemoverCut \/ setStorageQuota
      BY <3>1, <3>4 DEF RemoveFiles, RemoverCut, setStorageQuota
    <3>5. CASE UNCHANGED <<bucket, quota, sizes, writers, remover, slipped>>
      BY <3>1, <3>5
    <3> QED
      BY <3>2, <3>3, <3>4, <3>5
  <2>2. writers' \in [Writers -> Upload \cup {NotWriting}]
    BY <1>1, <1>3 DEF GateTypes
  <2> QED
    BY <1>1, <1>2, <2>1, <2>2 DEF GateTypes
<1>7. QuotaKept'
  <2>1. Cardinality(Underway') \in Nat /\ Cardinality(Underway') <= Cardinality(Underway)
    BY <1>4, <1>5, FS_EmptySet
  <2>2. Biggest * Cardinality(Underway') <= Biggest * Cardinality(Underway)
    <3>1. CASE Underway' = Underway
      BY <1>5, <3>1
    <3>2. CASE Underway' = {}
      <4>1. Cardinality(Underway') = 0
        BY <3>2, FS_EmptySet
      <4>2. Biggest * Cardinality(Underway) \in Nat /\ Biggest * 0 = 0
        BY <1>5
      <4> QED
        BY <4>1, <4>2
    <3> QED
      BY <1>4, <3>1, <3>2
  <2>3. Biggest * Cardinality(Underway') \in Nat /\ Biggest * Cardinality(Underway) \in Nat
    BY <1>5, <2>1
  <2>4. Total(sizes') + Biggest * Cardinality(Underway')
          <= Total(sizes) + Biggest * Cardinality(Underway)
    BY <1>2, <1>5, <2>2, <2>3
  <2>5. "lifted" \notin slipped' => "lifted" \notin slipped /\ quota' = quota
    <3>1. "lifted" \notin slipped => quota = Quota
      BY <1>1 DEF QuotaKept
    <3> QED
      BY <1>2, <3>1 DEF createBucket, RemoveFiles, RemoveBucket, RemoverCut, setStorageQuota
  <2>6. "together" \in slipped <=> "together" \in slipped'
    BY DEF createBucket, RemoveFiles, RemoveBucket, RemoverCut, setStorageQuota
  <2> QED
    BY <1>1, <1>2, <1>5, <2>1, <2>4, <2>5, <2>6, RoomStays
<1>8. ASSUME "crossed" \notin slipped'
      PROVE  /\ remover' # "none" => Underway' = {}
             /\ remover' = "bucket" => \A p \in ObjectPaths : sizes'[p] = 0
             /\ \A p \in ObjectPaths : sizes'[p] # 0 => bucket'.there /\ WithinLimit(sizes[p])'
             /\ \A d \in Underway' : bucket'.there /\ WithinLimit(writers[d].size)'
  <2>1. /\ remover # "none" => Underway = {}
        /\ remover = "bucket" => \A p \in ObjectPaths : sizes[p] = 0
        /\ \A p \in ObjectPaths : sizes[p] # 0 => bucket.there /\ WithinLimit(sizes[p])
        /\ \A d \in Underway : bucket.there /\ WithinLimit(writers[d].size)
    BY <1>1, <1>2, <1>8 DEF LimitsKept
  <2>2. ASSUME NEW max \in MaxSizes, createBucket(max)
        PROVE  /\ sizes' = sizes /\ Underway' = Underway /\ writers' = writers /\ remover' = remover
               /\ bucket.there => bucket' = bucket
    BY <2>2 DEF createBucket, Underway
  <2>3. CASE RemoveFiles
    <3>1. /\ bucket' = bucket /\ sizes' = sizes /\ writers' = writers /\ Underway' = Underway
          /\ Underway = {} /\ remover' = "rows"
      BY <1>8, <2>3 DEF RemoveFiles, Underway
    <3> QED
      BY <2>1, <3>1 DEF WithinLimit
  <2>4. CASE RemoveBucket
    <3>1. Underway = {} /\ Underway' = {} /\ remover' = "none" /\ \A p \in ObjectPaths : sizes'[p] = 0
      BY <2>1, <2>4 DEF RemoveBucket, Underway
    <3> QED
      BY <3>1
  <2>5. CASE RemoverCut
    <3>1. /\ bucket' = bucket /\ sizes' = sizes /\ Underway' = {} /\ remover' = "none"
      BY <2>5 DEF RemoverCut, Underway
    <3> QED
      BY <2>1, <3>1 DEF WithinLimit
  <2>6. CASE setStorageQuota \/ UNCHANGED <<bucket, quota, sizes, writers, remover, slipped>>
    <3>1. /\ bucket' = bucket /\ sizes' = sizes /\ writers' = writers /\ Underway' = Underway
          /\ remover' = remover
      BY <2>6 DEF setStorageQuota, Underway
    <3> QED
      BY <2>1, <3>1 DEF WithinLimit
  <2>7. CASE \E max \in MaxSizes : createBucket(max)
    <3>1. /\ sizes' = sizes /\ Underway' = Underway /\ writers' = writers /\ remover' = remover
          /\ bucket.there => bucket' = bucket
      BY <2>2, <2>7
    <3>2. CASE bucket.there
      BY <2>1, <3>1, <3>2 DEF WithinLimit
    <3>3. CASE ~bucket.there
      <4>1. (\A p \in ObjectPaths : sizes[p] = 0) /\ Underway = {}
        BY <2>1, <3>3
      <4> QED
        BY <2>1, <3>1, <4>1
    <3> QED
      BY <3>2, <3>3
  <2> QED
    BY <2>3, <2>4, <2>5, <2>6, <2>7
<1>9. LimitsKept'
  BY <1>8 DEF LimitsKept
<1> QED
  BY <1>6, <1>7, <1>9 DEF GateInv

LEMMA BodiesFit == \A n \in Bodies : n \in 1..Biggest
<1>1. \A n \in Bodies : n \in Nat \ {0}
  BY GateAssumption
<1> QED
  BY <1>1, BiggestBody

LEMMA GateStep == ASSUME GateInv, [GateNext]_gateVars PROVE GateInv'
<1>1. ASSUME NEW c \in Writers, NEW p \in ObjectPaths, NEW body \in Bodies,
             \/ UploadLetIn(c, p, body, "service_role", p)
             \/ \E q \in ObjectPaths : UploadLetIn(c, p, body, "authenticated", OwnerOf[q])
      PROVE  GateInv'
  <2>1. body \in 1..Biggest
    BY BodiesFit
  <2>2. WithinLimit(body) /\ LetIn(c, p, body)
    BY <1>1 DEF UploadLetIn
  <2> QED
    BY <2>1, <2>2, LetInStep
<1>2. ASSUME NEW c \in Writers, NEW p \in ObjectPaths, NEW body \in Bodies, S3LetIn(c, p, body)
      PROVE  GateInv'
  <2>1. \E n \in 1..Biggest : WithinLimit(n) /\ LetIn(c, p, n)
    <3> DEFINE n == IF body > S3Cap THEN S3Cap ELSE body
    <3>1. n \in 1..Biggest
      <4>1. body \in 1..Biggest /\ S3Cap \in Nat \ {0} /\ Biggest \in Nat
        BY BodiesFit, BiggestBody, GateAssumption
      <4> QED
        BY <4>1
    <3>2. WithinLimit(n) /\ LetIn(c, p, n)
      BY <1>2 DEF S3LetIn
    <3> HIDE DEF n
    <3> QED
      BY <3>1, <3>2
  <2> QED
    BY <2>1, LetInStep
<1>3. CASE \E access \in Accesses : storageRuleAdd(AnyPath, access)
  BY <1>3, SettingsMove DEF storageRuleAdd
<1>4. CASE \E p \in ObjectPaths, access \in Accesses : storageRuleAdd({p}, access)
  BY <1>4, SettingsMove DEF storageRuleAdd
<1>5. CASE storageRuleDelete \/ UNCHANGED gateVars
  BY <1>5, SettingsMove DEF storageRuleDelete, gateVars
<1>6. CASE \/ \E max \in MaxSizes : createBucket(max)
           \/ RemoveFiles \/ RemoveBucket \/ RemoverCut \/ setStorageQuota
  BY <1>6, SettingsMove
<1>7. CASE RemoveRows \/ \E p \in ObjectPaths : ObjectDeleted(p)
  BY <1>7, RowsGo
<1>8. CASE \E c \in Writers : UploadLands(c) \/ UploadGone(c)
  BY <1>8, UploadEnds
<1> QED
  BY <1>1, <1>2, <1>3, <1>4, <1>5, <1>6, <1>7, <1>8 DEF GateNext

LEMMA GateInvSuffices == GateInv => GatesHold
<1> SUFFICES ASSUME GateInv PROVE GatesHold
  OBVIOUS
<1>1. GateTypes /\ QuotaKept /\ LimitsKept
  BY DEF GateInv
<1>2. Total(sizes) \in Nat /\ Biggest \in Nat /\ Cardinality(Underway) \in Nat
      /\ Cardinality(Writers) \in Nat /\ Quota \in Nat \ {0}
  <2>1. sizes \in [ObjectPaths -> Nat]
    BY <1>1, BiggestBody DEF GateTypes
  <2> QED
    BY <2>1, TotalFollows, BiggestBody, UnderwayFinite, GateAssumption
<1>3. Biggest * Cardinality(Underway) \in Nat /\ Biggest * Cardinality(Writers) \in Nat
  BY <1>2
<1>4. ASSUME "lifted" \notin slipped
      PROVE  Total(sizes) <= Quota - 1 + Biggest * (IF "together" \in slipped THEN Cardinality(Writers) ELSE 1)
  <2>1. Total(sizes) + Biggest * Cardinality(Underway)
          <= Quota - 1 + Biggest * (IF "together" \in slipped THEN Cardinality(Writers) ELSE 1)
    BY <1>1, <1>4 DEF QuotaKept
  <2>2. CASE "together" \in slipped
    BY <1>2, <1>3, <2>1, <2>2
  <2>3. CASE "together" \notin slipped
    BY <1>2, <1>3, <2>1, <2>3
  <2> QED
    BY <2>2, <2>3
<1>5. Usage = Total(sizes)
  BY TotalIsUsage
<1> QED
  BY <1>1, <1>4, <1>5 DEF LimitsKept, GatesHold

\* GatesHold for any paths, bodies, limits, quota and number of requests at
\* once: storage.go:234 and storage.go:254 of what is stored.
THEOREM GatesAlwaysHold == GateSpec => []GatesHold
<1>1. GateInv /\ [GateNext]_gateVars => GateInv'
  BY GateStep
<1> QED
  BY <1>1, GateBegins, GateInvSuffices, PTL DEF GateSpec

-----------------------------------------------------------------------------
(* Memory: the container and the row, and the bounds between them.         *)

\* The pass works within bounds that were good when they were written.
HourlyTypes ==
    \/ hourly = Resting
    \/ /\ hourly \in [pc : {"stats", "update", "row"}, of : Sizes, next : 0..2*Top]
       /\ hourly.of.min >= Floor /\ hourly.of.min <= hourly.of.max
       /\ hourly.of.mem >= hourly.of.min
       /\ hourly.pc \in {"update", "row"} => hourly.next \in hourly.of.min..hourly.of.max

MemTypes ==
    /\ limit \in Floor..Top /\ size \in Sizes /\ GoodBounds(size)
    /\ resizing \in {Resting} \cup [pc : {"row"}, to : Sizes]
    /\ HourlyTypes
    /\ resizes \in 0..MaxResizes
    /\ overlapped \in BOOLEAN /\ refused \in BOOLEAN /\ starved = FALSE

\* Container and row agree, or one who writes both has written the first; and
\* the pass reckons with the row as it is.
LimitFollows ==
    /\ resizing = Resting \/ hourly = Resting
    /\ hourly # Resting => hourly.of = Clamp(size)
    /\ IF resizing # Resting THEN limit = resizing.to.mem
       ELSE IF hourly.pc = "row" THEN limit = hourly.next
       ELSE limit = size.mem

MemInv ==
    /\ MemTypes
    /\ ~overlapped /\ ~refused => LimitFollows

LEMMA MemBegins == ASSUME MemInit PROVE MemInv
<1>1. limit \in Floor..Top /\ size = [mem |-> limit, min |-> 0, max |-> 0]
  BY MemoryAssumption DEF MemInit
<1>2. /\ size \in Sizes /\ GoodBounds(size) /\ size.mem = limit
      /\ resizing = Resting /\ hourly = Resting /\ resizes \in 0..MaxResizes
  BY <1>1, MemoryAssumption DEF MemInit, Sizes, GoodBounds
<1>3. hourly.pc # "row"
  BY <1>2 DEF Resting
<1> QED
  BY <1>1, <1>2, <1>3 DEF MemInit, MemInv, MemTypes, HourlyTypes, LimitFollows

\* What the pass decides is within the bounds, and more than it was under
\* pressure if the bounds have room.
LEMMA NextWithin ==
  ASSUME NEW p \in Sizes, p.min <= p.max, p.mem >= p.min, NEW used \in Nat
  PROVE  /\ NextLimit(p, used) \in p.min..p.max
         /\ Pressed(used, p.mem) /\ p.mem < p.max => NextLimit(p, used) > p.mem
<1>1. p.mem \in Nat /\ p.mem >= 4 /\ p.min \in Nat /\ p.max \in Nat
  BY MemoryAssumption DEF Sizes
<1>2. PICK mem \in Nat, least \in Nat, most \in Nat : mem = p.mem /\ least = p.min /\ most = p.max
  BY <1>1
<1>3. mem \div 4 \in Nat /\ mem \div 4 >= 1 /\ mem \div 5 \in Nat /\ mem \div 5 <= mem
  BY <1>1, <1>2
<1>4. PICK n \in Nat : /\ n = NextUnbounded(p, used)
                       /\ Pressed(used, mem) => n > mem
  BY <1>2, <1>3 DEF NextUnbounded
<1> QED
  BY <1>2, <1>4 DEF NextLimit

LEMMA MemStep ==
  ASSUME MemInv, [MemNext]_memVars
  PROVE  MemInv'
<1>0. /\ MemTypes /\ Floor \in Nat /\ Floor >= 4 /\ Top \in Nat
      /\ MaxResizes \in Nat /\ Limits \subseteq Floor..Top
      /\ Ranges \subseteq [min : 0..Top, max : 0..Top]
  BY MemoryAssumption DEF MemInv
<1>1. ASSUME NEW mem \in Limits, NEW range \in Ranges, DockerUpdate(mem, range)
      PROVE  MemInv'
  <2>1. mem \in Floor..Top /\ [mem |-> mem, min |-> range.min, max |-> range.max] \in Sizes
    BY <1>0 DEF Sizes
  <2>2. MemTypes'
    BY <1>0, <1>1, <2>1 DEF MemTypes, HourlyTypes, DockerUpdate, GoodBounds
  <2>3. ASSUME ~overlapped', ~refused' PROVE LimitFollows'
    <3>1. /\ hourly = Resting /\ hourly' = Resting /\ resizing = Resting /\ size' = size
          /\ ~overlapped /\ ~refused /\ hourly.pc = "none"
      <4>1. ~overlapped /\ hourly = Resting
        BY <1>0, <1>1, <2>3 DEF MemTypes, DockerUpdate
      <4> QED
        BY <1>1, <2>3, <4>1 DEF DockerUpdate, Resting
    <3>2. CASE resizing' = Resting /\ limit' = limit
      BY <3>1, <3>2 DEF MemInv, LimitFollows
    <3>3. CASE /\ limit' = mem
               /\ resizing' = [pc |-> "row", to |-> [mem |-> mem, min |-> range.min, max |-> range.max]]
      BY <3>1, <3>3 DEF LimitFollows, Resting
    <3> QED
      BY <1>1, <3>1, <3>2, <3>3 DEF DockerUpdate
  <2> QED
    BY <2>2, <2>3 DEF MemInv
<1>2. CASE SetInstanceRow
  <2>1. resizing \in [pc : {"row"}, to : Sizes]
    BY <1>0, <1>2 DEF MemTypes, SetInstanceRow
  <2>2. MemTypes'
    BY <1>0, <1>2, <2>1 DEF MemTypes, HourlyTypes, SetInstanceRow, GoodBounds
  <2>3. ASSUME ~overlapped', ~refused' PROVE LimitFollows'
    BY <1>0, <1>2, <2>1, <2>3 DEF MemInv, MemTypes, LimitFollows, SetInstanceRow, Resting
  <2> QED
    BY <2>2, <2>3 DEF MemInv
<1>3. CASE AdaptRead
  <2>1. /\ Clamp(size) \in Sizes /\ Clamp(size).min >= Floor
        /\ Clamp(size).min <= Clamp(size).max /\ Clamp(size).mem >= Clamp(size).min
    BY <1>0, <1>3 DEF AdaptRead, MemTypes, GoodBounds, Clamp, Sizes
  <2>2. MemTypes'
    <3>1. HourlyTypes'
      BY <1>0, <1>3, <2>1 DEF AdaptRead, HourlyTypes
    <3> QED
      BY <1>0, <1>3, <3>1 DEF MemTypes, AdaptRead, GoodBounds
  <2>3. ASSUME ~overlapped', ~refused' PROVE LimitFollows'
    BY <1>0, <1>3, <2>3 DEF MemInv, MemTypes, LimitFollows, AdaptRead, Resting, Clamp
  <2> QED
    BY <2>2, <2>3 DEF MemInv
<1>4. CASE AdaptStats
  <2>1. /\ hourly \in [pc : {"stats", "update", "row"}, of : Sizes, next : 0..2*Top]
        /\ hourly.of.min >= Floor /\ hourly.of.min <= hourly.of.max
        /\ hourly.of.mem >= hourly.of.min
        /\ hourly.of.max <= Top
    BY <1>0, <1>4 DEF AdaptStats, MemTypes, HourlyTypes, Sizes
  <2>2. PICK used \in 1..limit :
          LET next == NextLimit(hourly.of, used) IN
            /\ hourly' = IF next = hourly.of.mem THEN Resting
                         ELSE [hourly EXCEPT !.pc = "update", !.next = next]
            /\ starved' = (starved \/ (/\ Pressed(used, limit)
                                       /\ limit \in hourly.of.min..hourly.of.max - 1
                                       /\ next <= limit /\ ~overlapped /\ ~refused))
    BY <1>4 DEF AdaptStats
  <2>3. PICK next : next = NextLimit(hourly.of, used)
    OBVIOUS
  <2>4. /\ next \in hourly.of.min..hourly.of.max
        /\ Pressed(used, hourly.of.mem) /\ hourly.of.mem < hourly.of.max => next > hourly.of.mem
    <3>1. used \in Nat
      BY <1>0 DEF MemTypes
    <3> QED
      BY <2>1, <2>3, <3>1, NextWithin
  <2>5. HourlyTypes'
    <3>1. next \in 0..2*Top
      BY <1>0, <2>1, <2>4 DEF Sizes
    <3> QED
      BY <2>1, <2>2, <2>3, <2>4, <3>1 DEF HourlyTypes
  <2>6. ASSUME starved' PROVE FALSE
    <3>1. /\ Pressed(used, limit) /\ limit \in hourly.of.min..hourly.of.max - 1
          /\ next <= limit /\ ~overlapped /\ ~refused
      BY <1>0, <2>2, <2>3, <2>6 DEF MemTypes
    <3>2. hourly.of = Clamp(size) /\ limit = size.mem
      BY <1>4, <3>1 DEF MemInv, LimitFollows, AdaptStats, Resting
    <3>3. hourly.of.mem = limit
      BY <1>0, <3>1, <3>2 DEF Clamp, MemTypes, Sizes
    <3> QED
      BY <1>0, <2>1, <2>4, <3>1, <3>3 DEF MemTypes, Sizes
  <2>7. MemTypes'
    <3>1. starved' \in BOOLEAN
      BY <1>0, <2>2 DEF MemTypes
    <3> QED
      BY <1>0, <1>4, <2>5, <2>6, <3>1 DEF MemTypes, AdaptStats, GoodBounds
  <2>8. ASSUME ~overlapped', ~refused' PROVE LimitFollows'
    <3>1. hourly' = Resting \/ (hourly'.pc = "update" /\ hourly'.of = hourly.of)
      BY <2>1, <2>2
    <3> QED
      BY <1>4, <2>8, <3>1 DEF MemInv, LimitFollows, AdaptStats, Resting, Clamp
  <2> QED
    BY <2>7, <2>8 DEF MemInv
<1>5. CASE AdaptFails
  BY <1>0, <1>5 DEF AdaptFails, MemInv, MemTypes, HourlyTypes, LimitFollows, GoodBounds, Resting, Clamp
<1>6. CASE AdaptUpdate
  <2>1. /\ hourly \in [pc : {"stats", "update", "row"}, of : Sizes, next : 0..2*Top]
        /\ hourly.of.min >= Floor /\ hourly.of.max <= Top
        /\ hourly.next \in hourly.of.min..hourly.of.max
    BY <1>0, <1>6 DEF AdaptUpdate, MemTypes, HourlyTypes, Sizes
  <2>2. hourly.next \in Floor..Top
    BY <1>0, <2>1 DEF Sizes
  <2>3. MemTypes'
    BY <1>0, <1>6, <2>1, <2>2 DEF MemTypes, HourlyTypes, AdaptUpdate, GoodBounds
  <2>4. ASSUME ~overlapped', ~refused' PROVE LimitFollows'
    BY <1>6, <2>1, <2>4 DEF MemInv, LimitFollows, AdaptUpdate, Resting, Clamp
  <2> QED
    BY <2>3, <2>4 DEF MemInv
<1>7. CASE AdaptRow
  <2>1. /\ hourly \in [pc : {"stats", "update", "row"}, of : Sizes, next : 0..2*Top]
        /\ hourly.of.min >= Floor /\ hourly.of.max <= Top
        /\ hourly.next \in hourly.of.min..hourly.of.max
    BY <1>0, <1>7 DEF AdaptRow, MemTypes, HourlyTypes, Sizes
  <2>2. hourly.next \in Floor..Top
    BY <1>0, <2>1 DEF Sizes
  <2>3. size' \in Sizes /\ size'.mem = hourly.next /\ GoodBounds(size')
    BY <1>0, <1>7, <2>2 DEF AdaptRow, MemTypes, Sizes, GoodBounds
  <2>4. MemTypes'
    BY <1>0, <1>7, <2>3 DEF MemTypes, HourlyTypes, AdaptRow, GoodBounds
  <2>5. ASSUME ~overlapped', ~refused' PROVE LimitFollows'
    BY <1>7, <2>1, <2>3, <2>5 DEF MemInv, LimitFollows, AdaptRow, Resting
  <2> QED
    BY <2>4, <2>5 DEF MemInv
<1>8. CASE MemRestart
  BY <1>0, <1>8 DEF MemRestart, MemInv, MemTypes, HourlyTypes, LimitFollows, GoodBounds, Resting
<1>9. CASE UNCHANGED memVars
  BY <1>9 DEF memVars, MemInv, MemTypes, HourlyTypes, LimitFollows, GoodBounds, Clamp
<1> QED
  BY <1>1, <1>2, <1>3, <1>4, <1>5, <1>6, <1>7, <1>8, <1>9 DEF MemNext

\* Container and row agree on an instance's limit when nobody is at work, an
\* adapted limit is within its owner's bounds, and pressure makes it grow, for
\* any bounds of 4 MB and more (instances.go).
THEOREM MemoryStaysWithinBounds == MemSpec => []MemoryFollowsBounds
<1>1. MemInv => MemoryFollowsBounds
  <2> SUFFICES ASSUME MemInv PROVE MemoryFollowsBounds
    OBVIOUS
  <2> QED
    BY DEF MemInv, MemTypes, HourlyTypes, LimitFollows, MemoryFollowsBounds, Resting
<1>2. MemInit => MemInv
  BY MemBegins
<1>3. MemInv /\ [MemNext]_memVars => MemInv'
  BY MemStep
<1> QED
  BY <1>1, <1>2, <1>3, PTL DEF MemSpec

-----------------------------------------------------------------------------
(* Reports: one digest a week, and every line in a bundle or two.          *)

\* Where the week is after a tick.
LEMMA WeekGoesOn ==
  ASSUME NEW t \in Nat
  PROVE  /\ t % Week \in 0..Week - 1 /\ WeekOf(t) \in Nat
         /\ IF t % Week = Week - 1
            THEN (t + 1) % Week = 0 /\ WeekOf(t + 1) = WeekOf(t) + 1
            ELSE (t + 1) % Week = (t % Week) + 1 /\ WeekOf(t + 1) = WeekOf(t)
<1>1. Week \in Nat \ {0}
  BY ReportsAssumption
<1>2. PICK q \in Nat, r \in 0..Week - 1 :
        /\ q = t \div Week /\ r = t % Week /\ t = Week * q + r
  BY <1>1
<1>3. PICK p \in Nat, s \in 0..Week - 1 :
        /\ p = (t + 1) \div Week /\ s = (t + 1) % Week /\ t + 1 = Week * p + s
  BY <1>1
<1>4. Week * q + r + 1 = Week * p + s
  BY <1>2, <1>3
<1>5. CASE r = Week - 1
  <2>1. Week * (q + 1) = Week * p + s
    BY <1>1, <1>4, <1>5
  <2>2. p = q + 1 /\ s = 0
    <3>1. ~(p <= q)
      <4> SUFFICES ASSUME p <= q PROVE FALSE
        OBVIOUS
      <4>1. Week * p <= Week * q
        BY <1>1
      <4> QED
        BY <1>1, <2>1, <4>1
    <3>2. ~(p > q + 1)
      <4> SUFFICES ASSUME p > q + 1 PROVE FALSE
        OBVIOUS
      <4>1. Week * p >= Week * (q + 2)
        BY <1>1
      <4> QED
        BY <1>1, <2>1, <4>1
    <3>3. p = q + 1
      BY <3>1, <3>2
    <3> QED
      BY <1>1, <2>1, <3>3
  <2> QED
    BY <1>2, <1>3, <1>5, <2>2 DEF WeekOf
<1>6. CASE r # Week - 1
  <2>1. p = q
    <3>1. ~(p < q)
      <4> SUFFICES ASSUME p < q PROVE FALSE
        OBVIOUS
      <4>1. Week * q >= Week * (p + 1)
        BY <1>1
      <4> QED
        BY <1>1, <1>4, <4>1
    <3>2. ~(p > q)
      <4> SUFFICES ASSUME p > q PROVE FALSE
        OBVIOUS
      <4>1. Week * p >= Week * (q + 1)
        BY <1>1
      <4> QED
        BY <1>1, <1>4, <1>6, <4>1
    <3> QED
      BY <3>1, <3>2
  <2>2. s = r + 1
    BY <1>1, <1>4, <2>1
  <2> QED
    BY <1>2, <1>3, <1>6, <2>1, <2>2 DEF WeekOf
<1> QED
  BY <1>5, <1>6

\* The first of the ticks of the digest's hour.
FirstTick == CHOOSE n \in 0..Week - 1 : n..n + Hour - 1 \subseteq DigestTicks
InWeek == tick % Week
Marked == digest.last # Never /\ WeekOf(digest.last) = WeekOf(tick)

LEMMA HourTicks ==
  /\ FirstTick \in Nat /\ Hour \in Nat \ {0} /\ FirstTick..FirstTick + Hour - 1 \subseteq DigestTicks
  /\ FirstTick \in DigestTicks /\ FirstTick + Hour - 1 \in DigestTicks
<1>1. FirstTick \in 0..Week - 1 /\ FirstTick..FirstTick + Hour - 1 \subseteq DigestTicks
  BY ReportsAssumption, Zenon DEF FirstTick
<1>2. Hour \in Nat \ {0} /\ Week \in Nat
  BY ReportsAssumption
<1>3. FirstTick \in FirstTick..FirstTick + Hour - 1 /\ FirstTick + Hour - 1 \in FirstTick..FirstTick + Hour - 1
  BY <1>1, <1>2
<1> QED
  BY <1>1, <1>2, <1>3

\* A digest is made only in a week that is not marked, and marking comes first.
DigestOnce ==
    /\ digest.last # Never => WeekOf(digest.last) <= WeekOf(tick)
    /\ ~Marked => digest.sent = 0 /\ stage # "send"
    /\ digest.sent <= 1
    /\ stage = "send" => digest.sent = 0

\* A week that is not marked yet: its hour is ahead, a full pass is about to
\* run in it, or the passes since it began are more than its ticks so far, so
\* that the next full one comes before it ends.
DigestOwed ==
    /\ ~hook /\ "digest" \notin unsent => digest.last = Never
    /\ hook /\ "digest" \notin unsent => FirstTick > 0
    /\ hook /\ "digest" \notin unsent /\ missed = 0 =>
         IF Marked THEN digest.sent = 1 \/ stage = "send"
         ELSE \/ stage = "full" /\ InWeek < FirstTick + Hour
              \/ passes > InWeek - FirstTick

\* When the last bundle was, or will be once it is marked.
LastBundle == IF stage = "mark" THEN tick ELSE shippedAt

EntryTimes ==
    /\ shippedAt <= tick /\ logEntry.at <= tick
    /\ logEntry.at = Never => ~logEntry.there /\ logEntry.copies = 0

\* Two bundles lie further apart than half a window.
BundlesApart ==
    "twice" \notin unsent =>
       /\ logEntry.copies <= 2
       /\ logEntry.copies = 1 => logEntry.at <= LastBundle
       /\ logEntry.copies = 2 => logEntry.at + Gate + 1 <= LastBundle

\* The bundle a line waits for is at most a gate away, and the ticks swallowed.
Waits == logEntry.there /\ logEntry.copies = 0 /\ "bundle" \notin unsent
BundleAhead ==
    Waits /\ Gate + 1 + missed < Window =>
       /\ shipUrl
       /\ shippedAt <= logEntry.at + missed
       /\ tick <= logEntry.at + missed + (IF stage = "mark" THEN 0
                                          ELSE IF stage = "none" THEN Gate ELSE Gate + 1)

ReportsInv ==
    /\ ReportsTypeOK
    /\ DigestOnce /\ DigestOwed
    /\ EntryTimes /\ BundlesApart /\ BundleAhead

LEMMA ReportsBegin == ReportsInit => ReportsInv
<1> SUFFICES ASSUME ReportsInit PROVE ReportsInv
  OBVIOUS
<1>1. {Hour, Window, Gate, Week, LastTick, MaxMissed} \subseteq Nat /\ Hour > 0
  BY ReportsAssumption
<1>2. ReportsTypeOK
  <2>1. tick \in 0..LastTick /\ passes \in 0..Hour - 1 /\ missed \in 0..MaxMissed
    BY <1>1 DEF ReportsInit
  <2>2. logEntry \in [at : Never..LastTick, there : BOOLEAN, copies : 0..3]
    BY <1>1 DEF ReportsInit, Never
  <2>3. digest \in [last : Never..LastTick, sent : 0..2] /\ shippedAt \in Never..LastTick
    BY <1>1 DEF ReportsInit, Never
  <2> QED
    BY <2>1, <2>2, <2>3 DEF ReportsInit, ReportsTypeOK
<1>3. DigestOnce /\ DigestOwed
  BY DEF ReportsInit, DigestOnce, DigestOwed, Marked
<1>4. EntryTimes /\ BundlesApart /\ BundleAhead
  BY DEF ReportsInit, EntryTimes, BundlesApart, BundleAhead, Waits, Never
<1> QED
  BY <1>2, <1>3, <1>4 DEF ReportsInv

\* What every step of the proof needs of the types.
LEMMA ReportsTypes ==
  ASSUME ReportsInv
  PROVE  /\ tick \in Nat /\ passes \in 0..Hour - 1 /\ missed \in Nat
         /\ shippedAt \in Int /\ shippedAt >= -1
         /\ logEntry.at \in Int /\ logEntry.at >= -1 /\ logEntry.copies \in 0..3
         /\ digest.last \in Int /\ digest.last >= -1 /\ digest.sent \in 0..2
         /\ InWeek \in 0..Week - 1 /\ WeekOf(tick) \in Nat
         /\ digest.last # Never => digest.last \in Nat /\ WeekOf(digest.last) \in Nat
         /\ {Hour, Window, Gate, Week} \subseteq Nat \ {0} /\ {LastTick, MaxMissed} \subseteq Nat
         /\ Gate < Window /\ Window <= 2 * (Gate + 1)
<1>1. /\ {Hour, Window, Gate, Week} \subseteq Nat \ {0} /\ {LastTick, MaxMissed} \subseteq Nat
      /\ Gate < Window /\ Window <= 2 * (Gate + 1)
  BY ReportsAssumption
<1>2. /\ tick \in Nat /\ passes \in 0..Hour - 1 /\ missed \in Nat
      /\ shippedAt \in Int /\ shippedAt >= -1
      /\ logEntry.at \in Int /\ logEntry.at >= -1 /\ logEntry.copies \in 0..3
      /\ digest.last \in Int /\ digest.last >= -1 /\ digest.sent \in 0..2
  BY <1>1 DEF ReportsInv, ReportsTypeOK, Never
<1>3. InWeek \in 0..Week - 1 /\ WeekOf(tick) \in Nat
  BY <1>2, WeekGoesOn DEF InWeek
<1>4. ASSUME digest.last # Never PROVE digest.last \in Nat /\ WeekOf(digest.last) \in Nat
  <2>1. digest.last \in Nat
    BY <1>2, <1>4 DEF Never
  <2> QED
    BY <2>1, WeekGoesOn
<1> QED
  BY <1>1, <1>2, <1>3, <1>4

LEMMA ReportsTypesKept ==
  ASSUME ReportsInv, [ReportsNext]_reportVars
  PROVE  ReportsTypeOK'
<1>0. /\ ReportsTypeOK /\ digest.sent <= 1
      /\ {Hour, Window, Gate, Week} \subseteq Nat \ {0} /\ {LastTick, MaxMissed} \subseteq Nat
      /\ stage = "send" => digest.sent = 0
  BY ReportsTypes DEF ReportsInv, DigestOnce
<1>1. CASE SamplerTick
  <2>1. passes' \in 0..Hour - 1
    BY <1>0, <1>1 DEF SamplerTick, ReportsTypeOK
  <2> QED
    BY <1>0, <1>1, <2>1 DEF SamplerTick, TimePasses, ReportsTypeOK, Never
<1>2. CASE TickSwallowed
  BY <1>0, <1>2 DEF TickSwallowed, TimePasses, ReportsTypeOK, Never
<1>3. CASE FullPass
  <2>1. PICK dropped \in BOOLEAN :
          logEntry' = [logEntry EXCEPT !.there = logEntry.there /\ ~dropped]
    BY <1>3 DEF FullPass
  <2>2. logEntry' \in [at : Never..LastTick, there : BOOLEAN, copies : 0..3]
    <3>1. logEntry \in [at : Never..LastTick, there : BOOLEAN, copies : 0..3]
      BY <1>0 DEF ReportsTypeOK
    <3>2. (logEntry.there /\ ~dropped) \in BOOLEAN
      OBVIOUS
    <3> QED
      BY <2>1, <3>1, <3>2, Zenon
  <2>3. digest' \in [last : Never..LastTick, sent : 0..2]
    BY <1>0, <1>3 DEF FullPass, ReportsTypeOK, Never
  <2> QED
    BY <1>0, <1>3, <2>2, <2>3 DEF FullPass, ReportsTypeOK
<1>4. CASE DigestSent
  BY <1>0, <1>4 DEF DigestSent, ReportsTypeOK, Never
<1>5. CASE ShipPost
  BY <1>0, <1>5 DEF ShipPost, Counted, ReportsTypeOK, Never
<1>6. CASE ShipMark
  BY <1>0, <1>6 DEF ShipMark, ReportsTypeOK, Never
<1>7. CASE NothingToShip
  BY <1>0, <1>7 DEF NothingToShip, ReportsTypeOK
<1>8. CASE setLogShip
  BY <1>0, <1>8 DEF setLogShip, ReportsTypeOK
<1>9. CASE setDiscordWebhook
  BY <1>0, <1>9 DEF setDiscordWebhook, ReportsTypeOK
<1>10. CASE EntryArrives
  BY <1>0, <1>10 DEF EntryArrives, ReportsTypeOK, Never
<1>11. CASE SamplerRestarts
  BY <1>0, <1>11 DEF SamplerRestarts, ReportsTypeOK
<1>12. CASE UNCHANGED reportVars
  BY <1>0, <1>12 DEF reportVars, ReportsTypeOK
<1> QED
  BY <1>1, <1>2, <1>3, <1>4, <1>5, <1>6, <1>7, <1>8, <1>9, <1>10, <1>11, <1>12
  DEF ReportsNext

\* A tick leaves the week marked or begins one that is not.
LEMMA TimeKeepsDigests ==
  ASSUME ReportsInv, TimePasses, stage # "send", stage' # "send"
  PROVE  /\ DigestOnce'
         /\ ~Marked' => ~Marked \/ (InWeek = Week - 1 /\ InWeek' = 0)
         /\ Marked' => Marked /\ digest'.sent = digest.sent
         /\ InWeek' = IF InWeek = Week - 1 THEN 0 ELSE InWeek + 1
         /\ digest'.last = digest.last
<1>0. /\ tick \in Nat /\ Week \in Nat \ {0} /\ InWeek \in 0..Week - 1
      /\ digest.last \in Int /\ digest.last >= -1 /\ digest.sent \in 0..2
      /\ digest.last # Never => digest.last \in Nat /\ WeekOf(digest.last) \in Nat
      /\ digest \in [last : Never..LastTick, sent : 0..2]
  BY ReportsTypes DEF ReportsInv, ReportsTypeOK
<1>1. /\ tick' = tick + 1 /\ WeekOf(tick) \in Nat
      /\ IF InWeek = Week - 1 THEN InWeek' = 0 /\ WeekOf(tick') = WeekOf(tick) + 1
         ELSE InWeek' = InWeek + 1 /\ WeekOf(tick') = WeekOf(tick)
  BY <1>0, WeekGoesOn DEF TimePasses, InWeek
<1>2. NewWeek <=> InWeek = Week - 1
  BY <1>1 DEF NewWeek, TimePasses
<1>3. /\ digest'.last = digest.last
      /\ digest'.sent = IF InWeek = Week - 1 THEN 0 ELSE digest.sent
  BY <1>0, <1>2 DEF TimePasses
<1>4. /\ digest.last # Never => WeekOf(digest.last) <= WeekOf(tick)
      /\ ~Marked => digest.sent = 0
      /\ digest.sent <= 1
  BY DEF ReportsInv, DigestOnce
<1>5. /\ Marked => digest.last # Never /\ WeekOf(digest.last) = WeekOf(tick)
      /\ Marked' <=> digest.last # Never /\ WeekOf(digest.last) = WeekOf(tick')
  <2>1. WeekOf(digest.last)' = WeekOf(digest'.last)
    BY DEF WeekOf
  <2>2. WeekOf(tick)' = WeekOf(tick')
    BY DEF WeekOf
  <2> QED
    BY <1>3, <2>1, <2>2 DEF Marked
<1>6. WeekOf(digest.last)' = WeekOf(digest.last) /\ WeekOf(tick)' = WeekOf(tick')
  BY <1>3 DEF WeekOf
<1>7. CASE InWeek = Week - 1
  <2>1. ~Marked' /\ digest'.sent = 0 /\ InWeek' = 0
    BY <1>0, <1>1, <1>3, <1>4, <1>5, <1>7
  <2>2. digest'.last # Never => WeekOf(digest.last)' <= WeekOf(tick)'
    BY <1>0, <1>1, <1>3, <1>4, <1>6, <1>7
  <2>3. DigestOnce'
    BY <2>1, <2>2 DEF DigestOnce
  <2> QED
    BY <1>1, <1>3, <1>7, <2>1, <2>3
<1>8. CASE InWeek # Week - 1
  <2>1. (Marked' <=> Marked) /\ digest'.sent = digest.sent /\ WeekOf(tick)' = WeekOf(tick)
    BY <1>1, <1>3, <1>5, <1>6, <1>8 DEF Marked
  <2>2. DigestOnce'
    BY <1>3, <1>4, <1>6, <2>1 DEF DigestOnce
  <2> QED
    BY <1>1, <1>3, <1>8, <2>1, <2>2
<1> QED
  BY <1>7, <1>8

\* Without a tick and without a mark the week is as it was.
LEMMA WeekRests ==
  ASSUME UNCHANGED tick, digest'.last = digest.last
  PROVE  /\ Marked' <=> Marked
         /\ InWeek' = InWeek /\ WeekOf(tick)' = WeekOf(tick)
         /\ WeekOf(digest.last)' = WeekOf(digest.last)
  BY DEF Marked, InWeek, WeekOf

LEMMA DigestStep ==
  ASSUME ReportsInv, [ReportsNext]_reportVars
  PROVE  DigestOnce' /\ DigestOwed'
<1>0. /\ tick \in Nat /\ passes \in 0..Hour - 1 /\ missed \in Nat
      /\ digest.sent \in 0..2 /\ InWeek \in 0..Week - 1 /\ WeekOf(tick) \in Nat
      /\ Hour \in Nat \ {0} /\ Week \in Nat \ {0} /\ FirstTick \in Nat
      /\ DigestOnce /\ DigestOwed
      /\ digest \in [last : Never..LastTick, sent : 0..2]
      /\ stage \in {"none", "full", "send", "ship", "mark"}
      /\ hook \in BOOLEAN
  BY ReportsTypes, HourTicks DEF ReportsInv, ReportsTypeOK
<1>1. ASSUME SamplerTick PROVE DigestOnce' /\ DigestOwed'
  <2>1. /\ stage = "none" /\ stage' # "send" /\ TimePasses /\ UNCHANGED <<hook, missed, unsent>>
        /\ passes' = (passes + 1) % Hour /\ (passes' = 0 => stage' = "full")
    BY <1>1 DEF SamplerTick
  <2>2. IF passes + 1 = Hour THEN passes' = 0 ELSE passes' = passes + 1
    BY <1>0, <2>1
  <2>3. /\ DigestOnce'
        /\ ~Marked' => ~Marked \/ (InWeek = Week - 1 /\ InWeek' = 0)
        /\ Marked' => Marked /\ digest'.sent = digest.sent
        /\ InWeek' = IF InWeek = Week - 1 THEN 0 ELSE InWeek + 1
        /\ digest'.last = digest.last
    BY <2>1, TimeKeepsDigests
  <2>4. DigestOwed'
    <3>1. ASSUME hook', "digest" \notin unsent', missed' = 0
          PROVE  IF Marked' THEN digest'.sent = 1 \/ stage' = "send"
                 ELSE \/ stage' = "full" /\ InWeek' < FirstTick + Hour
                      \/ passes' > InWeek' - FirstTick
      <4>1. /\ FirstTick > 0
            /\ IF Marked THEN digest.sent = 1 ELSE passes > InWeek - FirstTick
        BY <1>0, <2>1, <3>1 DEF DigestOwed
      <4>2. CASE Marked'
        BY <2>3, <4>1, <4>2
      <4>3. CASE ~Marked' /\ InWeek' = 0
        BY <1>0, <2>2, <4>1, <4>3
      <4>4. CASE ~Marked' /\ ~Marked /\ InWeek' = InWeek + 1
        BY <1>0, <2>1, <2>2, <4>1, <4>4
      <4> QED
        BY <2>3, <4>2, <4>3, <4>4
    <3> QED
      BY <1>0, <2>1, <2>3, <3>1 DEF DigestOwed, FirstTick
  <2> QED
    BY <2>3, <2>4
<1>2. ASSUME TickSwallowed PROVE DigestOnce' /\ DigestOwed'
  <2>1. /\ stage # "send" /\ stage' # "send" /\ TimePasses
        /\ UNCHANGED <<hook, unsent>> /\ missed' = missed + 1
    BY <1>2 DEF TickSwallowed
  <2>2. DigestOnce' /\ digest'.last = digest.last
    BY <2>1, TimeKeepsDigests
  <2> QED
    BY <1>0, <2>1, <2>2 DEF DigestOwed, FirstTick
<1>3. ASSUME FullPass PROVE DigestOnce' /\ DigestOwed'
  <2>1. /\ stage = "full" /\ UNCHANGED <<tick, passes, hook, missed, unsent>>
        /\ InWeek' = InWeek /\ WeekOf(tick)' = WeekOf(tick)
    BY <1>3 DEF FullPass, InWeek, WeekOf
  <2>2. CASE DigestDue /\ digest' = [digest EXCEPT !.last = tick] /\ stage' = "send"
    <3>1. ~Marked /\ hook
      BY <2>2 DEF DigestDue, Marked
    <3>2. digest'.last = tick /\ digest'.sent = 0 /\ tick # Never
      BY <1>0, <2>2, <3>1 DEF DigestOnce, Never
    <3>3. WeekOf(digest.last)' = WeekOf(tick) /\ Marked'
      BY <2>1, <3>2 DEF Marked, WeekOf
    <3>4. DigestOnce'
      BY <1>0, <2>1, <2>2, <3>2, <3>3 DEF DigestOnce
    <3>5. DigestOwed'
      BY <1>0, <2>1, <2>2, <3>1, <3>3 DEF DigestOwed, FirstTick
    <3> QED
      BY <3>4, <3>5
  <2>3. CASE ~DigestDue /\ stage' = "ship" /\ UNCHANGED digest
    <3>1. /\ Marked' <=> Marked
          /\ WeekOf(digest.last)' = WeekOf(digest.last)
      BY <2>1, <2>3, WeekRests
    <3>2. DigestOnce'
      BY <1>0, <2>1, <2>3, <3>1 DEF DigestOnce
    <3>3. ASSUME hook, "digest" \notin unsent, missed = 0, ~Marked
          PROVE  passes > InWeek - FirstTick
      <4>1. InWeek \notin DigestTicks
        BY <2>3, <3>3 DEF DigestDue, Marked, InWeek
      <4>2. ~(FirstTick <= InWeek /\ InWeek < FirstTick + Hour)
        <5> SUFFICES ASSUME FirstTick <= InWeek, InWeek < FirstTick + Hour PROVE FALSE
          OBVIOUS
        <5>1. InWeek \in FirstTick..FirstTick + Hour - 1
          BY <1>0
        <5> QED
          BY <4>1, <5>1, HourTicks
      <4>3. InWeek < FirstTick + Hour
        BY <1>0, <2>1, <3>3 DEF DigestOwed
      <4> QED
        BY <1>0, <4>2, <4>3
    <3>4. DigestOwed'
      BY <1>0, <2>1, <2>3, <3>1, <3>3 DEF DigestOwed, FirstTick
    <3> QED
      BY <3>2, <3>4
  <2> QED
    BY <1>3, <2>2, <2>3 DEF FullPass
<1>4. ASSUME DigestSent PROVE DigestOnce' /\ DigestOwed'
  <2>1. /\ stage = "send" /\ stage' = "ship" /\ UNCHANGED <<tick, passes, hook, missed>>
        /\ digest'.last = digest.last
        /\ \/ digest'.sent = digest.sent + 1 /\ unsent' = unsent
           \/ digest'.sent = digest.sent /\ "digest" \in unsent'
    BY <1>0, <1>4 DEF DigestSent
  <2>2. /\ Marked' <=> Marked
        /\ InWeek' = InWeek /\ WeekOf(tick)' = WeekOf(tick)
        /\ WeekOf(digest.last)' = WeekOf(digest.last)
    BY <2>1, WeekRests
  <2>3. Marked /\ digest.sent = 0
    BY <1>0, <2>1 DEF DigestOnce
  <2>4. DigestOnce'
    BY <1>0, <2>1, <2>2, <2>3 DEF DigestOnce
  <2>5. DigestOwed'
    BY <1>0, <2>1, <2>2, <2>3 DEF DigestOwed, FirstTick
  <2> QED
    BY <2>4, <2>5
<1>5. ASSUME ShipPost \/ ShipMark \/ NothingToShip \/ setLogShip \/ EntryArrives \/ UNCHANGED reportVars
      PROVE  DigestOnce' /\ DigestOwed'
  <2>1. /\ UNCHANGED <<tick, passes, hook, digest, missed>>
        /\ "digest" \in unsent' <=> "digest" \in unsent
        /\ stage = stage' \/ (stage \in {"ship", "mark"} /\ stage' \in {"none", "mark"})
    BY <1>5 DEF ShipPost, ShipMark, NothingToShip, setLogShip, EntryArrives, reportVars
  <2>2. /\ Marked' <=> Marked
        /\ InWeek' = InWeek /\ WeekOf(tick)' = WeekOf(tick)
        /\ WeekOf(digest.last)' = WeekOf(digest.last)
    BY <2>1, WeekRests
  <2>3. DigestOnce'
    BY <1>0, <2>1, <2>2 DEF DigestOnce
  <2>4. DigestOwed'
    BY <1>0, <2>1, <2>2 DEF DigestOwed, FirstTick
  <2> QED
    BY <2>3, <2>4
<1>6. ASSUME setDiscordWebhook PROVE DigestOnce' /\ DigestOwed'
  <2>1. /\ UNCHANGED <<tick, passes, stage, digest, missed>>
        /\ \/ ~hook /\ hook' = TRUE /\ "digest" \notin unsent
           \/ hook' = FALSE /\ "digest" \in unsent'
        /\ "digest" \notin unsent' => hook' /\ HourAhead
    BY <1>6 DEF setDiscordWebhook, Unset
  <2>2. /\ Marked' <=> Marked
        /\ InWeek' = InWeek /\ WeekOf(tick)' = WeekOf(tick)
        /\ WeekOf(digest.last)' = WeekOf(digest.last)
    BY <2>1, WeekRests
  <2>3. DigestOnce'
    BY <1>0, <2>1, <2>2 DEF DigestOnce
  <2>4. ASSUME "digest" \notin unsent' PROVE InWeek < FirstTick /\ ~Marked /\ hook'
    <3>1. InWeek < FirstTick
      BY <2>1, <2>4, HourTicks DEF HourAhead, InWeek
    <3>2. digest.last = Never
      BY <1>0, <2>1, <2>4 DEF DigestOwed
    <3> QED
      BY <2>1, <2>4, <3>1, <3>2 DEF Marked
  <2>5. DigestOwed'
    BY <1>0, <2>1, <2>2, <2>4 DEF DigestOwed, FirstTick
  <2> QED
    BY <2>3, <2>5
<1>7. ASSUME SamplerRestarts PROVE DigestOnce' /\ DigestOwed'
  <2>1. /\ UNCHANGED <<tick, hook, digest, missed>> /\ stage' = "full" /\ passes' = 0
        /\ unsent \subseteq unsent' /\ (stage = "send" => "digest" \in unsent')
        /\ "digest" \in unsent' => stage = "send" \/ "digest" \in unsent
    BY <1>7 DEF SamplerRestarts
  <2>2. /\ Marked' <=> Marked
        /\ InWeek' = InWeek /\ WeekOf(tick)' = WeekOf(tick)
        /\ WeekOf(digest.last)' = WeekOf(digest.last)
    BY <2>1, WeekRests
  <2>3. DigestOnce'
    BY <1>0, <2>1, <2>2 DEF DigestOnce
  <2>4. DigestOwed'
    BY <1>0, <2>1, <2>2 DEF DigestOwed, FirstTick
  <2> QED
    BY <2>3, <2>4
<1> QED
  BY <1>1, <1>2, <1>3, <1>4, <1>5, <1>6, <1>7 DEF ReportsNext

LEMMA EntryStep ==
  ASSUME ReportsInv, [ReportsNext]_reportVars
  PROVE  EntryTimes' /\ BundlesApart' /\ BundleAhead'
<1>0. /\ tick \in Nat /\ missed \in Nat /\ shippedAt \in Int /\ shippedAt >= -1
      /\ logEntry.at \in Int /\ logEntry.at >= -1 /\ logEntry.copies \in 0..3
      /\ logEntry \in [at : Never..LastTick, there : BOOLEAN, copies : 0..3]
      /\ Gate \in Nat \ {0} /\ Window \in Nat /\ Gate < Window /\ Window <= 2 * (Gate + 1)
      /\ EntryTimes /\ BundlesApart /\ BundleAhead
      /\ stage \in {"none", "full", "send", "ship", "mark"}
      /\ logEntry.there \in BOOLEAN /\ shipUrl \in BOOLEAN
  BY ReportsTypes DEF ReportsInv, ReportsTypeOK
<1>1. ASSUME SamplerTick PROVE EntryTimes' /\ BundlesApart' /\ BundleAhead'
  <2>1. /\ stage = "none" /\ stage' \in {"full", "ship"} /\ tick' = tick + 1
        /\ UNCHANGED <<shipUrl, shippedAt, logEntry, missed, unsent>>
    BY <1>1 DEF SamplerTick, TimePasses
  <2> QED
    BY <1>0, <2>1 DEF EntryTimes, BundlesApart, LastBundle, BundleAhead, Waits
<1>2. ASSUME TickSwallowed PROVE EntryTimes' /\ BundlesApart' /\ BundleAhead'
  <2>1. /\ stage \in {"none", "mark"} /\ tick' = tick + 1 /\ missed' = missed + 1
        /\ UNCHANGED <<stage, shipUrl, shippedAt, logEntry, unsent>>
    BY <1>2 DEF TickSwallowed, TimePasses
  <2> QED
    BY <1>0, <2>1 DEF EntryTimes, BundlesApart, LastBundle, BundleAhead, Waits
<1>3. ASSUME FullPass PROVE EntryTimes' /\ BundlesApart' /\ BundleAhead'
  <2>1. /\ stage = "full" /\ stage' \in {"send", "ship"}
        /\ UNCHANGED <<tick, shipUrl, shippedAt, missed, unsent>>
        /\ logEntry'.at = logEntry.at /\ logEntry'.copies = logEntry.copies
        /\ logEntry'.there => logEntry.there
    BY <1>0, <1>3 DEF FullPass
  <2> QED
    BY <1>0, <2>1 DEF EntryTimes, BundlesApart, LastBundle, BundleAhead, Waits
<1>4. ASSUME DigestSent PROVE EntryTimes' /\ BundlesApart' /\ BundleAhead'
  <2>1. /\ stage = "send" /\ stage' = "ship"
        /\ UNCHANGED <<tick, shipUrl, shippedAt, logEntry, missed>>
        /\ "twice" \in unsent' <=> "twice" \in unsent
        /\ "bundle" \in unsent' <=> "bundle" \in unsent
    BY <1>4 DEF DigestSent
  <2> QED
    BY <1>0, <2>1 DEF EntryTimes, BundlesApart, LastBundle, BundleAhead, Waits
<1>5. ASSUME ShipPost PROVE EntryTimes' /\ BundlesApart' /\ BundleAhead'
  <2>1. /\ stage = "ship" /\ stage' = "mark"
        /\ UNCHANGED <<tick, shipUrl, shippedAt, missed>>
        /\ shippedAt = Never \/ shippedAt < tick - Gate
        /\ "twice" \in unsent' <=> "twice" \in unsent
        /\ "bundle" \in unsent => "bundle" \in unsent'
    BY <1>5 DEF ShipPost, ShipDue
  <2>2. LastBundle' = tick /\ LastBundle = shippedAt
    BY <2>1 DEF LastBundle
  <2>3. CASE InWindow /\ logEntry' = [logEntry EXCEPT !.copies = Counted(logEntry.copies)]
    <3>1. /\ logEntry.there /\ logEntry.at > tick - Window /\ logEntry.at >= 0
          /\ logEntry'.at = logEntry.at
          /\ logEntry'.copies = IF logEntry.copies < 3 THEN logEntry.copies + 1 ELSE 3
      BY <1>0, <2>3 DEF InWindow, EntryTimes, Never, Counted
    <3>2. EntryTimes'
      BY <1>0, <2>1, <3>1 DEF EntryTimes, Never
    <3>3. BundlesApart'
      BY <1>0, <2>1, <2>2, <3>1 DEF BundlesApart, Never, EntryTimes
    <3>4. BundleAhead'
      BY <1>0, <3>1 DEF BundleAhead, Waits
    <3> QED
      BY <3>2, <3>3, <3>4
  <2>4. CASE logEntry' = logEntry /\ ("bundle" \in unsent' \/ ~InWindow)
    <3>1. EntryTimes'
      BY <1>0, <2>1, <2>4 DEF EntryTimes
    <3>2. BundlesApart'
      BY <1>0, <2>1, <2>2, <2>4 DEF BundlesApart, EntryTimes
    <3>3. BundleAhead'
      BY <1>0, <2>1, <2>4 DEF BundleAhead, Waits, InWindow
    <3> QED
      BY <3>1, <3>2, <3>3
  <2> QED
    BY <1>5, <2>3, <2>4 DEF ShipPost
<1>6. ASSUME ShipMark PROVE EntryTimes' /\ BundlesApart' /\ BundleAhead'
  <2>1. /\ stage = "mark" /\ stage' = "none" /\ shippedAt' = tick
        /\ UNCHANGED <<tick, shipUrl, logEntry, missed, unsent>>
    BY <1>6 DEF ShipMark
  <2> QED
    BY <1>0, <2>1 DEF EntryTimes, BundlesApart, LastBundle, BundleAhead, Waits
<1>7. ASSUME NothingToShip PROVE EntryTimes' /\ BundlesApart' /\ BundleAhead'
  <2>1. /\ stage = "ship" /\ stage' = "none"
        /\ shipUrl => shippedAt # Never /\ shippedAt >= tick - Gate
        /\ UNCHANGED <<tick, shipUrl, shippedAt, logEntry, missed, unsent>>
    BY <1>0, <1>7 DEF NothingToShip, ShipDue
  <2> QED
    BY <1>0, <2>1 DEF EntryTimes, BundlesApart, LastBundle, BundleAhead, Waits
<1>8. ASSUME setLogShip PROVE EntryTimes' /\ BundlesApart' /\ BundleAhead'
  <2>1. /\ UNCHANGED <<tick, stage, shippedAt, logEntry, missed>>
        /\ "twice" \in unsent' <=> "twice" \in unsent
        /\ "bundle" \in unsent' \/ (shipUrl' = TRUE /\ unsent' = unsent)
    BY <1>8 DEF setLogShip
  <2> QED
    BY <1>0, <2>1 DEF EntryTimes, BundlesApart, LastBundle, BundleAhead, Waits
<1>9. ASSUME setDiscordWebhook \/ UNCHANGED reportVars
      PROVE  EntryTimes' /\ BundlesApart' /\ BundleAhead'
  <2>1. /\ UNCHANGED <<tick, stage, shipUrl, shippedAt, logEntry, missed>>
        /\ "twice" \in unsent' <=> "twice" \in unsent
        /\ "bundle" \in unsent' <=> "bundle" \in unsent
    BY <1>9 DEF setDiscordWebhook, reportVars
  <2> QED
    BY <1>0, <2>1 DEF EntryTimes, BundlesApart, LastBundle, BundleAhead, Waits
<1>10. ASSUME EntryArrives PROVE EntryTimes' /\ BundlesApart' /\ BundleAhead'
  <2>1. /\ shipUrl /\ logEntry'.at = tick /\ logEntry'.copies = 0
        /\ UNCHANGED <<tick, stage, shipUrl, shippedAt, missed, unsent>>
    BY <1>10 DEF EntryArrives
  <2> QED
    BY <1>0, <2>1 DEF EntryTimes, BundlesApart, BundleAhead, Waits, Never
<1>11. ASSUME SamplerRestarts PROVE EntryTimes' /\ BundlesApart' /\ BundleAhead'
  <2>1. /\ stage' = "full" /\ UNCHANGED <<tick, shipUrl, shippedAt, logEntry, missed>>
        /\ unsent \subseteq unsent' /\ (stage = "mark" => "twice" \in unsent')
    BY <1>11 DEF SamplerRestarts
  <2>2. "bundle" \notin unsent' => "bundle" \notin unsent
    BY <2>1
  <2> QED
    BY <1>0, <2>1, <2>2 DEF EntryTimes, BundlesApart, LastBundle, BundleAhead, Waits
<1> QED
  BY <1>1, <1>2, <1>3, <1>4, <1>5, <1>6, <1>7, <1>8, <1>9, <1>10, <1>11 DEF ReportsNext

LEMMA ReportsInvSuffices == ReportsInv => ReportsKept
<1> SUFFICES ASSUME ReportsInv PROVE ReportsKept
  OBVIOUS
<1>0. /\ passes \in 0..Hour - 1 /\ InWeek \in 0..Week - 1 /\ missed \in Nat /\ tick \in Nat
      /\ logEntry.at \in Int /\ logEntry.copies \in 0..3 /\ Hour \in Nat /\ FirstTick \in Nat
      /\ Gate \in Nat /\ Window \in Nat
      /\ DigestOnce /\ DigestOwed /\ BundlesApart /\ BundleAhead
  BY ReportsTypes, HourTicks DEF ReportsInv
<1>1. ASSUME hook, HourOver, missed = 0, "digest" \notin unsent PROVE digest.sent = 1
  <2>1. InWeek > FirstTick + Hour - 1 /\ stage = "none"
    BY <1>1, HourTicks DEF HourOver, InWeek
  <2> QED
    BY <1>0, <1>1, <2>1 DEF DigestOwed
<1>2. ASSUME logEntry.there, logEntry.at + Window <= tick, stage = "none",
             Gate + 1 + missed < Window, "bundle" \notin unsent
      PROVE  logEntry.copies >= 1
  BY <1>0, <1>2 DEF BundleAhead, Waits
<1> QED
  BY <1>0, <1>1, <1>2 DEF ReportsKept, DigestOnce, BundlesApart

\* Every state keeps the invariant.
LEMMA ReportsAlways == ReportsSpec => []ReportsInv
<1>1. ReportsInit => ReportsInv
  BY ReportsBegin
<1>2. ReportsInv /\ [ReportsNext]_reportVars => ReportsInv'
  <2> SUFFICES ASSUME ReportsInv, [ReportsNext]_reportVars PROVE ReportsInv'
    OBVIOUS
  <2> QED
    BY ReportsTypesKept, DigestStep, EntryStep DEF ReportsInv
<1> QED
  BY <1>1, <1>2, PTL DEF ReportsSpec

\* No week has two digests, and one that has none lost a tick or the post; a
\* line of the log is in a bundle or two of those it is young enough for, for
\* any such clock, window and gate (notify.go, branching.go, metrics.go).
THEOREM ReportsAlwaysKept == ReportsSpec => []ReportsKept
<1> QED
  BY ReportsAlways, ReportsInvSuffices, PTL

-----------------------------------------------------------------------------
(* Dumps: the signature of the last one, and the newest that is kept.      *)

\* The dump a night vouches for is the newest; only one that has aged past the
\* ceiling is gone, and then the script is about to take another.
Vouches(d) == d.whole /\ d.ver >= sig /\ \A o \in dumps : o.date <= d.date

\* Line by line: the dump under way, the one begun, and the newest after that.
VouchedSoFar ==
    CASE script.pc = "dump" -> \E d \in Dated(night) : d.ver >= script.saw
      [] script.pc = "save" -> \E d \in Dated(night) : d.whole /\ d.ver >= script.saw
      [] script.pc = "prune" -> sig # 0 /\ ~spoiled =>
                                  \E d \in dumps : Vouches(d) /\ night - d.date <= Ceiling
      [] script.pc = "idle" -> sig # 0 /\ ~spoiled => \E d \in dumps : Vouches(d)
      [] OTHER -> sig # 0 /\ ~spoiled /\ dumps # {} => \E d \in dumps : Vouches(d)

\* What a night knows is still true, and the dumps there are were taken by it or
\* an earlier one.
DumpsInv ==
    /\ DumpsTypeOK /\ IsFiniteSet(dumps)
    /\ \A d \in dumps : d.date <= night
    /\ captured = sig
    /\ script.pc \in {"judge", "dump", "save"} => script.saw \in 1..version
    /\ VouchedSoFar

Scripts == [pc : {"idle", "look", "judge", "dump", "save", "prune"},
            saw : 0..MaxWrites, ver : 0..MaxWrites]
DumpSteps ==
    \/ ScriptStart \/ Look \/ Skip \/ DumpBegins \/ DumpEnds \/ SaveSignature
    \/ ScriptEnds \/ ScriptKilled

\* Pruning takes nothing but what is there, and keeps the newest dump for as
\* long as the ceiling lets it.
LEMMA NewestIsKept ==
  ASSUME DumpsInv
  PROVE  /\ Pruned \subseteq dumps
         /\ \A d \in dumps : (\A o \in dumps : o.date <= d.date) /\ night - d.date <= Ceiling
                               => d \in Pruned
<1>1. Pruned \subseteq dumps
  BY DEF Pruned
<1>2. ASSUME NEW d \in dumps, \A o \in dumps : o.date <= d.date, night - d.date <= Ceiling
      PROVE  d \in Pruned
  <2>1. \A o \in dumps : o.date \in Nat
    BY DEF DumpsInv, DumpsTypeOK
  <2>2. {o \in dumps : o.date > d.date} = {}
    BY <1>2, <2>1
  <2>3. Cardinality({o \in dumps : o.date > d.date}) = 0
    BY <2>2, FS_EmptySet
  <2>4. Cardinality({o \in dumps : o.date > d.date}) < KeepDaily
    BY <2>3, DumpAssumption
  <2> QED
    BY <1>2, <2>4 DEF Pruned
<1> QED
  BY <1>1, <1>2

\* The tiers age from the oldest: a newest dump past the ceiling goes with all
\* the others.
LEMMA PruningVouches ==
  ASSUME DumpsInv, \E d \in dumps : Vouches(d)
  PROVE  Pruned # {} => \E d \in Pruned : Vouches(d)
<1>1. PICK d \in dumps : Vouches(d)
  OBVIOUS
<1>2. CASE night - d.date <= Ceiling
  BY <1>1, <1>2, NewestIsKept DEF Vouches
<1>3. CASE ~(night - d.date <= Ceiling)
  <2>1. \A o \in dumps : o.date \in Nat /\ night \in Nat /\ Ceiling \in Nat
    BY DumpAssumption DEF DumpsInv, DumpsTypeOK
  <2>2. \A o \in dumps : o.date <= d.date
    BY <1>1 DEF Vouches
  <2>3. \A o \in dumps : ~(night - o.date <= Ceiling)
    BY <1>1, <1>3, <2>1, <2>2
  <2> QED
    BY <2>3 DEF Pruned
<1> QED
  BY <1>2, <1>3

\* Whatever the script does, its dates, versions and signatures are numbers.
LEMMA DumpTypes ==
  ASSUME DumpsInv, DumpsNext
  PROVE  /\ DumpsTypeOK' /\ IsFiniteSet(dumps') /\ \A d \in dumps' : d.date <= night'
         /\ captured' = sig'
<1>1. /\ DumpsTypeOK /\ IsFiniteSet(dumps) /\ \A d \in dumps : d.date <= night
      /\ captured = sig
      /\ script.pc \in {"judge", "dump", "save"} => script.saw \in 1..version
  BY DEF DumpsInv
<1>2. /\ Nights \in Nat /\ MaxWrites \in Nat \ {0}
  BY DumpAssumption
<1>3. Waiting \in Scripts
  BY <1>2 DEF Waiting, Scripts
<1>4. CASE Write
  <2>1. version' \in 1..MaxWrites /\ version' = version + 1
    BY <1>1, <1>2, <1>4 DEF Write, DumpsTypeOK
  <2>2. UNCHANGED <<kind, awake, night, dumps, sig, script, captured, spoiled>>
    BY <1>4 DEF Write
  <2> QED
    BY <1>1, <2>1, <2>2 DEF DumpsTypeOK
<1>12. CASE Nap
  <2>1. awake' \in BOOLEAN
    BY <1>12, Zenon DEF Nap
  <2>2. UNCHANGED <<kind, version, night, dumps, sig, script, captured, spoiled>>
    BY <1>12 DEF Nap
  <2> QED
    BY <1>1, <2>1, <2>2 DEF DumpsTypeOK
<1>5. CASE NightFalls
  BY <1>1, <1>2, <1>5 DEF NightFalls, DumpsTypeOK
<1>6. CASE ScriptStart \/ ScriptEnds
  <2>1. /\ dumps' = Pruned /\ Pruned \subseteq dumps
        /\ UNCHANGED <<kind, awake, version, night, sig, captured, spoiled>>
    BY <1>6, NewestIsKept DEF ScriptStart, ScriptEnds
  <2>2. script' \in Scripts
    BY <1>1, <1>3, <1>6 DEF ScriptStart, ScriptEnds, ScriptTo, DumpsTypeOK, Scripts
  <2>3. IsFiniteSet(dumps')
    BY <1>1, <2>1, FS_Subset
  <2> QED
    BY <1>1, <2>1, <2>2, <2>3 DEF DumpsTypeOK, Scripts
<1>7. CASE Look \/ Skip \/ SaveSignature
  <2>1. script' \in Scripts
    BY <1>1, <1>2, <1>7 DEF Look, Skip, SaveSignature, ScriptTo, DumpsTypeOK, Scripts, Waiting
  <2>2. sig' = captured' /\ sig' \in 0..MaxWrites /\ spoiled' \in BOOLEAN
    BY <1>1, <1>2, <1>7 DEF Look, Skip, SaveSignature, Unchanged, DumpsTypeOK
  <2>3. UNCHANGED <<kind, awake, version, night, dumps>>
    BY <1>7 DEF Look, Skip, SaveSignature
  <2> QED
    BY <1>1, <2>1, <2>2, <2>3 DEF DumpsTypeOK, Scripts
<1>8. CASE DumpBegins
  <2> DEFINE new == [date |-> night, ver |-> version, whole |-> FALSE]
  <2>1. dumps' = (dumps \ Dated(night)) \cup {new}
    BY <1>8 DEF DumpBegins
  <2>2. new \in [date : 0..Nights, ver : 1..MaxWrites, whole : BOOLEAN] /\ new.date = night
    BY <1>1 DEF DumpsTypeOK
  <2>3. IsFiniteSet(dumps')
    <3>1. IsFiniteSet(dumps \ Dated(night))
      BY <1>1, FS_Subset
    <3> QED
      BY <2>1, <3>1, FS_AddElement
  <2>4. script' \in Scripts
    <3>1. version \in 0..MaxWrites /\ script \in Scripts
      BY <1>1, <1>2 DEF DumpsTypeOK, Scripts
    <3>2. script' = [script EXCEPT !.pc = "dump", !.ver = version]
      BY <1>8 DEF DumpBegins
    <3> QED
      BY <3>1, <3>2 DEF Scripts
  <2>5. UNCHANGED <<kind, awake, version, night, sig, captured, spoiled>>
    BY <1>8 DEF DumpBegins
  <2>6. /\ dumps' \subseteq [date : 0..Nights, ver : 1..MaxWrites, whole : BOOLEAN]
        /\ \A d, o \in dumps' : d.date = o.date => d = o
        /\ \A d \in dumps' : d.date <= night
    <3> HIDE DEF new
    <3> QED
      BY <1>1, <2>1, <2>2 DEF DumpsTypeOK, Dated
  <2> QED
    BY <1>1, <2>3, <2>4, <2>5, <2>6 DEF DumpsTypeOK, Scripts
<1>9. CASE DumpEnds
  <2>1. /\ script' \in Scripts /\ spoiled' \in BOOLEAN
        /\ UNCHANGED <<kind, awake, version, night, sig, captured>>
    BY <1>1, <1>9 DEF DumpEnds, ScriptTo, DumpsTypeOK, Scripts
  <2>2. CASE dumps' = {[d EXCEPT !.whole = @ \/ d.date = night] : d \in dumps}
    <3> DEFINE After(d) == [d EXCEPT !.whole = @ \/ d.date = night]
               F == [d \in dumps |-> After(d)]
    <3>1. IsFiniteSet(dumps')
      <4>1. dumps' = {After(d) : d \in dumps}
        BY <2>2
      <4>2. F \in Surjection(dumps, dumps')
        BY <4>1 DEF Surjection
      <4> QED
        BY <1>1, <4>2, FS_Surjection
    <3>2. \A e \in dumps' : \E d \in dumps :
            /\ e = After(d)
            /\ e.date = d.date /\ e \in [date : 0..Nights, ver : 1..MaxWrites, whole : BOOLEAN]
      <4>1. SUFFICES ASSUME NEW d \in dumps
                     PROVE  /\ After(d).date = d.date
                            /\ After(d) \in [date : 0..Nights, ver : 1..MaxWrites, whole : BOOLEAN]
        BY <2>2
      <4>2. d \in [date : 0..Nights, ver : 1..MaxWrites, whole : BOOLEAN]
        BY <1>1 DEF DumpsTypeOK
      <4>3. (d.whole \/ d.date = night) \in BOOLEAN
        BY Zenon
      <4> QED
        BY <4>2, <4>3
    <3>3. \A e, f \in dumps' : e.date = f.date => e = f
      <4>1. \A d, o \in dumps : d.date = o.date => d = o
        BY <1>1 DEF DumpsTypeOK
      <4> HIDE DEF After
      <4> QED
        BY <3>2, <4>1
    <3> QED
      BY <1>1, <2>1, <3>1, <3>2, <3>3 DEF DumpsTypeOK, Scripts
  <2>3. CASE dumps' = dumps \ Dated(night)
    <3>1. IsFiniteSet(dumps')
      BY <1>1, <2>3, FS_Subset
    <3> QED
      BY <1>1, <2>1, <2>3, <3>1 DEF DumpsTypeOK, Scripts
  <2> QED
    BY <1>9, <2>2, <2>3 DEF DumpEnds
<1>10. CASE ScriptKilled
  BY <1>1, <1>3, <1>10 DEF ScriptKilled, DumpsTypeOK, Scripts
<1>11. CASE Recreate
  <2>1. /\ dumps' = {} /\ sig' = 0 /\ version' = 1 /\ captured' = 0
        /\ UNCHANGED <<kind, night, script>>
    BY <1>11 DEF Recreate
  <2>2. awake' \in BOOLEAN /\ spoiled' \in BOOLEAN
    BY <1>11 DEF Recreate
  <2>3. IsFiniteSet(dumps')
    BY <2>1, FS_EmptySet
  <2> QED
    BY <1>1, <1>2, <2>1, <2>2, <2>3 DEF DumpsTypeOK
<1> QED
  BY <1>4, <1>5, <1>6, <1>7, <1>8, <1>9, <1>10, <1>11, <1>12 DEF DumpsNext

\* What the script has vouched for, at whichever line it is, stays vouched for.
LEMMA VouchedStays ==
  ASSUME DumpsInv, DumpsNext
  PROVE  /\ VouchedSoFar'
         /\ script'.pc \in {"judge", "dump", "save"} => script'.saw \in 1..version'
<1>1. /\ DumpsTypeOK /\ \A d \in dumps : d.date <= night
      /\ captured = sig
      /\ script.pc \in {"judge", "dump", "save"} => script.saw \in 1..version
      /\ VouchedSoFar
  BY DEF DumpsInv
<1>2. /\ MaxWrites \in Nat \ {0} /\ Waiting.pc = "idle"
  BY DumpAssumption DEF Waiting
<1>t. /\ script \in Scripts /\ night \in Nat /\ version \in Nat \ {0} /\ sig \in Nat
      /\ \A d \in dumps : d.date \in Nat /\ d.ver \in Nat /\ d.whole \in BOOLEAN
  BY <1>1 DEF DumpsTypeOK, Scripts
<1>3. CASE Write
  <2>1. /\ version' = version + 1 /\ UNCHANGED <<night, dumps, sig, script, spoiled>>
    BY <1>3 DEF Write
  <2>2. VouchedSoFar'
    BY <1>1, <2>1 DEF VouchedSoFar, Vouches, Dated
  <2> QED
    BY <1>1, <1>t, <2>1, <2>2
<1>4. CASE Nap
  <2>1. UNCHANGED <<version, night, dumps, sig, script, spoiled>>
    BY <1>4 DEF Nap
  <2> QED
    BY <1>1, <2>1 DEF VouchedSoFar, Vouches, Dated
<1>5. CASE NightFalls
  <2>1. script.pc = "idle" /\ UNCHANGED <<version, dumps, sig, script, spoiled>>
    BY <1>5 DEF NightFalls
  <2> QED
    BY <1>1, <2>1 DEF VouchedSoFar, Vouches
<1>6. CASE ScriptStart
  <2>1. /\ script.pc = "idle" /\ script'.pc = "look" /\ dumps' = Pruned
        /\ UNCHANGED <<version, night, sig, spoiled>>
    BY <1>6, <1>t DEF ScriptStart, ScriptTo, Scripts
  <2>2. ASSUME sig # 0, ~spoiled, dumps' # {} PROVE \E d \in dumps' : Vouches(d)'
    <3>1. \E d \in dumps : Vouches(d)
      BY <1>1, <2>1, <2>2 DEF VouchedSoFar
    <3>2. PICK d \in Pruned : Vouches(d)
      BY <2>1, <2>2, <3>1, PruningVouches
    <3> QED
      BY <2>1, <3>2, NewestIsKept DEF Vouches
  <2> QED
    BY <2>1, <2>2 DEF VouchedSoFar
<1>7. CASE Look
  <2>1. /\ script.pc = "look" /\ UNCHANGED <<version, night, sig, dumps>>
        /\ spoiled' = (spoiled \/ ~awake)
        /\ script' = IF awake THEN [pc |-> "judge", saw |-> version, ver |-> 0]
                     ELSE [Waiting EXCEPT !.pc = "prune"]
    BY <1>7 DEF Look
  <2>2. CASE awake
    <3>1. script'.pc = "judge" /\ script'.saw = version /\ spoiled' = spoiled
      BY <2>1, <2>2, <1>1 DEF DumpsTypeOK
    <3>2. sig # 0 /\ ~spoiled /\ dumps # {} => \E d \in dumps : Vouches(d)
      BY <1>1, <2>1 DEF VouchedSoFar
    <3> QED
      BY <1>t, <2>1, <3>1, <3>2 DEF VouchedSoFar, Vouches
  <2>3. CASE ~awake
    <3>1. script'.pc = "prune" /\ spoiled'
      BY <2>1, <2>3 DEF Waiting
    <3> QED
      BY <3>1 DEF VouchedSoFar
  <2> QED
    BY <2>2, <2>3
<1>8. CASE Skip
  <2>1. /\ script.pc = "judge" /\ script'.pc = "prune"
        /\ dumps # {} /\ sig = script.saw /\ night - NewestDump.date < ForceDays
        /\ UNCHANGED <<version, night, sig, dumps, spoiled>>
    BY <1>8, <1>t DEF Skip, Unchanged, ScriptTo, Scripts
  <2>2. ASSUME ~spoiled
        PROVE \E d \in dumps : Vouches(d) /\ night - d.date <= Ceiling
    <3>1. PICK d \in dumps : Vouches(d)
      BY <1>1, <2>1, <2>2 DEF VouchedSoFar
    <3>2. \A e \in dumps : (\A o \in dumps : o.date <= e.date) => e = d
      BY <1>1, <1>t, <3>1 DEF Vouches, DumpsTypeOK
    <3>3. NewestDump = d
      BY <3>1, <3>2 DEF NewestDump, Vouches
    <3>4. night - d.date <= Ceiling
      BY <1>t, <2>1, <3>1, <3>3, DumpAssumption
    <3> QED
      BY <3>1, <3>4
  <2> QED
    BY <2>1, <2>2 DEF VouchedSoFar, Vouches
<1>9. CASE DumpBegins
  <2> DEFINE new == [date |-> night, ver |-> version, whole |-> FALSE]
  <2>1. /\ script.pc = "judge" /\ script'.pc = "dump" /\ script'.saw = script.saw
        /\ new \in dumps' /\ UNCHANGED <<version, night>>
    BY <1>9, <1>t DEF DumpBegins, Scripts
  <2>2. new \in Dated(night)'
    BY <2>1 DEF Dated
  <2>3. new.ver >= script'.saw
    BY <1>1, <1>t, <2>1
  <2>4. \E d \in Dated(night)' : d.ver >= script'.saw
    BY <2>2, <2>3
  <2> QED
    BY <1>1, <2>1, <2>4 DEF VouchedSoFar
<1>10. CASE DumpEnds
  <2>1. script.pc = "dump" /\ UNCHANGED <<version, night, sig>>
    BY <1>10 DEF DumpEnds
  <2>2. CASE dumps' = {[d EXCEPT !.whole = @ \/ d.date = night] : d \in dumps} /\ ScriptTo("save")
    <3>1. script'.pc = "save" /\ script'.saw = script.saw
      BY <1>t, <2>2 DEF ScriptTo, Scripts
    <3>2. PICK d \in dumps : d.date = night /\ d.ver >= script.saw
      BY <1>1, <2>1 DEF VouchedSoFar, Dated
    <3> DEFINE e == [d EXCEPT !.whole = @ \/ d.date = night]
    <3>3. e \in dumps'
      BY <2>2
    <3>4. d \in [date : 0..Nights, ver : 1..MaxWrites, whole : BOOLEAN]
      BY <1>1 DEF DumpsTypeOK
    <3>5. e.date = night /\ e.whole /\ e.ver = d.ver
      BY <3>2, <3>4
    <3>6. \E f \in Dated(night)' : f.whole /\ f.ver >= script'.saw
      <4>1. e \in Dated(night)'
        BY <2>1, <3>3, <3>5 DEF Dated
      <4> QED
        BY <3>1, <3>2, <3>5, <4>1
    <3> QED
      BY <1>1, <2>1, <3>1, <3>6 DEF VouchedSoFar
  <2>3. CASE ScriptTo("prune") /\ spoiled' = TRUE
    <3>1. script'.pc = "prune" /\ spoiled'
      BY <1>t, <2>3 DEF ScriptTo, Scripts
    <3> QED
      BY <3>1 DEF VouchedSoFar
  <2> QED
    BY <1>10, <2>2, <2>3 DEF DumpEnds
<1>11. CASE SaveSignature
  <2>1. /\ script.pc = "save" /\ script'.pc = "prune" /\ sig' = script.saw
        /\ UNCHANGED <<version, night, dumps>>
    BY <1>11, <1>t DEF SaveSignature, ScriptTo, Scripts
  <2>2. PICK d \in dumps : d.date = night /\ d.whole /\ d.ver >= script.saw
    BY <1>1, <2>1 DEF VouchedSoFar, Dated
  <2>3. Vouches(d)'
    BY <1>1, <2>1, <2>2 DEF Vouches
  <2>4. night' - d.date <= Ceiling
    BY <1>t, <2>1, <2>2, DumpAssumption
  <2> QED
    BY <2>1, <2>3, <2>4 DEF VouchedSoFar
<1>12. CASE ScriptEnds
  <2>1. /\ script.pc = "prune" /\ script'.pc = "idle" /\ dumps' = Pruned
        /\ UNCHANGED <<version, night, sig, spoiled>>
    BY <1>12, <1>2 DEF ScriptEnds
  <2>2. ASSUME sig # 0, ~spoiled PROVE \E d \in dumps' : Vouches(d)'
    <3>1. PICK d \in dumps : Vouches(d) /\ night - d.date <= Ceiling
      BY <1>1, <2>1, <2>2 DEF VouchedSoFar
    <3>2. d \in Pruned /\ Pruned \subseteq dumps
      BY <3>1, NewestIsKept DEF Vouches
    <3> QED
      BY <2>1, <3>1, <3>2 DEF Vouches
  <2> QED
    BY <2>1, <2>2 DEF VouchedSoFar
<1>13. CASE ScriptKilled
  <2>1. script'.pc = "idle" /\ spoiled'
    BY <1>13, <1>2 DEF ScriptKilled
  <2> QED
    BY <2>1 DEF VouchedSoFar
<1>14. CASE Recreate
  <2>1. script'.pc = "idle" /\ sig' = 0
    BY <1>14 DEF Recreate
  <2> QED
    BY <2>1 DEF VouchedSoFar
<1> QED
  BY <1>3, <1>4, <1>5, <1>6, <1>7, <1>8, <1>9, <1>10, <1>11, <1>12, <1>13, <1>14 DEF DumpsNext

\* Every state keeps the invariant.
LEMMA DumpsAlways == DumpsSpec => []DumpsInv
<1>1. DumpsInit => DumpsInv
  <2> SUFFICES ASSUME DumpsInit PROVE DumpsInv
    OBVIOUS
  <2>1. /\ dumps = {} /\ sig = 0 /\ captured = 0 /\ script = Waiting /\ version = 1 /\ night = 0
        /\ spoiled = FALSE /\ awake = TRUE /\ kind \in {"shared", "instance"}
    BY DEF DumpsInit
  <2>2. /\ Nights \in Nat /\ MaxWrites \in Nat \ {0}
    BY DumpAssumption
  <2>3. script \in Scripts /\ script.pc = "idle"
    BY <2>1, <2>2 DEF Waiting, Scripts
  <2>4. DumpsTypeOK
    <3>1. awake \in BOOLEAN /\ spoiled \in BOOLEAN
      BY <2>1
    <3>2. /\ dumps \subseteq [date : 0..Nights, ver : 1..MaxWrites, whole : BOOLEAN]
          /\ \A d, o \in dumps : d.date = o.date => d = o
      BY <2>1
    <3>3. version \in 1..MaxWrites /\ night \in 0..Nights /\ sig \in 0..MaxWrites
          /\ captured \in 0..MaxWrites
      BY <2>1, <2>2
    <3> QED
      BY <2>1, <2>3, <3>1, <3>2, <3>3 DEF DumpsTypeOK, Scripts
  <2>5. VouchedSoFar
    BY <2>1, <2>3 DEF VouchedSoFar
  <2> QED
    BY <2>1, <2>3, <2>4, <2>5, FS_EmptySet DEF DumpsInv
<1>2. DumpsInv /\ [DumpsNext]_dumpVars => DumpsInv'
  <2>1. ASSUME DumpsInv, DumpsNext PROVE DumpsInv'
    BY <2>1, DumpTypes, VouchedStays DEF DumpsInv
  <2>2. ASSUME DumpsInv, UNCHANGED dumpVars PROVE DumpsInv'
    BY <2>2 DEF dumpVars, DumpsInv, DumpsTypeOK, VouchedSoFar, Vouches, Dated
  <2> QED
    BY <2>1, <2>2
<1> QED
  BY <1>1, <1>2, PTL DEF DumpsSpec

\* Once a night has gone well, a whole dump holds what the database held when
\* the script looked at it, and the saved signature is not ahead of the dumps;
\* for any tiers, ceilings, forced days, numbers of nights and of changes, and
\* whatever the nights skip, fail at or prune (backup.sh, layers 1 and 1b).
THEOREM DumpsAlwaysVouch == DumpsSpec => []DumpVouches
<1>3. DumpsInv => DumpVouches
  BY DEF DumpsInv, VouchedSoFar, Vouches, DumpVouches
<1> QED
  BY <1>3, DumpsAlways, PTL

-----------------------------------------------------------------------------
(* Basebackups: their names, starts and ends in order, and the archive.    *)

BaseName == [day : Nat, clock : Nat]
BaseDir == [name : BaseName, start : Nat, end : Nat, manifest : BOOLEAN]

\* The numbers in names and directories, and one directory to a name.
BasesTyped ==
    /\ segment \in Nat /\ trimmed \in Nat /\ wal \subseteq Nat
    /\ IsFiniteSet(bases) /\ muddled \in BOOLEAN
    /\ bases \subseteq BaseDir
    /\ \A b \in bases : b.start <= segment /\ b.end <= segment
    /\ \A b, o \in bases : b.name = o.name => b = o
    /\ nightly.keep \in Nat \ {0} /\ nightly.day \in Nat
    /\ hygiene.name \in BaseName

\* What was completed later has the later name and start.
InOrder ==
    \A b, o \in Valid : b # o =>
        /\ b.end # o.end
        /\ b.end < o.end => Before(b.name, o.name) /\ b.start <= o.start

\* The archive holds whatever was not dropped for its size and is not before a
\* complete basebackup.
ArchiveReaches ==
    \A s \in 0..(segment - 1) :
        s >= trimmed /\ (\A b \in Valid : b.start <= s) => s \in wal

BasesInv == BasesTyped /\ (~muddled => InOrder /\ ArchiveReaches)

\* Of two names one is before the other, and not the other way round.
LEMMA NamesInOrder ==
  ASSUME NEW m \in BaseName, NEW n \in BaseName
  PROVE  /\ m # n => Before(m, n) \/ Before(n, m)
         /\ ~(Before(m, n) /\ Before(n, m)) /\ ~Before(m, m)
<1>1. m.day \in Nat /\ n.day \in Nat /\ m.clock \in Nat /\ n.clock \in Nat
  BY DEF BaseName
<1>2. m.day = n.day /\ m.clock = n.clock => m = n
  BY DEF BaseName
<1> QED
  BY <1>1, <1>2 DEF Before

\* What the type says of one directory.
LEMMA BasesFacts ==
  ASSUME BasesTyped
  PROVE  /\ \A b \in bases : /\ b.name \in BaseName /\ b.start \in 0..segment
                             /\ b.end \in 0..segment /\ b.manifest \in BOOLEAN
         /\ Valid \subseteq bases /\ \A b \in Valid : b.manifest
         /\ \A b \in bases : b.manifest => b \in Valid
BY DEF BasesTyped, BaseDir, Valid

\* There is a first and a last directory by name, whatever there is.
LEMMA FirstByName ==
  ASSUME BasesTyped, bases # {}
  PROVE  /\ NamedFirst(bases) \in bases
         /\ \A o \in bases \ {NamedFirst(bases)} : Before(NamedFirst(bases).name, o.name)
<1> DEFINE Days == {b.name.day : b \in bases}
<1>1. \A b \in bases : b.name.day \in Nat /\ b.name.clock \in Nat /\ b.name \in BaseName
  BY BasesFacts DEF BaseName
<1>2. PICK d \in Days : \A e \in Days : d <= e
  BY <1>1, LeastNatural
<1> DEFINE Clocks == {c \in Nat : \E b \in bases : b.name.day = d /\ b.name.clock = c}
<1>3. Clocks # {} /\ Clocks \subseteq Nat
  BY <1>1, <1>2
<1>4. PICK c \in Clocks : \A e \in Clocks : c <= e
  BY <1>3, LeastNatural
<1>5. PICK b \in bases : b.name.day = d /\ b.name.clock = c
  BY <1>4
<1>6. ASSUME NEW o \in bases \ {b} PROVE Before(b.name, o.name)
  <2>1. d <= o.name.day
    BY <1>2
  <2>2. o.name.day = d => c <= o.name.clock
    BY <1>1, <1>4
  <2>3. o.name # b.name
    BY DEF BasesTyped
  <2>4. ~(o.name.day = d /\ o.name.clock = c)
    BY <1>1, <1>5, <2>3 DEF BaseName
  <2> QED
    BY <1>1, <1>5, <2>1, <2>2, <2>4 DEF Before
<1> QED
  BY <1>5, <1>6 DEF NamedFirst

\* The last of them.
LEMMA LastByName ==
  ASSUME BasesTyped, bases # {}
  PROVE  /\ NamedLast(bases) \in bases
         /\ \A o \in bases \ {NamedLast(bases)} : Before(o.name, NamedLast(bases).name)
<1> DEFINE Days == {b.name.day : b \in bases}
<1>1. \A b \in bases : b.name.day \in Nat /\ b.name.clock \in Nat /\ b.name \in BaseName
  BY BasesFacts DEF BaseName
<1>2. PICK d \in Days : \A e \in Days : e <= d
  <2>1. [b \in bases |-> b.name.day] \in Surjection(bases, Days)
    BY DEF Surjection
  <2>2. IsFiniteSet(Days) /\ Days \subseteq Nat /\ Days # {}
    BY <1>1, <2>1, FS_Surjection DEF BasesTyped
  <2> QED
    BY <2>2, FiniteHasGreatest
<1> DEFINE On == {b \in bases : b.name.day = d}
           Clocks == {b.name.clock : b \in On}
<1>3. PICK c \in Clocks : \A e \in Clocks : e <= c
  <2>1. IsFiniteSet(On)
    BY FS_Subset DEF BasesTyped
  <2>2. [b \in On |-> b.name.clock] \in Surjection(On, Clocks)
    BY DEF Surjection
  <2>3. IsFiniteSet(Clocks) /\ Clocks \subseteq Nat /\ Clocks # {}
    BY <1>1, <1>2, <2>1, <2>2, FS_Surjection
  <2> QED
    BY <2>3, FiniteHasGreatest
<1>5. PICK b \in bases : b.name.day = d /\ b.name.clock = c
  BY <1>3
<1>6. ASSUME NEW o \in bases \ {b} PROVE Before(o.name, b.name)
  <2>1. o.name.day <= d
    BY <1>2
  <2>2. o.name.day = d => o.name.clock <= c
    BY <1>1, <1>3
  <2>3. o.name # b.name
    BY DEF BasesTyped
  <2>4. ~(o.name.day = d /\ o.name.clock = c)
    BY <1>1, <1>5, <2>3 DEF BaseName
  <2> QED
    BY <1>1, <1>5, <2>1, <2>2, <2>4 DEF Before
<1> QED
  BY <1>5, <1>6 DEF NamedLast

\* The basebackup completed last has the last name and the latest start.
LEMMA NewestLeads ==
  ASSUME BasesTyped, InOrder, Valid # {}
  PROVE  \E n \in Valid : \A o \in Valid :
           /\ o.end <= n.end /\ o.start <= n.start
           /\ o # n => o.end < n.end /\ Before(o.name, n.name)
<1> DEFINE Ends == {b.end : b \in Valid}
<1>1. \A b \in Valid : b.end \in Nat /\ b.start \in Nat
  BY BasesFacts
<1>2. PICK e \in Ends : \A f \in Ends : f <= e
  <2>1. IsFiniteSet(Valid)
    BY BasesFacts, FS_Subset DEF BasesTyped
  <2>2. [b \in Valid |-> b.end] \in Surjection(Valid, Ends)
    BY DEF Surjection
  <2>3. IsFiniteSet(Ends) /\ Ends \subseteq Nat /\ Ends # {}
    BY <1>1, <2>1, <2>2, FS_Surjection
  <2> QED
    BY <2>3, FiniteHasGreatest
<1>3. PICK n \in Valid : n.end = e
  BY <1>2
<1>4. \A o \in Valid : o.end <= n.end
  BY <1>2, <1>3
<1> QED
  BY <1>1, <1>3, <1>4 DEF InOrder

\* What the properties follow from.
LEMMA BasesInvSuffices ==
  ASSUME BasesInv
  PROVE  PresentRestorable
<1> SUFFICES ASSUME Recoverable, ~muddled PROVE Restores(Latest)
  BY DEF PresentRestorable
<1>1. BasesTyped /\ InOrder /\ ArchiveReaches /\ segment \in Nat
  BY DEF BasesInv, BasesTyped
<1>2. Candidates(Latest) = bases /\ bases = Valid /\ bases # {}
  BY DEF Recoverable, Candidates
<1> DEFINE b == NamedLast(bases)
<1>3. b \in bases /\ \A o \in bases \ {b} : Before(o.name, b.name)
  BY <1>1, <1>2, LastByName
<1> HIDE DEF b
<1>4. PICK n \in Valid : \A o \in Valid :
        o.start <= n.start /\ (o # n => o.end < n.end /\ Before(o.name, n.name))
  BY <1>1, <1>2, NewestLeads
<1>5. n = b
  <2> SUFFICES ASSUME n # b PROVE FALSE
    OBVIOUS
  <2>1. Before(n.name, b.name) /\ Before(b.name, n.name)
    BY <1>2, <1>3, <1>4
  <2>2. n.name \in BaseName /\ b.name \in BaseName
    BY <1>1, <1>2, <1>3, BasesFacts
  <2> QED
    BY <2>1, <2>2, NamesInOrder
<1>6. b.manifest /\ b.start \in Nat
  BY <1>1, <1>2, <1>3, BasesFacts
<1>7. \A o \in Valid : o.start <= b.start /\ o.start \in Nat
  BY <1>1, <1>2, <1>4, <1>5, BasesFacts
<1>8. b.start >= trimmed
  <2>1. PICK o \in bases : o.start >= trimmed
    BY DEF Recoverable
  <2> QED
    BY <1>1, <1>2, <1>6, <1>7, <2>1 DEF BasesTyped
<1>9. b.start..Latest \subseteq wal
  <2> SUFFICES ASSUME NEW s \in b.start..Latest PROVE s \in wal
    OBVIOUS
  <2>1. s \in 0..(segment - 1) /\ s >= b.start
    BY <1>1, <1>6 DEF Latest
  <2>2. s >= trimmed /\ \A o \in Valid : o.start <= s
    BY <1>1, <1>6, <1>7, <1>8, <2>1 DEF BasesTyped
  <2> QED
    BY <1>1, <2>1, <2>2 DEF ArchiveReaches
<1> QED
  BY <1>2, <1>6, <1>9 DEF Restores, b

\* Directories that go leave one to a name.
LEMMA DirsShrink ==
  ASSUME BasesTyped, bases' \subseteq bases, segment' \in Nat, segment' >= segment
  PROVE  /\ IsFiniteSet(bases') /\ bases' \subseteq BaseDir
         /\ \A b \in bases' : b.start <= segment' /\ b.end <= segment'
         /\ \A b, o \in bases' : b.name = o.name => b = o
<1>1. IsFiniteSet(bases')
  BY FS_Subset DEF BasesTyped
<1>2. \A b \in bases : b.start \in Nat /\ b.end \in Nat
  BY BasesFacts
<1> QED
  BY <1>1, <1>2 DEF BasesTyped

\* A basebackup that starts has a name to itself, and is not valid yet.
LEMMA DirsStart ==
  ASSUME BasesTyped, NEW name \in BaseName, StartBase(name), segment' = segment
  PROVE  /\ IsFiniteSet(bases') /\ bases' \subseteq BaseDir
         /\ \A b \in bases' : b.start <= segment' /\ b.end <= segment'
         /\ \A b, o \in bases' : b.name = o.name => b = o
         /\ muddled' \in BOOLEAN
         /\ ~muddled' => ~muddled /\ Valid' = Valid
<1> DEFINE old == {b \in bases : b.name = name}
<1>1. PICK new \in BaseDir :
        /\ new = [name |-> name, start |-> segment, end |-> segment, manifest |-> FALSE]
        /\ new.name = name /\ new.start = segment /\ new.end = segment /\ ~new.manifest
  <2> DEFINE n == [name |-> name, start |-> segment, end |-> segment, manifest |-> FALSE]
  <2>1. segment \in Nat /\ FALSE \in BOOLEAN
    BY DEF BasesTyped
  <2>2. n \in BaseDir
    BY <2>1 DEF BaseDir
  <2>3. n.name = name /\ n.start = segment /\ n.end = segment /\ ~n.manifest
    OBVIOUS
  <2> QED
    BY <2>2, <2>3
<1>2. bases' = (bases \ old) \cup {new} /\ muddled' = (muddled \/ old # {})
  BY <1>1 DEF StartBase
<1>3. IsFiniteSet(bases')
  <2>1. IsFiniteSet(bases \ old)
    BY FS_Subset DEF BasesTyped
  <2> QED
    BY <1>2, <2>1, FS_AddElement
<1>4. \A b, o \in bases' : b.name = o.name => b = o
  BY <1>1, <1>2 DEF BasesTyped
<1>5. bases' \subseteq BaseDir /\ \A b \in bases' : b.start <= segment' /\ b.end <= segment'
  <2>1. bases' \subseteq bases \cup {new}
    BY <1>2
  <2>2. new.start <= segment' /\ new.end <= segment'
    BY <1>1 DEF BasesTyped
  <2> HIDE DEF old
  <2> QED
    BY <2>1, <2>2 DEF BasesTyped
<1>6. ASSUME ~muddled' PROVE ~muddled /\ Valid' = Valid
  <2>1. ~muddled /\ old = {}
    BY <1>2, <1>6
  <2>2. bases' = bases \cup {new}
    BY <1>2, <2>1
  <2> QED
    BY <1>1, <2>1, <2>2 DEF Valid
<1>7. muddled' \in BOOLEAN
  BY <1>2, Zenon
<1> QED
  BY <1>3, <1>4, <1>5, <1>6, <1>7

\* A basebackup that ends is the newest, in the order of the ends, of the names
\* and of the starts, or something was muddled.
LEMMA DirsEnd ==
  ASSUME BasesTyped, NEW name \in BaseName, EndBase(name), segment' = segment
  PROVE  /\ IsFiniteSet(bases') /\ bases' \subseteq BaseDir
         /\ \A b \in bases' : b.start <= segment' /\ b.end <= segment'
         /\ \A b, o \in bases' : b.name = o.name => b = o
         /\ muddled' \in BOOLEAN
         /\ ~muddled' => /\ ~muddled /\ Valid \subseteq Valid'
                         /\ \A n \in Valid' : n \notin Valid =>
                              /\ Valid' = Valid \cup {n}
                              /\ \A o \in Valid : /\ o.end < n.end /\ o.start <= n.start
                                                  /\ Before(o.name, n.name)
<1> DEFINE mine == {b \in bases : b.name = name /\ ~b.manifest}
           ended(b) == [b EXCEPT !.manifest = TRUE, !.end = segment]
<1>1. /\ \A b \in Valid : b.end # segment
      /\ bases' = (bases \ mine) \cup {ended(b) : b \in mine}
      /\ muddled' = (muddled \/ \E b \in mine, o \in bases \ mine :
                                  Before(b.name, o.name) \/ (o.manifest /\ o.start > b.start))
  BY DEF EndBase
<1>2. muddled' \in BOOLEAN
  BY <1>1, Zenon
<1>3. CASE mine = {}
  <2>1. bases' = bases
    BY <1>1, <1>3
  <2>2. ~muddled' => ~muddled
    BY <1>1
  <2> QED
    BY <1>2, <2>1, <2>2 DEF BasesTyped, Valid
<1>4. CASE mine # {}
  <2>1. PICK b \in bases : b.name = name /\ ~b.manifest
    BY <1>4
  <2>2. mine = {b} /\ \A o \in bases \ {b} : o.name # b.name
    BY <2>1 DEF BasesTyped
  <2>3. PICK n \in BaseDir : /\ n = ended(b) /\ n.name = b.name /\ n.start = b.start
                             /\ n.end = segment /\ n.manifest
    <3>1. b \in BaseDir /\ segment \in Nat /\ TRUE \in BOOLEAN
      BY DEF BasesTyped
    <3>2. ended(b) \in BaseDir
      BY <3>1 DEF BaseDir
    <3>3. /\ ended(b).name = b.name /\ ended(b).start = b.start
          /\ ended(b).end = segment /\ ended(b).manifest
      BY <3>1 DEF BaseDir
    <3> QED
      BY <3>2, <3>3
  <2>4. bases' = (bases \ {b}) \cup {n}
    <3>1. {ended(c) : c \in mine} = {ended(b)}
      BY <2>2
    <3> QED
      BY <1>1, <2>2, <2>3, <3>1
  <2>5. /\ ~muddled' => ~muddled /\ \A o \in bases \ {b} :
               ~Before(b.name, o.name) /\ ~(o.manifest /\ o.start > b.start)
    BY <1>1, <2>2
  <2> HIDE DEF ended, mine
  <2>6. IsFiniteSet(bases')
    <3>1. IsFiniteSet(bases \ {b})
      BY FS_Subset DEF BasesTyped
    <3> QED
      BY <2>4, <3>1, FS_AddElement
  <2>7. /\ bases' \subseteq BaseDir
        /\ \A c \in bases' : c.start <= segment' /\ c.end <= segment'
        /\ \A c, o \in bases' : c.name = o.name => c = o
    <3>1. n.start <= segment /\ n.end <= segment
      BY <2>1, <2>3 DEF BasesTyped
    <3> QED
      BY <2>2, <2>3, <2>4, <3>1 DEF BasesTyped
  <2>8. Valid' = Valid \cup {n} /\ \A o \in Valid : o \in bases \ {b}
    BY <2>1, <2>3, <2>4 DEF Valid
  <2>9. ASSUME ~muddled', NEW o \in Valid
        PROVE  o.end < n.end /\ o.start <= n.start /\ Before(o.name, n.name)
    <3>1. o \in bases \ {b} /\ o.manifest /\ o.start \in Nat /\ o.end \in 0..segment
          /\ o.name \in BaseName /\ b.name \in BaseName /\ b.start \in Nat
      BY <2>1, <2>8, BasesFacts
    <3>2. o.end # segment
      BY <1>1
    <3>3. Before(o.name, b.name)
      BY <2>2, <2>5, <2>9, <3>1, NamesInOrder
    <3>4. o.end < n.end
      <4>1. segment \in Nat
        BY DEF BasesTyped
      <4> QED
        BY <2>3, <3>1, <3>2, <4>1
    <3>5. o.start <= n.start
      BY <2>3, <2>5, <2>9, <3>1
    <3> QED
      BY <2>3, <3>3, <3>4, <3>5
  <2>10. ~muddled' => ~muddled
    BY <2>5
  <2> QED
    BY <1>2, <2>6, <2>7, <2>8, <2>9, <2>10
<1> QED
  BY <1>3, <1>4

\* A newest one, later in all three orders, leaves the others in order.
LEMMA OrderExtends ==
  ASSUME InOrder, BasesTyped, Valid \subseteq Valid', bases' \subseteq BaseDir,
         \A n \in Valid' : n \notin Valid =>
            /\ Valid' = Valid \cup {n}
            /\ \A o \in Valid : o.end < n.end /\ o.start <= n.start /\ Before(o.name, n.name)
  PROVE  InOrder'
<1>1. CASE Valid' = Valid
  BY <1>1 DEF InOrder
<1>2. CASE Valid' # Valid
  <2>1. PICK n \in Valid' : n \notin Valid
    BY <1>2
  <2>2. /\ Valid' = Valid \cup {n}
        /\ \A o \in Valid : o.end < n.end /\ o.start <= n.start /\ Before(o.name, n.name)
    BY <2>1
  <2>3. \A b \in Valid' : b.end \in Nat
    BY DEF Valid, BaseDir
  <2>4. SUFFICES ASSUME NEW b \in Valid', NEW o \in Valid', b # o
                 PROVE  /\ b.end # o.end
                        /\ b.end < o.end => Before(b.name, o.name) /\ b.start <= o.start
    BY DEF InOrder
  <2>5. CASE b \in Valid /\ o \in Valid
    BY <2>4, <2>5 DEF InOrder
  <2>6. CASE b \in Valid /\ o = n
    BY <2>2, <2>3, <2>6
  <2>7. CASE b = n /\ o \in Valid
    BY <2>2, <2>3, <2>7
  <2> QED
    BY <2>2, <2>4, <2>5, <2>6, <2>7
<1> QED
  BY <1>1, <1>2

\* Basebackups may go as long as the newest stays.
LEMMA ArchiveStays ==
  ASSUME BasesTyped, InOrder, ArchiveReaches, Valid' \subseteq Valid,
         \A n \in Valid : (\A o \in Valid : o.end <= n.end) => n \in Valid',
         UNCHANGED <<segment, wal, trimmed>>
  PROVE  ArchiveReaches'
<1> SUFFICES ASSUME NEW s \in 0..(segment - 1), s >= trimmed,
                    \A b \in Valid' : b.start <= s
             PROVE  s \in wal
  BY DEF ArchiveReaches
<1>1. ASSUME NEW b \in Valid PROVE b.start <= s
  <2>1. PICK n \in Valid : \A o \in Valid : o.end <= n.end /\ o.start <= n.start
    BY <1>1, NewestLeads
  <2>2. n.start <= s /\ b.start <= n.start
    BY <2>1
  <2>3. n.start \in Nat /\ b.start \in Nat /\ s \in Nat
    BY BasesFacts DEF BasesTyped
  <2> QED
    BY <2>2, <2>3
<1> QED
  BY <1>1 DEF ArchiveReaches

\* What goes of the archive is before a complete basebackup, or dropped by size.
LEMMA ArchiveCut ==
  ASSUME BasesTyped, ArchiveReaches, Valid \subseteq Valid', UNCHANGED segment,
         trimmed' \in Nat, trimmed <= trimmed', \A b \in Valid' : b.start \in Nat,
         \A s \in wal : s \in wal' \/ s < trimmed' \/ \E b \in Valid' : s < b.start
  PROVE  ArchiveReaches'
<1> SUFFICES ASSUME NEW s \in 0..(segment - 1), s >= trimmed', \A b \in Valid' : b.start <= s
             PROVE  s \in wal'
  BY DEF ArchiveReaches
<1>1. segment \in Nat /\ trimmed \in Nat /\ s \in Nat
  BY DEF BasesTyped
<1>2. s \in wal
  BY <1>1 DEF ArchiveReaches
<1>3. ~(s < trimmed')
  BY <1>1
<1>4. \A b \in Valid : b.start \in Nat
  BY BasesFacts
<1> QED
  BY <1>1, <1>2, <1>3, <1>4

\* Names are made of numbers.
LEMMA DatesAreNumbers ==
  ASSUME segment \in Nat
  PROVE  /\ Day \in Nat /\ (segment % DayLength) + 1 \in Nat
         /\ \A d \in Nat : [day |-> d, clock |-> 0] \in BaseName
         /\ [day |-> Day, clock |-> (segment % DayLength) + 1] \in BaseName
<1>1. DayLength \in Nat \ {0}
  BY BaseAssumption
<1>2. Day \in Nat
  BY <1>1 DEF Day
<1>3. (segment % DayLength) + 1 \in Nat
  BY <1>1
<1> HIDE DEF Day
<1> QED
  BY <1>2, <1>3 DEF BaseName

\* The scripts at rest hold numbers.
LEMMA BaseRests ==
  /\ KeepBase \in Nat \ {0} /\ NotTonight.keep \in Nat \ {0} /\ NotTonight.day \in Nat
  /\ NotNow.name \in BaseName
BY BaseAssumption DEF NotTonight, NotNow, NoName, BaseName

\* What a step does not touch keeps its type; the two scripts hold numbers.
ScriptsTyped ==
    nightly.keep \in Nat \ {0} /\ nightly.day \in Nat /\ hygiene.name \in BaseName

\* A routine cut takes only segments before a complete basebackup.
LEMMA CutsByName ==
  ASSUME BasesTyped, NEW full \in BOOLEAN, CutByName(full)
  PROVE  wal' \subseteq wal /\ \A s \in wal : s \in wal' \/ \E b \in Valid : s < b.start
<1>1. CASE bases = {}
  BY <1>1 DEF CutByName
<1>2. CASE bases # {}
  <2>1. PICK f \in bases, l \in bases : f = NamedFirst(bases) /\ l = NamedLast(bases)
    BY <1>2, FirstByName, LastByName
  <2>2. wal' = CutTo(f) \cap CutTo(l) \/ wal' = CutTo(f)
    BY <1>2, <2>1 DEF CutByName
  <2>3. /\ f.manifest => f \in Valid
        /\ l.manifest => l \in Valid
        /\ f.start \in Nat /\ l.start \in Nat /\ \A s \in wal : s \in Nat
    BY <2>1, BasesFacts DEF BasesTyped
  <2> QED
    BY <2>2, <2>3 DEF CutTo
<1> QED
  BY <1>1, <1>2

\* The greater of two numbers.
LEMMA LastNumber ==
  ASSUME NEW x \in Nat, NEW y \in Nat
  PROVE  Max({x, y}) \in Nat /\ x <= Max({x, y}) /\ y <= Max({x, y})
<1> DEFINE Both == {x, y}
<1>1. \E m \in Both : \A n \in Both : m >= n
  OBVIOUS
<1>2. Max(Both) \in Both /\ \A n \in Both : Max(Both) >= n
  BY <1>1 DEF Max
<1> QED
  BY <1>2

\* Steps that leave the basebackups alone.
LEMMA ArchiveStep ==
  ASSUME BasesTyped, UNCHANGED bases, ScriptsTyped',
         \/ ArchiveSegment \/ PanicTrim \/ HygieneTrims
         \/ (UNCHANGED <<segment, wal, trimmed, muddled>>)
         \/ (UNCHANGED <<segment, trimmed, muddled>> /\ \E full \in BOOLEAN : CutByName(full))
         \/ (UNCHANGED <<segment, trimmed, muddled>> /\ \E b \in bases : wal' = CutTo(b))
  PROVE  /\ BasesTyped' /\ muddled' = muddled
         /\ ArchiveReaches => ArchiveReaches'
<1>0. /\ segment \in Nat /\ trimmed \in Nat /\ wal \subseteq Nat /\ muddled \in BOOLEAN
      /\ \A b \in Valid : b.start \in 0..segment
  BY BasesFacts DEF BasesTyped
<1>1. Valid' = Valid
  BY DEF Valid
<1>9. Valid \subseteq Valid' /\ \A b \in Valid' : b.start \in Nat
  BY <1>0, <1>1
<1>2. ASSUME segment' \in Nat, segment' >= segment, trimmed' \in Nat, wal' \subseteq Nat, muddled' = muddled
      PROVE BasesTyped'
  BY <1>0, <1>2, DirsShrink DEF BasesTyped, ScriptsTyped
<1>3. CASE ArchiveSegment
  <2>1. segment' = segment + 1 /\ wal' = wal \cup {segment} /\ UNCHANGED <<trimmed, muddled>>
    BY <1>3 DEF ArchiveSegment
  <2>2. ASSUME ArchiveReaches PROVE ArchiveReaches'
    <3> SUFFICES ASSUME NEW s \in 0..(segment' - 1), s >= trimmed, \A b \in Valid : b.start <= s
                 PROVE  s \in wal'
      BY <1>1, <2>1 DEF ArchiveReaches
    <3>1. s = segment \/ s \in 0..(segment - 1)
      BY <1>0, <2>1
    <3> QED
      BY <2>1, <2>2, <3>1 DEF ArchiveReaches
  <2> QED
    BY <1>0, <1>2, <2>1, <2>2
<1>4. CASE PanicTrim
  <2>1. /\ wal # {} /\ trimmed' = Max({trimmed, Min(wal) + 1}) /\ wal' = wal \ {Min(wal)}
        /\ UNCHANGED <<segment, muddled>>
    BY <1>4 DEF PanicTrim
  <2>2. Min(wal) \in Nat
    <3>1. PICK m \in wal : \A n \in wal : m <= n
      BY <1>0, <2>1, LeastNatural
    <3> QED
      BY <1>0, <3>1 DEF Min
  <2>3. trimmed' \in Nat /\ trimmed <= trimmed' /\ Min(wal) + 1 <= trimmed'
    BY <1>0, <2>1, <2>2, LastNumber
  <2>4. \A s \in wal : s \in wal' \/ s < trimmed'
    BY <1>0, <2>1, <2>2, <2>3
  <2>5. \A s \in wal : s \in wal' \/ s < trimmed' \/ \E b \in Valid' : s < b.start
    BY <2>4
  <2>6. ArchiveReaches => ArchiveReaches'
    BY <1>0, <1>1, <1>9, <2>1, <2>3, <2>5, ArchiveCut
  <2>7. wal' \subseteq Nat
    BY <1>0, <2>1
  <2> QED
    BY <1>0, <1>2, <2>1, <2>3, <2>6, <2>7
<1>5. CASE HygieneTrims
  <2>1. PICK upTo \in {trimmed} \cup {s + 1 : s \in wal} :
          /\ wal' = {s \in wal : s >= upTo} /\ trimmed' = Max({trimmed, upTo})
          /\ UNCHANGED <<segment, muddled>>
    BY <1>5 DEF HygieneTrims
  <2>2. upTo \in Nat
    BY <1>0
  <2>3. trimmed' \in Nat /\ trimmed <= trimmed' /\ upTo <= trimmed'
    BY <1>0, <2>1, <2>2, LastNumber
  <2>4. \A s \in wal : s \in wal' \/ s < trimmed'
    BY <1>0, <2>1, <2>2, <2>3
  <2>5. \A s \in wal : s \in wal' \/ s < trimmed' \/ \E b \in Valid' : s < b.start
    BY <2>4
  <2>6. ArchiveReaches => ArchiveReaches'
    BY <1>0, <1>1, <1>9, <2>1, <2>3, <2>5, ArchiveCut
  <2>7. wal' \subseteq Nat
    BY <1>0, <2>1
  <2> QED
    BY <1>0, <1>2, <2>1, <2>3, <2>6, <2>7
<1>6. CASE UNCHANGED <<segment, wal, trimmed, muddled>>
  BY <1>0, <1>1, <1>2, <1>6 DEF ArchiveReaches
<1>7. CASE UNCHANGED <<segment, trimmed, muddled>> /\ \E full \in BOOLEAN : CutByName(full)
  <2>1. wal' \subseteq wal /\ \A s \in wal : s \in wal' \/ \E b \in Valid' : s < b.start
    BY <1>1, <1>7, CutsByName
  <2>2. ArchiveReaches => ArchiveReaches'
    BY <1>0, <1>1, <1>7, <1>9, <2>1, ArchiveCut
  <2> QED
    BY <1>0, <1>2, <1>7, <2>1, <2>2
<1>8. CASE UNCHANGED <<segment, trimmed, muddled>> /\ \E b \in bases : wal' = CutTo(b)
  <2>1. PICK b \in bases : wal' = CutTo(b)
    BY <1>8
  <2>2. /\ wal' \subseteq wal /\ b.start \in Nat /\ (b.manifest => b \in Valid)
    BY <2>1, BasesFacts DEF CutTo
  <2>3. \A s \in wal : s \in wal' \/ \E c \in Valid' : s < c.start
    BY <1>0, <1>1, <2>1, <2>2 DEF CutTo
  <2>4. ArchiveReaches => ArchiveReaches'
    BY <1>0, <1>1, <1>8, <1>9, <2>3, ArchiveCut
  <2>5. wal' \subseteq Nat
    BY <1>0, <2>2
  <2>6. UNCHANGED <<segment, trimmed, muddled>>
    BY <1>8
  <2> QED
    BY <1>0, <1>2, <2>4, <2>5, <2>6
<1> QED
  BY <1>3, <1>4, <1>5, <1>6, <1>7, <1>8

\* The newest basebackup by the ends is one that nightly retention keeps.
LEMMA RetainKeepsNewest ==
  ASSUME BasesTyped, NEW keep \in Nat \ {0}, Retain(keep)
  PROVE  /\ bases' \subseteq bases /\ Valid' \subseteq Valid
         /\ \A n \in Valid : (\A o \in Valid : o.end <= n.end) => n \in Valid'
<1>1. PICK stale \in SUBSET {b \in bases \ Valid : b.start < segment} :
        bases' = bases \ ({b \in Valid : Rank(b) >= keep} \cup stale)
  BY DEF Retain
<1>2. bases' \subseteq bases /\ Valid' \subseteq Valid
  BY <1>1 DEF Valid
<1>3. ASSUME NEW n \in Valid, \A o \in Valid : o.end <= n.end
      PROVE  n \in Valid'
  <2>1. \A o \in Valid : o.end \in Nat
    BY BasesFacts DEF BasesTyped
  <2>2. {o \in Valid : o.end > n.end} = {}
    BY <1>3, <2>1
  <2>3. Rank(n) = 0
    BY <2>2, FS_EmptySet DEF Rank
  <2>4. ~(Rank(n) >= keep)
    BY <2>3
  <2>5. n \in bases' /\ n.manifest
    BY <1>1, <1>3, <2>4 DEF Valid
  <2> QED
    BY <2>5 DEF Valid
<1> QED
  BY <1>2, <1>3

\* So is it one that compaction keeps, which goes by the names.
LEMMA CompactionKeepsNewest ==
  ASSUME BasesTyped, CompactKeeps
  PROVE  /\ bases' \subseteq bases /\ Valid' \subseteq Valid
         /\ InOrder => \A n \in Valid : (\A o \in Valid : o.end <= n.end) => n \in Valid'
<1>1. bases' = bases \ {b \in Valid : Cardinality({o \in Valid : Before(b.name, o.name)}) >= KeepBase}
  BY DEF CompactKeeps
<1>2. bases' \subseteq bases /\ Valid' \subseteq Valid
  BY <1>1 DEF Valid
<1>3. ASSUME InOrder, NEW n \in Valid, \A o \in Valid : o.end <= n.end
      PROVE  n \in Valid'
  <2>1. \A o \in Valid : o.end \in Nat /\ o.name \in BaseName
    BY BasesFacts DEF BasesTyped
  <2>2. ASSUME NEW o \in Valid, Before(n.name, o.name) PROVE FALSE
    <3>1. o # n
      BY <1>3, <2>1, <2>2, NamesInOrder
    <3>2. o.end # n.end /\ (o.end < n.end => Before(o.name, n.name))
      BY <1>3, <3>1 DEF InOrder
    <3>3. Before(o.name, n.name)
      BY <1>3, <2>1, <3>2
    <3> QED
      BY <1>3, <2>1, <2>2, <3>3, NamesInOrder
  <2>3. {o \in Valid : Before(n.name, o.name)} = {}
    BY <2>2
  <2>4. Cardinality({o \in Valid : Before(n.name, o.name)}) = 0
    BY <2>3, FS_EmptySet
  <2>5. ~(Cardinality({o \in Valid : Before(n.name, o.name)}) >= KeepBase)
    BY <2>4, BaseRests
  <2>6. n \in bases' /\ n.manifest
    BY <1>1, <1>3, <2>5 DEF Valid
  <2> QED
    BY <2>6 DEF Valid
<1> QED
  BY <1>2, <1>3

\* Whichever basebackups go, the others are still in order.
LEMMA OrderStays ==
  ASSUME InOrder, Valid' \subseteq Valid
  PROVE  InOrder'
BY DEF InOrder

\* Steps that leave the basebackups alone keep the whole invariant.
LEMMA QuietStep ==
  ASSUME BasesInv, UNCHANGED bases, BasesTyped', muddled' = muddled,
         ArchiveReaches => ArchiveReaches'
  PROVE  BasesInv'
<1>1. Valid' \subseteq Valid
  BY DEF Valid
<1> QED
  BY <1>1, OrderStays DEF BasesInv

\* Steps that only take basebackups away keep it when the newest stays.
LEMMA KeepingStep ==
  ASSUME BasesInv, bases' \subseteq bases, Valid' \subseteq Valid, ScriptsTyped',
         InOrder => \A n \in Valid : (\A o \in Valid : o.end <= n.end) => n \in Valid',
         UNCHANGED <<segment, wal, trimmed, muddled>>
  PROVE  BasesInv'
<1>1. BasesTyped
  BY DEF BasesInv
<1>2. segment' \in Nat /\ segment' >= segment
  BY <1>1 DEF BasesTyped
<1>3. BasesTyped'
  BY <1>1, <1>2, DirsShrink DEF BasesTyped, ScriptsTyped
<1>4. ASSUME ~muddled' PROVE InOrder' /\ ArchiveReaches'
  <2>1. InOrder /\ ArchiveReaches
    BY <1>4 DEF BasesInv
  <2> QED
    BY <1>1, <2>1, OrderStays, ArchiveStays
<1> QED
  BY <1>3, <1>4 DEF BasesInv

\* A basebackup begun is not a valid one yet.
LEMMA StartingStep ==
  ASSUME BasesInv, NEW name \in BaseName, StartBase(name), ScriptsTyped',
         UNCHANGED <<segment, wal, trimmed>>
  PROVE  BasesInv'
<1>1. BasesTyped
  BY DEF BasesInv
<1>2. /\ IsFiniteSet(bases') /\ bases' \subseteq BaseDir
      /\ \A b \in bases' : b.start <= segment' /\ b.end <= segment'
      /\ \A b, o \in bases' : b.name = o.name => b = o
      /\ muddled' \in BOOLEAN
      /\ ~muddled' => ~muddled /\ Valid' = Valid
  BY <1>1, DirsStart
<1>3. BasesTyped'
  BY <1>1, <1>2 DEF BasesTyped, ScriptsTyped
<1>4. ASSUME ~muddled' PROVE InOrder' /\ ArchiveReaches'
  <2>1. InOrder /\ ArchiveReaches /\ Valid' = Valid
    BY <1>2, <1>4 DEF BasesInv
  <2> QED
    BY <2>1 DEF InOrder, ArchiveReaches
<1> QED
  BY <1>3, <1>4 DEF BasesInv

\* One that ends is the newest, or is taken away.
LEMMA EndingStep ==
  ASSUME BasesInv, NEW name \in BaseName, EndBase(name) \/ FailBase(name), ScriptsTyped',
         UNCHANGED <<segment, wal, trimmed>>
  PROVE  BasesInv'
<1>1. BasesTyped
  BY DEF BasesInv
<1>2. CASE EndBase(name)
  <2>1. /\ IsFiniteSet(bases') /\ bases' \subseteq BaseDir
        /\ \A b \in bases' : b.start <= segment' /\ b.end <= segment'
        /\ \A b, o \in bases' : b.name = o.name => b = o
        /\ muddled' \in BOOLEAN
    BY <1>1, <1>2, DirsEnd
  <2>2. ~muddled' => /\ ~muddled /\ Valid \subseteq Valid'
                     /\ \A n \in Valid' : n \notin Valid =>
                          /\ Valid' = Valid \cup {n}
                          /\ \A o \in Valid : /\ o.end < n.end /\ o.start <= n.start
                                              /\ Before(o.name, n.name)
    BY <1>1, <1>2, DirsEnd
  <2>3. BasesTyped'
    BY <1>1, <2>1 DEF BasesTyped, ScriptsTyped
  <2>4. ASSUME ~muddled' PROVE InOrder'
    <3>1. InOrder
      BY <2>2, <2>4 DEF BasesInv
    <3> QED
      BY <1>1, <2>1, <2>2, <2>4, <3>1, OrderExtends
  <2>5. ASSUME ~muddled' PROVE ArchiveReaches'
    <3>1. ArchiveReaches /\ Valid \subseteq Valid'
      BY <2>2, <2>5 DEF BasesInv
    <3>2. \A b \in Valid' : b.start \in Nat
      BY <2>1 DEF Valid, BaseDir
    <3>3. trimmed' \in Nat /\ trimmed <= trimmed'
      BY <1>1 DEF BasesTyped
    <3>4. \A s \in wal : s \in wal' \/ s < trimmed' \/ \E b \in Valid' : s < b.start
      OBVIOUS
    <3> QED
      BY <1>1, <3>1, <3>2, <3>3, <3>4, ArchiveCut
  <2> QED
    BY <2>3, <2>4, <2>5 DEF BasesInv
<1>3. CASE FailBase(name)
  <2>1. bases' \subseteq bases /\ Valid' = Valid /\ UNCHANGED muddled
    BY <1>3 DEF FailBase, Valid
  <2> QED
    BY <2>1, KeepingStep
<1> QED
  BY <1>2, <1>3

\* An empty archive with no basebackups.
LEMMA BasesInvInit == BasesInit => BasesInv
<1> SUFFICES ASSUME BasesInit PROVE BasesInv
  OBVIOUS
<1>1. /\ segment = 0 /\ wal = {} /\ bases = {} /\ trimmed = 0 /\ muddled = FALSE
      /\ nightly = NotTonight /\ hygiene = NotNow
  BY DEF BasesInit
<1>2. Valid = {}
  BY <1>1 DEF Valid
<1>3. BasesTyped
  BY <1>1, BaseRests, FS_EmptySet DEF BasesTyped
<1>4. InOrder
  BY <1>2 DEF InOrder
<1>5. ArchiveReaches
  BY <1>1 DEF ArchiveReaches
<1> QED
  BY <1>3, <1>4, <1>5 DEF BasesInv

\* Each of the scripts goes on with numbers.
LEMMA ScriptsStayTyped ==
  ASSUME BasesTyped, BasesNext
  PROVE  ScriptsTyped'
<1>0. ScriptsTyped /\ Day \in Nat /\ KeepBase \in Nat \ {0}
  BY DatesAreNumbers, BaseRests DEF ScriptsTyped, BasesTyped
<1> DEFINE NightlyGoes == nightly'.keep \in Nat \ {0} /\ nightly'.day \in Nat
           HygieneGoes == hygiene'.name \in BaseName
<1>1. NightlyGoes
  <2>1. CASE UNCHANGED nightly
    BY <1>0, <2>1 DEF ScriptsTyped
  <2>2. CASE nightly' = NotTonight
    BY <2>2, BaseRests
  <2>3. CASE \E keep \in {1, KeepBase} : nightly' = [pc |-> "retain", day |-> Day, keep |-> keep]
    <3>1. PICK k \in {1, KeepBase} : nightly' = [pc |-> "retain", day |-> Day, keep |-> k]
      BY <2>3
    <3>2. nightly'.keep = k /\ nightly'.day = Day
      BY <3>1
    <3> QED
      BY <1>0, <3>2
  <2>4. CASE \E pc \in {"cut", "cut2", "base", "basing", "retain2"} : NightlyTo(pc)
    <3>1. nightly'.keep = nightly.keep /\ nightly'.day = nightly.day
      BY <2>4 DEF NightlyTo
    <3> QED
      BY <1>0, <3>1 DEF ScriptsTyped
  <2>5. \/ UNCHANGED nightly \/ nightly' = NotTonight
        \/ \E keep \in {1, KeepBase} : nightly' = [pc |-> "retain", day |-> Day, keep |-> keep]
        \/ \E pc \in {"cut", "cut2", "base", "basing", "retain2"} : NightlyTo(pc)
    BY DEF BasesNext, ArchiveSegment, PanicTrim, NightlyStart, NightlyRetain, NightlyCut,
           NightlyBase, NightlyBased, HygieneStart, Compact, Compacted, CompactKeeps,
           CompactAnchors, HygieneTrims, HostBoot
  <2> QED
    BY <2>1, <2>2, <2>3, <2>4, <2>5
<1>2. HygieneGoes
  <2>1. CASE UNCHANGED hygiene
    BY <1>0, <2>1 DEF ScriptsTyped
  <2>2. CASE hygiene' = NotNow
    BY <2>2, BaseRests
  <2>3. CASE hygiene' = [pc |-> "compacting",
                         name |-> [day |-> Day, clock |-> (segment % DayLength) + 1]]
    <3>1. hygiene'.name = [day |-> Day, clock |-> (segment % DayLength) + 1]
      BY <2>3
    <3> QED
      BY <3>1, DatesAreNumbers DEF BasesTyped
  <2>4. CASE \E pc \in {"compact", "keep", "trim", "anchor"} : HygieneTo(pc)
    <3>1. hygiene'.name = hygiene.name
      BY <2>4 DEF HygieneTo
    <3> QED
      BY <1>0, <3>1 DEF ScriptsTyped
  <2>5. \/ UNCHANGED hygiene \/ hygiene' = NotNow
        \/ hygiene' = [pc |-> "compacting",
                       name |-> [day |-> Day, clock |-> (segment % DayLength) + 1]]
        \/ \E pc \in {"compact", "keep", "trim", "anchor"} : HygieneTo(pc)
    BY DEF BasesNext, ArchiveSegment, PanicTrim, NightlyStart, NightlyRetain, NightlyCut,
           NightlyBase, NightlyBased, HygieneStart, Compact, Compacted, CompactKeeps,
           CompactAnchors, HygieneTrims, HostBoot
  <2> QED
    BY <2>1, <2>2, <2>3, <2>4, <2>5
<1> QED
  BY <1>1, <1>2 DEF ScriptsTyped

\* Every step of the two scripts, the archive and the host.
LEMMA BasesInvStep == BasesInv /\ BasesNext => BasesInv'
<1> SUFFICES ASSUME BasesInv, BasesNext PROVE BasesInv'
  OBVIOUS
<1>1. BasesTyped /\ ScriptsTyped'
  BY ScriptsStayTyped DEF BasesInv
<1>2. CASE ArchiveSegment \/ PanicTrim \/ HygieneTrims
  <2>1. UNCHANGED bases
    BY <1>2 DEF ArchiveSegment, PanicTrim, HygieneTrims
  <2>2. BasesTyped' /\ muddled' = muddled /\ (ArchiveReaches => ArchiveReaches')
    BY <1>1, <1>2, <2>1, ArchiveStep
  <2> QED
    BY <2>1, <2>2, QuietStep
<1>3. CASE NightlyStart \/ HostBoot
  <2>1. UNCHANGED bases /\ UNCHANGED <<segment, wal, trimmed, muddled>>
    BY <1>3 DEF NightlyStart, HostBoot
  <2>2. BasesTyped' /\ muddled' = muddled /\ (ArchiveReaches => ArchiveReaches')
    BY <1>1, <2>1, ArchiveStep
  <2> QED
    BY <2>1, <2>2, QuietStep
<1>4. CASE NightlyCut \/ HygieneStart
  <2>1. UNCHANGED bases /\ UNCHANGED <<segment, trimmed, muddled>>
    BY <1>4 DEF NightlyCut, HygieneStart
  <2>2. \E full \in BOOLEAN : CutByName(full)
    BY <1>4 DEF NightlyCut, HygieneStart
  <2>3. BasesTyped' /\ muddled' = muddled /\ (ArchiveReaches => ArchiveReaches')
    BY <1>1, <2>1, <2>2, ArchiveStep
  <2> QED
    BY <2>1, <2>3, QuietStep
<1>5. CASE CompactAnchors
  <2>1. UNCHANGED bases /\ UNCHANGED <<segment, trimmed, muddled>>
    BY <1>5 DEF CompactAnchors
  <2>2. (\E b \in bases : wal' = CutTo(b)) \/ UNCHANGED wal
    BY <1>5 DEF CompactAnchors
  <2>3. BasesTyped' /\ muddled' = muddled /\ (ArchiveReaches => ArchiveReaches')
    BY <1>1, <2>1, <2>2, ArchiveStep
  <2> QED
    BY <2>1, <2>3, QuietStep
<1>6. CASE NightlyRetain
  <2>1. Retain(nightly.keep) /\ UNCHANGED <<segment, wal, trimmed, muddled>>
    BY <1>6 DEF NightlyRetain
  <2>2. nightly.keep \in Nat \ {0}
    BY <1>1 DEF BasesTyped
  <2>3. /\ bases' \subseteq bases /\ Valid' \subseteq Valid
        /\ \A n \in Valid : (\A o \in Valid : o.end <= n.end) => n \in Valid'
    BY <1>1, <2>1, <2>2, RetainKeepsNewest
  <2> QED
    BY <1>1, <2>1, <2>3, KeepingStep
<1>7. CASE CompactKeeps
  <2>1. UNCHANGED <<segment, wal, trimmed, muddled>>
    BY <1>7 DEF CompactKeeps
  <2>2. /\ bases' \subseteq bases /\ Valid' \subseteq Valid
        /\ InOrder => \A n \in Valid : (\A o \in Valid : o.end <= n.end) => n \in Valid'
    BY <1>1, <1>7, CompactionKeepsNewest
  <2> QED
    BY <1>1, <2>1, <2>2, KeepingStep
<1>8. CASE NightlyBase
  <2>1. [day |-> nightly.day, clock |-> 0] \in BaseName
    BY <1>1, DatesAreNumbers DEF BasesTyped
  <2>2. StartBase([day |-> nightly.day, clock |-> 0]) /\ UNCHANGED <<segment, wal, trimmed>>
    BY <1>8 DEF NightlyBase
  <2> QED
    BY <1>1, <2>1, <2>2, StartingStep
<1>9. CASE Compact
  <2>1. [day |-> Day, clock |-> (segment % DayLength) + 1] \in BaseName
    BY <1>1, DatesAreNumbers DEF BasesTyped
  <2>2. /\ StartBase([day |-> Day, clock |-> (segment % DayLength) + 1])
        /\ UNCHANGED <<segment, wal, trimmed>>
    BY <1>9 DEF Compact
  <2> QED
    BY <1>1, <2>1, <2>2, StartingStep
<1>10. CASE NightlyBased
  <2> DEFINE name == [day |-> nightly.day, clock |-> 0]
  <2>1. name \in BaseName
    BY <1>1, DatesAreNumbers DEF BasesTyped
  <2>2. (EndBase(name) \/ FailBase(name)) /\ UNCHANGED <<segment, wal, trimmed>>
    BY <1>10 DEF NightlyBased
  <2> HIDE DEF name
  <2> QED
    BY <1>1, <2>1, <2>2, EndingStep
<1>11. CASE Compacted
  <2>1. hygiene.name \in BaseName
    BY <1>1 DEF BasesTyped
  <2>2. /\ EndBase(hygiene.name) \/ FailBase(hygiene.name)
        /\ UNCHANGED <<segment, wal, trimmed>>
    BY <1>11 DEF Compacted
  <2> QED
    BY <1>1, <2>1, <2>2, EndingStep
<1> QED
  BY <1>2, <1>3, <1>4, <1>5, <1>6, <1>7, <1>8, <1>9, <1>10, <1>11 DEF BasesNext

\* Every state keeps the invariant.
LEMMA BasesAlways == BasesSpec => []BasesInv
<1>1. BasesInit => BasesInv
  BY BasesInvInit
<1>2. BasesInv /\ [BasesNext]_baseVars => BasesInv'
  <2>1. BasesInv /\ UNCHANGED baseVars => BasesInv'
    <3> SUFFICES ASSUME BasesInv, UNCHANGED baseVars PROVE BasesInv'
      OBVIOUS
    <3>1. UNCHANGED <<segment, wal, bases, trimmed, muddled>> /\ UNCHANGED <<nightly, hygiene>>
      BY DEF baseVars
    <3>2. BasesTyped /\ ScriptsTyped'
      BY <3>1 DEF BasesInv, BasesTyped, ScriptsTyped
    <3>3. BasesTyped' /\ muddled' = muddled /\ (ArchiveReaches => ArchiveReaches')
      BY <3>1, <3>2, ArchiveStep
    <3> QED
      BY <3>1, <3>3, QuietStep
  <2> QED
    BY <2>1, BasesInvStep
<1> QED
  BY <1>1, <1>2, PTL DEF BasesSpec

\* wal-prune.sh, backup.sh, pitr-restore.sh: whatever the two scripts, their
\* crashes, full disks and failed basebackups did, in whatever order, the
\* present can be recovered, unless two basebackups got in each other's way.
THEOREM PresentStaysRestorable == BasesSpec => []PresentRestorable
<1>3. BasesInv => PresentRestorable
  BY BasesInvSuffices
<1> QED
  BY <1>3, BasesAlways, PTL

-----------------------------------------------------------------------------
(* Backups page: the number, the files, and the databases they are of.     *)

Undisturbed(kinds) == kinds \cap excused = {}

\* What a request holds makes sense where it is.
PageHolds ==
    \A c \in PageClients :
        /\ page[c].pc = "knob" => page[c].n \in 1..2
        /\ page[c].pc = "dump" => page[c].n \in 1..LastStamp

BootHolds == boot.pc = "write" => boot.n \in 1..2

\* Whoever writes the number writes the one that was chosen last.
NumberFollows ==
    Undisturbed({"crossed"}) =>
        /\ \A c \in AtPage("knob") : page[c].n = chosen
        /\ boot.pc = "write" => boot.n = chosen
        /\ AtPage("knob") = {} /\ boot.pc \notin {"mirror", "write"} => knob = chosen

\* Dumps under way, and the one a restore reads, are whole.
DumpsWhole ==
    Undisturbed({"twins", "midway"}) =>
        /\ \A f \in dumpFiles : f.ok
        /\ \A c \in AtPage("dump") \cup AtPage("restore") : page[c].ok

\* A file is of a database that there was; what the sweep is about to move and
\* what is in the trash are not of the one that lives.
SweepsBehind ==
    /\ \A f \in dumpFiles \cup trash : f.life <= lives
    /\ Undisturbed({"retaken"}) =>
         /\ life # 0 => \A f \in trash : f.life # life
         /\ (boot.pc = "move" /\ life # 0) =>
              \A f \in dumpFiles : f.at \in boot.saw => f.life # life

PageInv ==
    /\ PageTypeOK /\ PageHolds /\ BootHolds
    /\ NumberFollows /\ DumpsWhole /\ SweepsBehind
    /\ RestoredWhole /\ CloneEnds

PageRecs == [pc : {"idle", "knob", "dump", "restore", "fetch", "load"},
             n : 0..LastStamp, ver : 0..MaxVersion, ok : BOOLEAN]
Boots == [pc : {"mirror", "write", "look", "ask", "move", "done"},
          n : 0..2, saw : SUBSET (1..LastStamp)]

\* The steps of a request, and where each leaves it.
PageSteps(c) ==
    \/ \E n \in 1..2 : SetTiers(c, n)
    \/ WriteKnob(c)
    \/ BackupBegins(c) \/ BackupEnds(c)
    \/ \E f \in dumpFiles : RestoreBegins(c, f)
    \/ RestoreEnds(c)
    \/ OffboxBegins(c) \/ OffboxFetches(c) \/ OffboxLoads(c)
BootSteps == MirrorReads \/ MirrorWrites \/ SweepLooks \/ SweepAsks \/ SweepMoves

PageMovesTo(c, r) == r \in PageRecs /\ page' = [page EXCEPT ![c] = r]

\* The bounds, and where requests and the boot rest.
LEMMA PageBounds ==
  /\ LastStamp \in Nat /\ LastStamp >= 2 /\ MaxVersion \in Nat /\ MaxLives \in Nat
  /\ MaxRestarts \in Nat
  /\ PageRest \in PageRecs /\ PageRest.pc = "idle" /\ BootAgain \in Boots
  /\ BootAgain.pc = "mirror"
<1>1. /\ LastStamp \in Nat /\ LastStamp >= 2 /\ MaxVersion \in Nat /\ MaxLives \in Nat
      /\ MaxRestarts \in Nat
  BY PageAssumption
<1> QED
  BY <1>1 DEF PageRest, PageRecs, BootAgain, Boots

\* A request that moves is typed, and is alone at another step.
LEMMA PageMoves ==
  ASSUME page \in [PageClients -> PageRecs], NEW c \in PageClients, NEW r, PageMovesTo(c, r)
  PROVE  /\ page' \in [PageClients -> PageRecs] /\ page'[c] = r
         /\ \A d \in PageClients : d # c => page'[d] = page[d]
         /\ \A pc \in STRING : AtPage(pc)' = {d \in PageClients : IF d = c THEN r.pc = pc
                                                          ELSE page[d].pc = pc}
  BY DEF PageMovesTo, AtPage

\* Requests, boots, files and databases stay what they are.
LEMMA PageTypesStay ==
  ASSUME PageTypeOK, PageHolds, BootHolds, PageNext
  PROVE  PageTypeOK' /\ PageHolds' /\ BootHolds'
<1>1. /\ page \in [PageClients -> PageRecs] /\ boot \in Boots
      /\ clone \in [PageClients -> {"none", "cloning", "active"}]
      /\ chosen \in 1..2 /\ knob \in 1..2 /\ nowAt \in 1..LastStamp
      /\ dumpFiles \subseteq DumpFile
  BY DEF PageTypeOK, PageRecs, Boots
<1>2. CASE \E c \in PageClients, n \in 1..2 : SetTiers(c, n)
  <2>1. PICK c \in PageClients, n \in 1..2 : SetTiers(c, n)
    BY <1>2
  <2> QED
    BY <1>1, <2>1, PageBounds DEF SetTiers, PageDoes, Excuse, PageTypeOK, PageHolds, numberVars, baseOfVars, fileVars, awayVars, BootHolds
<1>3. CASE \E c \in PageClients : WriteKnob(c)
  BY <1>1, <1>3, PageBounds DEF WriteKnob, PageRests, PageTypeOK, PageHolds, PageRecs, baseOfVars, fileVars, awayVars, BootHolds
<1>4. CASE \E c \in PageClients : BackupBegins(c)
  <2>1. PICK c \in PageClients : BackupBegins(c)
    BY <1>4
  <2> DEFINE twin == \E d \in AtPage("dump") : page[d].n = nowAt
             mine == [pc |-> "dump", n |-> nowAt, ver |-> holds, ok |-> ~half /\ ~twin]
  <2>2. mine \in PageRecs
    <3>1. (~half /\ ~twin) \in BOOLEAN /\ nowAt \in 0..LastStamp /\ holds \in 0..MaxVersion
      BY <1>1, PageBounds DEF PageTypeOK
    <3> HIDE DEF twin
    <3> QED
      BY <3>1 DEF PageRecs
  <2>3. page' = [d \in PageClients |->
                   IF d = c THEN mine
                   ELSE IF page[d].pc = "dump" /\ page[d].n = nowAt
                        THEN [page[d] EXCEPT !.ok = FALSE] ELSE page[d]]
    BY <2>1 DEF BackupBegins
  <2>4. mine.pc = "dump" /\ mine.n = nowAt
    OBVIOUS
  <2> HIDE DEF mine, twin
  <2>5. /\ page' \in [PageClients -> PageRecs]
        /\ \A d \in PageClients : d # c => page'[d].pc = page[d].pc /\ page'[d].n = page[d].n
        /\ page'[c] = mine
    BY <1>1, <2>2, <2>3 DEF PageRecs
  <2>6. PageHolds'
    BY <1>1, <2>4, <2>5 DEF PageHolds
  <2>7. excused' \subseteq {"crossed", "twins", "restores", "warned", "cut", "midway", "retaken"}
    BY <2>1 DEF BackupBegins, PageTypeOK
  <2>8. partials' \subseteq 1..LastStamp
    BY <1>1, <2>1 DEF BackupBegins, PageTypeOK
  <2>9. UNCHANGED <<chosen, knob, life, lives, holds, half, nowAt, dumpFiles, trash, marker, clone,
                    pulled, boot, restarts>>
    BY <2>1 DEF BackupBegins, numberVars, baseOfVars, awayVars
  <2> QED
    BY <2>5, <2>6, <2>7, <2>8, <2>9 DEF PageTypeOK, PageRecs, BootHolds
<1>5. CASE \E c \in PageClients : BackupEnds(c)
  <2>1. PICK c \in PageClients : BackupEnds(c)
    BY <1>5
  <2>2. /\ page' = [page EXCEPT ![c] = PageRest] /\ partials' = partials \ {page[c].n}
        /\ UNCHANGED <<chosen, knob, life, lives, holds, half, nowAt, trash, marker, clone, pulled,
                       boot, restarts>>
    BY <2>1 DEF BackupEnds, PageRests, numberVars, baseOfVars, awayVars
  <2>3. page' \in [PageClients -> PageRecs] /\ PageHolds'
    BY <1>1, <2>2, PageBounds DEF PageHolds
  <2>4. excused' \subseteq {"crossed", "twins", "restores", "warned", "cut", "midway", "retaken"}
    BY <2>1 DEF BackupEnds, Excuse, PageTypeOK
  <2> DEFINE made == [at |-> page[c].n, life |-> life, ver |-> page[c].ver, ok |-> page[c].ok]
  <2>5. made \in DumpFile /\ made.at = page[c].n
    <3>1. page[c].n \in 1..LastStamp /\ page[c].ver \in 0..MaxVersion /\ page[c].ok \in BOOLEAN
      BY <1>1, <2>1 DEF PageHolds, BackupEnds, PageRecs
    <3>2. life \in 0..MaxLives
      BY PageBounds DEF PageTypeOK
    <3> QED
      BY <3>1, <3>2 DEF DumpFile
  <2>6. \/ dumpFiles' = {f \in dumpFiles : f.at # page[c].n} \cup {made}
        \/ dumpFiles' = dumpFiles
    BY <2>1 DEF BackupEnds
  <2>7. dumpFiles' \subseteq DumpFile /\ \A f, g \in dumpFiles' : f.at = g.at => f = g
    <3> HIDE DEF made
    <3> QED
      BY <1>1, <2>5, <2>6 DEF PageTypeOK
  <2> QED
    BY <2>2, <2>3, <2>4, <2>7 DEF PageTypeOK, PageRecs, BootHolds
<1>6. CASE \E c \in PageClients, f \in dumpFiles : RestoreBegins(c, f)
  BY <1>1, <1>6, PageBounds DEF RestoreBegins, PageDoes, Excuse, PageTypeOK, PageHolds, DumpFile, numberVars, fileVars, awayVars, BootHolds
<1>7. CASE \E c \in PageClients : RestoreEnds(c)
  <2>1. PICK c \in PageClients : RestoreEnds(c)
    BY <1>7
  <2>2. /\ page' = [page EXCEPT ![c] = PageRest] /\ holds' = page[c].ver
        /\ UNCHANGED <<chosen, knob, life, lives, nowAt, partials, dumpFiles, trash, marker, clone,
                       pulled, boot, restarts>>
    BY <2>1 DEF RestoreEnds, PageRests, numberVars, fileVars, awayVars
  <2>3. page' \in [PageClients -> PageRecs] /\ PageHolds'
    BY <1>1, <2>2, PageBounds DEF PageHolds
  <2>4. excused' \subseteq {"crossed", "twins", "restores", "warned", "cut", "midway", "retaken"}
    BY <2>1 DEF RestoreEnds, Excuse, PageTypeOK
  <2>5. half' \in BOOLEAN
    BY <2>1, Zenon DEF RestoreEnds, PageTypeOK
  <2>6. holds' \in 0..MaxVersion
    BY <1>1, <2>2 DEF PageRecs
  <2> QED
    BY <2>2, <2>3, <2>4, <2>5, <2>6 DEF PageTypeOK, PageRecs, BootHolds
<1>8. CASE \E c \in PageClients : OffboxBegins(c) \/ OffboxFetches(c) \/ OffboxLoads(c)
  <2>1. PICK c \in PageClients : OffboxBegins(c) \/ OffboxFetches(c) \/ OffboxLoads(c)
    BY <1>8
  <2>2. UNCHANGED <<chosen, knob, life, lives, holds, half, nowAt, partials, dumpFiles, trash,
                    marker, boot, restarts, excused>>
    BY <2>1 DEF OffboxBegins, OffboxFetches, OffboxLoads, numberVars, fileVars, baseOfVars
  <2>3. PICK r \in PageRecs : r.pc \in {"idle", "fetch", "load"} /\ page' = [page EXCEPT ![c] = r]
    <3>1. \A pc \in {"fetch", "load"} : [pc |-> pc, n |-> 0, ver |-> 0, ok |-> TRUE] \in PageRecs
      BY PageBounds DEF PageRecs
    <3> QED
      BY <2>1, <3>1, PageBounds DEF OffboxBegins, OffboxFetches, OffboxLoads, PageDoes, PageRests
  <2>4. page' \in [PageClients -> PageRecs] /\ PageHolds'
    BY <1>1, <2>3 DEF PageHolds
  <2>5. clone' \in [PageClients -> {"none", "cloning", "active"}]
    BY <1>1, <2>1 DEF OffboxBegins, OffboxFetches, OffboxLoads
  <2>6. pulled' \in BOOLEAN
    BY <2>1 DEF OffboxBegins, OffboxFetches, OffboxLoads, PageTypeOK
  <2> QED
    BY <2>2, <2>4, <2>5, <2>6 DEF PageTypeOK, PageRecs, BootHolds
<1>9. CASE BootSteps
  <2>1. UNCHANGED <<chosen, life, lives, holds, half, nowAt, partials, clone, pulled, page,
                    restarts, excused>>
    BY <1>9 DEF BootSteps, MirrorReads, MirrorWrites, SweepLooks, SweepAsks, SweepMoves,
                numberVars, fileVars, baseOfVars, awayVars
  <2>2. knob' \in 1..2 /\ marker' \in BOOLEAN
    BY <1>1, <1>9 DEF BootHolds, BootSteps, MirrorReads, MirrorWrites, SweepLooks, SweepAsks, SweepMoves,
                numberVars, fileVars, PageTypeOK
  <2>3. /\ dumpFiles' \subseteq dumpFiles /\ trash' \subseteq DumpFile
    BY <1>1, <1>9 DEF BootSteps, MirrorReads, MirrorWrites, SweepLooks, SweepAsks, SweepMoves,
                fileVars, PageTypeOK
  <2>4. boot' \in Boots /\ BootHolds'
    <3>1. CASE MirrorReads
      <4>1. boot' = [boot EXCEPT !.pc = "write", !.n = chosen]
        BY <3>1 DEF MirrorReads
      <4>2. chosen \in 0..2
        BY <1>1
      <4>3. boot' \in Boots
        BY <1>1, <4>1, <4>2 DEF Boots
      <4>4. boot'.n = chosen
        BY <1>1, <4>1 DEF Boots
      <4> QED
        BY <1>1, <4>3, <4>4 DEF BootHolds
    <3>2. CASE MirrorWrites
      <4>1. PICK to \in {"done", "look"} : boot' = [boot EXCEPT !.pc = to, !.n = 0]
        BY <3>2 DEF MirrorWrites
      <4>2. boot' \in Boots
        <5>1. boot' = [pc |-> to, n |-> 0, saw |-> boot.saw] /\ boot.saw \in SUBSET (1..LastStamp)
          BY <1>1, <4>1 DEF Boots
        <5>2. 0 \in 0..2 /\ to \in {"mirror", "write", "look", "ask", "move", "done"}
          OBVIOUS
        <5> QED
          BY <5>1, <5>2 DEF Boots
      <4>3. boot'.pc = to
        <5>1. \A b \in Boots : [b EXCEPT !.pc = to, !.n = 0].pc = to
          BY DEF Boots
        <5> QED
          BY <1>1, <4>1, <5>1
      <4> QED
        BY <4>1, <4>2, <4>3 DEF BootHolds
    <3>3. CASE SweepLooks
      <4>1. {f.at : f \in dumpFiles} \subseteq 1..LastStamp
        BY <1>1 DEF DumpFile
      <4> QED
        BY <1>1, <3>3, <4>1 DEF SweepLooks, Boots, BootHolds
    <3>4. CASE SweepAsks
      BY <1>1, <3>4 DEF SweepAsks, Boots, BootHolds
    <3>5. CASE SweepMoves
      BY <1>1, <3>5, PageBounds DEF SweepMoves, Boots, BootHolds
    <3> QED
      BY <1>9, <3>1, <3>2, <3>3, <3>4, <3>5 DEF BootSteps
  <2>5. PageHolds'
    BY <2>1 DEF PageHolds
  <2> QED
    BY <2>1, <2>2, <2>3, <2>4, <2>5 DEF PageTypeOK, Boots
<1>10. CASE Created \/ Dropped \/ Written \/ NowAdvances
  <2>1. UNCHANGED <<chosen, knob, partials, marker, clone, pulled, page, boot, restarts, excused>>
    BY <1>10 DEF Created, Dropped, Written, NowAdvances, numberVars, fileVars, baseOfVars, awayVars
  <2>2. /\ lives' \in 0..MaxLives /\ life' \in {0, lives'}
    BY <1>10, PageBounds DEF Created, Dropped, Written, NowAdvances, baseOfVars, PageTypeOK
  <2>3. holds' \in 0..MaxVersion /\ nowAt' \in 1..LastStamp
    BY <1>10, PageBounds DEF Created, Dropped, Written, NowAdvances, fileVars, baseOfVars, PageTypeOK
  <2>4. half' \in BOOLEAN
    BY <1>10 DEF Created, Dropped, Written, NowAdvances, baseOfVars, PageTypeOK
  <2>5. /\ dumpFiles' \subseteq dumpFiles /\ trash' \subseteq DumpFile
    BY <1>10 DEF Created, Dropped, Written, NowAdvances, fileVars, PageTypeOK
  <2>6. PageHolds'
    BY <2>1 DEF PageHolds
  <2> QED
    BY <2>1, <2>2, <2>3, <2>4, <2>5, <2>6 DEF PageTypeOK, BootHolds
<1>11. CASE PanelRestarts
  BY <1>1, <1>11, PageBounds DEF PanelRestarts, Excuse, PageTypeOK, PageHolds, PageRecs, Boots, numberVars, fileVars, baseOfVars, awayVars, BootHolds
<1> QED
  BY <1>2, <1>3, <1>4, <1>5, <1>6, <1>7, <1>8, <1>9, <1>10, <1>11 DEF PageNext, BootSteps
\* A request goes from one place to another; of the others at most dumps that
\* share its file are spoiled.
PageGoes(c, from, to) ==
    /\ page[c].pc = from /\ page'[c].pc = to
    /\ \A d \in PageClients : d # c => page'[d] = page[d]
PageOthers(c) ==
    \A d \in PageClients : d # c =>
        /\ page'[d].pc = page[d].pc /\ page'[d].n = page[d].n
        /\ page[d].pc # "dump" => page'[d] = page[d]

\* Each step of a request goes from one line to another.
LEMMA PageStepsGo ==
  ASSUME PageTypeOK, NEW c \in PageClients
  PROVE  /\ \A n \in 1..2 : SetTiers(c, n) => PageGoes(c, "idle", "knob") /\ page'[c].n = n
         /\ WriteKnob(c) => PageGoes(c, "knob", "idle")
         /\ BackupBegins(c) => /\ page[c].pc = "idle" /\ page'[c].pc = "dump" /\ PageOthers(c)
         /\ BackupEnds(c) => PageGoes(c, "dump", "idle")
         /\ \A f \in dumpFiles : RestoreBegins(c, f) => PageGoes(c, "idle", "restore") /\ page'[c].ok = f.ok
         /\ RestoreEnds(c) => PageGoes(c, "restore", "idle")
         /\ OffboxBegins(c) => PageGoes(c, "idle", "fetch")
         /\ OffboxFetches(c) => PageGoes(c, "fetch", "load") \/ PageGoes(c, "fetch", "idle")
         /\ OffboxLoads(c) => PageGoes(c, "load", "idle")
<1>1. page \in [PageClients -> PageRecs]
  BY DEF PageTypeOK, PageRecs
<1>2. PageRest.pc = "idle"
  BY DEF PageRest
<1>3. \A n \in 1..2 : SetTiers(c, n) => PageGoes(c, "idle", "knob") /\ page'[c].n = n
  BY <1>1, <1>2 DEF SetTiers, PageDoes, PageGoes
<1>4. WriteKnob(c) => PageGoes(c, "knob", "idle")
  BY <1>1, <1>2 DEF WriteKnob, PageRests, PageGoes
<1>5. BackupBegins(c) => /\ page[c].pc = "idle" /\ page'[c].pc = "dump" /\ PageOthers(c)
  BY <1>1, <1>2 DEF BackupBegins, PageOthers, PageRecs
<1>6. BackupEnds(c) => PageGoes(c, "dump", "idle")
  BY <1>1, <1>2 DEF BackupEnds, PageRests, PageGoes
<1>7. \A f \in dumpFiles : RestoreBegins(c, f) => PageGoes(c, "idle", "restore") /\ page'[c].ok = f.ok
  BY <1>1, <1>2 DEF RestoreBegins, PageDoes, PageGoes
<1>8. RestoreEnds(c) => PageGoes(c, "restore", "idle")
  BY <1>1, <1>2 DEF RestoreEnds, PageRests, PageGoes
<1>9. OffboxBegins(c) => PageGoes(c, "idle", "fetch")
  BY <1>1, <1>2 DEF OffboxBegins, PageDoes, PageGoes
<1>10. OffboxFetches(c) => PageGoes(c, "fetch", "load") \/ PageGoes(c, "fetch", "idle")
  BY <1>1, <1>2 DEF OffboxFetches, PageDoes, PageRests, PageGoes
<1>11. OffboxLoads(c) => PageGoes(c, "load", "idle")
  BY <1>1, <1>2 DEF OffboxLoads, PageRests, PageGoes
<1> QED
  BY <1>3, <1>4, <1>5, <1>6, <1>7, <1>8, <1>9, <1>10, <1>11

\* The number that is written is the one chosen last.
LEMMA NumberStays ==
  ASSUME PageTypeOK, NumberFollows, PageNext
  PROVE  NumberFollows'
<1>1. CASE \E c \in PageClients, n \in 1..2 : SetTiers(c, n)
  <2>1. PICK c \in PageClients, n \in 1..2 : SetTiers(c, n)
    BY <1>1
  <2>2. PageGoes(c, "idle", "knob") /\ page'[c].n = n
    BY <2>1, PageStepsGo
  <2>3. /\ chosen' = n /\ UNCHANGED boot
        /\ "crossed" \notin excused' => AtPage("knob") = {} /\ boot.pc # "write"
    BY <2>1 DEF SetTiers, Excuse
  <2> QED
    BY <2>2, <2>3 DEF PageGoes, NumberFollows, AtPage, Undisturbed
<1>2. CASE \E c \in PageClients : WriteKnob(c)
  <2>1. PICK c \in PageClients : WriteKnob(c)
    BY <1>2
  <2>2. PageGoes(c, "knob", "idle")
    BY <2>1, PageStepsGo
  <2>3. knob' = page[c].n /\ UNCHANGED <<chosen, boot, excused>>
    BY <2>1 DEF WriteKnob
  <2> QED
    BY <2>2, <2>3 DEF PageGoes, NumberFollows, AtPage, Undisturbed
<1>3. CASE \E c \in PageClients : BackupBegins(c)
  <2>1. PICK c \in PageClients : BackupBegins(c)
    BY <1>3
  <2>2. page[c].pc = "idle" /\ page'[c].pc = "dump" /\ PageOthers(c)
    BY <2>1, PageStepsGo
  <2>3. excused \subseteq excused' /\ UNCHANGED <<chosen, knob, boot>>
    BY <2>1 DEF BackupBegins, numberVars
  <2> QED
    BY <2>2, <2>3 DEF PageOthers, NumberFollows, AtPage, Undisturbed
<1>4. CASE \E c \in PageClients : \/ BackupEnds(c) \/ (\E f \in dumpFiles : RestoreBegins(c, f))
                                  \/ RestoreEnds(c) \/ OffboxBegins(c) \/ OffboxFetches(c)
                                  \/ OffboxLoads(c)
  <2>1. PICK c \in PageClients : \/ BackupEnds(c) \/ (\E f \in dumpFiles : RestoreBegins(c, f))
                                  \/ RestoreEnds(c) \/ OffboxBegins(c) \/ OffboxFetches(c)
                                  \/ OffboxLoads(c)
    BY <1>4
  <2>2. PICK from \in {"idle", "dump", "restore", "fetch", "load"},
             to \in {"idle", "dump", "restore", "fetch", "load"} : PageGoes(c, from, to)
    BY <2>1, PageStepsGo
  <2>3. excused \subseteq excused' /\ UNCHANGED <<chosen, knob, boot>>
    BY <2>1 DEF BackupEnds, RestoreBegins, RestoreEnds, OffboxBegins, OffboxFetches, OffboxLoads, numberVars, Excuse
  <2> QED
    BY <2>2, <2>3 DEF PageGoes, NumberFollows, AtPage, Undisturbed
<1>5. CASE BootSteps
  <2>1. UNCHANGED <<chosen, page, excused>>
    BY <1>5 DEF BootSteps, MirrorReads, MirrorWrites, SweepLooks, SweepAsks, SweepMoves, numberVars
  <2>2. CASE MirrorReads
    <3>1. boot'.pc = "write" /\ boot'.n = chosen
      BY <2>2 DEF MirrorReads, PageTypeOK
    <3> QED
      BY <2>1, <3>1 DEF NumberFollows, AtPage, Undisturbed
  <2>3. CASE MirrorWrites
    <3>1. boot.pc = "write" /\ boot'.pc # "write" /\ knob' = boot.n
      BY <2>3 DEF MirrorWrites, PageTypeOK
    <3> QED
      BY <2>1, <3>1 DEF NumberFollows, AtPage, Undisturbed
  <2>4. CASE SweepLooks \/ SweepAsks \/ SweepMoves
    <3>1. boot.pc \notin {"mirror", "write"} /\ boot'.pc \notin {"mirror", "write"} /\ UNCHANGED knob
      BY <2>4 DEF SweepLooks, SweepAsks, SweepMoves, PageTypeOK, BootAgain, numberVars
    <3> QED
      BY <2>1, <3>1 DEF NumberFollows, AtPage, Undisturbed
  <2> QED
    BY <1>5, <2>2, <2>3, <2>4 DEF BootSteps
<1>6. CASE Created \/ Dropped \/ Written \/ NowAdvances
  <2>1. UNCHANGED <<chosen, knob, page, boot, excused>>
    BY <1>6 DEF Created, Dropped, Written, NowAdvances, numberVars
  <2> QED
    BY <2>1 DEF NumberFollows, AtPage, Undisturbed
<1>7. CASE PanelRestarts
  <2>1. boot'.pc = "mirror" /\ \A c \in PageClients : page'[c].pc = "idle"
    BY <1>7 DEF PanelRestarts, BootAgain, PageRest
  <2> QED
    BY <2>1 DEF NumberFollows, AtPage
<1> QED
  BY <1>1, <1>2, <1>3, <1>4, <1>5, <1>6, <1>7 DEF PageNext, BootSteps

\* Dumps under way, on the disk or read are whole.
LEMMA DumpsStayWhole ==
  ASSUME PageTypeOK, DumpsWhole, PageNext
  PROVE  DumpsWhole'
<1>0. page \in [PageClients -> PageRecs]
  BY DEF PageTypeOK, PageRecs
<1>1. CASE \E c \in PageClients : \/ (\E n \in 1..2 : SetTiers(c, n)) \/ WriteKnob(c) \/ RestoreEnds(c)
                                  \/ OffboxBegins(c) \/ OffboxFetches(c) \/ OffboxLoads(c)
  <2>1. PICK c \in PageClients : \/ (\E n \in 1..2 : SetTiers(c, n)) \/ WriteKnob(c) \/ RestoreEnds(c)
                                  \/ OffboxBegins(c) \/ OffboxFetches(c) \/ OffboxLoads(c)
    BY <1>1
  <2>2. PICK from \in {"idle", "knob", "restore", "fetch", "load"},
             to \in {"idle", "knob", "fetch", "load"} : PageGoes(c, from, to)
    BY <2>1, PageStepsGo
  <2>3. excused \subseteq excused' /\ UNCHANGED dumpFiles
    BY <2>1 DEF SetTiers, WriteKnob, RestoreEnds, OffboxBegins, OffboxFetches, OffboxLoads, fileVars, Excuse
  <2> QED
    BY <2>2, <2>3 DEF PageGoes, DumpsWhole, AtPage, Undisturbed
<1>2. CASE \E c \in PageClients : BackupBegins(c)
  <2>1. PICK c \in PageClients : BackupBegins(c)
    BY <1>2
  <2> DEFINE twin == \E d \in AtPage("dump") : page[d].n = nowAt
  <2>2. excused \subseteq excused' /\ UNCHANGED dumpFiles
    BY <2>1 DEF BackupBegins
  <2>3. ASSUME {"twins", "midway"} \cap excused' = {}
        PROVE  /\ page'[c].ok
               /\ \A d \in PageClients : d # c => page'[d] = page[d]
    <3>1. ~twin /\ ~half
      BY <2>1, <2>3 DEF BackupBegins
    <3> QED
      BY <1>0, <2>1, <3>1 DEF BackupBegins, AtPage
  <2> HIDE DEF twin
  <2> QED
    BY <2>1, <2>2, <2>3, PageStepsGo DEF DumpsWhole, AtPage, Undisturbed
<1>3. CASE \E c \in PageClients : BackupEnds(c)
  <2>1. PICK c \in PageClients : BackupEnds(c)
    BY <1>3
  <2>2. PageGoes(c, "dump", "idle")
    BY <2>1, PageStepsGo
  <2>3. excused \subseteq excused' /\ \A f \in dumpFiles' : f \in dumpFiles \/ f.ok = page[c].ok
    BY <2>1 DEF BackupEnds, Excuse
  <2> QED
    BY <2>2, <2>3 DEF PageGoes, DumpsWhole, AtPage, Undisturbed
<1>4. CASE \E c \in PageClients, f \in dumpFiles : RestoreBegins(c, f)
  <2>1. PICK c \in PageClients, f \in dumpFiles : RestoreBegins(c, f)
    BY <1>4
  <2>2. PageGoes(c, "idle", "restore") /\ page'[c].ok = f.ok
    BY <2>1, PageStepsGo
  <2>3. excused \subseteq excused' /\ UNCHANGED dumpFiles
    BY <2>1 DEF RestoreBegins, Excuse, fileVars
  <2> QED
    BY <2>2, <2>3 DEF PageGoes, DumpsWhole, AtPage, Undisturbed
<1>5. CASE BootSteps
  <2>1. dumpFiles' \subseteq dumpFiles /\ UNCHANGED <<page, excused>>
    BY <1>5 DEF BootSteps, MirrorReads, MirrorWrites, SweepLooks, SweepAsks, SweepMoves, fileVars
  <2> QED
    BY <2>1 DEF DumpsWhole, AtPage, Undisturbed
<1>6. CASE Created \/ Dropped \/ Written \/ NowAdvances
  <2>1. dumpFiles' \subseteq dumpFiles /\ UNCHANGED <<page, excused>>
    BY <1>6 DEF Created, Dropped, Written, NowAdvances, fileVars
  <2> QED
    BY <2>1 DEF DumpsWhole, AtPage, Undisturbed
<1>7. CASE PanelRestarts
  <2>1. /\ \A c \in PageClients : page'[c].pc = "idle"
        /\ excused \subseteq excused' /\ UNCHANGED dumpFiles
    BY <1>7 DEF PanelRestarts, PageRest, Excuse, fileVars
  <2> QED
    BY <2>1 DEF DumpsWhole, AtPage, Undisturbed
<1> QED
  BY <1>1, <1>2, <1>3, <1>4, <1>5, <1>6, <1>7 DEF PageNext, BootSteps

\* The sweep moves nothing of the database that lives.
LEMMA SweepsStayBehind ==
  ASSUME PageTypeOK, SweepsBehind, PageNext
  PROVE  SweepsBehind'
<1>0. /\ lives \in Nat /\ life \in {0, lives}
      /\ \A f \in dumpFiles \cup trash : f.life \in Nat
  BY PageBounds DEF PageTypeOK, DumpFile
<1>1. CASE \E c \in PageClients : BackupEnds(c)
  <2>1. PICK c \in PageClients : BackupEnds(c)
    BY <1>1
  <2> DEFINE made == [at |-> page[c].n, life |-> life, ver |-> page[c].ver, ok |-> page[c].ok]
  <2>2. UNCHANGED <<life, lives, trash, boot>> /\ excused \subseteq excused'
    BY <2>1 DEF BackupEnds, baseOfVars, Excuse
  <2>3. \/ UNCHANGED dumpFiles
        \/ /\ dumpFiles' = {f \in dumpFiles : f.at # page[c].n} \cup {made}
           /\ "retaken" \in excused' \/ ~(boot.pc = "move" /\ made.at \in boot.saw)
    BY <2>1 DEF BackupEnds, Excuse
  <2>4. made.life = life
    OBVIOUS
  <2> HIDE DEF made
  <2> QED
    BY <1>0, <2>2, <2>3, <2>4 DEF SweepsBehind, Undisturbed
<1>2. CASE \E c \in PageClients : \/ (\E n \in 1..2 : SetTiers(c, n)) \/ WriteKnob(c)
                                  \/ BackupBegins(c) \/ (\E f \in dumpFiles : RestoreBegins(c, f))
                                  \/ RestoreEnds(c)
                                  \/ OffboxBegins(c) \/ OffboxFetches(c) \/ OffboxLoads(c)
  <2>1. UNCHANGED <<life, lives, dumpFiles, trash, boot>> /\ excused \subseteq excused'
    BY <1>2 DEF SetTiers, WriteKnob, BackupBegins, RestoreBegins, RestoreEnds, OffboxBegins,
                OffboxFetches, OffboxLoads, baseOfVars, fileVars, Excuse
  <2> QED
    BY <2>1 DEF SweepsBehind, Undisturbed
<1>3. CASE MirrorReads \/ MirrorWrites \/ SweepLooks
  <2>1. UNCHANGED <<life, lives, dumpFiles, trash, excused>> /\ boot'.pc # "move"
    BY <1>3 DEF MirrorReads, MirrorWrites, SweepLooks, baseOfVars, fileVars, PageTypeOK
  <2> QED
    BY <2>1 DEF SweepsBehind, Undisturbed
<1>4. CASE SweepAsks
  <2>1. UNCHANGED <<life, lives, dumpFiles, trash, excused>> /\ (life # 0 => boot'.saw = {})
    BY <1>4 DEF SweepAsks, baseOfVars, fileVars, PageTypeOK
  <2> QED
    BY <2>1 DEF SweepsBehind, Undisturbed
<1>5. CASE SweepMoves
  <2> DEFINE seen == {f \in dumpFiles : f.at \in boot.saw}
  <2>1. /\ boot.pc = "move" /\ boot'.pc # "move" /\ UNCHANGED <<life, lives, excused>>
        /\ dumpFiles' = dumpFiles \ seen /\ trash' = trash \cup seen
    BY <1>5 DEF SweepMoves, baseOfVars, BootAgain
  <2> QED
    BY <2>1 DEF SweepsBehind, Undisturbed
<1>6. CASE Created
  <2>1. /\ life' = lives + 1 /\ lives' = lives + 1
        /\ UNCHANGED <<dumpFiles, trash, boot, excused>>
    BY <1>6 DEF Created, fileVars
  <2> QED
    BY <1>0, <2>1 DEF SweepsBehind, Undisturbed
<1>7. CASE Dropped
  <2>1. /\ life' = 0 /\ dumpFiles' = {} /\ trash' = trash \cup dumpFiles /\ UNCHANGED lives
    BY <1>7 DEF Dropped
  <2> QED
    BY <2>1 DEF SweepsBehind
<1>8. CASE Written \/ NowAdvances
  <2>1. UNCHANGED <<life, lives, dumpFiles, trash, boot, excused>>
    BY <1>8 DEF Written, NowAdvances, baseOfVars, fileVars
  <2> QED
    BY <2>1 DEF SweepsBehind, Undisturbed
<1>9. CASE PanelRestarts
  <2>1. UNCHANGED <<life, lives, dumpFiles, trash>> /\ boot'.pc # "move" /\ excused \subseteq excused'
    BY <1>9 DEF PanelRestarts, baseOfVars, fileVars, BootAgain, Excuse
  <2> QED
    BY <2>1 DEF SweepsBehind, Undisturbed
<1> QED
  BY <1>1, <1>2, <1>3, <1>4, <1>5, <1>6, <1>7, <1>8, <1>9 DEF PageNext

\* A restore and a clone end whole, or say that they did not.
LEMMA RestoresEnd ==
  ASSUME PageTypeOK, DumpsWhole, RestoredWhole, CloneEnds, PageNext
  PROVE  RestoredWhole' /\ CloneEnds'
<1>0. clone \in [PageClients -> {"none", "cloning", "active"}]
  BY DEF PageTypeOK
<1>1. CASE \E c \in PageClients : (\E n \in 1..2 : SetTiers(c, n)) \/ WriteKnob(c) \/ BackupEnds(c)
  <2>1. PICK c \in PageClients : (\E n \in 1..2 : SetTiers(c, n)) \/ WriteKnob(c) \/ BackupEnds(c)
    BY <1>1
  <2>2. PICK from \in {"idle", "knob", "dump"}, to \in {"idle", "knob"} : PageGoes(c, from, to)
    BY <2>1, PageStepsGo
  <2>3. excused \subseteq excused' /\ UNCHANGED <<half, clone>>
    BY <2>1 DEF SetTiers, WriteKnob, BackupEnds, Excuse, baseOfVars, awayVars
  <2> QED
    BY <2>2, <2>3 DEF PageGoes, RestoredWhole, CloneEnds, AtPage
<1>2. CASE \E c \in PageClients : BackupBegins(c)
  <2>1. PICK c \in PageClients : BackupBegins(c)
    BY <1>2
  <2>2. page[c].pc = "idle" /\ page'[c].pc = "dump" /\ PageOthers(c)
    BY <2>1, PageStepsGo
  <2>3. excused \subseteq excused' /\ UNCHANGED <<half, clone>>
    BY <2>1 DEF BackupBegins, baseOfVars, awayVars
  <2> QED
    BY <2>2, <2>3 DEF PageOthers, RestoredWhole, CloneEnds, AtPage
<1>3. CASE \E c \in PageClients, f \in dumpFiles : RestoreBegins(c, f)
  <2>1. PICK c \in PageClients, f \in dumpFiles : RestoreBegins(c, f)
    BY <1>3
  <2>2. PageGoes(c, "idle", "restore")
    BY <2>1, PageStepsGo
  <2>3. excused \subseteq excused' /\ UNCHANGED clone
    BY <2>1 DEF RestoreBegins, Excuse, awayVars
  <2> QED
    BY <2>2, <2>3 DEF PageGoes, RestoredWhole, CloneEnds, AtPage
<1>4. CASE \E c \in PageClients : RestoreEnds(c)
  <2>1. PICK c \in PageClients : RestoreEnds(c)
    BY <1>4
  <2>2. PageGoes(c, "restore", "idle")
    BY <2>1, PageStepsGo
  <2>3. excused \subseteq excused' /\ UNCHANGED clone
    BY <2>1 DEF RestoreEnds, Excuse, awayVars
  <2>4. ASSUME {"restores", "warned", "cut", "twins", "midway"} \cap excused' = {} PROVE ~half'
    <3>1. page[c].ok
      BY <2>2, <2>3, <2>4 DEF PageGoes, DumpsWhole, AtPage, Undisturbed
    <3>2. "warned" \notin excused' /\ "restores" \notin excused
      BY <2>3, <2>4
    <3> QED
      BY <2>1, <3>1, <3>2 DEF RestoreEnds, Excuse
  <2> QED
    BY <2>2, <2>3, <2>4 DEF PageGoes, RestoredWhole, CloneEnds
<1>5. CASE \E c \in PageClients : OffboxBegins(c) \/ OffboxFetches(c) \/ OffboxLoads(c)
  <2>1. PICK c \in PageClients : OffboxBegins(c) \/ OffboxFetches(c) \/ OffboxLoads(c)
    BY <1>5
  <2>2. PICK from \in {"idle", "fetch", "load"}, to \in {"idle", "fetch", "load"} : PageGoes(c, from, to)
    BY <2>1, PageStepsGo
  <2>3. UNCHANGED <<half, excused>>
    BY <2>1 DEF OffboxBegins, OffboxFetches, OffboxLoads, baseOfVars
  <2>4. /\ \A d \in PageClients : d # c => clone'[d] = clone[d]
        /\ clone'[c] = "cloning" => page'[c].pc \in {"fetch", "load"}
    <3>1. CASE OffboxBegins(c)
      BY <1>0, <3>1, PageStepsGo DEF OffboxBegins, PageGoes
    <3>2. CASE OffboxFetches(c)
      <4>1. CASE PageDoes(c, "load", 0, 0, TRUE) /\ UNCHANGED clone
        BY <4>1 DEF PageDoes, PageTypeOK
      <4>2. CASE clone' = [clone EXCEPT ![c] = "none"]
        BY <1>0, <4>2
      <4> QED
        BY <3>2, <4>1, <4>2 DEF OffboxFetches
    <3>3. CASE OffboxLoads(c)
      <4>1. PICK end \in {"active", "none"} : clone' = [clone EXCEPT ![c] = end]
        BY <3>3 DEF OffboxLoads
      <4> QED
        BY <1>0, <4>1
    <3> QED
      BY <2>1, <3>1, <3>2, <3>3
  <2> QED
    BY <2>2, <2>3, <2>4 DEF PageGoes, RestoredWhole, CloneEnds, AtPage
<1>6. CASE BootSteps
  <2>1. UNCHANGED <<half, clone, page, excused>>
    BY <1>6 DEF BootSteps, MirrorReads, MirrorWrites, SweepLooks, SweepAsks, SweepMoves,
                baseOfVars, awayVars
  <2> QED
    BY <2>1 DEF RestoredWhole, CloneEnds, AtPage
<1>7. CASE Created \/ Dropped \/ Written \/ NowAdvances
  <2>1. UNCHANGED <<clone, page, excused>> /\ (half' = half \/ half' = FALSE)
    BY <1>7 DEF Created, Dropped, Written, NowAdvances, baseOfVars, awayVars
  <2> QED
    BY <2>1 DEF RestoredWhole, CloneEnds, AtPage
<1>8. CASE PanelRestarts
  <2>1. /\ UNCHANGED <<half, clone>> /\ excused \subseteq excused'
        /\ "cut" \notin excused' => AtPage("restore") \cup AtPage("fetch") \cup AtPage("load") = {}
    BY <1>8 DEF PanelRestarts, Excuse, baseOfVars, awayVars
  <2> QED
    BY <2>1 DEF RestoredWhole, CloneEnds, AtPage
<1> QED
  BY <1>1, <1>2, <1>3, <1>4, <1>5, <1>6, <1>7, <1>8 DEF PageNext, BootSteps

\* Every state keeps the invariant.
LEMMA PageAlways == PageSpec => []PageInv
<1>1. PageInit => PageInv
  <2> SUFFICES ASSUME PageInit PROVE PageInv
    OBVIOUS
  <2>1. /\ chosen = 1 /\ knob \in 1..2 /\ life = 0 /\ lives = 0 /\ holds = 0 /\ half = FALSE
        /\ nowAt = 2 /\ partials = {} /\ trash = {} /\ marker = FALSE
        /\ page = [c \in PageClients |-> PageRest] /\ boot = BootAgain /\ restarts = 0
        /\ clone = [c \in PageClients |-> "none"] /\ pulled = FALSE /\ excused = {}
    BY DEF PageInit
  <2>2. dumpFiles = {[at |-> 1, life |-> 0, ver |-> 0, ok |-> TRUE]}
    BY DEF PageInit
  <2>3. [at |-> 1, life |-> 0, ver |-> 0, ok |-> TRUE] \in DumpFile
    BY PageBounds DEF DumpFile
  <2>4. half \in BOOLEAN /\ marker \in BOOLEAN /\ pulled \in BOOLEAN
    BY <2>1
  <2>5. dumpFiles \subseteq DumpFile /\ \A f, g \in dumpFiles : f.at = g.at => f = g
    BY <2>2, <2>3
  <2>6. page \in [PageClients -> PageRecs] /\ \A c \in PageClients : page[c].pc = "idle"
    BY <2>1, PageBounds
  <2>7. boot \in Boots /\ boot.pc = "mirror"
    BY <2>1, PageBounds
  <2>8. PageTypeOK
    BY <2>1, <2>4, <2>5, <2>6, <2>7, PageBounds DEF PageTypeOK, PageRecs, Boots
  <2>9. PageHolds /\ NumberFollows /\ RestoredWhole /\ CloneEnds
    BY <2>1, <2>6, <2>7 DEF PageHolds, NumberFollows, RestoredWhole, CloneEnds, AtPage
  <2>10. DumpsWhole /\ SweepsBehind
    BY <2>1, <2>2, <2>6 DEF DumpsWhole, SweepsBehind, AtPage
  <2> QED
    BY <2>7, <2>8, <2>9, <2>10 DEF PageInv, BootHolds
<1>2. PageInv /\ [PageNext]_pageVars => PageInv'
  <2>1. ASSUME PageInv, PageNext PROVE PageInv'
    BY <2>1, PageTypesStay, NumberStays, DumpsStayWhole, SweepsStayBehind, RestoresEnd DEF PageInv
  <2>2. ASSUME PageInv, UNCHANGED pageVars PROVE PageInv'
    <3>1. UNCHANGED <<chosen, knob, life, lives, holds, half, nowAt, partials, dumpFiles, trash,
                      marker, clone, pulled, page, boot, restarts, excused>>
      BY <2>2 DEF pageVars, numberVars, baseOfVars, fileVars, awayVars
    <3>2. PageHolds' /\ BootHolds'
      BY <2>2, <3>1 DEF PageInv, PageHolds, BootHolds
    <3>3. PageTypeOK'
      BY <2>2, <3>1 DEF PageInv, PageTypeOK
    <3> QED
      BY <2>2, <3>1, <3>2, <3>3 DEF PageInv, NumberFollows, DumpsWhole, SweepsBehind, RestoredWhole,
                              CloneEnds, AtPage, Undisturbed
  <2> QED
    BY <2>1, <2>2
<1> QED
  BY <1>1, <1>2, PTL DEF PageSpec

\* After any changes, dumps, restores, deletions and restarts: the number backup.sh
\* reads is the one on the page, a file with a dump's name is whole, a restore
\* leaves a whole database, the sweep takes no dump of the database that lives,
\* and a project made from the remote is not cloning for ever, each with the
\* exceptions it names; for any number of requests, lives, contents and restarts
\* (admin.go, infra.go, offbox.go).
THEOREM PageAlwaysHolds == PageSpec => []BackupsPageHolds
<1>3. PageInv => BackupsPageHolds
  BY DEF PageInv, NumberFollows, DumpsWhole, SweepsBehind, Undisturbed, BackupsPageHolds,
         NumberRules, DumpsByHandWhole, SweptOnlyOrphans
<1> QED
  BY <1>3, PageAlways, PTL

-----------------------------------------------------------------------------
(* The types, which the invariants above hold or imply.                    *)

LEMMA CronTypes == CronSpec => []CronTypeOK
<1>1. ASSUME CronInv PROVE CronTypeOK
  <2>1. pass.at \in Minutes \cup {-1} /\ pass.jobs \subseteq CronFunctions \X Schedules
    BY <1>1 DEF CronInv
  <2> QED
    BY <1>1, <2>1 DEF CronInv, CronTypeOK
<1> QED
  BY <1>1, CronBegins, CronStep, PTL DEF CronSpec

LEMMA ListTypes == ListSpec => []ListTypeOK
<1>1. ListInv => ListTypeOK
  BY DEF ListInv, ListTypeOK
<1> QED
  BY <1>1, ListAlways, PTL

LEMMA MemoryTypes == MemSpec => []MemTypeOK
<1>1. ASSUME MemInv PROVE MemTypeOK
  <2>1. hourly \in {Resting} \cup [pc : {"stats", "update", "row"}, of : Sizes, next : 0..2*Top]
    BY <1>1 DEF MemInv, MemTypes, HourlyTypes
  <2>2. starved \in BOOLEAN
    BY <1>1 DEF MemInv, MemTypes
  <2> QED
    BY <1>1, <2>1, <2>2 DEF MemInv, MemTypes, MemTypeOK
<1> QED
  BY <1>1, MemBegins, MemStep, PTL DEF MemSpec

LEMMA ReportTypes == ReportsSpec => []ReportsTypeOK
<1>1. ReportsInv => ReportsTypeOK
  BY DEF ReportsInv
<1> QED
  BY <1>1, ReportsAlways, PTL

LEMMA DumpsTypes == DumpsSpec => []DumpsTypeOK
<1>1. DumpsInv => DumpsTypeOK
  BY DEF DumpsInv
<1> QED
  BY <1>1, DumpsAlways, PTL

LEMMA PageTypes == PageSpec => []PageTypeOK
<1>1. PageInv => PageTypeOK
  BY DEF PageInv
<1> QED
  BY <1>1, PageAlways, PTL

\* What the proofs above need no type of: the quota, the rules, the deletion.
GateRest ==
    /\ quota \in {0, Quota} /\ remover \in {"none", "rows", "bucket"}
    /\ slipped \subseteq {"together", "crossed", "lifted"}
    /\ rules \subseteq [id : 1..MaxRules, prefix : {{p} : p \in ObjectPaths} \cup {AnyPath},
                        access : Accesses]

LEMMA GateRestKept ==
  ASSUME GateRest, [GateNext]_gateVars
  PROVE  GateRest'
<1>1. ASSUME NEW c \in Writers, NEW p \in ObjectPaths, NEW n, LetIn(c, p, n) PROVE GateRest'
  BY <1>1 DEF LetIn, GateRest
<1>2. ASSUME NEW prefix \in {{p} : p \in ObjectPaths} \cup {AnyPath}, NEW access \in Accesses,
             storageRuleAdd(prefix, access)
      PROVE  GateRest'
  <2>1. PICK id \in 1..MaxRules :
          rules' = rules \cup {[id |-> id, prefix |-> prefix, access |-> access]}
    BY <1>2 DEF storageRuleAdd
  <2> QED
    BY <1>2, <2>1 DEF storageRuleAdd, GateRest
<1>3. CASE (\E max \in MaxSizes : createBucket(max)) \/ RemoveFiles \/ RemoveRows \/ RemoveBucket
           \/ RemoverCut \/ setStorageQuota \/ storageRuleDelete
           \/ (\E p \in ObjectPaths : ObjectDeleted(p))
  BY <1>3 DEF GateRest, createBucket, RemoveFiles, RemoveRows, RemoveBucket, RemoverCut,
     setStorageQuota, storageRuleDelete, ObjectDeleted
<1>4. ASSUME NEW c \in Writers, UploadLands(c) \/ UploadGone(c) PROVE GateRest'
  BY <1>4 DEF UploadLands, UploadGone, GateRest
<1>5. CASE UNCHANGED gateVars
  BY <1>5 DEF gateVars, GateRest
<1>6. ASSUME NEW access \in Accesses, storageRuleAdd(AnyPath, access) PROVE GateRest'
  BY <1>2, <1>6
<1>7. ASSUME NEW p \in ObjectPaths, NEW access \in Accesses, storageRuleAdd({p}, access) PROVE GateRest'
  BY <1>2, <1>7
<1>8. ASSUME NEW c \in Writers, NEW p \in ObjectPaths, NEW n \in Bodies,
             \/ UploadLetIn(c, p, n, "service_role", p)
             \/ \E q \in ObjectPaths : UploadLetIn(c, p, n, "authenticated", OwnerOf[q])
             \/ S3LetIn(c, p, n)
      PROVE  GateRest'
  <2>1. \E k : LetIn(c, p, k)
    BY <1>8 DEF UploadLetIn, S3LetIn
  <2> QED
    BY <1>1, <2>1
<1> QED
  BY <1>3, <1>4, <1>5, <1>6, <1>7, <1>8 DEF GateNext

LEMMA GatesTypes == GateSpec => []GateTypeOK
<1>1. GateInit => GateRest
  BY DEF GateInit, GateRest
<1>2. ASSUME GateInv, GateRest PROVE GateTypeOK
  <2>1. /\ bucket \in [there : BOOLEAN, max : MaxSizes \cup {0}] /\ sizes \in [ObjectPaths -> 0..Biggest]
        /\ writers \in [Writers -> Upload \cup {NotWriting}]
    BY <1>2 DEF GateInv, GateTypes
  <2>2. \A c \in Writers : writers[c].size \in 0..Biggest
    BY <2>1, BiggestBody DEF Upload, NotWriting
  <2>3. 0..Biggest = {0} \cup 1..Biggest
    BY BiggestBody
  <2>4. bucket.there \in BOOLEAN /\ bucket.max \in MaxSizes \cup {0}
    BY <2>1
  <2> QED
    BY <1>2, <2>1, <2>2, <2>3, <2>4 DEF GateRest, GateTypeOK
<1> QED
  BY <1>1, <1>2, GateBegins, GateStep, GateRestKept, PTL DEF GateSpec

\* A request has a file from the time it creates it; of files there is one more
\* than requests can have, beside the cached one.
EncoderRecs == [pc : {"idle", "stat", "create", "encode", "rename", "send"},
                f : {0} \cup Inodes, out : Held]
RenditionTyped ==
    /\ image \in [of : 1..MaxReplaced + 1, w : Nat \ {0}, h : Nat \ {0}] /\ box \in Boxes
    /\ names \in [{"cached", "part"} -> {0} \cup Inodes] /\ files \in [Inodes -> Held]
    /\ encoders \in [Encoders -> EncoderRecs]
    /\ \A c \in Encoders : encoders[c].pc \in {"encode", "rename"} => encoders[c].f \in Inodes

LEMMA SomeFileIsFree ==
  ASSUME RenditionTyped, names["part"] = 0
  PROVE  (CHOOSE g \in Free : \A h \in Free : g <= h) \in Inodes
<1> DEFINE Used == {encoders[c].f : c \in Encoders}
<1>1. IsFiniteSet(Encoders) /\ Cardinality(Encoders) \in Nat
  BY RenditionAssumption, FS_CardinalityType
<1>2. Inodes \subseteq Nat \ {0} /\ IsFiniteSet(Inodes) /\ Cardinality(Inodes) = Cardinality(Encoders) + 2
  <2>1. PICK n \in Nat : n = Cardinality(Encoders)
    BY <1>1
  <2>2. IsFiniteSet(1..n + 2) /\ Cardinality(1..n + 2) = n + 2
    BY FS_Interval
  <2> QED
    BY <2>1, <2>2 DEF Inodes
<1>3. IsFiniteSet(Used) /\ Cardinality(Used) <= Cardinality(Encoders) /\ Cardinality(Used) \in Nat
  <2>1. [c \in Encoders |-> encoders[c].f] \in Surjection(Encoders, Used)
    BY DEF Surjection
  <2>2. IsFiniteSet(Used) /\ Cardinality(Used) <= Cardinality(Encoders)
    BY <1>1, <2>1, FS_Surjection
  <2> QED
    BY <2>2, FS_CardinalityType
<1>4. /\ IsFiniteSet(Used \cup {names["cached"]})
      /\ Cardinality(Used \cup {names["cached"]}) <= Cardinality(Encoders) + 1
      /\ Cardinality(Used \cup {names["cached"]}) \in Nat
  <2>1. /\ IsFiniteSet(Used \cup {names["cached"]})
        /\ Cardinality(Used \cup {names["cached"]})
             = IF names["cached"] \in Used THEN Cardinality(Used) ELSE Cardinality(Used) + 1
    BY <1>3, FS_AddElement
  <2> QED
    BY <1>1, <1>3, <2>1
<1>5. ~(Inodes \subseteq Used \cup {names["cached"]})
  <2> SUFFICES ASSUME Inodes \subseteq Used \cup {names["cached"]} PROVE FALSE
    OBVIOUS
  <2>1. Cardinality(Inodes) <= Cardinality(Used \cup {names["cached"]})
    BY <1>4, FS_Subset
  <2> QED
    BY <1>1, <1>2, <1>4, <2>1
<1>6. PICK x \in Inodes : x \notin Used /\ x # names["cached"]
  BY <1>5
<1>7. x # names["part"]
  BY <1>2, <1>6
<1>8. Free \subseteq Inodes /\ x \in Free
  BY <1>6, <1>7 DEF Free, RenditionTyped
<1>9. \E g \in Free : \A h \in Free : g <= h
  BY <1>2, <1>8, LeastNatural
<1> QED
  BY <1>8, <1>9

LEMMA RenditionTypedStep ==
  ASSUME RenditionTyped, [RenditionNext]_renditionVars
  PROVE  RenditionTyped'
<1>0. /\ image \in [of : 1..MaxReplaced + 1, w : Nat \ {0}, h : Nat \ {0}] /\ box \in Boxes
      /\ names \in [{"cached", "part"} -> {0} \cup Inodes] /\ files \in [Inodes -> Held]
      /\ encoders \in [Encoders -> EncoderRecs]
      /\ \A c \in Encoders : encoders[c].pc \in {"encode", "rename"} => encoders[c].f \in Inodes
      /\ MaxReplaced \in Nat /\ box \in [w : Nat, h : Nat]
  BY RenditionAssumption DEF RenditionTyped
<1>b. Blank \in Held /\ NoEncoder \in EncoderRecs /\ NoEncoder.pc = "idle"
  <2>1. Blank \in Held
    BY <1>0 DEF Blank, Held
  <2> QED
    BY <2>1 DEF NoEncoder, EncoderRecs
<1>1. ASSUME NEW c \in Encoders, FindsCached(c) PROVE RenditionTyped'
  BY <1>0, <1>1 DEF FindsCached, RenditionTyped
<1>2. ASSUME NEW c \in Encoders, Decodes(c) PROVE RenditionTyped'
  <2>1. PICK t \in fitBox(image, box) :
          encoders' = [encoders EXCEPT ![c] =
             [pc |-> "create", f |-> 0, out |-> [of |-> image.of, whole |-> TRUE, w |-> t.w, h |-> t.h]]]
    BY <1>2 DEF Decodes
  <2>2. t.w \in Nat /\ t.h \in Nat
    <3>1. [w |-> image.w, h |-> image.h] \in [w : Nat \ {0}, h : Nat \ {0}]
      BY <1>0
    <3>2. fitBox(image, box) = fitBox([w |-> image.w, h |-> image.h], box)
      BY DEF fitBox, Scale
    <3>3. t.w \in 1..image.w /\ t.h \in 1..image.h
      BY <1>0, <2>1, <3>1, <3>2, FitBoxFits
    <3> QED
      BY <1>0, <3>3
  <2>3. [of |-> image.of, whole |-> TRUE, w |-> t.w, h |-> t.h] \in Held
    BY <1>0, <2>2 DEF Held
  <2>4. PICK e \in EncoderRecs : e.pc = "create" /\ encoders' = [encoders EXCEPT ![c] = e]
    BY <2>1, <2>3 DEF EncoderRecs
  <2>5. UNCHANGED <<image, box, names, files>>
    BY <1>2 DEF Decodes
  <2> QED
    BY <1>0, <2>4, <2>5 DEF RenditionTyped
<1>3. ASSUME NEW c \in Encoders, CreatePart(c) PROVE RenditionTyped'
  <2> DEFINE f == IF names["part"] # 0 THEN names["part"] ELSE CHOOSE g \in Free : \A h \in Free : g <= h
  <2>1. /\ names' = [names EXCEPT !["part"] = f] /\ files' = [files EXCEPT ![f] = Blank]
        /\ encoders' = [encoders EXCEPT ![c].pc = "encode", ![c].f = f]
        /\ UNCHANGED <<image, box>>
    BY <1>3 DEF CreatePart
  <2>2. f \in Inodes
    BY <1>0, SomeFileIsFree
  <2> HIDE DEF f
  <2>3. names' \in [{"cached", "part"} -> {0} \cup Inodes] /\ files' \in [Inodes -> Held]
    BY <1>0, <1>b, <2>1, <2>2
  <2>4. PICK e \in EncoderRecs : e.f \in Inodes /\ encoders' = [encoders EXCEPT ![c] = e]
    <3> DEFINE e == [encoders[c] EXCEPT !.pc = "encode", !.f = f]
    <3>1. e \in EncoderRecs /\ e.f = f
      BY <1>0, <2>2 DEF EncoderRecs
    <3>2. encoders' = [encoders EXCEPT ![c] = e]
      BY <1>0, <2>1
    <3> QED
      BY <2>2, <3>1, <3>2
  <2>5. UNCHANGED <<image, box>>
    BY <2>1
  <2> QED
    BY <1>0, <2>3, <2>4, <2>5 DEF RenditionTyped
<1>4. ASSUME NEW c \in Encoders, Encode(c) PROVE RenditionTyped'
  <2>0. encoders[c].f \in Inodes /\ encoders[c].out \in Held /\ encoders[c] \in EncoderRecs
        /\ UNCHANGED <<image, box>>
    BY <1>0, <1>4 DEF Encode, AtPoint, EncoderRecs
  <2>1. CASE /\ files' = [files EXCEPT ![encoders[c].f] =
                             IF \E d \in Encoders \ {c} : encoders[d].f = encoders[c].f
                             THEN [encoders[c].out EXCEPT !.whole = FALSE] ELSE encoders[c].out]
             /\ encoders' = [encoders EXCEPT ![c].pc = "rename"] /\ UNCHANGED names
    <3>1. [encoders[c].out EXCEPT !.whole = FALSE] \in Held
      BY <2>0 DEF Held
    <3>2. PICK x \in Held : files' = [files EXCEPT ![encoders[c].f] = x]
      BY <2>0, <2>1, <3>1
    <3>3. PICK e \in EncoderRecs : e.f \in Inodes /\ encoders' = [encoders EXCEPT ![c] = e]
      BY <1>0, <2>0, <2>1 DEF EncoderRecs
    <3> QED
      BY <1>0, <2>0, <2>1, <3>2, <3>3 DEF RenditionTyped
  <2>2. CASE /\ names' = [names EXCEPT !["part"] = 0] /\ Leaves(c) /\ UNCHANGED files
    BY <1>0, <1>b, <2>0, <2>2 DEF Leaves, RenditionTyped
  <2> QED
    BY <1>4, <2>1, <2>2 DEF Encode
<1>5. ASSUME NEW c \in Encoders, Rename(c) PROVE RenditionTyped'
  <2>1. names' \in [{"cached", "part"} -> {0} \cup Inodes]
    BY <1>0, <1>5 DEF Rename
  <2> QED
    BY <1>0, <1>b, <1>5, <2>1 DEF Rename, Leaves, RenditionTyped
<1>6. CASE ImageReplaced
  <2>1. PICK i \in Images : image' = [of |-> image.of + 1, w |-> i.w, h |-> i.h]
    BY <1>6 DEF ImageReplaced
  <2>2. image.of + 1 \in 1..MaxReplaced + 1 /\ i.w \in Nat \ {0} /\ i.h \in Nat \ {0}
    BY <1>0, <1>6, RenditionAssumption DEF ImageReplaced
  <2> QED
    BY <1>0, <1>6, <2>1, <2>2 DEF ImageReplaced, RenditionTyped
<1>7. CASE EncodersStop
  BY <1>0, <1>b, <1>7 DEF EncodersStop, RenditionTyped
<1>8. CASE UNCHANGED renditionVars
  BY <1>0, <1>8 DEF renditionVars, RenditionTyped
<1> QED
  BY <1>1, <1>2, <1>3, <1>4, <1>5, <1>6, <1>7, <1>8 DEF RenditionNext

LEMMA RenditionsTypes == RenditionSpec => []RenditionTypeOK
<1>1. ASSUME RenditionInit PROVE RenditionTyped
  <2>1. MaxReplaced \in Nat /\ Blank \in Held /\ NoEncoder \in EncoderRecs /\ NoEncoder.pc = "idle"
    BY RenditionAssumption DEF Blank, Held, NoEncoder, EncoderRecs
  <2>2. image \in [of : 1..MaxReplaced + 1, w : Nat \ {0}, h : Nat \ {0}] /\ box \in Boxes
    BY <1>1, <2>1, RenditionAssumption DEF RenditionInit
  <2> QED
    BY <1>1, <2>1, <2>2 DEF RenditionInit, RenditionTyped
<1>2. RenditionTyped /\ RenditionInv => RenditionTypeOK
  BY DEF RenditionTyped, RenditionInv, RenditionTypeOK, EncoderRecs
<1> QED
  BY <1>1, <1>2, RenditionTypedStep, RenditionBegins, RenditionStep, PTL DEF RenditionSpec

\* A day is counted in segments, and no name is of a later day than the last.
NightlyRecs == [pc : {"idle", "retain", "cut", "base", "basing", "retain2", "cut2"},
                day : 0..(LastSegment \div DayLength), keep : 1..KeepBase]
HygieneRecs == [pc : {"idle", "compact", "compacting", "keep", "anchor", "trim"}, name : Names]
BasesBounded ==
    /\ segment \in 0..LastSegment /\ wal \subseteq 0..(LastSegment - 1) /\ bases \subseteq Dirs
    /\ nightly \in NightlyRecs /\ hygiene \in HygieneRecs
    /\ stamp \in 0..LastSegment /\ trimmed \in 0..LastSegment

LEMMA DaysAreCounted ==
  ASSUME NEW n \in 0..LastSegment
  PROVE  /\ n \div DayLength \in 0..(LastSegment \div DayLength)
         /\ (n % DayLength) + 1 \in 0..DayLength
<1>1. PICK d \in Nat \ {0}, last \in Nat : d = DayLength /\ last = LastSegment /\ n \in Nat /\ n <= last
  BY BaseAssumption
<1>2. PICK q \in Nat, r \in 0..d - 1 : q = n \div d /\ r = n % d /\ n = d * q + r
  BY <1>1
<1>3. PICK p \in Nat, s \in 0..d - 1 : p = last \div d /\ last = d * p + s
  BY <1>1
<1>4. ~(q > p)
  <2> SUFFICES ASSUME q > p PROVE FALSE
    OBVIOUS
  <2>1. d * q >= d * (p + 1)
    BY <1>1, <1>2, <1>3
  <2>2. d * (p + 1) = d * p + d
    BY <1>1, <1>3
  <2> QED
    BY <1>1, <1>2, <1>3, <2>1, <2>2
<1> QED
  BY <1>1, <1>2, <1>3, <1>4

LEMMA BasesBoundedKept ==
  ASSUME BasesBounded, [BasesNext]_baseVars
  PROVE  BasesBounded'
<1>0. /\ segment \in 0..LastSegment /\ wal \subseteq 0..(LastSegment - 1) /\ bases \subseteq Dirs
      /\ nightly \in NightlyRecs /\ hygiene \in HygieneRecs
      /\ stamp \in 0..LastSegment /\ trimmed \in 0..LastSegment
      /\ LastSegment \in Nat /\ DayLength \in Nat \ {0} /\ KeepBase \in Nat \ {0}
      /\ LastSegment \div DayLength \in Nat
  BY BaseAssumption DEF BasesBounded
<1>r. NotTonight \in NightlyRecs /\ NotNow \in HygieneRecs
  BY <1>0 DEF NotTonight, NotNow, NoName, Names, NightlyRecs, HygieneRecs
<1>n. ASSUME NEW pc \in {"idle", "retain", "cut", "base", "basing", "retain2", "cut2"}, NightlyTo(pc)
      PROVE  nightly' \in NightlyRecs
  BY <1>0, <1>n DEF NightlyTo, NightlyRecs
<1>h. ASSUME NEW pc \in {"idle", "compact", "compacting", "keep", "anchor", "trim"}, HygieneTo(pc)
      PROVE  hygiene' \in HygieneRecs
  BY <1>0, <1>h DEF HygieneTo, HygieneRecs
<1>c. ASSUME NEW full \in BOOLEAN, CutByName(full) PROVE wal' \subseteq wal
  BY <1>c DEF CutByName, CutTo
<1>d. ASSUME NEW name \in Names, StartBase(name) \/ EndBase(name) \/ FailBase(name)
      PROVE  bases' \subseteq Dirs
  <2>1. [name |-> name, start |-> segment, end |-> segment, manifest |-> FALSE] \in Dirs
    BY <1>0 DEF Dirs
  <2>2. \A b \in bases : [b EXCEPT !.manifest = TRUE, !.end = segment] \in Dirs
    BY <1>0 DEF Dirs
  <2>3. CASE StartBase(name)
    BY <1>0, <2>1, <2>3 DEF StartBase
  <2>4. CASE EndBase(name)
    BY <1>0, <2>2, <2>4 DEF EndBase
  <2>5. CASE FailBase(name)
    BY <1>0, <2>5 DEF FailBase
  <2> QED
    BY <1>d, <2>3, <2>4, <2>5
<1>m. [day |-> nightly.day, clock |-> 0] \in Names /\ hygiene.name \in Names
  BY <1>0 DEF NightlyRecs, HygieneRecs, Names
<1>t. ASSUME NEW x \in 0..LastSegment PROVE Max({trimmed, x}) \in 0..LastSegment
  <2>1. \E m \in {trimmed, x} : \A n \in {trimmed, x} : m >= n
    BY <1>0
  <2>2. Max({trimmed, x}) \in {trimmed, x}
    BY <2>1 DEF Max
  <2> QED
    BY <1>0, <2>2
<1>1. CASE ArchiveSegment
  <2>1. segment \in 0..(LastSegment - 1) /\ segment + 1 \in 0..LastSegment
    BY <1>0, <1>1 DEF ArchiveSegment
  <2> QED
    BY <1>0, <1>1, <2>1 DEF ArchiveSegment, BasesBounded
<1>2. CASE PanicTrim
  <2>1. /\ wal # {} /\ trimmed' = Max({trimmed, Min(wal) + 1}) /\ wal' = wal \ {Min(wal)}
        /\ UNCHANGED <<segment, bases, nightly, hygiene, stamp>>
    BY <1>2 DEF PanicTrim
  <2>2. Min(wal) \in wal
    <3>1. wal \subseteq Nat
      BY <1>0
    <3>2. PICK m \in wal : \A n \in wal : m <= n
      BY <2>1, <3>1, LeastNatural
    <3> QED
      BY <3>2 DEF Min
  <2>3. Min(wal) + 1 \in 0..LastSegment
    <3>1. PICK s \in 0..(LastSegment - 1) : s = Min(wal)
      BY <1>0, <2>2, Zenon
    <3>2. s + 1 \in 0..LastSegment
      BY <1>0
    <3> QED
      BY <3>1, <3>2
  <2>4. trimmed' \in 0..LastSegment
    BY <1>t, <2>1, <2>3
  <2> QED
    BY <1>0, <2>1, <2>4 DEF BasesBounded
<1>3. CASE NightlyStart
  <2>1. PICK keep \in {1, KeepBase} : nightly' = [pc |-> "retain", day |-> Day, keep |-> keep]
    BY <1>3 DEF NightlyStart
  <2>2. nightly' \in NightlyRecs
    BY <1>0, <2>1, DaysAreCounted DEF Day, NightlyRecs
  <2> QED
    BY <1>0, <1>3, <2>2 DEF NightlyStart, BasesBounded
<1>4. CASE NightlyRetain
  <2>1. nightly' \in NightlyRecs
    BY <1>n, <1>4 DEF NightlyRetain
  <2>2. bases' \subseteq bases
    BY <1>4 DEF NightlyRetain, Retain
  <2> QED
    BY <1>0, <1>4, <2>1, <2>2 DEF NightlyRetain, BasesBounded
<1>5. CASE NightlyCut
  <2>1. nightly' \in NightlyRecs
    BY <1>n, <1>r, <1>5 DEF NightlyCut
  <2>2. wal' \subseteq wal
    BY <1>c, <1>5 DEF NightlyCut
  <2> QED
    BY <1>0, <1>5, <2>1, <2>2 DEF NightlyCut, BasesBounded
<1>6. CASE NightlyBase
  <2>1. nightly' \in NightlyRecs
    BY <1>n, <1>6 DEF NightlyBase
  <2>2. bases' \subseteq Dirs
    BY <1>d, <1>m, <1>6 DEF NightlyBase
  <2> QED
    BY <1>0, <1>6, <2>1, <2>2 DEF NightlyBase, BasesBounded
<1>7. CASE NightlyBased
  <2>1. nightly' \in NightlyRecs
    BY <1>n, <1>7 DEF NightlyBased
  <2>2. bases' \subseteq Dirs
    BY <1>d, <1>m, <1>7 DEF NightlyBased
  <2> QED
    BY <1>0, <1>7, <2>1, <2>2 DEF NightlyBased, BasesBounded
<1>8. CASE HygieneStart
  <2>1. hygiene' \in HygieneRecs
    BY <1>h, <1>8 DEF HygieneStart
  <2>2. wal' \subseteq wal
    BY <1>c, <1>8 DEF HygieneStart
  <2> QED
    BY <1>0, <1>8, <2>1, <2>2 DEF HygieneStart, BasesBounded
<1>9. CASE Compact
  <2>1. PICK name \in Names : StartBase(name) /\ hygiene' = [pc |-> "compacting", name |-> name]
    <3>1. [day |-> Day, clock |-> (segment % DayLength) + 1] \in Names
      BY <1>0, DaysAreCounted DEF Day, Names
    <3> QED
      BY <1>9, <3>1 DEF Compact
  <2>2. hygiene' \in HygieneRecs /\ bases' \subseteq Dirs
    BY <1>d, <2>1 DEF HygieneRecs
  <2> QED
    BY <1>0, <1>9, <2>2 DEF Compact, BasesBounded
<1>10. CASE Compacted
  <2>1. hygiene' \in HygieneRecs
    BY <1>h, <1>10 DEF Compacted
  <2>2. bases' \subseteq Dirs
    BY <1>d, <1>m, <1>10 DEF Compacted
  <2>3. stamp' \in 0..LastSegment
    BY <1>0, <1>10 DEF Compacted
  <2> QED
    BY <1>0, <1>10, <2>1, <2>2, <2>3 DEF Compacted, BasesBounded
<1>11. CASE CompactKeeps
  <2>1. hygiene' \in HygieneRecs
    BY <1>h, <1>11 DEF CompactKeeps
  <2>2. bases' \subseteq bases
    BY <1>11 DEF CompactKeeps
  <2> QED
    BY <1>0, <1>11, <2>1, <2>2 DEF CompactKeeps, BasesBounded
<1>12. CASE CompactAnchors
  <2>1. hygiene' \in HygieneRecs
    BY <1>h, <1>12 DEF CompactAnchors
  <2>2. wal' \subseteq wal
    BY <1>12 DEF CompactAnchors, CutTo
  <2> QED
    BY <1>0, <1>12, <2>1, <2>2 DEF CompactAnchors, BasesBounded
<1>13. CASE HygieneTrims
  <2>1. PICK upTo \in {trimmed} \cup {s + 1 : s \in wal} :
          wal' = {s \in wal : s >= upTo} /\ trimmed' = Max({trimmed, upTo})
    BY <1>13 DEF HygieneTrims
  <2>2. upTo \in 0..LastSegment
    BY <1>0
  <2>3. trimmed' \in 0..LastSegment /\ wal' \subseteq wal
    BY <1>t, <2>1, <2>2
  <2> QED
    BY <1>0, <1>r, <1>13, <2>3 DEF HygieneTrims, BasesBounded
<1>14. CASE HostBoot
  BY <1>0, <1>r, <1>14 DEF HostBoot, BasesBounded
<1>15. CASE UNCHANGED baseVars
  BY <1>0, <1>15 DEF baseVars, BasesBounded
<1> QED
  BY <1>1, <1>2, <1>3, <1>4, <1>5, <1>6, <1>7, <1>8, <1>9, <1>10, <1>11, <1>12, <1>13, <1>14, <1>15
     DEF BasesNext

LEMMA BasesTypes == BasesSpec => []BasesTypeOK
<1>1. BasesInit => BasesBounded
  <2>1. LastSegment \in Nat /\ DayLength \in Nat \ {0} /\ KeepBase \in Nat \ {0}
        /\ LastSegment \div DayLength \in Nat
    BY BaseAssumption
  <2> QED
    BY <2>1 DEF BasesInit, BasesBounded, NotTonight, NotNow, NoName, Names, NightlyRecs, HygieneRecs
<1>2. ASSUME BasesBounded, BasesInv PROVE BasesTypeOK
  <2>1. LastSegment \in Nat /\ DayLength \in Nat \ {0}
    BY BaseAssumption
  <2>2. LastSegment \div DayLength \in 0..LastSegment
    <3>1. PICK d \in Nat \ {0}, last \in Nat : d = DayLength /\ last = LastSegment
      BY <2>1
    <3>2. last <= last * d
      OBVIOUS
    <3> QED
      BY <3>1, <3>2, QuotientWithin
  <2>3. nightly.day \in 0..LastSegment
    BY <1>2, <2>1, <2>2 DEF BasesBounded, NightlyRecs
  <2>4. muddled \in BOOLEAN
    BY <1>2 DEF BasesInv, BasesTyped
  <2>5. nightly \in [pc : {"idle", "retain", "cut", "base", "basing", "retain2", "cut2"},
                     day : 0..LastSegment, keep : 1..KeepBase]
    BY <1>2, <2>3 DEF BasesBounded, NightlyRecs
  <2> QED
    BY <1>2, <2>4, <2>5 DEF BasesBounded, BasesTypeOK, HygieneRecs
<1> QED
  BY <1>1, <1>2, BasesBoundedKept, BasesAlways, PTL DEF BasesSpec

=============================================================================
