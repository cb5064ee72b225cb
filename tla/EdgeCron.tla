-------------------------------- MODULE EdgeCron --------------------------------
(***************************************************************************)
(* Scheduled edge functions (src/pgforge/edgecron.go): the reading of a    *)
(* cron field, and the pass that claims a minute before it fires.  A       *)
(* minute is a number; of its calendar a field of the day, a day of the    *)
(* month and a day of the week are kept (hours and months are fields like  *)
(* the first).  A field is a sequence of parts.                            *)
(***************************************************************************)
EXTENDS Integers, Sequences, FiniteSets

CONSTANTS
    CronFunctions,      \* functions with a row of edge_functions
    Schedules,      \* schedules an owner may save
    LastMinute      \* bound: the clock stops here

\* A part of a field is a star, a value or a range; where it starts is read
\* before any sign, where it ends and its step may be any number.
CronParts == [base : {"star", "value", "range"}, from : Nat, to : Int, step : Int]
CronFields == Seq(CronParts)

ASSUME CronAssumption ==
    /\ IsFiniteSet(CronFunctions) /\ IsFiniteSet(Schedules) /\ LastMinute \in Nat
    /\ \A s \in Schedules : {s.minute, s.dom, s.dow} \subseteq CronFields

VARIABLES
    clock,          \* the minute time.Now is in
    schedule,       \* the schedule of each function
    lastCron,       \* last_cron, -1 for NULL
    pass,           \* the pass under way: its minute, the jobs it has left
    fired,          \* the invocations: function, minute, schedule
    again           \* invocations of a minute that had had one

cronVars == <<clock, schedule, lastCron, pass, fired, again>>

NoPass == [at |-> -1, jobs |-> {}]
Minutes == 0..LastMinute

CronTypeOK ==
    /\ clock \in Minutes
    /\ schedule \in [CronFunctions -> Schedules]
    /\ lastCron \in [CronFunctions -> Minutes \cup {-1}]
    /\ pass.at \in Minutes \cup {-1}
    /\ pass.jobs \subseteq CronFunctions \X Schedules
    /\ fired \subseteq CronFunctions \X Minutes \X Schedules
    /\ again \subseteq CronFunctions \X Minutes

-----------------------------------------------------------------------------
(* The calendar, four values to the first field, and the fields.           *)

MinuteOf(m) == m % 4
DayOf(m) == 1 + ((m \div 4) % 3)          \* of the month, from 1
WeekdayOf(m) == (m \div 4) % 2          \* from 0

\* The empty sequence is the minute field of no schedule.
Star == [base |-> "star", from |-> 0, to |-> 0, step |-> 1]

\* One part of a field, after cronFieldMatch: a bare value with a step starts
\* there, without one it is that value.
PartMatches(part, val, lo, hi) ==
    LET start == IF part.base = "star" THEN lo ELSE part.from
        end   == IF part.base = "range" THEN part.to ELSE hi
    IN IF part.base = "value" /\ part.step = 1
       THEN val = part.from
       ELSE val >= start /\ val <= end /\ (val - start) % part.step = 0

\* The first part that matches decides; a step that is no number above 0 ends
\* the reading (saving accepts 0).
cronFieldMatch(field, val, lo, hi) ==
    \E i \in DOMAIN field :
        /\ \A j \in 1..i : field[j].step > 0
        /\ PartMatches(field[i], val, lo, hi)

\* When both days are restricted, either will do.
cronMatch(s, m) ==
    LET dom == cronFieldMatch(s.dom, DayOf(m), 1, 3)
        dow == cronFieldMatch(s.dow, WeekdayOf(m), 0, 1)
    IN /\ cronFieldMatch(s.minute, MinuteOf(m), 0, 3)
       /\ IF s.dom # <<Star>> /\ s.dow # <<Star>> THEN dom \/ dow ELSE dom /\ dow

-----------------------------------------------------------------------------
(* startEdgeCron, runEdgeCronPass.                                         *)

CronInit ==
    /\ clock = 0
    /\ schedule \in [CronFunctions -> Schedules]
    /\ lastCron = [f \in CronFunctions |-> -1]
    /\ pass = NoPass /\ fired = {} /\ again = {}

\* The rows whose minute is still to be claimed, with the schedule read now.
PassBegins ==
    /\ pass = NoPass
    /\ pass' = [at |-> clock, jobs |->
         {<<f, schedule[f]>> : f \in {g \in CronFunctions :
                                    schedule[g].minute # <<>> /\ lastCron[g] < clock}}]
    /\ UNCHANGED <<clock, schedule, lastCron, fired, again>>

\* invokeScheduled, in a goroutine of its own.
FireCron(f, m, s) ==
    /\ fired' = fired \cup {<<f, m, s>>}
    /\ again' = again \cup {<<f, n>> : n \in {k \in {m} : \E t \in Schedules : <<f, k, t>> \in fired}}

\* Firing first and leaving the claim to nobody.
ClaimUnrecorded(job) ==
    /\ FireCron(job[1], pass.at, job[2])
    /\ UNCHANGED lastCron

\* The claim is an UPDATE with the comparison in it; only then the goroutine.
ClaimMinute(job) ==
    IF lastCron[job[1]] < pass.at
    THEN /\ lastCron' = [lastCron EXCEPT ![job[1]] = pass.at]
         /\ FireCron(job[1], pass.at, job[2])
    ELSE UNCHANGED <<lastCron, fired, again>>

PassJob ==
    \E job \in pass.jobs :
        /\ pass' = [pass EXCEPT !.jobs = @ \ {job}]
        /\ IF cronMatch(job[2], pass.at) THEN ClaimMinute(job) ELSE UNCHANGED <<lastCron, fired, again>>
        /\ UNCHANGED <<clock, schedule>>

PassEnds ==
    /\ pass # NoPass /\ pass.jobs = {}
    /\ pass' = NoPass
    /\ UNCHANGED <<clock, schedule, lastCron, fired, again>>

\* The ticker may find the pass of an earlier minute still under way.
MinutePasses ==
    /\ clock < LastMinute
    /\ clock' = clock + 1
    /\ UNCHANGED <<schedule, lastCron, pass, fired, again>>

\* The host's clock is set back.
ClockSetBack ==
    /\ clock > 0 /\ clock = LastMinute
    /\ clock' \in {LastMinute - 2, LastMinute - 1} \cap Minutes
    /\ UNCHANGED <<schedule, lastCron, pass, fired, again>>

\* saveFunction leaves last_cron alone.
SaveSchedule(f, s) ==
    /\ schedule[f] # s
    /\ schedule' = [schedule EXCEPT ![f] = s]
    /\ UNCHANGED <<clock, lastCron, pass, fired, again>>

\* A restart drops the pass; the next one begins with a minute.
CronBoot ==
    /\ pass' = NoPass
    /\ UNCHANGED <<clock, schedule, lastCron, fired, again>>

CronNext ==
    \/ PassBegins \/ PassJob \/ PassEnds
    \/ MinutePasses \/ ClockSetBack
    \/ \E f \in CronFunctions, s \in Schedules : SaveSchedule(f, s)
    \/ CronBoot

CronSpec == CronInit /\ [][CronNext]_cronVars

-----------------------------------------------------------------------------
\* What a field means, as the set of values it stands for.
Values(part, lo, hi) ==
    LET first == IF part.base = "star" THEN lo ELSE part.from
        last  == IF part.base = "star" \/ (part.base = "value" /\ part.step > 1)
                 THEN hi ELSE IF part.base = "range" THEN part.to ELSE part.from
    IN {first + k * part.step : k \in 0..hi} \cap first..last

Means(field, lo, hi) ==
    UNION {Values(field[i], lo, hi) : i \in DOMAIN field}

\* A function runs at most once for a minute, through restarts and a clock set
\* back, and only in a minute that the schedule it was found with stands for.
\* The reading of the fields is compared with the sets of values they denote.
CronFiresAsScheduled ==
    /\ again = {}
    /\ \A run \in fired :
         LET m == run[2]
             s == run[3]
             onDay == DayOf(m) \in Means(s.dom, 1, 3)
             onWeekday == WeekdayOf(m) \in Means(s.dow, 0, 1)
         IN /\ MinuteOf(m) \in Means(s.minute, 0, 3)
            /\ s.dom = <<Star>> => onWeekday
            /\ s.dow = <<Star>> => onDay
            /\ onDay \/ onWeekday
    \* and a pass skips no function whose schedule stands for its minute
    /\ \A job \in pass.jobs :
         LET s == job[2] IN
         (\A i \in DOMAIN s.minute : s.minute[i].step > 0)
           /\ s.dom = <<Star>> /\ s.dow = <<Star>> =>
           (cronMatch(s, pass.at) <=> MinuteOf(pass.at) \in Means(s.minute, 0, 3))
=============================================================================
