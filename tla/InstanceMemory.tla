---------------------------- MODULE InstanceMemory ----------------------------
(***************************************************************************)
(* The memory of a dedicated instance (src/pgforge/instances.go): its      *)
(* owner sets a limit and the bounds within which the hourly pass may move *)
(* it.  The limit is in two places, the container (docker update) and the  *)
(* row of the project, and each writer changes one after the other.        *)
(***************************************************************************)
EXTENDS Naturals

CONSTANTS
    Floor,          \* the least limit (256 MB)
    Top,            \* the most (16384 MB)
    Limits,         \* what owners ask for
    Ranges,         \* the bounds they ask for, [min, max]; max 0 is off
    MaxResizes      \* bound: requests of owners

ASSUME MemoryAssumption ==
    /\ Floor \in Nat /\ Floor >= 4         \* a quarter of it is something
    /\ Top \in Nat /\ Limits \subseteq Floor..Top
    /\ Ranges \subseteq [min : 0..Top, max : 0..Top] /\ MaxResizes \in Nat

VARIABLES
    limit,      \* of the container
    size,       \* the row: instance_mem_mb, adapt_min_mb, adapt_max_mb
    resizing,   \* the owner's request
    hourly,     \* the pass: the row as it was read, and what it decided
    resizes,
    overlapped, \* history: a request and the pass met
    refused,    \* history: a request was turned down after docker update, or
                \* the row could not be written
    starved     \* history: the pass saw pressure, had room, and did not grow

memVars == <<limit, size, resizing, hourly, resizes, overlapped, refused, starved>>

Sizes == [mem : Floor..Top, min : 0..Top, max : 0..Top]
Resting == [pc |-> "none"]

MemTypeOK ==
    /\ limit \in Floor..Top /\ size \in Sizes
    /\ resizing \in {Resting} \cup [pc : {"row"}, to : Sizes]
    /\ hourly \in {Resting} \cup [pc : {"stats", "update", "row"}, of : Sizes, next : 0..2*Top]
    /\ resizes \in 0..MaxResizes
    /\ overlapped \in BOOLEAN /\ refused \in BOOLEAN /\ starved \in BOOLEAN

MemInit ==
    /\ limit \in Limits /\ size = [mem |-> limit, min |-> 0, max |-> 0]
    /\ resizing = Resting /\ hourly = Resting /\ resizes = 0
    /\ overlapped = FALSE /\ refused = FALSE /\ starved = FALSE

-----------------------------------------------------------------------------
(* setInstanceCompute                                                      *)

\* docker update, before the bounds are looked at.
DockerUpdate(mem, range) ==
    /\ resizing = Resting /\ resizes < MaxResizes /\ resizes' = resizes + 1
    /\ \/ limit' = mem
          /\ resizing' = [pc |-> "row", to |-> [mem |-> mem, min |-> range.min, max |-> range.max]]
       \/ UNCHANGED <<limit, resizing>>         \* it failed, and all is as it was
    /\ overlapped' = (overlapped \/ hourly # Resting)
    /\ UNCHANGED <<size, hourly, refused, starved>>

GoodBounds(r) == r.max = 0 \/ (r.min >= Floor /\ r.max <= Top /\ r.min <= r.max)

SetInstanceRow ==
    /\ resizing # Resting /\ resizing' = Resting
    /\ \/ /\ GoodBounds(resizing.to)
          /\ size' = resizing.to /\ UNCHANGED refused
       \/ refused' = TRUE /\ UNCHANGED size
    /\ UNCHANGED <<limit, hourly, resizes, overlapped, starved>>

-----------------------------------------------------------------------------
(* adaptInstances, for one instance.                                       *)

Clamp(p) ==
    LET low == IF p.min < Floor THEN Floor ELSE p.min
    IN [mem |-> IF p.mem < low THEN low ELSE p.mem, min |-> low, max |-> p.max]

AdaptRead ==
    /\ hourly = Resting /\ size.max > 0
    /\ hourly' = [pc |-> "stats", of |-> Clamp(size), next |-> 0]
    /\ overlapped' = (overlapped \/ resizing # Resting)
    /\ UNCHANGED <<limit, size, resizing, resizes, refused, starved>>

Pressed(used, mem) == used * 100 > 85 * mem
Idling(used, mem) == used * 100 < 30 * mem

NextUnbounded(p, used) ==
    IF Pressed(used, p.mem) THEN p.mem + p.mem \div 4
    ELSE IF Idling(used, p.mem) THEN p.mem - p.mem \div 5 ELSE p.mem

\* The owner's upper bound forgotten.
NextLimitOpen(p, used) ==
    LET n == NextUnbounded(p, used) IN IF n < p.min THEN p.min ELSE n
NextLimit(p, used) ==
    LET n == NextUnbounded(p, used)
        capped == IF n > p.max THEN p.max ELSE n
    IN IF capped < p.min THEN p.min ELSE capped

\* docker stats: what is used, at most what the container may use.
AdaptStats ==
    /\ hourly # Resting /\ hourly.pc = "stats"
    /\ \E used \in 1..limit :
         LET next == NextLimit(hourly.of, used) IN
         /\ hourly' = IF next = hourly.of.mem THEN Resting
                      ELSE [hourly EXCEPT !.pc = "update", !.next = next]
         /\ starved' = (starved \/ (/\ Pressed(used, limit) /\ limit \in hourly.of.min..hourly.of.max - 1
                                    /\ next <= limit /\ ~overlapped /\ ~refused))
    /\ UNCHANGED <<limit, size, resizing, resizes, overlapped, refused>>

\* The instance is asleep, or docker does not answer.
AdaptFails ==
    /\ hourly # Resting /\ hourly.pc \in {"stats", "update"} /\ hourly' = Resting
    /\ UNCHANGED <<limit, size, resizing, resizes, overlapped, refused, starved>>

AdaptUpdate ==
    /\ hourly # Resting /\ hourly.pc = "update"
    /\ limit' = hourly.next /\ hourly' = [hourly EXCEPT !.pc = "row"]
    /\ UNCHANGED <<size, resizing, resizes, overlapped, refused, starved>>

AdaptRow ==
    /\ hourly # Resting /\ hourly.pc = "row"
    /\ size' = [size EXCEPT !.mem = hourly.next] /\ hourly' = Resting
    /\ UNCHANGED <<limit, resizing, resizes, overlapped, refused, starved>>

\* A restart between two of these steps.
MemRestart ==
    /\ hourly # Resting \/ resizing # Resting
    /\ hourly' = Resting /\ resizing' = Resting
    /\ refused' = (refused \/ resizing # Resting \/ hourly.pc = "row")
    /\ UNCHANGED <<limit, size, resizes, overlapped, starved>>

MemNext ==
    \/ \E mem \in Limits, range \in Ranges : DockerUpdate(mem, range)
    \/ SetInstanceRow \/ AdaptRead \/ AdaptStats \/ AdaptFails \/ AdaptUpdate \/ AdaptRow
    \/ MemRestart

MemSpec == MemInit /\ [][MemNext]_memVars

-----------------------------------------------------------------------------
\* "resizes running dedicated instances inside owner-set bounds: sustained
\* pressure (>85% of the limit) grows the limit" (instances.go:243-247).  The
\* container and the row agree when nobody is at work, unless a request met the
\* pass, was refused after docker update or was cut off; an adapted limit is
\* within the bounds it was decided by; and a limit within them grows under
\* pressure.  Not one below them: the pass reckons with the least bound as if it
\* were in force, sees no pressure, and never sets it (instances.go:270-272).
MemoryFollowsBounds ==
    /\ resizing = Resting /\ hourly = Resting /\ ~overlapped /\ ~refused => limit = size.mem
    /\ hourly.pc \in {"update", "row"} => hourly.next \in hourly.of.min..hourly.of.max
    /\ ~starved
=============================================================================
