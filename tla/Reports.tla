-------------------------------- MODULE Reports --------------------------------
(***************************************************************************)
(* What the sampler sends out (src/pgforge/metrics.go, notify.go,          *)
(* branching.go): every five minutes a project's logs of the last day, if  *)
(* the last bundle is 23 hours old, and in the hourly pass of one hour of  *)
(* the week a digest.  A pass that is slow swallows ticks, a receiver may  *)
(* not answer, and the panel restarts.  Time counts ticks of the sampler.  *)
(***************************************************************************)
EXTENDS Integers

CONSTANTS
    Hour,           \* ticks between two full passes (12)
    Window,            \* ticks of the window that is shipped (288)
    Gate,           \* ticks a bundle must be old (276)
    Week,           \* ticks between two digests
    DigestTicks,    \* the ticks of the week that lie in the digest's hour
    LastTick,       \* bound: time
    MaxMissed       \* bound: ticks swallowed

ASSUME ReportsAssumption ==
    /\ {Hour, Window, Gate, Week} \subseteq Nat \ {0} /\ Gate < Window
    /\ Window <= 2 * (Gate + 1)            \* three bundles never share a line
    /\ DigestTicks \subseteq 0..Week - 1
    /\ \E n \in 0..Week - 1 : n..n + Hour - 1 \subseteq DigestTicks
    /\ LastTick \in Nat /\ MaxMissed \in Nat

VARIABLES
    tick,       \* the time
    passes,     \* ticks the sampler took since it began, modulo Hour
    stage,       \* where its pass is: what it is about to do
    hook,       \* discord_webhook is set
    shipUrl,    \* a project's log_ship_url is set
    shippedAt,  \* log_shipped_at
    logEntry,   \* one line of edge_logs, and how many bundles it was in
    digest,     \* digest_last, and the digests of this week
    missed,     \* history: ticks swallowed
    unsent      \* history: what failed to post, was cut off or was not wanted

reportVars == <<tick, passes, stage, hook, shipUrl, shippedAt, logEntry, digest,
                missed, unsent>>

Never == -1
ReportsTypeOK ==
    /\ tick \in 0..LastTick /\ passes \in 0..Hour - 1
    /\ stage \in {"none", "full", "send", "ship", "mark"}
    /\ hook \in BOOLEAN /\ shipUrl \in BOOLEAN /\ shippedAt \in Never..LastTick
    /\ logEntry \in [at : Never..LastTick, there : BOOLEAN, copies : 0..3]
    /\ digest \in [last : Never..LastTick, sent : 0..2]
    /\ missed \in 0..MaxMissed /\ unsent \subseteq {"digest", "bundle", "twice"}

\* The panel starts: sampleOnce(true) at once.
ReportsInit ==
    /\ tick = 0 /\ passes = 0 /\ stage = "full"
    /\ hook = FALSE /\ shipUrl = FALSE /\ shippedAt = Never
    /\ logEntry = [at |-> Never, there |-> FALSE, copies |-> 0]
    /\ digest = [last |-> Never, sent |-> 0]
    /\ missed = 0 /\ unsent = {}

-----------------------------------------------------------------------------
WeekOf(n) == n \div Week
NewWeek == WeekOf(tick + 1) # WeekOf(tick)
TimePasses ==
    /\ tick < LastTick /\ tick' = tick + 1
    /\ digest' = IF NewWeek THEN [digest EXCEPT !.sent = 0] ELSE digest

\* startSampler takes a tick.
SamplerTick ==
    /\ stage = "none" /\ TimePasses
    /\ passes' = (passes + 1) % Hour
    /\ stage' = IF passes' = 0 THEN "full" ELSE "ship"
    /\ UNCHANGED <<hook, shipUrl, shippedAt, logEntry, missed, unsent>>

\* The ticker drops a tick nobody is there to take.
TickSwallowed ==
    /\ stage \in {"none", "mark"}
    /\ missed < MaxMissed /\ missed' = missed + 1 /\ TimePasses
    /\ UNCHANGED <<passes, stage, hook, shipUrl, shippedAt, logEntry, unsent>>

\* maybeWeeklyDigest's guards.
DigestDue ==
    /\ hook /\ tick % Week \in DigestTicks
    /\ digest.last = Never \/ WeekOf(digest.last) # WeekOf(tick)

\* The hourly part: old lines go, the 200 newest of a project stay, and the
\* digest is marked as sent.
FullPass ==
    /\ stage = "full"
    /\ \E trimmed \in BOOLEAN : logEntry' = [logEntry EXCEPT !.there = @ /\ ~trimmed]
    /\ \/ DigestDue /\ digest' = [digest EXCEPT !.last = tick] /\ stage' = "send"
       \/ ~DigestDue /\ stage' = "ship" /\ UNCHANGED digest
    /\ UNCHANGED <<tick, passes, hook, shipUrl, shippedAt, missed, unsent>>

\* notifyDiscord, once the digest is put together.
DigestSent ==
    /\ stage = "send" /\ stage' = "ship"
    /\ \/ digest' = [digest EXCEPT !.sent = @ + 1] /\ UNCHANGED unsent
       \/ unsent' = unsent \cup {"digest"} /\ UNCHANGED digest
    /\ UNCHANGED <<tick, passes, hook, shipUrl, shippedAt, logEntry, missed>>

ShipDue == shipUrl /\ (shippedAt = Never \/ shippedAt < tick - Gate)

InWindow == logEntry.there /\ logEntry.at > tick - Window
Counted(n) == IF n < 3 THEN n + 1 ELSE n    \* more than two are alike

\* shipLogs posts the window ...
ShipPost ==
    /\ stage = "ship" /\ ShipDue /\ stage' = "mark"
    /\ \/ /\ logEntry' = IF InWindow THEN [logEntry EXCEPT !.copies = Counted(@)] ELSE logEntry
          /\ UNCHANGED unsent
       \/ unsent' = unsent \cup {"bundle"} /\ UNCHANGED logEntry
    /\ UNCHANGED <<tick, passes, hook, shipUrl, shippedAt, digest, missed>>

\* ... and marks it, whatever the receiver said.
ShipMark ==
    /\ stage = "mark" /\ stage' = "none" /\ shippedAt' = tick
    /\ UNCHANGED <<tick, passes, hook, shipUrl, logEntry, digest, missed, unsent>>

NothingToShip ==
    /\ stage = "ship" /\ ~ShipDue /\ stage' = "none"
    /\ UNCHANGED <<tick, passes, hook, shipUrl, shippedAt, logEntry, digest, missed, unsent>>

\* Bound: one of the two is set, and cleared for good.
Unset == ~hook /\ ~shipUrl /\ unsent = {}

setLogShip ==
    /\ \/ Unset /\ shipUrl' = TRUE /\ UNCHANGED unsent
       \/ shipUrl /\ shipUrl' = FALSE /\ unsent' = unsent \cup {"bundle"}
    /\ UNCHANGED <<tick, passes, stage, hook, shippedAt, logEntry, digest, missed>>

HourAhead == \A n \in DigestTicks : tick % Week < n
setDiscordWebhook ==
    /\ \/ Unset /\ hook' = TRUE
       \/ hook /\ hook' = FALSE
    /\ unsent' = unsent \cup (IF hook' /\ HourAhead THEN {} ELSE {"digest"})
    /\ UNCHANGED <<tick, passes, stage, shipUrl, shippedAt, logEntry, digest, missed>>

\* A function ran: its line in edge_logs.
EntryArrives ==
    /\ shipUrl /\ logEntry.at = Never /\ logEntry' = [at |-> tick, there |-> TRUE, copies |-> 0]
    /\ UNCHANGED <<tick, passes, stage, hook, shipUrl, shippedAt, digest, missed, unsent>>

\* The panel restarts, wherever the pass is.
SamplerRestarts ==
    /\ stage' = "full" /\ passes' = 0
    /\ unsent' = unsent \cup (IF stage = "send" THEN {"digest"} ELSE {})
                        \cup (IF stage = "mark" THEN {"twice"} ELSE {})
    /\ UNCHANGED <<tick, hook, shipUrl, shippedAt, logEntry, digest, missed>>

ReportsNext ==
    \/ SamplerTick \/ TickSwallowed \/ FullPass \/ DigestSent
    \/ ShipPost \/ ShipMark \/ NothingToShip
    \/ setLogShip \/ setDiscordWebhook \/ EntryArrives \/ SamplerRestarts

ReportsSpec == ReportsInit /\ [][ReportsNext]_reportVars

-----------------------------------------------------------------------------
\* The hour of this week's digest is over, and so is the pass.
HourOver == stage = "none" /\ \A n \in DigestTicks : tick % Week > n

\* "the digest_last date guard makes it fire once per Sunday" (notify.go:37-38)
\* and "a JSON bundle posts nightly" of the "last-24h" logs (branching.go:481).
\* Restarts at any point never make two digests, and a week without one had a
\* tick swallowed or the post itself fail; a line of the log is in at most two
\* bundles, unless a restart came between a post and its mark; and one that is
\* a day old and was not trimmed is in one, unless a post failed, shipping was
\* off, or more ticks were swallowed than the window exceeds the gate by.
ReportsKept ==
    /\ digest.sent <= 1
    /\ hook /\ HourOver /\ missed = 0 /\ "digest" \notin unsent => digest.sent = 1
    /\ "twice" \notin unsent => logEntry.copies <= 2
    /\ (/\ logEntry.there /\ logEntry.at + Window <= tick /\ stage = "none"
        /\ Gate + 1 + missed < Window /\ "bundle" \notin unsent) => logEntry.copies >= 1
=============================================================================
