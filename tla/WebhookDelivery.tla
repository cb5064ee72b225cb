---------------------------- MODULE WebhookDelivery ----------------------------
(***************************************************************************)
(* Database webhooks (src/pgforge/webhooks.go): every change the listener  *)
(* of a project hands to fireWebhooks becomes one goroutine per matching   *)
(* webhook, which tries, logs, waits and tries again.  The log is a table  *)
(* that every attempt trims.                                               *)
(***************************************************************************)
EXTENDS Naturals, Sequences, FiniteSets, SequencesExt

CONSTANTS
    Hooks,          \* webhooks an owner may create
    Attempts,       \* length of the backoff ladder
    LogLimit,       \* deliveries kept per project
    MaxDeliveries   \* bound: goroutines ever started

ASSUME HooksAssumption ==
    /\ Attempts \in Nat \ {0} /\ LogLimit \in Nat \ {0} /\ MaxDeliveries \in Nat
    /\ IsFiniteSet(Hooks)

VARIABLES
    hooks,      \* rows of webhooks
    firing,     \* the change being dispatched: hooks read, hooks left
    deliveries, \* goroutines ever started, in order
    log         \* webhook_deliveries, oldest first

hookVars == <<hooks, firing, deliveries, log>>

NotFiring == [on |-> FALSE, left |-> {}]

\* tried: what each attempt was recorded as; got: how often the target has
\* taken the payload; stored: the payload was small enough for the log.
Delivery(h) ==
    [hook |-> h, pc |-> "try", ok |-> FALSE, tried |-> <<>>, got |-> 0]

HooksTypeOK ==
    /\ hooks \subseteq Hooks
    /\ firing.on \in BOOLEAN /\ firing.left \subseteq Hooks
    /\ Len(deliveries) <= MaxDeliveries
    /\ \A d \in DOMAIN deliveries :
         /\ deliveries[d].hook \in Hooks
         /\ deliveries[d].pc \in {"try", "log", "trim", "over", "cut"}
         /\ deliveries[d].tried \in Seq(BOOLEAN)
         /\ deliveries[d].got \in 0..Attempts
    /\ \A i \in DOMAIN log :
         /\ log[i].of \in DOMAIN deliveries /\ log[i].attempt \in 1..Attempts
         /\ log[i].ok \in BOOLEAN /\ log[i].payload \in BOOLEAN

HooksInit ==
    /\ hooks = {} /\ firing = NotFiring /\ deliveries = <<>> /\ log = <<>>

HookAt(d, pc) == d \in DOMAIN deliveries /\ deliveries[d].pc = pc
HookSet(d, delivery) == deliveries' = [deliveries EXCEPT ![d] = delivery]

-----------------------------------------------------------------------------

createWebhook(h) ==
    /\ h \notin hooks
    /\ hooks' = hooks \cup {h}
    /\ UNCHANGED <<firing, deliveries, log>>

\* Goroutines that are under way go on.
deleteWebhook(h) ==
    /\ h \in hooks
    /\ hooks' = hooks \ {h}
    /\ UNCHANGED <<firing, deliveries, log>>

\* fireWebhooks reads the hooks, and drops the change when it cannot.
FireHooks(matching) ==
    /\ ~firing.on /\ matching \subseteq hooks
    /\ firing' = [on |-> TRUE, left |-> matching]
    /\ UNCHANGED <<hooks, deliveries, log>>

FireOne(h) ==
    /\ h \in firing.left /\ Len(deliveries) < MaxDeliveries
    /\ deliveries' = Append(deliveries, Delivery(h))
    /\ firing' = [firing EXCEPT !.left = @ \ {h}]
    /\ UNCHANGED <<hooks, log>>

FireDone ==
    /\ firing.on /\ firing.left = {}
    /\ firing' = NotFiring
    /\ UNCHANGED <<hooks, deliveries, log>>

\* testWebhook, and replayDelivery of a row that kept the payload: the same
\* goroutine, for a hook there still is.
Redeliver(h) ==
    /\ h \in hooks /\ Len(deliveries) < MaxDeliveries
    /\ deliveries' = Append(deliveries, Delivery(h))
    /\ UNCHANGED <<hooks, firing, log>>

Replay(i) == i \in DOMAIN log /\ log[i].payload /\ Redeliver(deliveries[log[i].of].hook)

-----------------------------------------------------------------------------
(* deliverWebhook.                                                         *)

\* The target takes the payload and its answer arrives; it takes it and the
\* answer is lost; it does not take it.
Try(d) ==
    /\ HookAt(d, "try")
    /\ \E took, answered \in BOOLEAN :
         /\ answered => took
         /\ HookSet(d, [deliveries[d] EXCEPT
              !.pc = "log", !.ok = answered, !.got = @ + (IF took THEN 1 ELSE 0)])
    /\ UNCHANGED <<hooks, firing, log>>

NextAttempt(d) == Len(deliveries[d].tried) + 1

\* logDelivery inserts; the payload goes with the first attempt, if it is not
\* too long.
LogAttempt(d) ==
    /\ HookAt(d, "log")
    /\ \E short \in BOOLEAN :
         log' = Append(log, [of |-> d, attempt |-> NextAttempt(d), ok |-> deliveries[d].ok,
                             payload |-> NextAttempt(d) = 1 /\ short])
    /\ HookSet(d, [deliveries[d] EXCEPT !.pc = "trim", !.tried = Append(@, deliveries[d].ok)])
    /\ UNCHANGED <<hooks, firing>>

\* One attempt more than the ladder has rungs.
RetriesPastLimit(d) == ~deliveries[d].ok /\ Len(deliveries[d].tried) <= Attempts

Retries(d) == ~deliveries[d].ok /\ Len(deliveries[d].tried) < Attempts

\* Then it deletes all but the latest rows, and the ladder goes on or ends.
Trim(d) ==
    /\ HookAt(d, "trim")
    /\ log' = IF Len(log) > LogLimit THEN SubSeq(log, Len(log) - LogLimit + 1, Len(log))
              ELSE log
    /\ HookSet(d, [deliveries[d] EXCEPT !.pc = IF Retries(d) THEN "try" ELSE "over"])
    /\ UNCHANGED <<hooks, firing>>

\* A restart ends every goroutine, and nothing knows what it still owed.
HooksBoot ==
    /\ firing' = NotFiring
    /\ deliveries' = [d \in DOMAIN deliveries |->
         IF HookAt(d, "over") THEN deliveries[d] ELSE [deliveries[d] EXCEPT !.pc = "cut"]]
    /\ UNCHANGED <<hooks, log>>

HooksNext ==
    \/ \E h \in Hooks : createWebhook(h) \/ deleteWebhook(h) \/ FireOne(h) \/ Redeliver(h)
    \/ \E matching \in SUBSET Hooks : FireHooks(matching)
    \/ FireDone
    \/ \E i \in DOMAIN log : Replay(i)
    \/ \E d \in DOMAIN deliveries : Try(d) \/ LogAttempt(d) \/ Trim(d)
    \/ HooksBoot

HooksSpec == HooksInit /\ [][HooksNext]_hookVars

-----------------------------------------------------------------------------
\* A delivery that no restart cut off ends in one of two ways: the target said
\* so at its last recorded attempt, or every attempt of the ladder is recorded
\* as failed; a target that said so has the payload.  The rows of the log are
\* those attempts, none of them twice, and with the trimming of concurrent
\* goroutines the table stays within its limit once they have ended.
DeliveriesAccounted ==
    /\ \A d \in DOMAIN deliveries :
         LET tried == deliveries[d].tried
             said  == {i \in DOMAIN tried : tried[i]}
         IN /\ said \subseteq {Len(tried)}
            /\ Cardinality(said) <= deliveries[d].got
            /\ deliveries[d].pc = "over" => said # {} \/ Len(tried) = Attempts
    /\ \A i, j \in DOMAIN log :
         /\ log[i].ok = deliveries[log[i].of].tried[log[i].attempt]
         /\ i # j => log[i].of # log[j].of \/ log[i].attempt # log[j].attempt
    /\ Len(log) <= LogLimit
                   + Cardinality({d \in DOMAIN deliveries : deliveries[d].pc \in {"trim", "cut"}})
=============================================================================
