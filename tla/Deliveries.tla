------------------------------ MODULE Deliveries ----------------------------
(***************************************************************************)
(* Outbound webhooks: WebhookService (apps/api-edge/src/services/          *)
(* webhook.service.ts) and the consumer of its queue (jobs/                *)
(* webhook.consumer.ts), for one event and its subscriptions.              *)
(*                                                                         *)
(* A delivery is the row and the message dispatchEvent makes for one       *)
(* subscription.  The queue hands a message to a worker until a worker     *)
(* acknowledges it; each await of a worker is a step.                      *)
(***************************************************************************)
EXTENDS Naturals, FiniteSets

CONSTANTS
    Deliveries,     \* one for each subscription to the event
    Workers,        \* invocations of the queue consumer
    MaxRetries,     \* webhook_subscriptions.max_retries
    MaxFaults       \* bound: evictions, duplicates and database errors

ASSUME DeliveriesAssumption ==
    /\ IsFiniteSet(Deliveries) /\ IsFiniteSet(Workers)
    /\ MaxRetries \in Nat \ {0}
    /\ MaxFaults \in Nat

VARIABLES
    delivery,       \* webhook_deliveries.status, "absent" before the row exists
    attempts,       \* webhook_deliveries.attempts
    active,         \* deliveries whose subscription is active
    sent,           \* deliveries dispatchEvent has enqueued
    dispatching,    \* whether dispatchEvent still runs
    queue,          \* messages of each delivery that wait for a worker
    doing,          \* the await a worker is about to perform
    job,            \* the delivery a worker handles
    read,           \* delivery.attempts, as a worker has read it
    accepted,       \* whether the response a worker has got is a 2xx
    posts,          \* history: requests made for each delivery
    received,       \* history: how often its endpoint accepted each
    again,          \* history: deliveries a worker took up again
    faults          \* faults so far

rowVars == <<delivery, attempts>>
queueVars == <<sent, dispatching, queue>>
workerVars == <<job, read, accepted>>
histVars == <<posts, received>>
deliveryVars == <<rowVars, active, queueVars, doing, workerVars, histVars, again, faults>>

-----------------------------------------------------------------------------
Answered == {"delivered", "failed", "retrying"}

\* Awaits inside the try block of deliverWebhook.
Guarded == {"fetch", "update", "mark"}
Busy == {"find", "subscription", "inactive", "catch", "ack"} \cup Guarded

Goto(w, from, to) ==
    /\ doing[w] = from
    /\ doing' = [doing EXCEPT ![w] = to]

HandledBy(x) == {w \in Workers : doing[w] \in Busy /\ job[w] = x}

Fault == /\ faults < MaxFaults
         /\ faults' = faults + 1

\* A delivery that has been tried n times may be tried again.
RetriesRemain(n) == n < MaxRetries

-----------------------------------------------------------------------------
(* Variants: plausible bugs, one per property.  No action uses them.        *)

\* A request that timed out is made again at once.
CatchAndPost(w) ==
    /\ Goto(w, "catch", "fetch")
    /\ UNCHANGED <<rowVars, active, queueVars, workerVars, histVars, again, faults>>

\* A message whose delivery threw is acknowledged all the same.
ThrowAcked(w) ==
    /\ doing[w] \in {"find", "subscription", "inactive", "catch"}
    /\ Fault
    /\ doing' = [doing EXCEPT ![w] = "ack"]
    /\ UNCHANGED <<rowVars, active, queueVars, workerVars, histVars, again>>

-----------------------------------------------------------------------------
(* dispatchEvent: for each subscription it found active, a row and a message *)

CreateDelivery(x) ==
    /\ dispatching
    /\ delivery[x] = "absent"
    /\ \A y \in Deliveries : delivery[y] # "absent" => y \in sent
    /\ delivery' = [delivery EXCEPT ![x] = "pending"]
    /\ UNCHANGED <<attempts, active, queueVars, doing, workerVars, histVars, again, faults>>

Send(x) ==
    /\ dispatching
    /\ delivery[x] # "absent" /\ x \notin sent
    /\ sent' = sent \cup {x}
    /\ queue' = [queue EXCEPT ![x] = @ + 1]
    /\ UNCHANGED <<rowVars, active, dispatching, doing, workerVars, histVars, again, faults>>

DispatchCut ==
    /\ dispatching /\ Fault
    /\ dispatching' = FALSE
    /\ UNCHANGED <<rowVars, active, sent, queue, doing, workerVars, histVars, again>>

-----------------------------------------------------------------------------
(* handleWebhookBatch and deliverWebhook *)

Take(w, x) ==
    /\ Goto(w, "idle", "find")
    /\ queue[x] > 0
    /\ queue' = [queue EXCEPT ![x] = @ - 1]
    /\ job' = [job EXCEPT ![w] = x]
    /\ UNCHANGED <<rowVars, active, sent, dispatching, read, accepted, histVars, again, faults>>

FindDelivery(w) ==
    /\ Goto(w, "find", "subscription")
    /\ read' = [read EXCEPT ![w] = attempts[job[w]]]
    /\ UNCHANGED <<rowVars, active, queueVars, job, accepted, histVars, again, faults>>

\* Nobody looks at the delivery's own status.
FindSubscription(w) ==
    /\ Goto(w, "subscription", IF job[w] \in active THEN "fetch" ELSE "inactive")
    /\ UNCHANGED <<rowVars, active, queueVars, workerVars, histVars, again, faults>>

MarkInactive(w) ==
    /\ Goto(w, "inactive", "ack")
    /\ delivery' = [delivery EXCEPT ![job[w]] = "failed"]
    /\ UNCHANGED <<attempts, active, queueVars, workerVars, histVars, again, faults>>

\* The endpoint answers, with success or without.
Fetch(w, ok) ==
    /\ Goto(w, "fetch", "update")
    /\ accepted' = [accepted EXCEPT ![w] = ok]
    /\ posts' = [posts EXCEPT ![job[w]] = @ + 1]
    /\ received' = [received EXCEPT ![job[w]] = IF ok THEN @ + 1 ELSE @]
    /\ UNCHANGED <<rowVars, active, queueVars, job, read, again, faults>>

\* Or does not, before timeoutMs: the request may have been accepted.
FetchThrows(w, arrived) ==
    /\ Goto(w, "fetch", "catch")
    /\ posts' = [posts EXCEPT ![job[w]] = @ + 1]
    /\ received' = [received EXCEPT ![job[w]] = IF arrived THEN @ + 1 ELSE @]
    /\ UNCHANGED <<rowVars, active, queueVars, workerVars, again, faults>>

Update(w) ==
    /\ Goto(w, "update", IF ~accepted[w] /\ RetriesRemain(read[w] + 1)
                         THEN "mark" ELSE "ack")
    /\ delivery' = [delivery EXCEPT ![job[w]] = IF accepted[w] THEN "delivered" ELSE "failed"]
    /\ attempts' = [attempts EXCEPT ![job[w]] = read[w] + 1]
    /\ UNCHANGED <<active, queueVars, workerVars, histVars, again, faults>>

MarkRetrying(w) ==
    /\ Goto(w, "mark", "ack")
    /\ delivery' = [delivery EXCEPT ![job[w]] = "retrying"]
    /\ UNCHANGED <<attempts, active, queueVars, workerVars, histVars, again, faults>>

Catch(w) ==
    /\ Goto(w, "catch", "ack")
    /\ delivery' = [delivery EXCEPT ![job[w]] = IF RetriesRemain(read[w] + 1)
                                                THEN "retrying" ELSE "failed"]
    /\ attempts' = [attempts EXCEPT ![job[w]] = read[w] + 1]
    /\ UNCHANGED <<active, queueVars, workerVars, histVars, again, faults>>

\* Whatever came of it, a delivery that did not throw is acknowledged.
Ack(w) ==
    /\ Goto(w, "ack", "idle")
    /\ UNCHANGED <<rowVars, active, queueVars, workerVars, histVars, again, faults>>

\* A database error inside the try block is caught there, even after a 2xx.
GuardedThrows(w) ==
    /\ doing[w] \in {"update", "mark"} /\ Fault
    /\ doing' = [doing EXCEPT ![w] = "catch"]
    /\ UNCHANGED <<rowVars, active, queueVars, workerVars, histVars, again>>

\* Elsewhere it reaches the consumer, which retries the message.
Throws(w) ==
    /\ doing[w] \in {"find", "subscription", "inactive", "catch"}
    /\ Fault
    /\ doing' = [doing EXCEPT ![w] = "idle"]
    /\ queue' = [queue EXCEPT ![job[w]] = @ + 1]
    /\ again' = again \cup {job[w]}
    /\ UNCHANGED <<rowVars, active, sent, dispatching, workerVars, histVars>>

-----------------------------------------------------------------------------
(* The queue, and what else happens to a row *)

\* A worker is evicted: its message was not acknowledged and waits again.
Evict(w) ==
    /\ doing[w] \in Busy /\ Fault
    /\ doing' = [doing EXCEPT ![w] = "idle"]
    /\ queue' = [queue EXCEPT ![job[w]] = @ + 1]
    /\ again' = again \cup {job[w]}
    /\ UNCHANGED <<rowVars, active, sent, dispatching, workerVars, histVars>>

\* The queue promises a message at least once.
Duplicate(x) ==
    /\ x \in sent /\ Fault
    /\ queue' = [queue EXCEPT ![x] = @ + 1]
    /\ again' = again \cup {x}
    /\ UNCHANGED <<rowVars, active, sent, dispatching, doing, workerVars, histVars>>

\* redeliverWebhook resets the row, and enqueues nothing.
Redeliver(x) ==
    /\ delivery[x] \in Answered
    /\ delivery' = [delivery EXCEPT ![x] = "pending"]
    /\ UNCHANGED <<attempts, active, queueVars, doing, workerVars, histVars, again, faults>>

Deactivate(x) ==
    /\ x \in active
    /\ active' = active \ {x}
    /\ UNCHANGED <<rowVars, queueVars, doing, workerVars, histVars, again, faults>>

-----------------------------------------------------------------------------
DeliveriesInit ==
    /\ delivery = [x \in Deliveries |-> "absent"]
    /\ attempts = [x \in Deliveries |-> 0]
    /\ active = Deliveries
    /\ sent = {} /\ dispatching = TRUE
    /\ queue = [x \in Deliveries |-> 0]
    /\ doing = [w \in Workers |-> "idle"]
    /\ job \in [Workers -> Deliveries]
    /\ read = [w \in Workers |-> 0]
    /\ accepted = [w \in Workers |-> FALSE]
    /\ posts = [x \in Deliveries |-> 0]
    /\ received = [x \in Deliveries |-> 0]
    /\ again = {} /\ faults = 0

Dispatch == \E x \in Deliveries : CreateDelivery(x) \/ Send(x)

Handle(w) == \/ \E x \in Deliveries : Take(w, x)
             \/ FindDelivery(w) \/ FindSubscription(w) \/ MarkInactive(w)
             \/ \E ok \in BOOLEAN : Fetch(w, ok) \/ FetchThrows(w, ok)
             \/ Update(w) \/ MarkRetrying(w) \/ Catch(w) \/ Ack(w)

Fail == \/ DispatchCut
        \/ \E w \in Workers : GuardedThrows(w) \/ Throws(w) \/ Evict(w)
        \/ \E x \in Deliveries : Duplicate(x)

DeliveriesNext ==
    \/ Dispatch
    \/ \E w \in Workers : Handle(w)
    \/ Fail
    \/ \E x \in Deliveries : Redeliver(x) \/ Deactivate(x)

\* The platform runs the dispatcher and keeps handing out messages.
DeliveriesSpec ==
    /\ DeliveriesInit /\ [][DeliveriesNext]_deliveryVars
    /\ WF_deliveryVars(Dispatch) /\ \A w \in Workers : WF_deliveryVars(Handle(w))

-----------------------------------------------------------------------------
DeliveriesTypeOK ==
    /\ delivery \in [Deliveries -> Answered \cup {"absent", "pending"}]
    /\ attempts \in [Deliveries -> Nat]
    /\ active \subseteq Deliveries /\ sent \subseteq Deliveries
    /\ dispatching \in BOOLEAN
    /\ queue \in [Deliveries -> Nat]
    /\ doing \in [Workers -> {"idle"} \cup Busy]
    /\ job \in [Workers -> Deliveries]
    /\ read \in [Workers -> Nat]
    /\ accepted \in [Workers -> BOOLEAN]
    /\ posts \in [Deliveries -> Nat] /\ received \in [Deliveries -> Nat]
    /\ again \subseteq Deliveries
    /\ faults \in 0..MaxFaults

\* A delivery is shown as delivered only if its endpoint accepted it, whichever
\* of the workers that handled it wrote last.
DeliveredWasReceived ==
    \A x \in Deliveries : delivery[x] = "delivered" => received[x] > 0

\* An endpoint gets an event twice only if the queue handed its message out
\* twice: neither a failure nor a reset by itself leads to a second request.
ReceivedTwiceOnlyIfTakenAgain ==
    \A x \in Deliveries : received[x] > 1 => x \in again

\* As long as no two workers had the same message and none was lost, the row
\* counts the requests made.
AttemptsArePosts ==
    \A x \in Deliveries :
        HandledBy(x) = {} /\ x \notin again => attempts[x] = posts[x]

\* A message sent leads to a request in the end, whatever fails on the way,
\* unless its subscription is deactivated first.
SentIsPosted ==
    \A x \in Deliveries : x \in sent ~> (posts[x] > 0 \/ x \notin active)
=============================================================================
