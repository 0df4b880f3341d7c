------------------------------ MODULE Payments ------------------------------
(***************************************************************************)
(* PaymentService (apps/api-edge/src/services/payment.service.ts) with the *)
(* D1 rows, the replay-protection KV keys and the ledger rows it writes,   *)
(* for payments that are one Tingg checkout (SplitCheckout has the rest).  *)
(*                                                                         *)
(* Every request is a Worker invocation with a program counter.  D1 is     *)
(* used without transactions and KV without compare-and-set, so each       *)
(* `await` of a handler is one step and requests interleave between them.  *)
(* pc[r] names the await that request r is about to perform.               *)
(***************************************************************************)
EXTENDS Naturals, FiniteSets

CONSTANTS
    Bookings,
    Payments,       \* ids of the payment rows checkouts may create
    BookingOf,      \* [Payments -> Bookings]: the booking an id is drawn for
    Strays,         \* merchant transactions of callbacks that have no row
    Checkouts,      \* requests to POST /payments/checkout
    Hooks,          \* requests to POST /webhooks/tingg/payment
    Pages,          \* requests to GET /payments/:id
    Desk,           \* cancellations and admin confirmations of a booking
    Recycled,       \* request slots that serve another request when done
    MaxAborts,      \* bound: requests cut short by an exception or eviction
    None            \* no payment

Requests == Checkouts \cup Hooks \cup Pages \cup Desk

ASSUME PaymentsAssumption ==
    /\ BookingOf \in [Payments -> Bookings]
    /\ Payments \cap Strays = {}
    /\ None \notin Payments \cup Strays \cup Bookings
    /\ Checkouts \cap (Hooks \cup Pages \cup Desk) = {}
    /\ Hooks \cap (Pages \cup Desk) = {}
    /\ Pages \cap Desk = {}
    /\ Recycled \subseteq Requests
    /\ MaxAborts \in Nat

VARIABLES
    booking,        \* bookings.status
    payment,        \* payments.status, "absent" before the row exists
    checkoutId,     \* rows whose tingg_checkout_request_id is set
    newest,         \* per booking, the row findByBookingId returns
    tingg,          \* what the provider knows of each checkout
    splitKey,       \* KV keys tingg_split_webhook:<merchantTransactionID>
    replayKey,      \* KV keys tingg_webhook:<checkoutRequestID>
    entries,        \* ledger_entries rows of type booking_payment
    lines,          \* of these, the ones whose ledger_entry_lines exist
    pc,             \* the await each request is about to perform
    subj,           \* the payment a request works on
    bk,             \* the booking a request works on
    status,         \* the outcome a request has been told or will write
    before,         \* history: the peers over before this one began
    aborts          \* requests cut short so far

dbVars == <<booking, payment, checkoutId, newest>>
kvVars == <<splitKey, replayKey>>
ledgerVars == <<entries, lines>>
localVars == <<subj, bk, status, before, aborts>>
vars == <<dbVars, tingg, kvVars, ledgerVars, pc, localVars>>

-----------------------------------------------------------------------------
BookingStatus == {"pending_payment", "paid", "confirmed", "cancelled"}
PaymentStatus == {"absent", "initiated", "processing", "succeeded", "failed"}
TinggStatus == {"none", "open", "collected", "declined"}

\* The ways a request is over: answered 200, answered "skipped", refused
\* with 409, answered 404, or cut short (5xx, or a Worker evicted).
Terminal == {"processed", "skipped", "refused", "missing", "aborted"}
Running == {"existing", "create", "call", "save",
            "split_get", "split_put", "split_find", "replay_get", "replay_put",
            "update", "book", "query", "settle", "post", "post_lines", "desk"}

\* The history is kept among callbacks and among checkouts.
Peers(q, r) == {q, r} \subseteq Checkouts \/ {q, r} \subseteq Hooks

FinishedPeers(r) == {q \in Requests : Peers(q, r) /\ pc[q] \in Terminal}

Goto(r, from, to) ==
    /\ pc[r] = from
    /\ pc' = [pc EXCEPT ![r] = to]

\* Request r arrives: its first awaits have run and the next one is `to`.
Begin(r, to, p, b, s) ==
    /\ Goto(r, "idle", to)
    /\ subj' = [subj EXCEPT ![r] = p]
    /\ bk' = [bk EXCEPT ![r] = b]
    /\ status' = [status EXCEPT ![r] = s]
    /\ before' = [before EXCEPT ![r] = FinishedPeers(r)]
    /\ UNCHANGED aborts

RowExists(p) == p \in Payments /\ payment[p] # "absent"

\* newPaymentStatus, from the requestStatus of the callback.
StatusFor(s) ==
    IF s = "SUCCESS" THEN "succeeded"
    ELSE IF s = "PENDING" THEN "processing" ELSE "failed"

-----------------------------------------------------------------------------
(* Variants: plausible bugs, one per property.  No action uses them; each    *)
(* shows that the property it is for would notice the bug.                   *)

\* Only a succeeded payment blocks another checkout of the booking.
InProgressIfPaid(b) == newest[b] # None /\ payment[newest[b]] = "succeeded"

\* A pending payment already pays its booking.
UpdatePaymentEarly(r) ==
    /\ RowExists(subj[r])
    /\ Goto(r, "update", IF status[r] = "FAILED" THEN "processed" ELSE "book")
    /\ payment' = [payment EXCEPT ![subj[r]] = StatusFor(status[r])]
    /\ UNCHANGED <<booking, checkoutId, newest, tingg, kvVars, ledgerVars,
                   localVars>>

\* A booking that is paid already has its payment in the ledger.
MarkBookingPaidOnce(r) ==
    /\ Goto(r, "book", IF booking[BookingOf[subj[r]]] = "paid"
                          THEN "processed" ELSE "post")
    /\ booking' = [booking EXCEPT ![BookingOf[subj[r]]] = "paid"]
    /\ UNCHANGED <<payment, checkoutId, newest, tingg, kvVars, ledgerVars,
                   localVars>>

\* Whatever is not paid yet counts as failed.
QueryStatusPessimist(r) ==
    /\ Goto(r, "query", "settle")
    /\ status' = [status EXCEPT ![r] =
                    IF tingg[subj[r]] = "collected" THEN "SUCCESS" ELSE "FAILED"]
    /\ UNCHANGED <<dbVars, tingg, kvVars, ledgerVars, subj, bk, before, aborts>>

\* The poll forgets the failed outcome.
SettleFromPollSuccess(r) ==
    /\ Goto(r, "settle", IF status[r] = "SUCCESS" THEN "post" ELSE "processed")
    /\ payment' = IF status[r] = "SUCCESS"
                  THEN [payment EXCEPT ![subj[r]] = "succeeded"] ELSE payment
    /\ UNCHANGED <<booking, checkoutId, newest, tingg, kvVars, ledgerVars,
                   localVars>>

\* The poll forgets the ledger.
SettleFromPollUnposted(r) ==
    /\ Goto(r, "settle", "processed")
    /\ payment' = [payment EXCEPT ![subj[r]] = StatusFor(status[r])]
    /\ UNCHANGED <<booking, checkoutId, newest, tingg, kvVars, ledgerVars,
                   localVars>>

-----------------------------------------------------------------------------
(* initiateCheckout *)

\* The booking is read and must be payable.
StartCheckout(r, b) ==
    /\ r \in Checkouts
    /\ booking[b] \in {"pending_payment", "confirmed"}
    /\ Begin(r, "existing", None, b, "none")
    /\ UNCHANGED <<dbVars, tingg, kvVars, ledgerVars>>

\* The newest payment of the booking blocks a new one only while it is
\* processing or succeeded.
InProgress(b) ==
    /\ newest[b] # None
    /\ payment[newest[b]] \in {"succeeded", "processing"}

CheckExisting(r) ==
    /\ Goto(r, "existing", IF InProgress(bk[r]) THEN "refused" ELSE "create")
    /\ UNCHANGED <<dbVars, tingg, kvVars, ledgerVars, localVars>>

CreatePayment(r) ==
    \E p \in Payments :
        /\ Goto(r, "create", "call")
        /\ BookingOf[p] = bk[r]
        /\ payment[p] = "absent"
        /\ payment' = [payment EXCEPT ![p] = "initiated"]
        /\ newest' = [newest EXCEPT ![bk[r]] = p]
        /\ subj' = [subj EXCEPT ![r] = p]
        /\ UNCHANGED <<booking, checkoutId, tingg, kvVars, ledgerVars,
                       bk, status, before, aborts>>

\* Tingg opens the checkout, or answers with a status other than SUCCESS.
CallTingg(r, answer) ==
    /\ Goto(r, "call", "save")
    /\ status' = [status EXCEPT ![r] = answer]
    /\ tingg' = IF answer = "SUCCESS" THEN [tingg EXCEPT ![subj[r]] = "open"]
                                      ELSE tingg
    /\ UNCHANGED <<dbVars, kvVars, ledgerVars, subj, bk, before, aborts>>

\* Tingg opens the checkout and the answer is lost: the handler throws.
LoseAnswer(r) ==
    /\ aborts < MaxAborts
    /\ Goto(r, "call", "aborted")
    /\ tingg' = [tingg EXCEPT ![subj[r]] = "open"]
    /\ aborts' = aborts + 1
    /\ UNCHANGED <<dbVars, kvVars, ledgerVars, subj, bk, status, before>>

SaveCheckout(r) ==
    /\ Goto(r, "save", "processed")
    /\ payment' = [payment EXCEPT ![subj[r]] =
                     IF status[r] = "SUCCESS" THEN "processing" ELSE "failed"]
    /\ checkoutId' = IF status[r] = "SUCCESS" THEN checkoutId \cup {subj[r]}
                                              ELSE checkoutId
    /\ UNCHANGED <<booking, newest, tingg, kvVars, ledgerVars, localVars>>

-----------------------------------------------------------------------------
(* The provider, as far as its API and callbacks show it *)

Settle(p, outcome) ==
    /\ tingg[p] = "open"
    /\ tingg' = [tingg EXCEPT ![p] = outcome]
    /\ UNCHANGED <<dbVars, kvVars, ledgerVars, pc, localVars>>

\* Callbacks Tingg may have sent.  They are lost, repeated, delayed and
\* reordered freely, so what was sent can arrive at any later time.
Sent(p) ==
    IF p \in Strays THEN {"SUCCESS"}
    ELSE {s \in {"PENDING", "SUCCESS", "FAILED"} :
            \/ s = "PENDING" /\ tingg[p] # "none"
            \/ s = "SUCCESS" /\ tingg[p] = "collected"
            \/ s = "FAILED" /\ tingg[p] = "declined"}

-----------------------------------------------------------------------------
(* POST /webhooks/tingg/payment: processSplitWebhook, then, for a callback *)
(* that belongs to no split, processCheckoutWebhook                        *)

Deliver(r, p, s) ==
    /\ r \in Hooks
    /\ s \in Sent(p)
    /\ Begin(r, "split_get", p, None, s)
    /\ UNCHANGED <<dbVars, tingg, kvVars, ledgerVars>>

SplitGet(r) ==
    /\ Goto(r, "split_get",
            IF subj[r] \in splitKey THEN "skipped" ELSE "split_put")
    /\ UNCHANGED <<dbVars, tingg, kvVars, ledgerVars, localVars>>

SplitPut(r) ==
    /\ Goto(r, "split_put", "split_find")
    /\ splitKey' = splitKey \cup {subj[r]}
    /\ UNCHANGED <<dbVars, tingg, replayKey, ledgerVars, localVars>>

\* No split has this merchant transaction: the key is taken back.
NotASplit(r) ==
    /\ Goto(r, "split_find", "replay_get")
    /\ splitKey' = splitKey \ {subj[r]}
    /\ UNCHANGED <<dbVars, tingg, replayKey, ledgerVars, localVars>>

ReplayGet(r) ==
    /\ Goto(r, "replay_get",
            IF subj[r] \in replayKey THEN "skipped" ELSE "replay_put")
    /\ UNCHANGED <<dbVars, tingg, kvVars, ledgerVars, localVars>>

ReplayPut(r) ==
    /\ Goto(r, "replay_put", "update")
    /\ replayKey' = replayKey \cup {subj[r]}
    /\ UNCHANGED <<dbVars, tingg, splitKey, ledgerVars, localVars>>

UnknownPayment(r) ==
    /\ ~RowExists(subj[r])
    /\ Goto(r, "update", "missing")
    /\ replayKey' = replayKey \ {subj[r]}
    /\ UNCHANGED <<dbVars, tingg, splitKey, ledgerVars, localVars>>

\* The row is overwritten whatever its status was.
UpdatePayment(r) ==
    /\ RowExists(subj[r])
    /\ Goto(r, "update", IF status[r] = "SUCCESS" THEN "book" ELSE "processed")
    /\ payment' = [payment EXCEPT ![subj[r]] = StatusFor(status[r])]
    /\ UNCHANGED <<booking, checkoutId, newest, tingg, kvVars, ledgerVars,
                   localVars>>

MarkBookingPaid(r) ==
    /\ Goto(r, "book", "post")
    /\ booking' = [booking EXCEPT ![BookingOf[subj[r]]] = "paid"]
    /\ UNCHANGED <<payment, checkoutId, newest, tingg, kvVars, ledgerVars,
                   localVars>>

-----------------------------------------------------------------------------
(* GET /payments/:id: getPaymentStatus polls Tingg for a processing row    *)

OpenPage(r, p) ==
    /\ r \in Pages
    /\ payment[p] = "processing"
    /\ p \in checkoutId
    /\ Begin(r, "query", p, None, "none")
    /\ UNCHANGED <<dbVars, tingg, kvVars, ledgerVars>>

QueryStatus(r) ==
    LET answer == tingg[subj[r]] IN
    /\ Goto(r, "query", IF answer = "open" THEN "processed" ELSE "settle")
    /\ status' = [status EXCEPT ![r] =
                    IF answer = "collected" THEN "SUCCESS" ELSE "FAILED"]
    /\ UNCHANGED <<dbVars, tingg, kvVars, ledgerVars, subj, bk, before, aborts>>

\* The poll settles the payment row and leaves the booking alone.
SettleFromPoll(r) ==
    /\ Goto(r, "settle", IF status[r] = "SUCCESS" THEN "post" ELSE "processed")
    /\ payment' = [payment EXCEPT ![subj[r]] = StatusFor(status[r])]
    /\ UNCHANGED <<booking, checkoutId, newest, tingg, kvVars, ledgerVars,
                   localVars>>

-----------------------------------------------------------------------------
(* LedgerService.postPaymentReceived: createEntry inserts the entry and    *)
(* its lines in two statements                                             *)

PostEntry(r) ==
    /\ Goto(r, "post", "post_lines")
    /\ entries' = [entries EXCEPT ![subj[r]] = @ + 1]
    /\ UNCHANGED <<dbVars, tingg, kvVars, lines, localVars>>

PostLines(r) ==
    /\ Goto(r, "post_lines", "processed")
    /\ lines' = [lines EXCEPT ![subj[r]] = @ + 1]
    /\ UNCHANGED <<dbVars, tingg, kvVars, entries, localVars>>

-----------------------------------------------------------------------------
(* BookingService.cancel and adminConfirm: a status check, then a write    *)
(* that does not look again                                                *)

MayBecome(target) ==
    IF target = "cancelled" THEN {"pending_payment", "paid", "confirmed"}
                            ELSE {"paid"}

StartDesk(r, b, target) ==
    /\ r \in Desk
    /\ booking[b] \in MayBecome(target)
    /\ Begin(r, "desk", None, b, target)
    /\ UNCHANGED <<dbVars, tingg, kvVars, ledgerVars>>

DeskWrite(r) ==
    /\ Goto(r, "desk", "processed")
    /\ booking' = [booking EXCEPT ![bk[r]] = status[r]]
    /\ UNCHANGED <<payment, checkoutId, newest, tingg, kvVars, ledgerVars,
                   localVars>>

-----------------------------------------------------------------------------
(* Failures, and the next request of a slot *)

\* The await throws before it takes effect, or the Worker is evicted.
Abort(r) ==
    /\ aborts < MaxAborts
    /\ pc[r] \in Running
    /\ pc' = [pc EXCEPT ![r] = "aborted"]
    /\ aborts' = aborts + 1
    /\ UNCHANGED <<dbVars, tingg, kvVars, ledgerVars, subj, bk, status, before>>

Recycle(r) ==
    /\ r \in Recycled
    /\ pc[r] \in Terminal
    /\ pc' = [pc EXCEPT ![r] = "idle"]
    /\ subj' = [subj EXCEPT ![r] = None]
    /\ bk' = [bk EXCEPT ![r] = None]
    /\ status' = [status EXCEPT ![r] = "none"]
    /\ before' = [q \in Requests |-> IF q = r THEN {} ELSE before[q] \ {r}]
    /\ UNCHANGED <<dbVars, tingg, kvVars, ledgerVars, aborts>>

-----------------------------------------------------------------------------
Init ==
    /\ booking = [b \in Bookings |-> "pending_payment"]
    /\ payment = [p \in Payments |-> "absent"]
    /\ checkoutId = {}
    /\ newest = [b \in Bookings |-> None]
    /\ tingg = [p \in Payments |-> "none"]
    /\ splitKey = {}
    /\ replayKey = {}
    /\ entries = [p \in Payments |-> 0]
    /\ lines = [p \in Payments |-> 0]
    /\ pc = [r \in Requests |-> "idle"]
    /\ subj = [r \in Requests |-> None]
    /\ bk = [r \in Requests |-> None]
    /\ status = [r \in Requests |-> "none"]
    /\ before = [r \in Requests |-> {}]
    /\ aborts = 0

CheckoutStep(r) ==
    \/ CheckExisting(r) \/ CreatePayment(r) \/ SaveCheckout(r)
    \/ \E answer \in {"SUCCESS", "FAILED"} : CallTingg(r, answer)

HookStep(r) ==
    \/ SplitGet(r) \/ SplitPut(r) \/ NotASplit(r)
    \/ ReplayGet(r) \/ ReplayPut(r)
    \/ UnknownPayment(r) \/ UpdatePayment(r) \/ MarkBookingPaid(r)

PageStep(r) == QueryStatus(r) \/ SettleFromPoll(r)

\* What the platform does with a request it has accepted.
Step(r) ==
    \/ CheckoutStep(r) \/ HookStep(r) \/ PageStep(r) \/ DeskWrite(r)
    \/ PostEntry(r) \/ PostLines(r)

\* What customers, staff and the provider may ask for.
Arrive(r) ==
    \/ \E b \in Bookings : StartCheckout(r, b)
    \/ \E p \in Payments \cup Strays, s \in {"PENDING", "SUCCESS", "FAILED"} :
           Deliver(r, p, s)
    \/ \E p \in Payments : OpenPage(r, p)
    \/ \E b \in Bookings, target \in {"cancelled", "confirmed"} :
           StartDesk(r, b, target)

Next ==
    \/ \E r \in Requests :
         Arrive(r) \/ Step(r) \/ LoseAnswer(r) \/ Abort(r) \/ Recycle(r)
    \/ \E p \in Payments, outcome \in {"collected", "declined"} :
         Settle(p, outcome)

Spec == Init /\ [][Next]_vars

\* The platform runs what it has accepted, and the checkout page asks for a
\* processing payment every few seconds for as long as it is open
\* (PaymentStatus.tsx).  Slots are an artefact of the model, so a page that
\* waits for one again and again gets one: strong fairness.
RequestsRun == \A r \in Requests : WF_vars(Step(r)) /\ WF_vars(Recycle(r))

PagesPoll == \A p \in Payments : SF_vars(\E r \in Pages : OpenPage(r, p))

PolledSpec == Spec /\ RequestsRun /\ PagesPoll

-----------------------------------------------------------------------------
(* Type invariant *)

\* Every row, key and request local holds a value the code can put there.
TypeOK ==
    /\ booking \in [Bookings -> BookingStatus]
    /\ payment \in [Payments -> PaymentStatus]
    /\ checkoutId \subseteq Payments
    /\ newest \in [Bookings -> Payments \cup {None}]
    /\ tingg \in [Payments -> TinggStatus]
    /\ splitKey \subseteq Payments \cup Strays
    /\ replayKey \subseteq Payments \cup Strays
    /\ entries \in [Payments -> Nat]
    /\ lines \in [Payments -> Nat]
    /\ pc \in [Requests -> {"idle"} \cup Running \cup Terminal]
    /\ subj \in [Requests -> Payments \cup Strays \cup {None}]
    /\ bk \in [Requests -> Bookings \cup {None}]
    /\ status \in [Requests -> {"none", "PENDING", "SUCCESS", "FAILED",
                                "cancelled", "confirmed"}]
    /\ before \in [Requests -> SUBSET Requests]
    /\ aborts \in 0..MaxAborts

-----------------------------------------------------------------------------
(* Safety *)

Collected == {p \in Payments : tingg[p] = "collected"}

CollectedFor(b) == {p \in Collected : BookingOf[p] = b}

\* Whatever the interleaving of callbacks, polls and the checkout's own last
\* write, a payment row is succeeded, or credited in the ledger, only if the
\* provider collected its money (processCheckoutWebhook, getPaymentStatus).
RecordedOnlyIfCollected ==
    \A p \in Payments :
        payment[p] = "succeeded" \/ entries[p] > 0 => p \in Collected

\* A booking is paid or confirmed only if the provider collected a payment of
\* that booking, although its status is written by handlers that checked it
\* some awaits earlier (updateStatus, cancel, adminConfirm).
PaidOnlyIfCollected ==
    \A b \in Bookings :
        booking[b] \in {"paid", "confirmed"} => CollectedFor(b) # {}

\* Two requests overlap if neither was over when the other began.
Overlap(q, r) ==
    /\ q # r
    /\ pc[q] # "idle" /\ pc[r] # "idle"
    /\ q \notin before[r] /\ r \notin before[q]

\* A SUCCESS callback answered 200, processed or skipped as a duplicate, is in
\* the ledger, or a request that still runs or was cut short has its key, or
\* the key went to a callback that was not the final one.
AckedSuccessIsRecorded ==
    \A h \in Hooks :
        /\ pc[h] \in {"processed", "skipped"}
        /\ status[h] = "SUCCESS" /\ subj[h] \in Payments
        => \/ lines[subj[h]] > 0
           \/ \E g \in Hooks \ {h} :
                /\ subj[g] = subj[h]
                /\ \/ pc[g] \in Running \cup {"aborted"}
                   \/ pc[g] = "processed" /\ status[g] # "SUCCESS"

\* A booking is charged twice only if two of its checkouts overlapped, or one
\* was cut short and left its row initiated: the in-progress check of
\* initiateCheckout covers every sequence of completed checkouts.
ChargedTwiceOnlyOnOverlap ==
    \A p, q \in Collected :
        p # q /\ BookingOf[p] = BookingOf[q]
        => \E r \in Checkouts :
             /\ bk[r] = BookingOf[p]
             /\ \/ pc[r] = "aborted"
                \/ \E s \in Checkouts : bk[s] = bk[r] /\ Overlap(r, s)

\* A payment row never goes from one final status to the other: a poll and a
\* callback may both settle it, in any order, but they agree.
NeverContradicted ==
    [][\A p \in Payments :
         {payment[p], payment'[p]} # {"succeeded", "failed"}]_vars

\* Bookings that count as paid for.
Cleared == {b \in Bookings : booking[b] \in {"paid", "confirmed"}}

Abstract ==
    INSTANCE Collections WITH
        collected <- Collected,
        recorded <- entries,
        cleared <- Cleared

\* The payment side implements its abstract promise, Collections: money is
\* collected first, and only collected money is recorded or clears a booking.
CollectionsSpec == Abstract!Spec

-----------------------------------------------------------------------------
(* Liveness *)

Settleable(p) ==
    /\ payment[p] = "processing" /\ p \in checkoutId
    /\ tingg[p] \in {"collected", "declined"}

\* While the customer's page polls, a row in processing whose checkout Tingg
\* has settled gets its final status, however requests are cut short.
ProcessingIsSettled ==
    \A p \in Payments : Settleable(p) ~> payment[p] \in {"succeeded", "failed"}

\* While the page polls, money collected for a checkout whose id was saved
\* reaches the ledger, unless a request was cut short.
CollectedIsRecorded ==
    \A p \in Payments :
        p \in Collected /\ p \in checkoutId ~> lines[p] > 0 \/ aborts > 0
=============================================================================
