------------------------------- MODULE Payouts ------------------------------
(***************************************************************************)
(* PayoutService (apps/api-edge/src/services/payout.service.ts): provider  *)
(* payouts through Tingg, their approval, retry and webhook, and the       *)
(* ledger entries they leave, for one provider.                            *)
(*                                                                         *)
(* A payout is identified by its idempotency key, which its row's unique   *)
(* index allows once and which is the merchantRef Tingg is given.  As in   *)
(* Payments, each await of a request is a step.                            *)
(***************************************************************************)
EXTENDS Naturals, Sequences, FiniteSets

CONSTANTS
    Bookings,       \* bookings of the provider
    Keys,           \* idempotency keys
    Threshold,      \* PAYOUT_APPROVAL_THRESHOLD, in bookings of equal worth
    Runs,           \* runPayout requests
    Dispatches,     \* dispatchPayout requests
    Retries,        \* retryPayout requests
    Approvals,      \* approvePayout requests
    Hooks,          \* requests to POST /webhooks/tingg/payout
    MaxPosts,       \* bound: payments Tingg accepts for a key
    MaxFaults       \* bound: exceptions and evictions

Dispatchers == Runs \cup Dispatches \cup Retries \cup Approvals
Requests == Dispatchers \cup Hooks

ASSUME PayoutsAssumption ==
    /\ IsFiniteSet(Bookings) /\ Keys # {}
    /\ Threshold \in Nat /\ MaxPosts \in Nat /\ MaxFaults \in Nat
    /\ Dispatchers \cap Hooks = {}

VARIABLES
    due,            \* bookings findEligibleForPayout returns
    payout,         \* payouts.status, "absent" before the row exists
    batch,          \* the bookings whose worth is the row's amount
    links,          \* payout_booking_links
    approved,       \* rows with approvedBy set
    ref,            \* tingg_payment_ref: which of the posts, 0 for null
    posts,          \* the payments Tingg accepted for a key, with their fate
    replayKey,      \* KV keys tingg_payout_webhook:<paymentRef>
    issued,         \* ledger entries of type payout_issuance
    unwound,        \* ledger entries of type payout_failure_unwind
    pc,             \* the await a request is about to perform
    key,            \* the payout a request is about
    post,           \* the Tingg payment a request is about, 0 for none
    status,         \* the outcome a callback reports
    seen,           \* the eligible bookings a run has read
    overlapped,     \* history: keys two requests were dispatching at once
    doubt,          \* history: keys that looked failed while Tingg had the money
    faults          \* exceptions and evictions so far

rowVars == <<payout, batch, links, approved, ref>>
bookVars == <<due, issued, unwound>>
provVars == <<posts, doubt>>
localVars == <<key, post, status, seen, overlapped>>
vars == <<rowVars, bookVars, provVars, replayKey, pc, localVars, faults>>

-----------------------------------------------------------------------------
PayoutStatus == {"absent", "on_hold", "pending", "processing", "succeeded", "failed"}
Fates == {"open", "sent", "declined"}
Reports == {"PENDING", "SUCCESS", "FAILED"}

Terminal == {"processed", "skipped", "refused", "missing", "failed", "aborted"}
Running == {"eligible", "create", "link", "reset", "approve", "load", "claim", "call",
            "save", "post", "fail", "unwind", "get", "put", "find", "update"}

\* Awaits inside the try block of dispatchPayout.
Guarded == {"call", "save", "post"}

Goto(r, from, to) ==
    /\ pc[r] = from
    /\ pc' = [pc EXCEPT ![r] = to]

Begin(r, to, k) ==
    /\ Goto(r, "idle", to)
    /\ key' = [key EXCEPT ![r] = k]
    /\ overlapped' =
         IF r \in Dispatchers /\ \E q \in Dispatchers : key[q] = k /\ pc[q] \in Running
         THEN overlapped \cup {k} ELSE overlapped

\* Payments of a key that Tingg holds or has sent.
Live(k) == {n \in DOMAIN posts[k] : posts[k][n] # "declined"}

\* History: a step has left a failed row whose money Tingg has.
NoteDoubt(k) ==
    doubt' = IF payout'[k] = "failed" /\ Live(k)' # {} THEN doubt \cup {k} ELSE doubt

NeedsApproval(b) == Cardinality(b) > Threshold

-----------------------------------------------------------------------------
(* Variants: plausible bugs, one per property.  No action uses them.        *)

\* A retry does not look at the payout's status.
StartRetryAny(r, k) ==
    /\ r \in Retries
    /\ payout[k] \notin {"absent", "on_hold"}
    /\ Begin(r, "reset", k)
    /\ UNCHANGED <<rowVars, bookVars, provVars, replayKey, post, status, seen, faults>>

\* Whatever has not failed has succeeded.
StatusForOptimist(s) == IF s = "FAILED" THEN "failed" ELSE "succeeded"

\* The bookings are linked after the payout has been dispatched.
LinkBookingsLate(r) ==
    /\ Goto(r, "link", IF NeedsApproval(seen[r]) THEN "processed" ELSE "load")
    /\ UNCHANGED <<rowVars, bookVars, provVars, replayKey, localVars, faults>>

-----------------------------------------------------------------------------
(* runPayout *)

\* The service date of a paid or confirmed booking passes, or a booking that is
\* due is cancelled, refunded or answered by the provider.  Payouts themselves
\* take no booking out of what is due.
DueChanges(b) ==
    /\ due' = IF b \in due THEN due \ {b} ELSE due \cup {b}
    /\ UNCHANGED <<rowVars, issued, unwound, provVars, replayKey, pc, localVars, faults>>

\* No payout has this key yet, and the provider has a default account.
StartRun(r, k) ==
    /\ r \in Runs
    /\ payout[k] = "absent"
    /\ Begin(r, "eligible", k)
    /\ UNCHANGED <<rowVars, bookVars, provVars, replayKey, post, status, seen, faults>>

ReadEligible(r) ==
    /\ Goto(r, "eligible", IF due = {} THEN "refused" ELSE "create")
    /\ seen' = [seen EXCEPT ![r] = due]
    /\ UNCHANGED <<rowVars, bookVars, provVars, replayKey, key, post, status,
                   overlapped, faults>>

CreatePayout(r) ==
    LET k == key[r] IN
    /\ payout[k] = "absent"
    /\ Goto(r, "create", "link")
    /\ payout' = [payout EXCEPT ![k] =
                    IF NeedsApproval(seen[r]) THEN "on_hold" ELSE "pending"]
    /\ batch' = [batch EXCEPT ![k] = seen[r]]
    /\ UNCHANGED <<links, approved, ref, bookVars, provVars, replayKey, localVars, faults>>

\* The unique index on the idempotency key refuses a second row.
CreateRefused(r) ==
    /\ payout[key[r]] # "absent"
    /\ Goto(r, "create", "failed")
    /\ UNCHANGED <<rowVars, bookVars, provVars, replayKey, localVars, faults>>

LinkBookings(r) ==
    /\ Goto(r, "link", IF NeedsApproval(seen[r]) THEN "processed" ELSE "load")
    /\ links' = [links EXCEPT ![key[r]] = seen[r]]
    /\ UNCHANGED <<payout, batch, approved, ref, bookVars, provVars, replayKey,
                   localVars, faults>>

-----------------------------------------------------------------------------
(* dispatchPayout, by itself or at the end of runPayout, retryPayout and    *)
(* approvePayout                                                            *)

StartDispatch(r, k) ==
    /\ r \in Dispatches
    /\ payout[k] # "absent"
    /\ Begin(r, "load", k)
    /\ UNCHANGED <<rowVars, bookVars, provVars, replayKey, post, status, seen, faults>>

Load(r) ==
    /\ Goto(r, "load", IF payout[key[r]] = "pending" THEN "claim" ELSE "refused")
    /\ UNCHANGED <<rowVars, bookVars, provVars, replayKey, localVars, faults>>

Claim(r) ==
    /\ Goto(r, "claim", "call")
    /\ payout' = [payout EXCEPT ![key[r]] = "processing"]
    /\ UNCHANGED <<batch, links, approved, ref, bookVars, provVars, replayKey,
                   localVars, faults>>

\* Tingg accepts the payment and answers with its paymentRef.
PostAccepted(r) ==
    LET k == key[r] IN
    /\ Len(posts[k]) < MaxPosts
    /\ Goto(r, "call", "save")
    /\ posts' = [posts EXCEPT ![k] = Append(@, "open")]
    /\ post' = [post EXCEPT ![r] = Len(posts[k]) + 1]
    /\ UNCHANGED <<rowVars, bookVars, replayKey, key, status, seen, overlapped, faults>>
    /\ NoteDoubt(k)

\* Tingg knows this merchantRef and answers with the payment it has, or it
\* answers 200 with a refusal and no paymentRef, which nobody looks at.
PostNotAccepted(r) ==
    /\ Goto(r, "call", "save")
    /\ \E n \in {0} \cup DOMAIN posts[key[r]] : post' = [post EXCEPT ![r] = n]
    /\ UNCHANGED <<rowVars, bookVars, provVars, replayKey, key, status, seen,
                   overlapped, faults>>

\* Tingg accepts but answers 5xx, or not at all: the HTTP client posts again.
PostRepeated(r) ==
    LET k == key[r] IN
    /\ pc[r] = "call"
    /\ faults < MaxFaults
    /\ Len(posts[k]) < MaxPosts
    /\ faults' = faults + 1
    /\ posts' = [posts EXCEPT ![k] = Append(@, "open")]
    /\ doubt' = doubt \cup {k}
    /\ UNCHANGED <<rowVars, bookVars, replayKey, pc, localVars>>

SavePost(r) ==
    /\ Goto(r, "save", "post")
    /\ payout' = [payout EXCEPT ![key[r]] = "processing"]
    /\ ref' = [ref EXCEPT ![key[r]] = post[r]]
    /\ UNCHANGED <<batch, links, approved, bookVars, provVars, replayKey,
                   localVars, faults>>

PostIssuance(r) ==
    /\ Goto(r, "post", "processed")
    /\ issued' = [issued EXCEPT ![key[r]] = @ + 1]
    /\ UNCHANGED <<rowVars, due, unwound, provVars, replayKey, localVars, faults>>

\* The try block throws; of the call, Tingg may have accepted it all the same.
Throw(r) ==
    /\ faults < MaxFaults
    /\ pc[r] \in Guarded
    /\ pc' = [pc EXCEPT ![r] = "fail"]
    /\ faults' = faults + 1
    /\ \/ UNCHANGED posts
       \/ /\ pc[r] = "call" /\ Len(posts[key[r]]) < MaxPosts
          /\ posts' = [posts EXCEPT ![key[r]] = Append(@, "open")]
    /\ UNCHANGED <<rowVars, bookVars, replayKey, localVars>>
    /\ NoteDoubt(key[r])

MarkFailed(r) ==
    /\ Goto(r, "fail", "unwind")
    /\ payout' = [payout EXCEPT ![key[r]] = "failed"]
    /\ UNCHANGED <<batch, links, approved, ref, bookVars, posts, replayKey,
                   localVars, faults>>
    /\ NoteDoubt(key[r])

Unwind(r) ==
    /\ Goto(r, "unwind", IF r \in Hooks THEN "processed" ELSE "failed")
    /\ unwound' = [unwound EXCEPT ![key[r]] = @ + 1]
    /\ UNCHANGED <<rowVars, due, issued, provVars, replayKey, localVars, faults>>

-----------------------------------------------------------------------------
(* retryPayout and approvePayout: a status check, then a write that does    *)
(* not look again                                                           *)

StartRetry(r, k) ==
    /\ r \in Retries
    /\ payout[k] = "failed"
    /\ Begin(r, "reset", k)
    /\ UNCHANGED <<rowVars, bookVars, provVars, replayKey, post, status, seen, faults>>

Reset(r) ==
    /\ Goto(r, "reset", "load")
    /\ payout' = [payout EXCEPT ![key[r]] = "pending"]
    /\ UNCHANGED <<batch, links, approved, ref, bookVars, provVars, replayKey,
                   localVars, faults>>

StartApprove(r, k) ==
    /\ r \in Approvals
    /\ payout[k] = "on_hold"
    /\ Begin(r, "approve", k)
    /\ UNCHANGED <<rowVars, bookVars, provVars, replayKey, post, status, seen, faults>>

Approve(r) ==
    /\ Goto(r, "approve", "load")
    /\ payout' = [payout EXCEPT ![key[r]] = "pending"]
    /\ approved' = approved \cup {key[r]}
    /\ UNCHANGED <<batch, links, ref, bookVars, provVars, replayKey, localVars, faults>>

-----------------------------------------------------------------------------
(* Tingg, and processPayoutWebhook *)

Settle(k, n, fate) ==
    /\ n \in DOMAIN posts[k] /\ posts[k][n] = "open"
    /\ posts' = [posts EXCEPT ![k][n] = fate]
    /\ UNCHANGED <<rowVars, bookVars, doubt, replayKey, pc, localVars, faults>>

\* Callbacks are lost, repeated, delayed and reordered.
Sent(k, n) == {s \in Reports :
                 \/ s = "PENDING"
                 \/ s = "SUCCESS" /\ posts[k][n] = "sent"
                 \/ s = "FAILED" /\ posts[k][n] = "declined"}

Deliver(h, k, n, s) ==
    /\ h \in Hooks
    /\ n \in DOMAIN posts[k]
    /\ s \in Sent(k, n)
    /\ Begin(h, "get", k)
    /\ post' = [post EXCEPT ![h] = n]
    /\ status' = [status EXCEPT ![h] = s]
    /\ UNCHANGED <<rowVars, bookVars, provVars, replayKey, seen, faults>>

PaymentRef(h) == <<key[h], post[h]>>

Get(h) ==
    /\ Goto(h, "get", IF PaymentRef(h) \in replayKey THEN "skipped" ELSE "put")
    /\ UNCHANGED <<rowVars, bookVars, provVars, replayKey, localVars, faults>>

Put(h) ==
    /\ Goto(h, "put", "find")
    /\ replayKey' = replayKey \cup {PaymentRef(h)}
    /\ UNCHANGED <<rowVars, bookVars, provVars, localVars, faults>>

\* findByTinggPaymentRef: no row has this reference yet, or any more.
FindPayout(h) ==
    /\ ref[key[h]] = post[h]
    /\ Goto(h, "find", "update")
    /\ UNCHANGED <<rowVars, bookVars, provVars, replayKey, localVars, faults>>

UnknownPayout(h) ==
    /\ ref[key[h]] # post[h]
    /\ Goto(h, "find", "missing")
    /\ replayKey' = replayKey \ {PaymentRef(h)}
    /\ UNCHANGED <<rowVars, bookVars, provVars, localVars, faults>>

StatusFor(s) ==
    IF s = "SUCCESS" THEN "succeeded"
    ELSE IF s = "FAILED" THEN "failed" ELSE "processing"

UpdatePayout(h) ==
    LET k == key[h] IN
    /\ Goto(h, "update", IF status[h] = "FAILED" THEN "unwind" ELSE "processed")
    /\ payout' = [payout EXCEPT ![k] = StatusFor(status[h])]
    /\ UNCHANGED <<batch, links, approved, ref, bookVars, posts, replayKey,
                   localVars, faults>>
    /\ NoteDoubt(k)

\* The Worker is evicted, or an await outside the try block throws.
Evict(r) ==
    /\ faults < MaxFaults
    /\ pc[r] \in Running
    /\ pc' = [pc EXCEPT ![r] = "aborted"]
    /\ faults' = faults + 1
    /\ UNCHANGED <<rowVars, bookVars, provVars, replayKey, localVars>>

-----------------------------------------------------------------------------
Init ==
    /\ due = {}
    /\ payout = [k \in Keys |-> "absent"]
    /\ batch = [k \in Keys |-> {}]
    /\ links = [k \in Keys |-> {}]
    /\ approved = {}
    /\ ref = [k \in Keys |-> 0]
    /\ posts = [k \in Keys |-> <<>>]
    /\ replayKey = {}
    /\ issued = [k \in Keys |-> 0]
    /\ unwound = [k \in Keys |-> 0]
    /\ pc = [r \in Requests |-> "idle"]
    /\ key = [r \in Requests |-> CHOOSE k \in Keys : TRUE]
    /\ post = [r \in Requests |-> 0]
    /\ status = [r \in Requests |-> "PENDING"]
    /\ seen = [r \in Requests |-> {}]
    /\ overlapped = {}
    /\ doubt = {}
    /\ faults = 0

Arrive(r, k) ==
    \/ StartRun(r, k) \/ StartDispatch(r, k) \/ StartRetry(r, k) \/ StartApprove(r, k)
    \/ \E n \in 1 .. MaxPosts, s \in Reports : Deliver(r, k, n, s)

RunStep(r) == ReadEligible(r) \/ CreatePayout(r) \/ CreateRefused(r) \/ LinkBookings(r)

DispatchStep(r) ==
    \/ Load(r) \/ Claim(r) \/ PostAccepted(r) \/ PostNotAccepted(r) \/ PostRepeated(r)
    \/ SavePost(r) \/ PostIssuance(r) \/ Throw(r) \/ MarkFailed(r) \/ Unwind(r)

HookStep(r) == Get(r) \/ Put(r) \/ FindPayout(r) \/ UnknownPayout(r) \/ UpdatePayout(r)

Next ==
    \/ \E r \in Requests :
         \/ \E k \in Keys : Arrive(r, k)
         \/ RunStep(r) \/ DispatchStep(r) \/ Reset(r) \/ Approve(r)
         \/ HookStep(r) \/ Evict(r)
    \/ \E b \in Bookings : DueChanges(b)
    \/ \E k \in Keys, n \in 1 .. MaxPosts, fate \in {"sent", "declined"} :
         Settle(k, n, fate)

Spec == Init /\ [][Next]_vars

-----------------------------------------------------------------------------
(* Type invariant *)

\* Every row, key and request local holds a value the code can put there.
TypeOK ==
    /\ due \subseteq Bookings
    /\ payout \in [Keys -> PayoutStatus]
    /\ batch \in [Keys -> SUBSET Bookings]
    /\ links \in [Keys -> SUBSET Bookings]
    /\ approved \subseteq Keys
    /\ ref \in [Keys -> Nat]
    /\ posts \in [Keys -> Seq(Fates)]
    /\ replayKey \subseteq Keys \X Nat
    /\ issued \in [Keys -> Nat]
    /\ unwound \in [Keys -> Nat]
    /\ pc \in [Requests -> {"idle"} \cup Running \cup Terminal]
    /\ key \in [Requests -> Keys]
    /\ post \in [Requests -> Nat]
    /\ status \in [Requests -> Reports]
    /\ seen \in [Requests -> SUBSET Bookings]
    /\ overlapped \subseteq Keys
    /\ doubt \subseteq Keys
    /\ faults \in 0 .. MaxFaults

-----------------------------------------------------------------------------
(* Safety *)

\* A payout above the threshold reaches Tingg only after approvePayout, though
\* dispatch, retry and the webhook all write its status without looking.
LargeNeedsApproval ==
    \A k \in Keys :
        posts[k] # <<>> /\ NeedsApproval(batch[k]) => k \in approved

\* The provider gets the money of one payout twice only if two requests that
\* dispatch it overlapped, or Tingg had accepted it while its row was failed, as
\* a late callback of an earlier attempt can make it, or while the HTTP client
\* had given up on the answer.
SentTwiceOnlyInDoubt ==
    \A k \in Keys :
        Cardinality(Live(k)) > 1 => k \in doubt \cup overlapped

\* A payout is succeeded only if Tingg sent one of its payments.
SucceededOnlyIfSent ==
    \A k \in Keys :
        payout[k] = "succeeded" => \E n \in DOMAIN posts[k] : posts[k][n] = "sent"

\* What reaches Tingg is linked to the bookings it pays for, unless the run
\* that links them is still on its way or was cut short between its inserts.
SentIsLinked ==
    \A k \in Keys :
        posts[k] # <<>> =>
            \/ links[k] = batch[k]
            \/ \E r \in Runs : key[r] = k /\ pc[r] \in {"link", "aborted"}
=============================================================================
