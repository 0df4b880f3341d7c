------------------------------- MODULE Refunds ------------------------------
(***************************************************************************)
(* RefundService (apps/api-edge/src/services/refund.service.ts): refunds   *)
(* of one succeeded payment, their approval, Tingg's part in them, and the *)
(* statuses and ledger entries they leave.                                 *)
(*                                                                         *)
(* A refund is named after the request that creates it.  As in Payments,   *)
(* each await of a request is a step.                                      *)
(***************************************************************************)
EXTENDS Naturals, FiniteSets, FiniteSetsExt

CONSTANTS
    Asks,           \* requests to POST /refunds
    Approvals,      \* requests to POST /refunds/:refundId/approve
    Paid,           \* payments.amount
    Threshold,      \* REFUND_APPROVAL_THRESHOLD
    MaxPosts,       \* bound: refunds Tingg accepts under one reference
    MaxFaults       \* bound: exceptions and evictions

Requests == Asks \cup Approvals

ASSUME RefundsAssumption ==
    /\ IsFiniteSet(Asks) /\ Asks # {} /\ Asks \cap Approvals = {}
    /\ Paid \in Nat \ {0}
    /\ Threshold \in Nat /\ MaxPosts \in Nat /\ MaxFaults \in Nat

VARIABLES
    payment,        \* payments.status, once it is succeeded
    booking,        \* bookings.status
    refund,         \* refunds.status, "absent" before the row exists
    amount,         \* refunds.amount
    approved,       \* refunds with approvedBy set
    posts,          \* how often Tingg accepted each refund
    issued,         \* ledger entries of type refund_issuance
    pc,             \* the await a request is about to perform
    key,            \* the refund a request is about
    total,          \* totalRefunded, as a request has read it
    answered,       \* history: refunds whose call to Tingg returned
    doubt,          \* history: refunds the HTTP client posted again
    overlapped,     \* history: refunds two approvals handled at once
    crossed,        \* history: whether two requests processed refunds at once
    faults          \* exceptions and evictions so far

statusVars == <<payment, booking>>
rowVars == <<refund, amount, approved>>
histVars == <<answered, doubt, overlapped, crossed>>
vars == <<statusVars, rowVars, posts, issued, pc, key, total, histVars, faults>>

-----------------------------------------------------------------------------
Settled == {"succeeded", "partially_refunded", "refunded"}
RefundStatus == {"absent", "pending_approval", "approved", "processing",
                 "succeeded", "failed"}

\* Awaits inside the try block of processApprovedRefund.
Guarded == {"call", "succeed", "post", "total", "update", "book"}
Processing == Guarded \cup {"fail"}
Running == {"create", "items", "approve", "process"} \cup Processing
Terminal == {"processed", "failed", "aborted"}

Goto(r, from, to) ==
    /\ pc[r] = from
    /\ pc' = [pc EXCEPT ![r] = to]

NeedsApproval(a) == a > Threshold

Sum(S) == MapThenSumSet(LAMBDA k : amount[k], S)

Succeeded == {k \in Asks : refund[k] = "succeeded"}

\* The status of a payment, and of its booking, of which n has been refunded.
StatusFor(n) == IF n >= Paid THEN "refunded" ELSE "partially_refunded"

-----------------------------------------------------------------------------
(* Variants: plausible bugs, one per property.  No action uses them.        *)

\* Any refund that exists can be approved.
StartApprovalAny(r, k) ==
    /\ r \in Approvals
    /\ refund[k] # "absent"
    /\ Goto(r, "idle", "approve")
    /\ key' = [key EXCEPT ![r] = k]
    /\ UNCHANGED <<statusVars, rowVars, posts, issued, total, histVars, faults>>

\* Every refund that has not failed counts.
ReadTotalOpen(r) ==
    /\ Goto(r, "total", "update")
    /\ total' = [total EXCEPT ![r] = Sum({k \in Asks : refund[k] # "failed"})]
    /\ UNCHANGED <<statusVars, rowVars, posts, issued, key, histVars, faults>>

\* A booking that shows a refund is left as it is.
UpdateBookingOnce(r) ==
    /\ Goto(r, "book", "processed")
    /\ booking' = IF booking = "paid" THEN StatusFor(total[r]) ELSE booking
    /\ UNCHANGED <<payment, rowVars, posts, issued, key, total, histVars, faults>>

-----------------------------------------------------------------------------
(* requestRefund *)

\* The payment is refundable, and its amount covers this refund by itself.
StartRefund(r, a) ==
    /\ r \in Asks
    /\ payment \in {"succeeded", "partially_refunded"}
    /\ a <= Paid
    /\ Goto(r, "idle", "create")
    /\ key' = [key EXCEPT ![r] = r]
    /\ amount' = [amount EXCEPT ![r] = a]
    /\ UNCHANGED <<statusVars, refund, approved, posts, issued, total, histVars, faults>>

CreateRefund(r) ==
    /\ Goto(r, "create", "items")
    /\ refund' = [refund EXCEPT ![r] =
                    IF NeedsApproval(amount[r]) THEN "pending_approval" ELSE "approved"]
    /\ UNCHANGED <<statusVars, amount, approved, posts, issued, key, total,
                   histVars, faults>>

CreateItems(r) ==
    /\ Goto(r, "items", IF NeedsApproval(amount[r]) THEN "processed" ELSE "process")
    /\ UNCHANGED <<statusVars, rowVars, posts, issued, key, total, histVars, faults>>

-----------------------------------------------------------------------------
(* approveRefund: a status check, then a write that does not look again *)

StartApproval(r, k) ==
    /\ r \in Approvals
    /\ refund[k] = "pending_approval"
    /\ Goto(r, "idle", "approve")
    /\ key' = [key EXCEPT ![r] = k]
    /\ overlapped' =
         IF \E q \in Approvals : key[q] = k /\ pc[q] \in Running
         THEN overlapped \cup {k} ELSE overlapped
    /\ UNCHANGED <<statusVars, rowVars, posts, issued, total, answered, doubt,
                   crossed, faults>>

Approve(r) ==
    /\ Goto(r, "approve", "process")
    /\ refund' = [refund EXCEPT ![key[r]] = "approved"]
    /\ approved' = approved \cup {key[r]}
    /\ UNCHANGED <<statusVars, amount, posts, issued, key, total, histVars, faults>>

-----------------------------------------------------------------------------
(* processApprovedRefund, at the end of either.  It looks at no status.  No *)
(* booking is ever payout_processing or payout_completed, so the branches   *)
(* for a payout already issued are never taken.                             *)

Process(r) ==
    /\ Goto(r, "process", "call")
    /\ refund' = [refund EXCEPT ![key[r]] = "processing"]
    /\ crossed' = (crossed \/ \E q \in Requests : pc[q] \in Processing)
    /\ UNCHANGED <<statusVars, amount, approved, posts, issued, key, total,
                   answered, doubt, overlapped, faults>>

Accept(k) ==
    /\ posts[k] < MaxPosts
    /\ posts' = [posts EXCEPT ![k] = @ + 1]

\* Tingg accepts the refund.
CallAccepted(r) ==
    /\ Goto(r, "call", "succeed")
    /\ Accept(key[r])
    /\ answered' = answered \cup {key[r]}
    /\ UNCHANGED <<statusVars, rowVars, issued, key, total, doubt, overlapped,
                   crossed, faults>>

\* Tingg knows this reference already, or answers 200 with a requestStatus
\* that refuses and that nobody looks at.
CallNotAccepted(r) ==
    /\ Goto(r, "call", "succeed")
    /\ answered' = answered \cup {key[r]}
    /\ UNCHANGED <<statusVars, rowVars, posts, issued, key, total, doubt,
                   overlapped, crossed, faults>>

\* Tingg accepts but answers 5xx, or not at all: the HTTP client posts again.
CallRepeated(r) ==
    /\ pc[r] = "call"
    /\ faults < MaxFaults
    /\ Accept(key[r])
    /\ faults' = faults + 1
    /\ doubt' = doubt \cup {key[r]}
    /\ UNCHANGED <<statusVars, rowVars, issued, pc, key, total, answered,
                   overlapped, crossed>>

Succeed(r) ==
    /\ Goto(r, "succeed", "post")
    /\ refund' = [refund EXCEPT ![key[r]] = "succeeded"]
    /\ UNCHANGED <<statusVars, amount, approved, posts, issued, key, total,
                   histVars, faults>>

PostIssuance(r) ==
    /\ Goto(r, "post", "total")
    /\ issued' = [issued EXCEPT ![key[r]] = @ + 1]
    /\ UNCHANGED <<statusVars, rowVars, posts, key, total, histVars, faults>>

ReadTotal(r) ==
    /\ Goto(r, "total", "update")
    /\ total' = [total EXCEPT ![r] = Sum(Succeeded)]
    /\ UNCHANGED <<statusVars, rowVars, posts, issued, key, histVars, faults>>

UpdatePayment(r) ==
    /\ Goto(r, "update", "book")
    /\ payment' = StatusFor(total[r])
    /\ UNCHANGED <<booking, rowVars, posts, issued, key, total, histVars, faults>>

UpdateBooking(r) ==
    /\ Goto(r, "book", "processed")
    /\ booking' = StatusFor(total[r])
    /\ UNCHANGED <<payment, rowVars, posts, issued, key, total, histVars, faults>>

\* The try block throws; of the call, Tingg may have accepted it all the same.
Throw(r) ==
    /\ faults < MaxFaults
    /\ pc[r] \in Guarded
    /\ pc' = [pc EXCEPT ![r] = "fail"]
    /\ faults' = faults + 1
    /\ \/ UNCHANGED posts
       \/ pc[r] = "call" /\ Accept(key[r])
    /\ UNCHANGED <<statusVars, rowVars, issued, key, total, histVars>>

MarkFailed(r) ==
    /\ Goto(r, "fail", "failed")
    /\ refund' = [refund EXCEPT ![key[r]] = "failed"]
    /\ UNCHANGED <<statusVars, amount, approved, posts, issued, key, total,
                   histVars, faults>>

\* The Worker is evicted, or an await outside the try block throws.
Evict(r) ==
    /\ faults < MaxFaults
    /\ pc[r] \in Running
    /\ pc' = [pc EXCEPT ![r] = "aborted"]
    /\ faults' = faults + 1
    /\ UNCHANGED <<statusVars, rowVars, posts, issued, key, total, histVars>>

-----------------------------------------------------------------------------
Init ==
    /\ payment = "succeeded"
    /\ booking = "paid"
    /\ refund = [k \in Asks |-> "absent"]
    /\ amount = [k \in Asks |-> 0]
    /\ approved = {}
    /\ posts = [k \in Asks |-> 0]
    /\ issued = [k \in Asks |-> 0]
    /\ pc = [r \in Requests |-> "idle"]
    /\ key = [r \in Requests |-> CHOOSE k \in Asks : TRUE]
    /\ total = [r \in Requests |-> 0]
    /\ answered = {}
    /\ doubt = {}
    /\ overlapped = {}
    /\ crossed = FALSE
    /\ faults = 0

Arrive(r) ==
    \/ \E a \in 1 .. Paid : StartRefund(r, a)
    \/ \E k \in Asks : StartApproval(r, k)

AdmitStep(r) == CreateRefund(r) \/ CreateItems(r) \/ Approve(r) \/ Process(r)

CallStep(r) == CallAccepted(r) \/ CallNotAccepted(r) \/ CallRepeated(r)

ProcessStep(r) ==
    \/ Succeed(r) \/ PostIssuance(r) \/ ReadTotal(r) \/ UpdatePayment(r)
    \/ UpdateBooking(r) \/ Throw(r) \/ MarkFailed(r) \/ Evict(r)

Next == \E r \in Requests : Arrive(r) \/ AdmitStep(r) \/ CallStep(r) \/ ProcessStep(r)

Spec == Init /\ [][Next]_vars

-----------------------------------------------------------------------------
(* Type invariant *)

\* Every row and request local holds a value the code can put there.
TypeOK ==
    /\ payment \in Settled
    /\ booking \in {"paid", "partially_refunded", "refunded"}
    /\ refund \in [Asks -> RefundStatus]
    /\ amount \in [Asks -> 0 .. Paid]
    /\ approved \subseteq Asks
    /\ posts \in [Asks -> Nat]
    /\ issued \in [Asks -> Nat]
    /\ pc \in [Requests -> {"idle"} \cup Running \cup Terminal]
    /\ key \in [Requests -> Asks]
    /\ total \in [Requests -> Nat]
    /\ answered \subseteq Asks
    /\ doubt \subseteq Asks
    /\ overlapped \subseteq Asks
    /\ crossed \in BOOLEAN
    /\ faults \in 0 .. MaxFaults

-----------------------------------------------------------------------------
(* Safety *)

\* "Refunds above this amount are queued for admin approval"
\* (docs/environment-variables.md): Tingg is not asked for one before that,
\* though processApprovedRefund looks neither at the status nor at the amount.
LargeRefundNeedsApproval ==
    \A k \in Asks : posts[k] > 0 /\ NeedsApproval(amount[k]) => k \in approved

\* The customer gets one refund twice only if two approvals of it overlapped
\* or the HTTP client posted it again after Tingg had accepted it.
RefundedTwiceOnlyInDoubt ==
    \A k \in Asks : posts[k] > 1 => k \in doubt \cup overlapped

\* The payment or its booking is refunded only if the refunds that Tingg has
\* answered add up to what was paid, whichever of them fail later on.
RefundedInFull ==
    "refunded" \in {payment, booking} => Sum(answered) >= Paid

\* When nothing runs, payment and booking show the sum of the refunds that
\* succeeded, unless two were processed at once or a request was cut short.
StatusShowsTotal ==
    /\ \A r \in Requests : pc[r] \notin Running
    /\ ~crossed /\ faults = 0
    => IF Succeeded = {}
       THEN payment = "succeeded" /\ booking = "paid"
       ELSE {payment, booking} = {StatusFor(Sum(Succeeded))}

\* A succeeded refund is in the ledger, unless a request about it is about to
\* post it or to mark it failed, or was cut short there.
SucceededIsPosted ==
    \A k \in Succeeded :
        \/ issued[k] > 0
        \/ \E r \in Requests : key[r] = k /\ pc[r] \in {"post", "fail", "aborted"}
=============================================================================
