---------------------------- MODULE SplitCheckout ---------------------------
(***************************************************************************)
(* A payment split over several Tingg checkouts: PaymentService's          *)
(* initiateSplitCheckout and processSplitWebhook, for one payment row.     *)
(*                                                                         *)
(* The checkout request creates and starts the splits one by one in a loop *)
(* while callbacks for the splits it has already started may arrive.  As   *)
(* in Payments, an await is a step and requests interleave between steps.  *)
(***************************************************************************)
EXTENDS Naturals, FiniteSets

CONSTANTS
    N,              \* number of splits
    Hooks,          \* requests to POST /webhooks/tingg/payment
    MaxAborts       \* bound: requests cut short by an exception or eviction

Splits == 0 .. (N - 1)

ASSUME SplitsAssumption == N \in Nat \ {0} /\ MaxAborts \in Nat

VARIABLES
    booking,        \* bookings.status
    parent,         \* payments.status of the payment that is split
    split,          \* payment_splits.status, "absent" before the row exists
    tingg,          \* what the provider knows of each split's checkout
    key,            \* KV keys tingg_split_webhook:<merchantTransactionID>
    posted,         \* ledger entries of the payment
    loop,           \* the await the checkout request is about to perform
    i,              \* its loop counter
    answer,         \* what its call to Tingg returned
    started,        \* splitResults: the splits it saw processing
    pc,             \* the await each callback is about to perform
    subj,           \* the split it is about
    status,         \* the outcome it reports
    past,           \* history: whether some callback came early or overlapped
    aborts          \* requests cut short so far

rows == <<booking, parent, split, posted>>
loopVars == <<loop, i, answer, started>>
hookVars == <<pc, subj, status, past>>
vars == <<rows, tingg, key, loopVars, hookVars, aborts>>

-----------------------------------------------------------------------------
ParentStatus == {"absent", "initiated", "processing", "succeeded", "failed"}
SplitStatus == {"absent", "pending", "processing", "succeeded", "failed"}
TinggStatus == {"none", "open", "collected", "declined"}
Reports == {"PENDING", "SUCCESS", "FAILED"}

LoopRunning == {"create", "create_split", "call", "save_split", "finish"}
HookRunning == {"get", "put", "update_split", "read_all", "update", "book", "post"}
HookOver == {"processed", "skipped", "aborted"}

\* The next await of the loop, once split k is done with.
After(k) == IF k + 1 < N THEN "create_split" ELSE "finish"

Loop(from, to) == loop = from /\ loop' = to

Hook(h, from, to) == pc[h] = from /\ pc' = [pc EXCEPT ![h] = to]

StatusFor(s) ==
    IF s = "SUCCESS" THEN "succeeded"
    ELSE IF s = "PENDING" THEN "processing" ELSE "failed"

-----------------------------------------------------------------------------
(* Variants: plausible bugs, one per property.  No action uses them.        *)

\* One collected split is enough.
AllSucceededAny(h) == TRUE

\* A split that failed stays failed.
UpdateSplitOpen(h) ==
    /\ Hook(h, "update_split",
            IF status[h] = "SUCCESS" THEN "read_all" ELSE "processed")
    /\ split' = IF split[subj[h]] = "failed" THEN split
                ELSE [split EXCEPT ![subj[h]] = StatusFor(status[h])]
    /\ UNCHANGED <<booking, parent, posted, tingg, key, loopVars,
                   subj, status, past, aborts>>

\* The replay key is looked up but never written.
PutForgotten(h) ==
    /\ Hook(h, "put", "update_split")
    /\ UNCHANGED <<rows, tingg, key, loopVars, subj, status, past, aborts>>

-----------------------------------------------------------------------------
(* initiateSplitCheckout *)

CreateParent ==
    /\ Loop("create", "create_split")
    /\ parent' = "initiated"
    /\ UNCHANGED <<booking, split, posted, tingg, key, i, answer, started,
                   hookVars, aborts>>

CreateSplit ==
    /\ Loop("create_split", "call")
    /\ split' = [split EXCEPT ![i] = "pending"]
    /\ UNCHANGED <<booking, parent, posted, tingg, key, i, answer, started,
                   hookVars, aborts>>

\* Tingg opens the checkout and says so; it refuses; or the call throws, with
\* or without a checkout left open: all the loop sees is SUCCESS or not.
CallTingg ==
    /\ Loop("call", "save_split")
    /\ \E seen \in {"SUCCESS", "FAILED"}, opened \in BOOLEAN :
         /\ seen = "SUCCESS" => opened
         /\ answer' = seen
         /\ tingg' = IF opened THEN [tingg EXCEPT ![i] = "open"] ELSE tingg
    /\ UNCHANGED <<rows, key, i, started, hookVars, aborts>>

SaveSplit ==
    /\ Loop("save_split", After(i))
    /\ split' = [split EXCEPT ![i] =
                   IF answer = "SUCCESS" THEN "processing" ELSE "failed"]
    /\ started' = IF answer = "SUCCESS" THEN started \cup {i} ELSE started
    /\ i' = i + 1
    /\ UNCHANGED <<booking, parent, posted, tingg, key, answer, hookVars, aborts>>

\* The parent's status follows what the loop saw, not the rows as they are.
FinishLoop ==
    /\ Loop("finish", "done")
    /\ parent' = IF started # {} THEN "processing" ELSE "failed"
    /\ UNCHANGED <<booking, split, posted, tingg, key, i, answer, started,
                   hookVars, aborts>>

AbortLoop ==
    /\ aborts < MaxAborts
    /\ loop \in LoopRunning
    /\ loop' = "aborted"
    /\ aborts' = aborts + 1
    /\ UNCHANGED <<rows, tingg, key, i, answer, started, hookVars>>

-----------------------------------------------------------------------------
(* The provider: callbacks are lost, repeated, delayed and reordered *)

Settle(k, outcome) ==
    /\ tingg[k] = "open"
    /\ tingg' = [tingg EXCEPT ![k] = outcome]
    /\ UNCHANGED <<rows, key, loopVars, hookVars, aborts>>

Sent(k) == {s \in Reports :
              \/ s = "PENDING" /\ tingg[k] # "none"
              \/ s = "SUCCESS" /\ tingg[k] = "collected"
              \/ s = "FAILED" /\ tingg[k] = "declined"}

Deliver(h, k, s) ==
    /\ Hook(h, "idle", "get")
    /\ s \in Sent(k)
    /\ subj' = [subj EXCEPT ![h] = k]
    /\ status' = [status EXCEPT ![h] = s]
    /\ past' = past \cup (IF loop = "done" THEN {} ELSE {"early"})
                    \cup (IF \E g \in Hooks : pc[g] \in HookRunning
                          THEN {"overlap"} ELSE {})
    /\ UNCHANGED <<rows, tingg, key, loopVars, aborts>>

-----------------------------------------------------------------------------
(* processSplitWebhook, for a callback whose split exists *)

Get(h) ==
    /\ Hook(h, "get", IF subj[h] \in key THEN "skipped" ELSE "put")
    /\ UNCHANGED <<rows, tingg, key, loopVars, subj, status, past, aborts>>

Put(h) ==
    /\ Hook(h, "put", "update_split")
    /\ key' = key \cup {subj[h]}
    /\ UNCHANGED <<rows, tingg, loopVars, subj, status, past, aborts>>

UpdateSplit(h) ==
    /\ Hook(h, "update_split",
            IF status[h] = "SUCCESS" THEN "read_all" ELSE "processed")
    /\ split' = [split EXCEPT ![subj[h]] = StatusFor(status[h])]
    /\ UNCHANGED <<booking, parent, posted, tingg, key, loopVars,
                   subj, status, past, aborts>>

\* Every split row that exists, other than the callback's own, is succeeded.
AllSucceeded(h) ==
    \A k \in Splits \ {subj[h]} : split[k] \in {"absent", "succeeded"}

ReadAll(h) ==
    /\ Hook(h, "read_all", IF AllSucceeded(h) THEN "update" ELSE "processed")
    /\ UNCHANGED <<rows, tingg, key, loopVars, subj, status, past, aborts>>

UpdateParent(h) ==
    /\ Hook(h, "update", "book")
    /\ parent' = "succeeded"
    /\ UNCHANGED <<booking, split, posted, tingg, key, loopVars,
                   subj, status, past, aborts>>

MarkBookingPaid(h) ==
    /\ Hook(h, "book", "post")
    /\ booking' = "paid"
    /\ UNCHANGED <<parent, split, posted, tingg, key, loopVars,
                   subj, status, past, aborts>>

\* One ledger entry over the sum of the splits that were read.
PostPayment(h) ==
    /\ Hook(h, "post", "processed")
    /\ posted' = posted + 1
    /\ UNCHANGED <<booking, parent, split, tingg, key, loopVars,
                   subj, status, past, aborts>>

AbortHook(h) ==
    /\ aborts < MaxAborts
    /\ pc[h] \in HookRunning
    /\ pc' = [pc EXCEPT ![h] = "aborted"]
    /\ aborts' = aborts + 1
    /\ UNCHANGED <<rows, tingg, key, loopVars, subj, status, past>>

-----------------------------------------------------------------------------
Init ==
    /\ booking = "pending_payment"
    /\ parent = "absent"
    /\ split = [k \in Splits |-> "absent"]
    /\ tingg = [k \in Splits |-> "none"]
    /\ key = {}
    /\ posted = 0
    /\ loop = "create"
    /\ i = 0
    /\ answer = "none"
    /\ started = {}
    /\ pc = [h \in Hooks |-> "idle"]
    /\ subj = [h \in Hooks |-> 0]
    /\ status = [h \in Hooks |-> "PENDING"]
    /\ past = {}
    /\ aborts = 0

LoopStep ==
    CreateParent \/ CreateSplit \/ CallTingg \/ SaveSplit \/ FinishLoop \/ AbortLoop

HookStep(h) ==
    \/ \E k \in Splits, s \in Reports : Deliver(h, k, s)
    \/ Get(h) \/ Put(h) \/ UpdateSplit(h) \/ ReadAll(h)
    \/ UpdateParent(h) \/ MarkBookingPaid(h) \/ PostPayment(h) \/ AbortHook(h)

Next ==
    \/ LoopStep
    \/ \E h \in Hooks : HookStep(h)
    \/ \E k \in Splits, outcome \in {"collected", "declined"} : Settle(k, outcome)

Spec == Init /\ [][Next]_vars

-----------------------------------------------------------------------------
(* Type invariant *)

\* Every row, key and request local holds a value the code can put there.
TypeOK ==
    /\ booking \in {"pending_payment", "paid"}
    /\ parent \in ParentStatus
    /\ split \in [Splits -> SplitStatus]
    /\ tingg \in [Splits -> TinggStatus]
    /\ key \subseteq Splits
    /\ posted \in Nat
    /\ loop \in LoopRunning \cup {"done", "aborted"}
    /\ i \in 0 .. N
    /\ answer \in {"none", "SUCCESS", "FAILED"}
    /\ started \subseteq Splits
    /\ pc \in [Hooks -> {"idle"} \cup HookRunning \cup HookOver]
    /\ subj \in [Hooks -> Splits]
    /\ status \in [Hooks -> Reports]
    /\ past \subseteq {"early", "overlap"}
    /\ aborts \in 0 .. MaxAborts

-----------------------------------------------------------------------------
(* Safety *)

PaidInFull == \A k \in Splits : tingg[k] = "collected"

\* If every callback came after the checkout had created all its splits, the
\* payment succeeds, its booking is paid and its ledger entry is written only
\* once Tingg has collected every split, whatever the callbacks' order.
PaidInFullUnlessEarly ==
    /\ "early" \notin past
    /\ parent = "succeeded" \/ booking = "paid" \/ posted > 0
    => PaidInFull

\* A callback wrote this split's success and was answered.
Counted(k) == \E h \in Hooks :
    subj[h] = k /\ status[h] = "SUCCESS" /\ pc[h] = "processed"

\* Of the callbacks that report the splits collected, one sees that they all
\* are: each writes its own split before it reads the others.  So when all are
\* answered, the payment is settled and in the ledger, unless a callback came
\* early, was not final, or was cut short.
LastCallbackSettles ==
    /\ \A k \in Splits : Counted(k)
    /\ \A h \in Hooks : pc[h] # "idle" =>
         pc[h] \in {"processed", "skipped"} /\ status[h] = "SUCCESS"
    /\ "early" \notin past
    => parent = "succeeded" /\ booking = "paid" /\ posted > 0

\* The payment is posted twice only if callbacks overlapped or came early:
\* in sequence, only the one that completes the set posts.
PostedTwiceOnlyOnOverlap ==
    posted > 1 => past # {}
=============================================================================
