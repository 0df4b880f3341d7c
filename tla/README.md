# Felix Travel in TLA+

Felix Travel sells bookings of travel services, collects their price through the
payment provider Tingg, pays the service providers out and keeps a double-entry
ledger of it all.  The API is a Cloudflare Worker over D1 (SQLite without
transactions across awaits), KV (get, put and delete, no compare-and-set) and
Queues.  This directory specifies the parts of it that move money and those that
decide who may, model-checks them with TLC and proves their main safety properties
with TLAPS.

Paths below are relative to the repository; `services/` stands for
`apps/api-edge/src/services/`.

## 1. The system

### Components

| Component | State it keeps | Operations | Hard behaviour |
|---|---|---|---|
| Payments (`services/payment.service.ts`) | `payments`, `payment_splits`, KV `tingg_webhook:*`, `tingg_split_webhook:*` | checkout, callback, status page, split checkout, split callback | duplicated, lost, reordered callbacks; a callback that beats the answer of the call that caused it; requests cut short between writes |
| Payouts (`services/payout.service.ts`) | `payouts`, `payout_booking_links`, KV `tingg_payout_webhook:*` | run, dispatch, retry, approve, callback | double dispatch; a timeout with the money sent; approval by check-then-write |
| Ledger (`services/ledger.service.ts`, `ledger.repository.ts`) | `ledger_entries`, `ledger_entry_lines` | post payment, issuance, unwind, refund | entry and lines are two inserts; nothing makes an entry unique per reference |
| Wallet, statements (`packages/provider-wallet`, `packages/statements`) | none: they add up the ledger | a provider's balance, its statement, the platform's | ten queries that other invocations cross; rows found by status on one side, by reference on the other |
| Bookings (`services/booking.service.ts`) | `bookings`, status history | quote, draft, confirm, accept, hold, reject, cancel, eligibility for payout | status read, then written without looking again |
| Refunds (`services/refund.service.ts`) | `refunds`, `refund_items` | request, approve, process | several refunds of one payment; failure after the provider refunded |
| Approvals (`packages/maker-checker`) | `approval_requests`, steps, candidates, decisions, delegations | create, decide, escalate, delegate, cancel, expire | concurrent decisions, quorums, stale status |
| Policy engine, risk engine | compiled workflows; none | compile a policy, choose candidates, score a request | candidates from rows of roles that were removed |
| Tingg client (`packages/sdk-tingg`) | KV token cache | checkout, query, payout, refund, SMS | retries a POST after 5xx or a network error, not after its own timeout |
| Idempotency, rate limits (`packages/auth/src/middleware`) | KV locks, cached answers, counters | wrap a handler | get-then-put locks with a TTL |
| Sessions (`services/auth.service.ts`, `step-up-service.ts`) | sessions, invites, reset and step-up challenges | one-time use of each | read-unused, then mark used |
| Identity (`packages/identity`) | numbers and addresses, verification challenges, recovery codes, factors, trusted devices | add, verify, remove; regenerate and use codes; trust, revoke, clean up | three updates per verification; a row renewed after it was removed |
| Outbound webhooks (`services/webhook.service.ts`) | deliveries, queue | dispatch, deliver, redeliver | row and queue message are two writes; retries nobody sends |
| Charges, settlements | charge rules; none | price a booking, settle it | dependency order, rounding, clamping |
| Jobs (`apps/api-edge/src/jobs`) | none | cron to queue messages | what is documented as polled is not |
| Catalog, geography, admin, notifications, web applications | their rows; none | single-row CRUD, messages, pages | none between them |

### Interactions

```
 customer page --checkout, poll--> Payments --initiate, query--> Tingg checkout
                                      ^  |                           |
                                      |  +--status--> Bookings       |
                                      |  +--entry---> Ledger         |
                                      +---------- callbacks ---------+
 admin --run, approve, retry--> Payouts --postLocalPayment--> Tingg payouts
                                   ^ |                            |
                                   | +--entries--> Ledger         |
                                   +--------- callbacks ----------+
```

All of it is shared state in D1 and KV.  An invocation holds nothing over an
`await` that another one cannot change, and may end at any of them: an exception
or an evicted Worker leaves the writes before it and none after it.  That is the
model of concurrency of every module here: **one step per await**, requests
interleaving between steps, and a step that cuts a request short.

### What correctness means

* Money is recorded, and a booking paid, only if the provider has it.
* What the provider has is recorded, and not contradicted afterwards.
* A customer is charged, and a provider paid, once.
* A large payout reaches the provider only after it was approved.
* What needs an approval is done after its quorums approved it, and once.
* A session, reset, invite or challenge works once; permissions are those granted.
* A handler runs once per idempotency key; an event reaches its subscriber.
* The reports agree with the ledger and with each other, and nobody may withdraw
  what was not earned.
* What is verified was verified by its holder; a code works once; the codes a user
  was shown are the ones that work.
* Charges are priced in an order that respects what they are based on.
* The exceptions, which the code does have, are pinned down: *which* overlaps,
  early callbacks or lost answers lead to them, and that nothing else does.

## 2. Modules

| Module | Models |
|---|---|
| `Payments` | `PaymentService` for payments that are one checkout, the bookings and ledger rows it writes, cancellation and confirmation of bookings |
| `Collections` | abstract: bookings are settled from what was collected. `Payments` implements it |
| `PaymentsProofs` | theorems about `Payments`, with the refinement |
| `SplitCheckout` | a payment split over several checkouts |
| `Payouts`, `PayoutsProofs` | `PayoutService`, Tingg's local payments, their callbacks |
| `Refunds` | `RefundService` for the refunds of one payment |
| `Approvals`, `ApprovalsProofs` | `ApprovalService` for one request: creation, decisions, quorums, escalation, delegation, cancellation |
| `Candidates` | the steps the policy engine compiles and the users it finds for them, used by `Approvals` |
| `Idempotency` | the idempotency middleware, around a handler another module specifies |
| `Bookings`, `BookingsProofs` | extends `Idempotency`: `BookingService`, the status history and the charges a confirmation inserts |
| `Permissions` | a user's roles, the copy of what they grant, who fills and who drops it |
| `Accounts`, `AccountsProofs` | extends `Permissions`: `AuthService` and step-up for one account |
| `Identities`, `IdentitiesProofs` | numbers and their verification, recovery codes and trusted devices |
| `Ledger` | the journal with its lines, the status writes the reports look at, the wallet, the statements |
| `Deliveries` | `WebhookService`, its queue and its consumer |
| `Charges` | the charges engine: order, amounts, refunds |
| `CallbackProofs` | theorems about `SplitCheckout` and `Deliveries`: the callbacks that come in and those that go out |
| `AmountsProofs` | theorems about `Refunds`, `Charges` and `Ledger`, the components about totals, with the facts about sums they share |
| `MCPayments`, `MCSplitCheckout`, `MCPayouts`, `MCRefunds`, `MCApprovals`, `MCBookings`, `MCAccounts`, `MCIdentities`, `MCDeliveries`, `MCCharges`, `MCLedger` | model values and symmetry for TLC |

Each module has a section *Variants*: the definitions of a plausible bug, one per
property, that no action uses.  Put in the place of the definition they vary,
each makes TLC find its property violated.

The proof modules for several components extend them all; so these
components' names are kept apart (`LedgerInit`, `ChargesSpec`, `DeliveriesTypeOK`),
and nothing else connects them there.

### Payments

A request is an element of `Checkouts`, `Hooks`, `Pages` or `Desk` with a program
counter `pc[r]` that names the await it is about to perform.

| Action | Code (`payment.service.ts` unless named) |
|---|---|
| `StartCheckout`, `CheckExisting`, `CreatePayment`, `CallTingg`, `LoseAnswer`, `SaveCheckout` | `initiateCheckout` 21-89 |
| `Deliver`, `SplitGet`, `SplitPut`, `NotASplit` | `webhook.routes.ts` 31-43: every callback first goes through `processSplitWebhook`, which writes and deletes its own key |
| `ReplayGet`, `ReplayPut`, `UnknownPayment`, `UpdatePayment`, `MarkBookingPaid`, `PostEntry`, `PostLines` | `processCheckoutWebhook` 91-167, `ledger.service.ts` 15-43, `ledger.repository.ts` 41-56 |
| `OpenPage`, `QueryStatus`, `SettleFromPoll` (then `PostEntry`, `PostLines`) | `getPaymentStatus` 169-222 |
| `StartDesk`, `DeskWrite` | `booking.service.ts` 205-247: `adminConfirm` and `cancel` |
| `Settle`, `Sent` | Tingg: an open checkout is collected or declined for good; callbacks about it are lost, repeated, delayed and reordered |
| `Abort` | an await throws, or the Worker is evicted |
| `Recycle` | a request slot serves the next request (only in the liveness runs) |

The status page settles a payment but leaves its booking as it is; so does the
model.  `newest` is the row `findByBookingId` returns (the latest by creation
time; ties of one second are abstracted by the order of creation).

### SplitCheckout

One checkout request in its loop (`loop`, `i`, `started`) and any number of
callbacks.  `AllSucceeded` is over the split rows that exist, as
`findSplitsByPaymentId` returns them.  The entry and lines of the one ledger
posting are one step here: `Payments` has them apart.

### Payouts

One provider.  A payout is named by its idempotency key, which the unique index
allows once and which is the `merchantRef` sent to Tingg.  `posts[k]` is the
sequence of payments Tingg accepted for that key: whether Tingg recognises a
repeated `merchantRef` is not documented in the repository, so `PostAccepted` and
`PostNotAccepted` leave both open.  `PostRepeated` is the HTTP client's own
re-post (`http-client.ts` 49-114).  Amounts are numbers of bookings of equal worth:
all the code does with them is compare a sum with `PAYOUT_APPROVAL_THRESHOLD`.
The admin console's `approveAdminPayout` is not modelled.  `DueChanges` stands for
whatever makes a booking eligible or takes it out again (dates, cancellations,
refunds, the provider's answers): no payout does.

### Refunds

One succeeded payment with its booking.  A refund is named after the request that
creates it; `requestRefund` (42-103), `approveRefund` (105-114) and
`processApprovedRefund` (116-183) are its steps.  Amounts are numbers of
units here, because the code adds them up and compares them with the payment's.
Tingg may accept a refund, recognise its reference, or answer 200 with a refusal
(`CallNotAccepted`): the code looks at none of these.  Bookings never get the
statuses `payout_processing` and `payout_completed`, so the branches for a payout
already issued, including the post-payout ledger entry, are dead code and not
modelled.  Left out too: `allocateRefund`, and other writers of the payment's and
the booking's status (a late callback, a cancellation) while refunds run.

### Approvals

One request.  `creator` walks through `createRequest` (45-156): the rows of the
steps and of their candidates are inserted one by one, while decisions may already
be made.  A call `d` of `submitDecision` (177-374) reads the request once, in
`Submit`, and relies on what it read until its last write; it names the decision it
records, so `recorded` is `approval_decisions`.  `Eligible` is `isDeciderEligible`
(604-664).  The compiled workflow is what the policy engine hands over.  `Candidates`
has the part of it that decides who may approve: `Compiled` is `compileWorkflow` keeping
the active steps, `Resolve` and `Matches` the resolver's queries.  Which steps are
inactive is chosen when the request is created (`Inactive`), and `orders` are the others,
as `workflow_snapshot` keeps them.  The resolver's rows are constants:
the resolver reads them once per step, while the request is created, and removing a
role only clears an `is_active` that the resolver does not look at, so the instance has
a removed role from the start.  Roles assigned between two steps' queries are left out.
`Modes`, `Quorum` and `EscalateTo` are the other columns of the steps.

What the module shows about the code and a reader may not expect: a candidate may have
lost the role (`candidates.ts` 48-63 read `user_roles` without `is_active`), only rules
on a role look at the action's provider (83-95), and nobody reads the roles again at the
decision, so `DecidersAnswer` cannot say more than that a decider has had the role; a
step without a
`quorumCount` passes on one approval in every mode, also `all` (272); the step a
request is escalated to is never opened (366-374); every request starts at step order 1
(104) whether or not `compileWorkflow` kept that step (`compiler.ts` 81), so if the first
step of a template is inactive the request is open while no step is, nobody is shown it
or may decide it, and it stays so until it is cancelled, which is the second half of
`OpenRequestIsListed`; for the same reason a gap further on ends the chain, and the
steps behind it are never asked (`Chain`); nobody passes `onApproved`, so
`Execute` is a callback in waiting; and no request gets an `expiresAt`, so
`expireStaleRequests` has nothing to expire and is left out.

### Idempotency and Bookings

`stage` is where a request is in the middleware, `pc` where it is in its handler;
`confirm` is the one booking route that is wrapped.  `Allowed` and `Sets` are the
status checks and writes of `confirm`, `acceptBooking`, `holdBooking`,
`rejectBooking`, `adminConfirm` and `cancel`; the status `updateStatus` reads for
its history is read again, an await before the write (`bookings.repository.ts` 68-85).
`capture` stands for the status writes of payment callbacks, `Checkout` for what
makes one possible.  `InsertLine` and `InsertAllocation` are the loop of
`applyBookingCharges` (`charge-service.ts` 61-108), whose inserts are separate awaits.
Who a request comes from is checked before anything is written and left out.

### Accounts and Permissions

One email address.  Sessions, resets, invites and step-up challenges are one
sequence, `credentials`, numbered as they are created; `basis` is the password
whoever got one has shown to know, `uses` how often it was put to use.  `First` and
the `Goto` of each action give the awaits of `register`, `login`, `refreshSession`,
`logout`, `confirmPasswordReset`, `acceptInvite`, `createChallenge`,
`completeChallenge`, `disableUser` and `enableUser`.  An access token opens every
route until it expires, whether its session was revoked or not (`requireAuth` looks
at no row): so `Authorize` asks only that there has been a session.

`Permissions` is `hydratePermissions` (copy, rows, copy again) against `assignRole`
and `removeRole` (rows, then drop the copy), and registration, which grants a role
and drops nothing.  Granting or revoking what a *role* permits (`admin.service.ts`
364-398) drops no copy at all and is not modelled: its changes take effect within the
five minutes a copy lives.

### Identities

Users, the phone numbers they may hold, and the recovery codes and devices of one of
them.  A number's row in `phone_numbers` (`holder`, `marked`) is never deleted, its
row in `user_identities` (`identity`, `verified`) is: so a removed number can be added
again by nobody.  `VerifyChallenge`, `MarkUsed`, `MarkIdentities` and `MarkPhones` are
the awaits of `verifyChallenge`; `Candidates` are the challenges it compares a code
with.  `Delete`, `InsertCode` and `InsertLastCode` are `regenerateRecoveryCodes`, which
is the only writer of recovery codes that runs: `confirmTotpEnrollment` would be the
other, but its pending enrolments are in a map of the service object, and every request
makes a new one.  For the same reason no SMS code is ever verified
(`mfa-service.ts` 234-236), so factors are left out.  `Trust` to `RefuseDevice` are the
select and then update or insert of `trust`, with the unique index; `CleanupExpired` is
the cron job.

### Ledger

A worker is an invocation that writes one of the statuses the reports look at and posts
what goes with it: the other modules have each handler in full, here only its writes to
`payments`, `payouts`, `refunds` and the journal remain, in their order.  `journal[k]` is
the entries of a type and reference, and for each whether its lines have been inserted;
`Lines` gives these with their accounts and amounts.  `StartWallet` and `WalletStep` are
`calculateProviderBalance` query by query; the four sums, which it awaits together, and
the two of the payouts are one step each.  The statements are operators on the journal,
for a period that has all of it.

Amounts and currencies are constants of each reference, and Tingg collects the amount
asked for.

### Deliveries

One event.  A delivery is a row and a message; `HandledBy`, `Take`, `Ack`, `Throws`
and `Evict` are the queue's at-least-once contract, `Fetch` to `Catch` are
`deliverWebhook` (73-139).  `dispatchEvent`, `redeliverWebhook` and
`findDueForRetry` have no caller in the repository: the first is modelled as its
signature promises, the second resets the row and enqueues nothing, as it does, and
the third would be the job that retries, which does not exist.

### Charges

A calculation is synchronous; a step is one iteration of one of its loops.  `Resolve`
to `Finish` are `resolveCalculationOrder`, `Price` and what follows it the loop of
`calculateCharges`, `Refund` is `allocateRefundCharges`.  Ties of the priority sort are
left open, since the queue's order depends on that of the rows.  `Whole` is 10000
basis points in the code.  A rule is `[rate, fixed, min, max, inclusive]`: the other
methods of `applyRule` differ in which of these they set, except tiers, which are left
out, as are breakdowns, rule-set selection and conditions (an input here).

## 3. Runs

| Run | Config | Shows |
|---|---|---|
| checkouts | `MCCheckouts.cfg` | two checkouts of one booking, two callbacks, a stray one, the desk, one request cut short: a success that was acknowledged is in the ledger unless a stated accident happened; a booking is charged twice only if the checkouts overlapped or an answer was lost; `Collections` is implemented, so nothing is recorded or cleared that was not collected |
| polling | `MCPolling.cfg` | a callback and the page over one payment: no success is overwritten by a failure or the other way round; liveness: while the page polls, settled payments leave `processing`, and collected money is recorded |
| splits | `MCSplits.cfg` | two splits, three callbacks, one request cut short: paid in full unless a callback came early; the last callback settles; posted twice only on overlap |
| payouts | `MCPayouts.cfg` | two workers of every kind, a callback, two payments per key, two faults: sent twice only on overlap or when Tingg had money whose row looked failed; succeeded only if sent; links |
| refunds | `MCRefunds.cfg` | two refunds, two approvals, two faults: refunded twice only in doubt, `refunded` only in full, statuses show the total unless refunds crossed |
| approvals | `MCApprovals.cfg` | a template of three steps of which the first, the second or the third is inactive, the second with a quorum of two, three decisions, escalation both ways, a delegation to the requester, one call cut short: approved only by quorums, or by one person twice, or around an escalation; behind every decision is somebody the step's rules name, other than the requester, though his role may have been removed; the callback runs again only on overlap; an open request is shown to somebody if its first step is active, and to nobody ever if not; a decided request stands, except for decisions already under way |
| deliveries | `MCDeliveries.cfg` | two consumers, three faults among duplicates, errors and evictions: received twice only if handed out twice, a message sent is posted in the end |
| bookings | `MCBookings.cfg` | four requests, two at a time, two charge lines, two faults or expiries: the handler runs alone under its key, charged twice only on overlap, the history leads to the status, a confirmed booking is complete |
| accounts | `MCAccounts.cfg` | four calls of every kind, two at a time, one fault: credentials work once, a reset ends older sessions, the copy of the permissions is current |
| charges | `MCCharges.cfg` | three charges, up to three dependencies, two rules, three refunds: ordered unless cyclic, based on computed amounts, refunds within rounding |
| ledger | `MCLedger.cfg` | two payments in two currencies, a payout and a refund, three invocations, two at a time, one cut short: credited twice only if captured twice at once or reopened; a wallet nothing crossed is the statement, but for what the property names; what may be withdrawn is covered by earnings; the platform's statement and the providers' tie |
| identities | `MCIdentities.cfg` | five calls, two at a time, two users and two numbers, two codes per generation, one device, one fault: codes work once; what is verified was verified by its holder; the codes shown are those that work; a trusted device stays trusted |

A few safety properties are proved and have no run of their own:
`RecordedOnlyIfCollected` and `PaidOnlyIfCollected` (both follow from `Collections`,
which the runs do check), `LargeNeedsApproval`, `LargeRefundNeedsApproval`,
`SucceededIsPosted`, `DeliveredWasReceived`, `AttemptsArePosts` and `ReplayIsOfACharged`.
The runs check the properties that only they show, and those that the theorems and
the larger instances show together.

### Bounds

`MaxAborts` and `MaxFaults` bound exceptions and evictions, `MaxPosts` the
payments or refunds Tingg accepts per key, and the sets of requests the number of
invocations.  The races are between pairs: two callbacks, two checkouts, a
callback and the request that caused it, two dispatches.  The runs have one
invocation more than the race needs where that is affordable, a
fault besides, and slots that are used again (`Recycled`) where a property is
about what happens eventually.  `MaxCalls` is four in *bookings* and *accounts*:
enough for a credential or a booking to be made, used, used again at once and
looked at by a fourth.  `Calls` of *approvals* is three, one more than the largest
quorum, and its three templates are the places a gap can have in three steps: at
the start, between two steps and at the end.  `MaxDeps` is three for three charges, so every cycle among them fits, and
`MaxRefunds` three because rounding can add up only over several.  `Whole = 3`
makes each refund of a third round.  In *ledger* the amounts are multiples of ten with
the fee of 5% rounded, and three invocations are a capture, a dispatch and a refund, or
two captures and one of the others; *identities* looks at one challenge at a time
(`Limit = 1`; 5 in the code), so that a second one is beyond the limit, and has two codes
per generation (10 in the code).  Keys, payments and bookings only meet through the
rows the properties name, so one or two of each show every way they meet.  The
theorems hold without any of these bounds.

### Fairness

`RequestsRun`: a request that can take its next step does so (weak fairness: an
invocation is not left waiting by the platform for ever, and a slot is reused).
`PagesPoll`: strong fairness of opening the page for each payment that is
processing, because `PaymentStatus.tsx` asks every three seconds while it is
mounted.  That no callback need ever come is part of the model.  In `Deliveries` the
dispatcher and each consumer run (weak fairness), which is what the queue promises;
failures are bounded by `MaxFaults` and not fair.  Runs say `CHECK_DEADLOCK FALSE` because a system whose
requests are all served does stop.

### Disagreements with the documentation

Met while modelling; the positive properties say exactly how far each goes:

* `dependency-resolver.ts:25` says it throws on a circular
  dependency.  A dependent that is loaded and not in force on the day gets a place in
  `inDegree` (77), so the order comes out too long, or its priority is read from
  `undefined`, and pricing throws though there is no cycle.
* `ledger.service.ts:68` calls the unwind a "reversal on failure".  A dispatch that fails
  posts it though nothing was posted before (`payout.service.ts:144`), so the provider's
  payable is credited with the payout: the exception in `WithdrawableIsCovered`.
* `ledger.repository.ts:37` says an entry is created "atomically"; entry and lines are two
  inserts.
* `balance-calculator.ts:211` takes what is in transit off a balance from which the posting
  of the same payouts was already taken: less may be withdrawn than is there.  Payments
  that were refunded in part drop out of the balance (63) while their refunds stay in.
* `statement-generator.ts` adds up all currencies under the one asked for (165-180) and
  counts a payout as dispatched though it failed and was unwound (293).
* `identity-service.ts:147` says "latest unused, non-expired challenge"; the query takes
  the *oldest* five unused ones, expired or not, and `cleanupExpiredChallenges` has no
  caller: after five challenges that lapsed no code is accepted any more.
* `mfa-service.ts:58-59` keeps pending enrolments in a map "since each Worker instance
  handles one request at a time"; the map is made anew by each request, so no enrolment is
  confirmed and no SMS code verified.
* `packages/config/src/worker-env.ts:187` says inbound event ids are stored "to detect
  duplicates"; the get and the put of the key are two awaits, so two copies of a
  callback that arrive together post a payment twice.
* `jobs/scheduled.ts:5` says pending payments are polled every five minutes; the
  handler does not, and `pollPendingPayments` has no caller.  `ProcessingIsSettled`
  holds because the page polls.
* `payment.service.ts:444` says "All splits succeeded"; the test is over the splits
  created so far: the exception in `PaidInFullUnlessEarly`.
* `refund.service.ts:67` refuses a refund that exceeds the payment; what was refunded
  before is not counted, so two refunds may exceed it together.
* `booking.service.ts:9-10` documents statuses that take a booking out of payout; no
  code writes them, so a later run with another key pays for the booking again.
* `docs/environment-variables.md:281` says the consumer retries webhooks with
  exponential backoff; rows marked `retrying` are never sent again.
* `approval.routes.ts:7` says the requester may cancel; nothing checks who does.

## 4. Proofs

All theorems are of the form `Spec => ...` for every value of the constants that
meets the named assumption of the module (`PaymentsAssumption`,
`SplitsAssumption`, `PayoutsAssumption`, `RefundsAssumption`, `ApprovalsAssumption` with
`CandidatesAssumption`, `BookingsAssumption` with `KeysAssumption`, `AccountsAssumption` with
`PermissionsAssumption`, `IdentitiesAssumption`, `LedgerAssumption`,
`DeliveriesAssumption`, `ChargesAssumption`): any number of requests, rows, callbacks
and failures, and amounts of any size.

**Payments** (`PaymentsProofs`).  `RecordedOnlyIfCollected` is not inductive: a
request that is about to write "succeeded" would break it.  `BeliefsInv` adds that
what a request was told by Tingg is true and stays true until it writes: past the
point where it learned SUCCESS it works on a collected payment, and a desk that is
about to confirm a booking has seen it paid.  That collected money stays collected
needs `CallsInv`: no two requests ever open a checkout for one row.  The refinement
theorem uses the same invariant to show that each settlement, ledger entry and
write of a booking is a step of `Collections`, or a stutter.

Three more invariants carry the rest.  `OutcomesInv` is the converse about failures: a
row is failed only if Tingg declined its checkout or never had one, so no later
success can come (`OutcomesAgree`).  `NewestInv` is about the in-progress check of
`initiateCheckout`, which reads only the newest payment: unless a booking is in trouble
(checkouts overlapped, or one was cut short), whatever can still be charged for it is its
newest payment, and a checkout about to create another has seen that one failed
(`ChargedOnceWithoutAccident`).  `KeysInv` follows a replay key from the callback that put
it: as long as its payment has no lines in the ledger, that callback is running, was cut
short, or was not final (`AcknowledgedIsRecorded`).  The last two theorems assume that no
checkout, or callback, is among `Recycled`: an element that serves a second request
forgets the first, which the properties name as the one to blame.  The code has no such
slots; only the liveness run recycles any.

**Splits** (`CallbackProofs`).  While no callback has come early, the loop is
done when the first arrives and every split's row exists, so the rows a callback
reads are all the splits: that `AllSucceeded` implies `PaidInFull` follows.  Without
overlap, a callback that posts has seen every split succeeded, and a split succeeds only
past its replay key, so all keys are put and no later callback gets past one
(`FirstInv`).  `SomeoneInv` is about callbacks in any interleaving: while all of them are
successes and none is cut short, a split that was written stays succeeded, so when the
last one is written its writer has yet to read them all; from then on someone is on
the way to settle the payment, or did.

**Payouts** (`PayoutsProofs`).  Approval is a check in one request and a write in
another, several awaits later.  `HeldInv` says that a payout that is absent, or
held and not approved, is *out of reach*: its status is `absent` or `on_hold`,
Tingg knows nothing of it, and no request about it is past a status check that
such a row fails (`Admitting`).  Every write of "pending" therefore comes from
`approvePayout`, or is about a row that was never above the threshold.
`ReportInv` keeps what a callback reports true until it is written, and
`RunInv` with `LinkInv` say that the one run that created a row is the one that
links it.  For `SentTwiceOnlyInDoubt`, `OnceInv` says of a payout without doubt or overlap
that Tingg has at most one live payment of it, and none while its row is pending or failed or
a request is on its way to post it.

That proof first failed, for a reason.  `doubt` used to record failures of the request
that had posted; but a late FAILED callback of an earlier attempt also marks the row
failed, after the retry's payment was accepted, and opens it for another retry: three
payments, two of them live, with neither an overlap nor a lost answer.  TLC shows it with
`MaxPosts = 3`, one more than the run had room for.  Now every step that leaves a failed row whose
money Tingg has records it (`NoteDoubt`).

**Refunds** (`AmountsProofs`).  `processApprovedRefund` checks nothing, so approval
is again a matter of who can get there: `HeldInv` as for payouts.  `OnceInv` counts
the requests that are *ahead* of their call to Tingg with a refund: unless its
approvals overlapped or the HTTP client repeated it, there is at most one, there is
none once Tingg has accepted it, and while it waits for approval the one there may
be is the approval itself.

The totals are sums over sets, which the library defines by recursion.  The lemmas from
`SumOfNat` to `SumOfSameAmount` say what is needed of them: bounds, equality, and that a sum
may be taken term by term (`SumOfPlus`), by parts (`SumOfParts`) or by owner (`SumOfFibers`);
where one would use induction over finite sets, they take a smallest counterexample
(`SmallestMember`, from the library's theorem on well-founded orderings), and
`SolutionExists` shows in that way that the recursion has a solution at all.  Then
`AnsweredInv` bounds every total a request has read by the sum of what Tingg has answered
for, which only grows, though a row may lose its "succeeded" again
(`RefundedInFull`).  For `StatusShowsTotal`, `ShownInv` says that while requests have not
crossed either one of them has still to read the total, or the statuses show it but
for the writes of the one that read it last.

**Approvals** (`ApprovalsProofs`).  A decision, once recorded, stays, so a step with
its quorum keeps it (`Passed`), and `QuorumInv` carries along the chain that every step
before the one a request, or a call about it, has come to has been passed.  Counting is
where it could fail: a call counts the decisions that are there, which include those of
calls that have yet to act on them.  `CandidatesInv` is about who is behind a
decision: candidates are resolved while the request is created and are never taken back, so
a delegation needs to be there only when the decider is checked, and `lent` remembers it.
`AloneInv` says of calls that never overlapped that one runs at a time, and that the
callback of an approved request has run once and leaves nobody who could run it again.
`ListedInv` follows the step that is in progress through the awaits between one
step's completion and the next one's start, where no step is.  It needs that nothing was
escalated: an escalated request points at a step nobody opens.  Nothing is assumed of which
steps are active: for a request without a first step, `StuckInv` says that its calls get no
further than the check of who may decide.  `LateInv` is what
`DecidedStands` needs: whoever still writes to a decided request had started before.

**Deliveries** (`CallbackProofs`).  A consumer writes what it learned several awaits
after it learned it.  The invariant keeps a 2xx true until it is written, and counts:
while a message was handed out once, at most one consumer has it, the requests made
are the row's attempts plus the one under way, and none has been made while the
message still waits.

**Bookings** (`BookingsProofs`).  The lock of a key no two requests raced for and that
did not expire is there as long as some request is past it, and then nobody is about to
take it, which gives `HandlerRunsAlone`.  For charges the invariant places a confirmation
on its line: lines before it are inserted and allocated, and one that is done has
inserted them all.  A booking only one request works on has no charges before it leaves
`draft` or `quoted`.  That the answer kept for replay is of a complete confirmation
follows.  Two more properties are about bookings no two requests worked on at once and that
no cut-short request touched.  `WholeInv` says how far the one request at work has come, and that
a booking nobody works on is a draft, cancelled, or has all its lines (`ConfirmedIsWhole`);
`TracedInv` that the status a request read for its history is the row's, and that the
history ends in the status unless somebody is between the two writes (`HistoryIsTrue`).

**Accounts** (`AccountsProofs`).  `CopyIsCurrent` is about a row and a copy of it that
requests read, fill and drop at different awaits.  The invariant: while no hydration
crossed a change and no drop is pending, the copy is absent or current, and what a
hydration is about to write is current too.  `OnceInv` follows a credential from the
request that finds it unused to the one write that marks it: unless two requests found it
together, the one that holds it is alone with it, and it was not used before; an invite is
held by the unique index on the email besides (`EachCredentialOnce`).  `SessionsInv` is
about passwords: while no reset is between its writes, every live session, and every
session about to be issued, was opened with the current one or is noted.  Noted are, in
`behind`, the requests that were issuing a session when a reset revoked the others or was
cut short before it did, and in `escaped` the sessions such requests issue, those that
were open when a reset was cut short, and what is refreshed from them.  Each of the four
is needed: without it the run finds a session of an earlier password (`OldSessionsEnd`).

**Identities** (`IdentitiesProofs`).  A verification that has marked its challenge works
for a user with a redeemed challenge, and a number never changes hands: that is what
`VerifiedByHolder` needs.  For recovery codes the invariant follows the one
regeneration that met no other: after its delete the codes that work are those of it
inserted so far (`AloneInv`); a code is *unborn* until it is inserted, and no request knows
it (`UnbornInv`), so that a code inserted anew was never accepted.  `SecretsWorkOnce` is that a secret already used is held only by requests
that found it along with another.  A request that is about to renew a device finds its row
as it read it, unless the row was removed meanwhile.

**Charges** (`AmountsProofs`).  `KahnInv` is the invariant of the algorithm: the degree of
a charge is the number of edges it still waits for, and those that wait for none are
ready or placed.  Pricing throws when an active charge has no place although nothing is ready;
then each such charge waits for another one, and the set of them is the circle
`OrderedUnlessCyclic` asks for.  `PlacedInv` is the other half: a place comes after the
places of what it depends on.  The loop that prices goes through the places, so a base is
settled before what is based on it (`BasedOnComputed`).  For `RefundsStayWithinRounding`,
`RoundingInv` compares what was given back of a line with its share of all refunds
so far: each refund adds at most half a unit.

**Ledger** (`AmountsProofs`).  `RowsInv` says that nothing is posted about a row there
is not, and `CaptureInv` that a payment captured once has one worker that posts it,
once. The wallet is read query by query.  `WalletInv` says, as long as nothing has moved
since the first, what each of them has found: the rows the statuses show, then all
entries about these, type by type.  At the end the wallet is therefore a difference of
sums over the provider's entries, those of other currencies and of payments no longer
succeeded aside, and the statement's closing balance is the sum of the same entries
taken by their effect on the account 2000: `WalletIsStatement` is the lemmas on what
each type of entry comes to there, and `SumOfParts`.  `StatementsTie` takes the entries
of all providers by owner (`SumOfFibers`), and uses that an entry's lines balance.
`WithdrawableIsCovered` is about payouts: `CoverInv` says of one whose dispatch did not
go astray that the callbacks to come, the unwinds posted or about to be, and its success
are together no more than the issuances, and that an issuance without lines has a worker
that inserts them.  When nothing is under way this holds of the entries alone, and is
summed over the provider's payouts.

Every safety property that a run checks, invariant or action property, is a theorem.
Only model-checked are the three liveness properties,
`ProcessingIsSettled`, `CollectedIsRecorded` and `SentIsPosted`, since fairness and ENABLED
are beyond the prover.  What a theorem does not replace is the run: that the cases the
properties are about do happen is shown there.

## 5. Assumptions

* Who may make a call is checked before anything is written, and the calls modelled
  are those that pass; `Approvals` has its eligibility check, which is not of that kind.
* KV is taken to be strongly consistent.  The real one is eventually consistent,
  so what fails here fails there; what holds here about replay keys is the best
  case.  The 48 h expiry of a replay key is not modelled.
* Tingg's outcomes are final, and it treats a repeated `merchantTransactionID` of
  a checkout as the same checkout.
* Callbacks report what is true at Tingg when they are sent (or PENDING).
* The reference for the rows is the drizzle schema (`packages/db/src/schema`),
  which is ahead of the SQL migrations.
* `acknowledgePayment` and the audit log are best effort and left out; a failing
  audit write is one of the ways a request is cut short.

## 6. Plan, and what is not modelled

Done: the modules of section 2, with proofs of all their safety properties.  What would come next:

1. An abstract `Workflow` that `Approvals` would implement when calls do not overlap.
2. `Payments`, `Payouts` and `Refunds` shown to implement the workers of `Ledger`.

Not modelled, and why:

* catalog, geography, providers, the rest of administration: single-row reads and
  writes with no protocol between them;
* which approval policy applies to an action, and the risk score of a request: functions
  over rows that no route calls;
* settlements: a function that only its tests call;
* the balances of single accounts and the daily comparison of debits with credits, which
  are equal by the way every entry is posted; the periods and line items of statements;
* enrolment and verification of second factors, none of which can be completed;
* the rate limiter: one counter, read and written back;
* notifications, web applications, telemetry, configuration, the SDK and the schema's
  declarations: I/O, layout and types.  These, above all the pages of the two web
  applications, are most of the repository's lines;
* hashing, signing and TOTP arithmetic: cryptography.
