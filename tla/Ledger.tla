------------------------------- MODULE Ledger -------------------------------
(***************************************************************************)
(* The journal (ledger.service.ts, ledger.repository.ts) and what is read  *)
(* off it: a provider's wallet (packages/provider-wallet), the statements  *)
(* (packages/statements) and the administrator's reconciliation.           *)
(*                                                                         *)
(* Payments, Payouts and Refunds specify the handlers that post; here a    *)
(* worker makes the status writes and postings the reports look at, each   *)
(* at an await of its own.  A wallet is calculated in ten queries, between *)
(* which workers go on.                                                    *)
(***************************************************************************)
EXTENDS Integers, Sequences, FiniteSets, Functions

CONSTANTS
    Payments, Payouts, Refunds,
    Owner,          \* the provider of a payment's booking, or of a payout
    PaymentOf,      \* the payment a refund is of
    AmountOf,       \* minor units of each payment, payout and refund
    Currency,       \* their currencies
    Wallets,        \* the providers and currencies wallets are asked for
    Workers,        \* invocations under way
    MaxTasks,       \* bound: invocations in all
    MaxLosses       \* bound: exceptions and evictions

Refs == Payments \cup Payouts \cup Refunds
Providers == {Owner[x] : x \in Payments \cup Payouts}
Currencies == {Currency[x] : x \in Refs}

ASSUME LedgerAssumption ==
    /\ IsFiniteSet(Payments) /\ IsFiniteSet(Payouts) /\ IsFiniteSet(Refunds)
    /\ IsFiniteSet(Workers)
    /\ Payments \cap Payouts = {} /\ (Payments \cup Payouts) \cap Refunds = {}
    /\ PaymentOf \in [Refunds -> Payments]
    /\ DOMAIN Owner = Payments \cup Payouts
    /\ AmountOf \in [Refs -> Nat] /\ DOMAIN Currency = Refs
    /\ \A f \in Refunds : /\ AmountOf[f] <= AmountOf[PaymentOf[f]]
                          /\ Currency[f] = Currency[PaymentOf[f]]
    /\ Wallets \subseteq Providers \X Currencies
    /\ MaxTasks \in Nat /\ MaxLosses \in Nat

\* What a ledger_entries row is of: its type and reference.
EntryKinds == ({"booking_payment"} \X Payments) \cup ({"refund_issuance"} \X Refunds)
            \cup ({"payout_issuance", "payout_failure_unwind"} \X Payouts)

VARIABLES
    paymentStatus,  \* payments.status
    payoutStatus,   \* payouts.status, "absent" before the row exists
    refundStatus,   \* refunds.status, "absent" before the row exists
    callbacks,      \* callbacks about a payout that Tingg has still to make
    journal,        \* per kind, its entries: whether an entry's lines exist
    doing,          \* the await a worker is about to perform
    task,           \* the kind of entry it is to post
    entry,          \* the number of the entry it has inserted
    inFull,         \* whether the refunds it has read make up the payment
    query,          \* where the calculation of a wallet is
    whose,          \* the provider and the currency it is for
    ids,            \* the references it has found
    found,          \* the entries it has found
    balance,        \* currentBalance
    withdrawable,   \* and withdrawable, once calculated
    overtaken,      \* history: whether a worker moved since it began
    again,          \* history: payments captured twice at once, or reopened
    astray,         \* history: payouts whose dispatch failed or was cut short
    tasks, losses

ledgerRows == <<paymentStatus, payoutStatus, refundStatus, callbacks>>
workVars == <<doing, task, entry, inFull>>
walletVars == <<query, whose, ids, found, balance, withdrawable>>
ledgerHistory == <<again, astray>>
ledgerVars == <<ledgerRows, journal, workVars, walletVars, overtaken, ledgerHistory, tasks, losses>>

-----------------------------------------------------------------------------
(* Postings *)

\* Math.round(amount * 0.05)
Fee(a) == (5 * a + 50) \div 100

Line(account, debit, credit) == [account |-> account, debit |-> debit, credit |-> credit]

\* A refund is posted as after a payout (a variant).
LinesAfterPayout(kind) ==
    LET a == AmountOf[kind[2]] IN
    CASE kind[1] = "booking_payment" ->
           {Line("1100", a, 0), Line("2000", 0, a - Fee(a)), Line("4000", 0, Fee(a))}
      [] kind[1] = "payout_issuance" -> {Line("2000", a, 0), Line("1200", 0, a)}
      [] kind[1] = "payout_failure_unwind" -> {Line("1200", a, 0), Line("2000", 0, a)}
      [] kind[1] = "refund_issuance" -> {Line("6000", a, 0), Line("1200", 0, a)}

\* The lines of an entry.  Refunds are posted as before a payout: no booking is
\* ever in the statuses of a payout that was issued.
Lines(kind) ==
    LET a == AmountOf[kind[2]] IN
    CASE kind[1] = "booking_payment" ->
           {Line("1100", a, 0), Line("2000", 0, a - Fee(a)), Line("4000", 0, Fee(a))}
      [] kind[1] = "payout_issuance" -> {Line("2000", a, 0), Line("1200", 0, a)}
      [] kind[1] = "payout_failure_unwind" -> {Line("1200", a, 0), Line("2000", 0, a)}
      [] kind[1] = "refund_issuance" -> {Line("2000", a, 0), Line("2100", 0, a)}

\* createEntry refuses lines that do not balance.
Balanced(lines) ==
    SumFunction([l \in lines |-> l.debit]) = SumFunction([l \in lines |-> l.credit])

On(kind, account) == {l \in Lines(kind) : l.account = account}
Debit(kind, account) == SumFunction([l \in On(kind, account) |-> l.debit])
Credit(kind, account) == SumFunction([l \in On(kind, account) |-> l.credit])

\* The entries of some kinds, by number, and those of them that have lines.
Entries(kinds) == UNION {{k} \X DOMAIN journal[k] : k \in kinds}
Lined(es) == {e \in es : journal[e[1]][e[2]]}

Debits(es, account) == SumFunction([e \in Lined(es) |-> Debit(e[1], account)])
Credits(es, account) == SumFunction([e \in Lined(es) |-> Credit(e[1], account)])

-----------------------------------------------------------------------------
(* Variants: plausible bugs, one per property.  No action uses them; two   *)
(* others stand beside what they vary, marked as such.                     *)

\* A payment that is settled is captured all the same.
OpenAny(p) == TRUE

\* The entries of a payout that failed are left alone.
PayoutRowsUnfailed == {k \in Payouts : payoutStatus[k] \notin {"absent", "failed"}}

-----------------------------------------------------------------------------
(* Workers *)

NoTask == <<"none", "none">>

Start(w, step, kind) ==
    /\ doing[w] = "idle" /\ tasks < MaxTasks
    /\ tasks' = tasks + 1
    /\ doing' = [doing EXCEPT ![w] = step]
    /\ task' = [task EXCEPT ![w] = kind]

\* A worker that is done forgets its task.
Proceed(w, from, to) ==
    /\ doing[w] = from
    /\ doing' = [doing EXCEPT ![w] = to]
    /\ task' = IF to = "idle" THEN [task EXCEPT ![w] = NoTask] ELSE task

\* A wallet is crossed by whatever moves once its calculation has begun.
Moves ==
    /\ overtaken' = (overtaken \/ query # "idle")
    /\ UNCHANGED walletVars

\* The page asks about payments in processing; replay keys stop later callbacks.
Open(p) == paymentStatus[p] = "processing"

\* A callback, or the status page, has learned that Tingg collected a payment, in
\* the amount asked for.
StartCapture(w, p) ==
    /\ Open(p)
    /\ Start(w, "succeed", <<"booking_payment", p>>)
    /\ again' = IF \E v \in Workers :
                      doing[v] = "succeed" /\ task[v] = <<"booking_payment", p>>
                THEN again \cup {p} ELSE again
    /\ UNCHANGED <<ledgerRows, journal, entry, inFull, astray, losses>>

MarkSucceeded(w) ==
    /\ Proceed(w, "succeed", "insert")
    /\ paymentStatus' = [paymentStatus EXCEPT ![task[w][2]] = "succeeded"]
    /\ UNCHANGED <<payoutStatus, refundStatus, callbacks, journal, entry, inFull,
                   ledgerHistory, tasks, losses>>

\* The first callback about a payment the page has settled says PENDING.
LatePending(p) ==
    /\ paymentStatus[p] # "processing" /\ tasks < MaxTasks
    /\ tasks' = tasks + 1
    /\ paymentStatus' = [paymentStatus EXCEPT ![p] = "processing"]
    /\ again' = again \cup {p}
    /\ UNCHANGED <<payoutStatus, refundStatus, callbacks, journal, workVars, astray,
                   losses>>

CreatePayout(k) ==
    /\ payoutStatus[k] = "absent"
    /\ \E s \in {"pending", "on_hold"} : payoutStatus' = [payoutStatus EXCEPT ![k] = s]
    /\ UNCHANGED <<paymentStatus, refundStatus, callbacks, journal, workVars,
                   ledgerHistory, tasks, losses>>

\* dispatchPayout, by itself or after approvePayout or retryPayout.
StartDispatch(w, k) ==
    /\ payoutStatus[k] \in {"pending", "on_hold", "failed"}
    /\ Start(w, "claim", <<"payout_issuance", k>>)
    /\ payoutStatus' = [payoutStatus EXCEPT ![k] = "pending"]
    /\ UNCHANGED <<paymentStatus, refundStatus, callbacks, journal, entry, inFull,
                   ledgerHistory, losses>>

Claim(w) ==
    /\ Proceed(w, "claim", "call")
    /\ payoutStatus' = [payoutStatus EXCEPT ![task[w][2]] = "processing"]
    /\ UNCHANGED <<paymentStatus, refundStatus, callbacks, journal, entry, inFull,
                   ledgerHistory, tasks, losses>>

\* Tingg accepts the payment and will report on it.
Accepted(w) ==
    LET k == task[w][2] IN
    /\ Proceed(w, "call", "insert")
    /\ payoutStatus' = [payoutStatus EXCEPT ![k] = "processing"]
    /\ callbacks' = [callbacks EXCEPT ![k] = @ + 1]
    /\ UNCHANGED <<paymentStatus, refundStatus, journal, entry, inFull, ledgerHistory, tasks, losses>>

\* Tingg refuses, or the call throws.
Refused(w) ==
    /\ Proceed(w, "call", "fail")
    /\ astray' = astray \cup {task[w][2]}
    /\ UNCHANGED <<ledgerRows, journal, entry, inFull, again, tasks, losses>>

\* What failed is unwound, whether or not it had been posted.
Fail(w) ==
    LET k == task[w][2] IN
    /\ doing[w] = "fail" /\ doing' = [doing EXCEPT ![w] = "insert"]
    /\ payoutStatus' = [payoutStatus EXCEPT ![k] = "failed"]
    /\ task' = [task EXCEPT ![w] = <<"payout_failure_unwind", k>>]
    /\ UNCHANGED <<paymentStatus, refundStatus, callbacks, journal, entry, inFull,
                   ledgerHistory, tasks, losses>>

\* The callback about a payment: only the first one counts.
Report(k) ==
    /\ callbacks[k] > 0
    /\ callbacks' = [callbacks EXCEPT ![k] = @ - 1]
    /\ \E s \in {"succeeded", "processing"} : payoutStatus' = [payoutStatus EXCEPT ![k] = s]
    /\ UNCHANGED <<paymentStatus, refundStatus, journal, workVars, ledgerHistory, tasks,
                   losses>>

ReportFailed(w, k) ==
    /\ callbacks[k] > 0
    /\ Start(w, "insert", <<"payout_failure_unwind", k>>)
    /\ callbacks' = [callbacks EXCEPT ![k] = @ - 1]
    /\ payoutStatus' = [payoutStatus EXCEPT ![k] = "failed"]
    /\ UNCHANGED <<paymentStatus, refundStatus, journal, entry, inFull, ledgerHistory,
                   losses>>

\* requestRefund, up to where Tingg is asked.
BeginRefund(w, f) ==
    /\ refundStatus[f] = "absent"
    /\ paymentStatus[PaymentOf[f]] \in {"succeeded", "partially_refunded"}
    /\ Start(w, "refund", <<"refund_issuance", f>>)
    /\ refundStatus' = [refundStatus EXCEPT ![f] = "processing"]
    /\ UNCHANGED <<paymentStatus, payoutStatus, callbacks, journal, entry, inFull,
                   ledgerHistory, losses>>

RefundAnswered(w) ==
    \E s \in {"succeeded", "failed"} :
        /\ Proceed(w, "refund", IF s = "succeeded" THEN "insert" ELSE "idle")
        /\ refundStatus' = [refundStatus EXCEPT ![task[w][2]] = s]
        /\ UNCHANGED <<paymentStatus, payoutStatus, callbacks, journal, entry, inFull,
                       ledgerHistory, tasks, losses>>

ReadRefunded(w) ==
    LET p == PaymentOf[task[w][2]]
        done == {f \in Refunds : PaymentOf[f] = p /\ refundStatus[f] = "succeeded"}
    IN
    /\ Proceed(w, "total", "settle")
    /\ inFull' = [inFull EXCEPT ![w] = SumFunctionOnSet(AmountOf, done) >= AmountOf[p]]
    /\ UNCHANGED <<ledgerRows, journal, entry, ledgerHistory, tasks, losses>>

SettleRefund(w) ==
    /\ Proceed(w, "settle", "idle")
    /\ paymentStatus' = [paymentStatus EXCEPT ![PaymentOf[task[w][2]]] =
                      IF inFull[w] THEN "refunded" ELSE "partially_refunded"]
    /\ inFull' = [inFull EXCEPT ![w] = FALSE]
    /\ UNCHANGED <<payoutStatus, refundStatus, callbacks, journal, entry, ledgerHistory, tasks, losses>>

-----------------------------------------------------------------------------
(* createEntry: the entry, and an await later its lines *)

InsertEntry(w) ==
    LET k == task[w] IN
    /\ Proceed(w, "insert", "lines")
    /\ Balanced(Lines(k))
    /\ journal' = [journal EXCEPT ![k] = Append(@, FALSE)]
    /\ entry' = [entry EXCEPT ![w] = Len(journal[k]) + 1]
    /\ UNCHANGED <<ledgerRows, inFull, ledgerHistory, tasks, losses>>

InsertLines(w) ==
    LET k == task[w] IN
    /\ Proceed(w, "lines", IF k[1] = "refund_issuance" THEN "total" ELSE "idle")
    /\ journal' = [journal EXCEPT ![k][entry[w]] = TRUE]
    /\ entry' = [entry EXCEPT ![w] = 0]
    /\ UNCHANGED <<ledgerRows, inFull, ledgerHistory, tasks, losses>>

Forget(w) ==
    /\ entry' = [entry EXCEPT ![w] = 0]
    /\ inFull' = [inFull EXCEPT ![w] = FALSE]

\* An await throws.  dispatchPayout and processApprovedRefund catch it; the
\* others end there, as does every worker that is evicted.
ThrowIn(w) ==
    /\ doing[w] \in {"insert", "lines", "total", "settle"} /\ losses < MaxLosses
    /\ losses' = losses + 1
    /\ \/ /\ task[w][1] = "payout_issuance"
          /\ Proceed(w, doing[w], "fail")
          /\ UNCHANGED refundStatus
       \/ /\ task[w][1] = "refund_issuance"
          /\ Proceed(w, doing[w], "idle")
          /\ refundStatus' = [refundStatus EXCEPT ![task[w][2]] = "failed"]
    /\ astray' = IF task[w][1] = "payout_issuance" THEN astray \cup {task[w][2]} ELSE astray
    /\ Forget(w)
    /\ UNCHANGED <<paymentStatus, payoutStatus, callbacks, journal, again, tasks>>

EvictWorker(w) ==
    /\ doing[w] # "idle" /\ losses < MaxLosses
    /\ losses' = losses + 1
    /\ Proceed(w, doing[w], "idle") /\ Forget(w)
    /\ astray' = IF task[w][2] \in Payouts THEN astray \cup {task[w][2]} ELSE astray
    /\ UNCHANGED <<ledgerRows, journal, again, tasks>>

-----------------------------------------------------------------------------
(* calculateProviderBalance *)

OwnerOf(x) == IF x \in Refunds THEN Owner[PaymentOf[x]] ELSE Owner[x]

Query(from, to) ==
    /\ query = from /\ query' = to
    /\ UNCHANGED <<ledgerRows, journal, workVars, whose, overtaken, ledgerHistory, tasks, losses>>

StartWallet(of) ==
    /\ query = "idle" /\ query' = "payments"
    /\ whose' = of
    /\ overtaken' = FALSE
    /\ UNCHANGED <<ledgerRows, journal, workVars, ids, found, balance, withdrawable,
                   ledgerHistory, tasks, losses>>

\* Of this provider: payments that are succeeded, and payouts and refunds of
\* whatever status.
FindIds(from, to, rows) ==
    /\ Query(from, to)
    /\ ids' = ids \cup {x \in rows : OwnerOf(x) = whose[1]}
    /\ UNCHANGED <<found, balance, withdrawable>>

FindEntries(type, to) ==
    /\ Query(type, to)
    /\ found' = found \cup Entries({k \in EntryKinds : k[1] = type /\ k[2] \in ids})
    /\ UNCHANGED <<ids, balance, withdrawable>>

\* The lines of what was found, on the payable account, in the currency.
Found(type) == {e \in found : e[1][1] = type /\ Currency[e[1][2]] = whose[2]}

SumLines ==
    /\ Query("sums", "held")
    /\ balance' = Credits(Found("booking_payment"), "2000")
                    - Debits(Found("payout_issuance"), "2000")
                    - Debits(Found("refund_issuance"), "2000")
                    + Credits(Found("payout_failure_unwind"), "2000")
    /\ UNCHANGED <<ids, found, withdrawable>>

\* The amounts of the provider's payouts in some statuses, in the currency.
Held(v, c, statuses) ==
    SumFunctionOnSet(AmountOf,
                     {k \in Payouts : /\ Owner[k] = v /\ Currency[k] = c
                                     /\ payoutStatus[k] \in statuses})

\* Payouts that wait for approval are forgotten (a variant).
FreeOfTransit == balance - Held(whose[1], whose[2], {"processing"})

Free == balance - Held(whose[1], whose[2], {"processing"})
                - Held(whose[1], whose[2], {"on_hold"})

SumHeld ==
    /\ Query("held", "done")
    /\ withdrawable' = IF Free > 0 THEN Free ELSE 0
    /\ UNCHANGED <<ids, found, balance>>

PayoutRows == {k \in Payouts : payoutStatus[k] # "absent"}

WalletStep ==
    \/ FindIds("payments", "payouts", {p \in Payments : paymentStatus[p] = "succeeded"})
    \/ FindIds("payouts", "refunds", PayoutRows)
    \/ FindIds("refunds", "booking_payment", {f \in Refunds : refundStatus[f] # "absent"})
    \/ FindEntries("booking_payment", "payout_issuance")
    \/ FindEntries("payout_issuance", "payout_failure_unwind")
    \/ FindEntries("payout_failure_unwind", "refund_issuance")
    \/ FindEntries("refund_issuance", "sums")
    \/ SumLines \/ SumHeld

-----------------------------------------------------------------------------
(* The statements and the reconciliation, as nothing crosses them *)

\* generateProviderStatement: every entry about the provider, whatever its
\* currency and the status of its reference.
ProviderEntries(v) == Entries({k \in EntryKinds : OwnerOf(k[2]) = v})
ClosingBalance(v) ==
    Credits(ProviderEntries(v), "2000") - Debits(ProviderEntries(v), "2000")

\* generatePlatformStatement.
TotalGrossBookings == Debits(Entries(EntryKinds), "1100")
TotalCommissionEarned == Credits(Entries(EntryKinds), "4000")
TotalPayoutsDispatched == Credits(Entries(EntryKinds), "1200")

-----------------------------------------------------------------------------
LedgerInit ==
    /\ paymentStatus = [p \in Payments |-> "processing"]
    /\ payoutStatus = [k \in Payouts |-> "absent"]
    /\ refundStatus = [f \in Refunds |-> "absent"]
    /\ callbacks = [k \in Payouts |-> 0]
    /\ journal = [k \in EntryKinds |-> <<>>]
    /\ doing = [w \in Workers |-> "idle"]
    /\ task = [w \in Workers |-> NoTask]
    /\ entry = [w \in Workers |-> 0]
    /\ inFull = [w \in Workers |-> FALSE]
    /\ query = "idle" /\ whose = <<>>
    /\ ids = {} /\ found = {} /\ balance = 0 /\ withdrawable = 0
    /\ overtaken = FALSE
    /\ again = {} /\ astray = {}
    /\ tasks = 0 /\ losses = 0

Work(w) ==
    \/ \E p \in Payments : StartCapture(w, p)
    \/ \E k \in Payouts : StartDispatch(w, k) \/ ReportFailed(w, k)
    \/ \E f \in Refunds : BeginRefund(w, f)
    \/ MarkSucceeded(w) \/ Claim(w) \/ Accepted(w) \/ Refused(w) \/ Fail(w)
    \/ RefundAnswered(w) \/ ReadRefunded(w) \/ SettleRefund(w)
    \/ InsertEntry(w) \/ InsertLines(w) \/ ThrowIn(w) \/ EvictWorker(w)

LedgerNext ==
    \/ /\ \/ \E w \in Workers : Work(w)
          \/ \E p \in Payments : LatePending(p)
          \/ \E k \in Payouts : CreatePayout(k) \/ Report(k)
       /\ Moves
    \/ \E of \in Wallets : StartWallet(of)
    \/ WalletStep

LedgerSpec == LedgerInit /\ [][LedgerNext]_ledgerVars

-----------------------------------------------------------------------------
(* Type invariant *)

\* Every row, local and entry holds a value the code can put there.
LedgerTypeOK ==
    /\ paymentStatus \in
          [Payments -> {"processing", "succeeded", "partially_refunded", "refunded"}]
    /\ payoutStatus \in
          [Payouts -> {"absent", "on_hold", "pending", "processing", "succeeded", "failed"}]
    /\ refundStatus \in [Refunds -> {"absent", "processing", "succeeded", "failed"}]
    /\ callbacks \in [Payouts -> Nat]
    /\ journal \in [EntryKinds -> Seq(BOOLEAN)]
    /\ doing \in [Workers -> {"idle", "succeed", "claim", "call", "fail", "refund", "insert",
                           "lines", "total", "settle"}]
    /\ task \in [Workers -> EntryKinds \cup {NoTask}] /\ entry \in [Workers -> Nat]
    /\ inFull \in [Workers -> BOOLEAN]
    /\ ids \subseteq Refs /\ found \subseteq EntryKinds \X Nat
    /\ balance \in Int /\ withdrawable \in Nat
    /\ overtaken \in BOOLEAN
    /\ again \subseteq Payments /\ astray \subseteq Payouts
    /\ tasks \in 0..MaxTasks /\ losses \in 0..MaxLosses

-----------------------------------------------------------------------------
(* Safety *)

\* A provider is credited with a payment twice only if a callback and the page
\* captured it at once, or a late callback reopened it.
CreditedTwiceOnlyIfAgain ==
    \A p \in Payments : Len(journal[<<"booking_payment", p>>]) > 1 => p \in again

\* A wallet that nothing crossed shows what the provider's statement closes
\* with, but for other currencies, which the statement adds up with this one,
\* and payments that are no longer "succeeded", such as the partly refunded
\* ones, which the wallet drops while it keeps their refunds.
WalletIsStatement ==
    query = "done" /\ ~overtaken =>
        LET all == ProviderEntries(whose[1])
            other == {e \in all :
                        \/ Currency[e[1][2]] # whose[2]
                        \/ e[1][2] \in Payments /\ paymentStatus[e[1][2]] # "succeeded"}
        IN  ClosingBalance(whose[1]) =
              balance + Credits(other, "2000") - Debits(other, "2000")

\* What a provider may still withdraw, with what was paid out or is held for
\* it and what customers got back, is no more than was earned: unless the
\* calculation was crossed or posting is under way, or a dispatch failed, which
\* credits the payout though it had not been debited.
WithdrawableIsCovered ==
    LET v == whose[1]
        c == whose[2]
        mine == {e \in ProviderEntries(v) : Currency[e[1][2]] = c}
    IN
    /\ query = "done" /\ ~overtaken /\ withdrawable > 0
    /\ \A w \in Workers : doing[w] = "idle"
    /\ \A k \in astray : Owner[k] # v
    => withdrawable + Held(v, c, {"on_hold", "processing", "succeeded"})
         + Debits({e \in mine : e[1][2] \in Refunds}, "2000")
       <= Credits({e \in mine : e[1][2] \in Payments}, "2000")

\* The platform's statement and the providers' tell of the same money: what came
\* in less the commission, the payouts that were not taken back and the refunds
\* is what is owed to the providers.
StatementsTie ==
    SumFunction([v \in Providers |-> ClosingBalance(v)]) =
        TotalGrossBookings - TotalCommissionEarned
          - (TotalPayoutsDispatched - Debits(Entries(EntryKinds), "1200"))
          - Credits(Entries(EntryKinds), "2100")
=============================================================================
