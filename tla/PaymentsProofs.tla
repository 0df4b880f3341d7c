--------------------------- MODULE PaymentsProofs ---------------------------
(* Proofs about Payments, for any number of bookings, payments, requests    *)
(* and failures.                                                            *)
EXTENDS Payments, TLAPS

(* What the parameters of an action range over. *)
Answers == {"SUCCESS", "FAILED"}
Callbacks == {"PENDING", "SUCCESS", "FAILED"}
Outcomes == {"collected", "declined"}
Targets == {"cancelled", "confirmed"}

-----------------------------------------------------------------------------
(* The inductive invariant.  What makes a write at the end of a handler     *)
(* right is something an earlier await of it learned; a later state keeps   *)
(* it because money once collected stays collected, and that in turn is so  *)
(* because no two requests ever open a checkout for one row.                *)

\* The awaits of a request that has been told an outcome by the provider.
Told == {"split_get", "split_put", "split_find", "replay_get", "replay_put",
         "update", "settle"}

\* Its awaits after the outcome turned out to be SUCCESS.
Crediting == {"book", "post", "post_lines"}

LocalsInv ==
    \A r \in Requests :
        /\ pc[r] \in {"call", "save", "query", "settle"} => subj[r] \in Payments
        /\ pc[r] \in Told => subj[r] \in Payments \cup Strays
        /\ pc[r] \in {"existing", "create", "desk"} => bk[r] \in Bookings
        /\ pc[r] = "desk" => status[r] \in Targets

RowsInv ==
    \A p \in Payments : payment[p] = "absent" => tingg[p] = "none"

\* Only the request that created a row asks Tingg for its checkout, once.
CallsInv ==
    \A r \in Requests :
        pc[r] = "call" =>
            /\ payment[subj[r]] # "absent"
            /\ tingg[subj[r]] = "none"
            /\ \A q \in Requests : pc[q] = "call" /\ subj[q] = subj[r] => q = r

\* What a request believes about the provider is so.
BeliefsInv ==
    \A r \in Requests :
        /\ pc[r] \in Told /\ status[r] = "SUCCESS" /\ subj[r] \in Payments
             => subj[r] \in Collected
        /\ pc[r] \in Crediting => subj[r] \in Collected
        /\ pc[r] = "desk" /\ status[r] = "confirmed" => CollectedFor(bk[r]) # {}

IInv ==
    /\ TypeOK
    /\ LocalsInv
    /\ RowsInv
    /\ CallsInv
    /\ BeliefsInv
    /\ RecordedOnlyIfCollected
    /\ PaidOnlyIfCollected

LEMMA InitIInv == Init => IInv
  BY PaymentsAssumption
  DEF Init, IInv, TypeOK, LocalsInv, RowsInv, CallsInv, BeliefsInv, Told, Crediting,
      RecordedOnlyIfCollected, PaidOnlyIfCollected, BookingStatus, PaymentStatus,
      TinggStatus, Running, Terminal

-----------------------------------------------------------------------------
(* One lemma per kind of step *)

LEMMA ArriveIInv ==
    ASSUME IInv, NEW r \in Requests, Arrive(r)
    PROVE  IInv'
<1>0. USE PaymentsAssumption
      DEF IInv, TypeOK, LocalsInv, RowsInv, CallsInv, BeliefsInv, Told, Crediting,
          RecordedOnlyIfCollected, PaidOnlyIfCollected, Collected, CollectedFor,
          Begin, Goto, FinishedPeers, Running, Terminal, dbVars, kvVars, ledgerVars,
          Callbacks, Targets
<1>1. ASSUME NEW b \in Bookings, StartCheckout(r, b) PROVE IInv'
  BY <1>1 DEF StartCheckout
<1>2. ASSUME NEW p \in Payments \cup Strays, NEW s \in Callbacks, Deliver(r, p, s)
      PROVE  IInv'
  <2>1. s = "SUCCESS" /\ p \in Payments => p \in Collected
    BY <1>2 DEF Deliver, Sent
  <2> HIDE DEF Collected
  <2>2. Collected' = Collected
    BY <1>2 DEF Deliver, Collected
  <2> QED  BY <1>2, <2>1, <2>2 DEF Deliver
<1>3. ASSUME NEW p \in Payments, OpenPage(r, p) PROVE IInv'
  BY <1>3 DEF OpenPage
<1>4. ASSUME NEW b \in Bookings, NEW t \in Targets, StartDesk(r, b, t)
      PROVE  IInv'
  BY <1>4 DEF StartDesk, MayBecome
<1> QED  BY <1>1, <1>2, <1>3, <1>4 DEF Arrive

LEMMA CheckoutIInv ==
    ASSUME IInv, NEW r \in Requests, CheckoutStep(r)
    PROVE  IInv'
<1>0. USE PaymentsAssumption
      DEF IInv, TypeOK, LocalsInv, RowsInv, CallsInv, BeliefsInv, Told, Crediting,
          RecordedOnlyIfCollected, PaidOnlyIfCollected, Collected, CollectedFor,
          Goto, Running, Terminal, PaymentStatus, TinggStatus,
          dbVars, kvVars, ledgerVars, localVars, Answers
<1>1. ASSUME CheckExisting(r) PROVE IInv'
  BY <1>1 DEF CheckExisting
<1>2. ASSUME CreatePayment(r) PROVE IInv'
  BY <1>2 DEF CreatePayment
<1>3. ASSUME SaveCheckout(r) PROVE IInv'
  BY <1>3 DEF SaveCheckout
<1>4. ASSUME NEW answer \in Answers, CallTingg(r, answer) PROVE IInv'
  BY <1>4 DEF CallTingg
<1> QED  BY <1>1, <1>2, <1>3, <1>4 DEF CheckoutStep

LEMMA HookIInv ==
    ASSUME IInv, NEW r \in Requests, HookStep(r)
    PROVE  IInv'
<1>0. USE PaymentsAssumption
      DEF IInv, TypeOK, LocalsInv, RowsInv, CallsInv, BeliefsInv, Told, Crediting,
          RecordedOnlyIfCollected, PaidOnlyIfCollected, Collected, CollectedFor,
          Goto, Running, Terminal, PaymentStatus, TinggStatus, BookingStatus,
          dbVars, kvVars, ledgerVars, localVars
<1>1. ASSUME SplitGet(r) PROVE IInv'
  BY <1>1 DEF SplitGet
<1>2. ASSUME SplitPut(r) PROVE IInv'
  BY <1>2 DEF SplitPut
<1>3. ASSUME NotASplit(r) PROVE IInv'
  BY <1>3 DEF NotASplit
<1>4. ASSUME ReplayGet(r) PROVE IInv'
  BY <1>4 DEF ReplayGet
<1>5. ASSUME ReplayPut(r) PROVE IInv'
  BY <1>5 DEF ReplayPut
<1>6. ASSUME UnknownPayment(r) PROVE IInv'
  BY <1>6 DEF UnknownPayment
<1>7. ASSUME UpdatePayment(r) PROVE IInv'
  BY <1>7 DEF UpdatePayment, RowExists, StatusFor
<1>8. ASSUME MarkBookingPaid(r) PROVE IInv'
  BY <1>8 DEF MarkBookingPaid
<1> QED  BY <1>1, <1>2, <1>3, <1>4, <1>5, <1>6, <1>7, <1>8 DEF HookStep

\* Polls, ledger entries and the desk's writes.
LEMMA OtherStepIInv ==
    ASSUME IInv, NEW r \in Requests,
           PageStep(r) \/ DeskWrite(r) \/ PostEntry(r) \/ PostLines(r)
    PROVE  IInv'
<1>0. USE PaymentsAssumption
      DEF IInv, TypeOK, LocalsInv, RowsInv, CallsInv, BeliefsInv, Told, Crediting,
          RecordedOnlyIfCollected, PaidOnlyIfCollected, Collected, CollectedFor,
          Goto, Running, Terminal, PaymentStatus, TinggStatus, BookingStatus,
          dbVars, kvVars, ledgerVars, localVars, Targets
<1>1. ASSUME QueryStatus(r) PROVE IInv'
  BY <1>1 DEF QueryStatus
<1>2. ASSUME SettleFromPoll(r) PROVE IInv'
  BY <1>2 DEF SettleFromPoll, StatusFor
<1>3. ASSUME DeskWrite(r) PROVE IInv'
  BY <1>3 DEF DeskWrite
<1>4. ASSUME PostEntry(r) PROVE IInv'
  BY <1>4 DEF PostEntry
<1>5. ASSUME PostLines(r) PROVE IInv'
  BY <1>5 DEF PostLines
<1> QED  BY <1>1, <1>2, <1>3, <1>4, <1>5 DEF PageStep

\* Failures, the next request of a slot, and the provider's own steps.
LEMMA EnvironmentIInv ==
    ASSUME IInv,
           \/ \E r \in Requests : LoseAnswer(r) \/ Abort(r) \/ Recycle(r)
           \/ \E p \in Payments, outcome \in Outcomes : Settle(p, outcome)
    PROVE  IInv'
<1>0. USE PaymentsAssumption
      DEF IInv, TypeOK, LocalsInv, RowsInv, CallsInv, BeliefsInv, Told, Crediting,
          RecordedOnlyIfCollected, PaidOnlyIfCollected, Collected, CollectedFor,
          Goto, Running, Terminal, TinggStatus, Outcomes,
          dbVars, kvVars, ledgerVars, localVars
<1>1. ASSUME NEW r \in Requests, LoseAnswer(r) PROVE IInv'
  BY <1>1 DEF LoseAnswer
<1>2. ASSUME NEW r \in Requests, Abort(r) PROVE IInv'
  BY <1>2 DEF Abort
<1>3. ASSUME NEW r \in Requests, Recycle(r) PROVE IInv'
  <2>1. before' \in [Requests -> SUBSET Requests]
    BY <1>3 DEF Recycle
  <2>2. TypeOK'
    BY <1>3, <2>1 DEF Recycle
  <2>3. \A q \in Requests : pc'[q] # "idle" =>
           pc'[q] = pc[q] /\ subj'[q] = subj[q] /\ bk'[q] = bk[q]
           /\ status'[q] = status[q]
    BY <1>3 DEF Recycle
  <2>4. UNCHANGED <<booking, payment, tingg, entries>>
    BY <1>3 DEF Recycle
  <2> HIDE DEF TypeOK
  <2> QED  BY <2>2, <2>3, <2>4
<1>4. ASSUME NEW p \in Payments, NEW outcome \in Outcomes, Settle(p, outcome)
      PROVE  IInv'
  BY <1>4 DEF Settle
<1> QED  BY <1>1, <1>2, <1>3, <1>4

LEMMA NextIInv == IInv /\ [Next]_vars => IInv'
<1>1. ASSUME IInv, Next PROVE IInv'
  BY <1>1, ArriveIInv, CheckoutIInv, HookIInv, OtherStepIInv, EnvironmentIInv
  DEF Next, Step, Outcomes
<1>2. ASSUME IInv, UNCHANGED vars PROVE IInv'
  BY <1>2
  DEF IInv, TypeOK, LocalsInv, RowsInv, CallsInv, BeliefsInv,
      RecordedOnlyIfCollected, PaidOnlyIfCollected, Collected, CollectedFor,
      vars, dbVars, kvVars, ledgerVars, localVars
<1> QED  BY <1>1, <1>2

THEOREM InductiveInvariant == Spec => []IInv
  BY InitIInv, NextIInv, PTL DEF Spec

-----------------------------------------------------------------------------
(* What follows from it *)

\* Every row, key and request local holds a value the code can put there.
THEOREM TypeCorrect == Spec => []TypeOK
  BY InductiveInvariant, PTL DEF IInv

\* Only payments the provider collected are succeeded rows or ledger entries.
THEOREM OnlyCollectedIsRecorded == Spec => []RecordedOnlyIfCollected
  BY InductiveInvariant, PTL DEF IInv

\* Only bookings with a collected payment are paid or confirmed.
THEOREM OnlyCollectedIsPaid == Spec => []PaidOnlyIfCollected
  BY InductiveInvariant, PTL DEF IInv

-----------------------------------------------------------------------------
(* Payments implements Collections *)

AbstractState == <<Collected, entries, Cleared>>

\* A step that leaves these rows alone is invisible in Collections.
LEMMA QuietSteps ==
    ASSUME UNCHANGED <<tingg, entries, booking>>
    PROVE  UNCHANGED AbstractState
  BY DEF AbstractState, Collected, Cleared

LEMMA StepRefines ==
    ASSUME IInv, NEW r \in Requests,
           Arrive(r) \/ Step(r) \/ LoseAnswer(r) \/ Abort(r) \/ Recycle(r)
    PROVE  Abstract!Next \/ UNCHANGED AbstractState
<1>1. CASE \/ CheckExisting(r) \/ CreatePayment(r) \/ SaveCheckout(r)
           \/ SplitGet(r) \/ SplitPut(r) \/ NotASplit(r)
           \/ ReplayGet(r) \/ ReplayPut(r)
           \/ UnknownPayment(r) \/ UpdatePayment(r)
           \/ PageStep(r) \/ PostLines(r) \/ Abort(r) \/ Recycle(r) \/ Arrive(r)
  <2>1. UNCHANGED <<tingg, entries, booking>>
    BY <1>1
    DEF CheckExisting, CreatePayment, SaveCheckout, SplitGet, SplitPut, NotASplit,
        ReplayGet, ReplayPut, UnknownPayment, UpdatePayment, PageStep, QueryStatus,
        SettleFromPoll, PostLines, Abort, Recycle, Arrive, StartCheckout, Deliver,
        OpenPage, StartDesk, dbVars, kvVars, ledgerVars, localVars
  <2> QED  BY <2>1, QuietSteps
<1>2. CASE LoseAnswer(r) \/ \E answer \in Answers : CallTingg(r, answer)
  \* A checkout is opened once only, so that no collected money is forgotten.
  <2>1. subj[r] \in Payments /\ tingg[subj[r]] = "none"
    BY <1>2 DEF IInv, LocalsInv, CallsInv, LoseAnswer, CallTingg, Goto
  <2>2. Collected' = Collected
    BY <1>2, <2>1 DEF IInv, TypeOK, Collected, LoseAnswer, CallTingg
  <2>3. UNCHANGED <<entries, booking>>
    BY <1>2 DEF LoseAnswer, CallTingg, dbVars, ledgerVars
  <2> QED  BY <2>2, <2>3 DEF AbstractState, Cleared
<1>3. CASE MarkBookingPaid(r)
  <2> DEFINE b == BookingOf[subj[r]]
  <2>1. subj[r] \in Collected /\ b \in Bookings
    BY <1>3, PaymentsAssumption
    DEF IInv, BeliefsInv, Crediting, MarkBookingPaid, Goto, Collected
  <2>2. Cleared' = Cleared \cup {b}
    BY <1>3, <2>1 DEF IInv, TypeOK, MarkBookingPaid, Cleared
  <2>3. UNCHANGED <<Collected, entries>>
    BY <1>3 DEF MarkBookingPaid, Collected, ledgerVars
  <2>4. Abstract!Clear(b)
    BY <2>1, <2>2, <2>3 DEF Abstract!Clear
  <2> QED  BY <2>1, <2>4 DEF Abstract!Next
<1>4. CASE PostEntry(r)
  <2>1. subj[r] \in Collected
    BY <1>4 DEF IInv, BeliefsInv, Crediting, PostEntry, Goto
  <2>2. UNCHANGED <<Collected, Cleared>>
    BY <1>4 DEF PostEntry, Collected, Cleared, dbVars
  <2>3. Abstract!Record(subj[r])
    BY <1>4, <2>1, <2>2 DEF Abstract!Record, PostEntry
  <2> QED  BY <2>1, <2>3 DEF Abstract!Next, Collected
<1>5. CASE DeskWrite(r)
  <2>1. /\ bk[r] \in Bookings /\ status[r] \in Targets
        /\ status[r] = "confirmed" => CollectedFor(bk[r]) # {}
    BY <1>5 DEF IInv, LocalsInv, BeliefsInv, DeskWrite, Goto
  <2>2. UNCHANGED <<Collected, entries>>
    BY <1>5 DEF DeskWrite, Collected, ledgerVars
  <2>3. CASE status[r] = "confirmed"
    <3>1. Cleared' = Cleared \cup {bk[r]}
      BY <1>5, <2>1, <2>3 DEF IInv, TypeOK, DeskWrite, Cleared
    <3>2. Abstract!Clear(bk[r])
      BY <2>1, <2>2, <2>3, <3>1 DEF Abstract!Clear, CollectedFor
    <3> QED  BY <2>1, <3>2 DEF Abstract!Next
  <2>4. CASE status[r] = "cancelled"
    <3>1. Cleared' = Cleared \ {bk[r]}
      BY <1>5, <2>1, <2>4 DEF IInv, TypeOK, DeskWrite, Cleared
    <3>2. Abstract!Withdraw(bk[r])
      BY <2>2, <3>1 DEF Abstract!Withdraw
    <3> QED  BY <2>1, <3>2 DEF Abstract!Next
  <2> QED  BY <2>1, <2>3, <2>4 DEF Targets
<1> QED
  BY <1>1, <1>2, <1>3, <1>4, <1>5 DEF Step, CheckoutStep, HookStep, Answers

LEMMA SettleRefines ==
    ASSUME IInv, NEW p \in Payments, NEW outcome \in Outcomes, Settle(p, outcome)
    PROVE  Abstract!Next \/ UNCHANGED AbstractState
<1>1. UNCHANGED <<entries, Cleared>>
  BY DEF Settle, Cleared, dbVars, ledgerVars
<1>2. CASE outcome = "collected"
  <2>1. Collected' = Collected \cup {p}
    BY <1>2 DEF IInv, TypeOK, Settle, Collected
  <2> QED  BY <1>1, <2>1 DEF Abstract!Next, Abstract!Collect
<1>3. CASE outcome = "declined"
  <2>1. Collected' = Collected
    BY <1>3 DEF IInv, TypeOK, Settle, Collected
  <2> QED  BY <1>1, <2>1 DEF AbstractState
<1> QED  BY <1>2, <1>3 DEF Outcomes

\* Every behaviour of the payment service, whatever its requests do to each
\* other, is one of Collections: collect first, then record or clear.
THEOREM Refinement == Spec => CollectionsSpec
<1>1. Init => Abstract!Init
  BY DEF Init, Abstract!Init, Collected, Cleared
<1>2. IInv /\ [Next]_vars => [Abstract!Next]_(Abstract!vars)
  <2>1. ASSUME IInv, Next PROVE [Abstract!Next]_(Abstract!vars)
    BY <2>1, StepRefines, SettleRefines
    DEF Next, Outcomes, Abstract!vars, AbstractState
  <2>2. ASSUME UNCHANGED vars PROVE UNCHANGED Abstract!vars
    BY <2>2, QuietSteps DEF vars, dbVars, ledgerVars, Abstract!vars, AbstractState
  <2> QED  BY <2>1, <2>2
<1> QED
  BY <1>1, <1>2, InductiveInvariant, PTL DEF Spec, CollectionsSpec, Abstract!Spec

-----------------------------------------------------------------------------
(* A second invariant: what the statuses, the newest payment of a booking   *)
(* and the replay keys say about requests that are over.                    *)

\* What a request writes as an outcome is what the provider answered, and
\* one request at a time asks for the checkout of a row.
OutcomesInv ==
    /\ \A r \in Requests :
         /\ pc[r] \in {"call", "save"} =>
              \A q \in Requests : pc[q] \in {"call", "save"} /\ subj[q] = subj[r] => q = r
         /\ pc[r] = "call" => payment[subj[r]] = "initiated"
         /\ pc[r] = "save" => payment[subj[r]] # "absent"
         /\ pc[r] = "save" =>
              \/ status[r] = "SUCCESS" /\ tingg[subj[r]] # "none"
              \/ status[r] = "FAILED" /\ tingg[subj[r]] = "none"
         /\ pc[r] = "query" => tingg[subj[r]] # "none"
         /\ pc[r] \in Told =>
              /\ status[r] \in Callbacks
              /\ subj[r] \in Payments => tingg[subj[r]] # "none"
              /\ subj[r] \in Payments /\ status[r] = "FAILED" => tingg[subj[r]] = "declined"
         /\ pc[r] \in Crediting => status[r] = "SUCCESS"
    /\ \A p \in Payments :
         /\ payment[p] = "failed" => tingg[p] \in {"none", "declined"}
         /\ payment[p] = "processing" => tingg[p] # "none"


LEMMA InitOutcomes == Init => OutcomesInv
  BY DEF Init, OutcomesInv, Told, Crediting

\* Arrivals: a callback repeats what the provider has settled.
LEMMA ArriveOutcomes ==
    ASSUME IInv, OutcomesInv, NEW r \in Requests, Arrive(r)
    PROVE  OutcomesInv'
<1> USE PaymentsAssumption
    DEF IInv, TypeOK, LocalsInv, RowsInv, OutcomesInv, Told, Crediting, Begin, Goto,
        dbVars, kvVars, ledgerVars, Callbacks, Targets
<1>1. ASSUME NEW b \in Bookings, StartCheckout(r, b) PROVE OutcomesInv'
  BY <1>1 DEF StartCheckout
<1>2. ASSUME NEW p \in Payments \cup Strays, NEW s \in Callbacks, Deliver(r, p, s)
      PROVE  OutcomesInv'
  <2>1. /\ p \in Payments => tingg[p] # "none"
        /\ p \in Payments /\ s = "FAILED" => tingg[p] = "declined"
    BY <1>2 DEF Deliver, Sent
  <2> QED  BY <1>2, <2>1 DEF Deliver
<1>3. ASSUME NEW p \in Payments, OpenPage(r, p) PROVE OutcomesInv'
  BY <1>3 DEF OpenPage
<1>4. ASSUME NEW b \in Bookings, NEW t \in Targets, StartDesk(r, b, t)
      PROVE  OutcomesInv'
  BY <1>4 DEF StartDesk
<1> QED  BY <1>1, <1>2, <1>3, <1>4 DEF Arrive

LEMMA CheckoutOutcomes ==
    ASSUME IInv, OutcomesInv, NEW r \in Requests, CheckoutStep(r)
    PROVE  OutcomesInv'
<1> USE PaymentsAssumption
    DEF IInv, TypeOK, LocalsInv, RowsInv, CallsInv, OutcomesInv, Told, Crediting, Goto,
        dbVars, kvVars, ledgerVars, localVars, Answers
<1>1. ASSUME CheckExisting(r) PROVE OutcomesInv'
  BY <1>1 DEF CheckExisting
<1>2. ASSUME CreatePayment(r) PROVE OutcomesInv'
  <2>1. PICK p \in Payments :
          /\ payment[p] = "absent"
          /\ pc' = [pc EXCEPT ![r] = "call"]
          /\ payment' = [payment EXCEPT ![p] = "initiated"]
          /\ subj' = [subj EXCEPT ![r] = p]
    BY <1>2 DEF CreatePayment
  <2>2. UNCHANGED <<tingg, status>>
    BY <1>2 DEF CreatePayment
  <2>3. \A q \in Requests : pc[q] \in {"call", "save"} => subj[q] # p
    BY <2>1
  <2>4. \A q \in Requests \ {r} : pc'[q] = pc[q] /\ subj'[q] = subj[q]
    BY <2>1
  <2>5. pc'[r] = "call" /\ subj'[r] = p /\ tingg[p] = "none"
    BY <2>1
  <2>6. /\ payment'[p] = "initiated"
        /\ \A q \in Payments \ {p} : payment'[q] = payment[q]
    BY <2>1
  <2> QED  BY <2>2, <2>3, <2>4, <2>5, <2>6
<1>3. ASSUME SaveCheckout(r) PROVE OutcomesInv'
  BY <1>3 DEF SaveCheckout
<1>4. ASSUME NEW answer \in Answers, CallTingg(r, answer) PROVE OutcomesInv'
  BY <1>4 DEF CallTingg
<1> QED  BY <1>1, <1>2, <1>3, <1>4 DEF CheckoutStep

LEMMA HookOutcomes ==
    ASSUME IInv, OutcomesInv, NEW r \in Requests, HookStep(r)
    PROVE  OutcomesInv'
<1> USE PaymentsAssumption
    DEF IInv, TypeOK, LocalsInv, RowsInv, CallsInv, OutcomesInv, Told, Crediting, Goto,
        dbVars, kvVars, ledgerVars, localVars, Callbacks
<1>1. ASSUME \/ SplitGet(r) \/ SplitPut(r) \/ NotASplit(r)
             \/ ReplayGet(r) \/ ReplayPut(r) \/ UnknownPayment(r)
      PROVE  OutcomesInv'
  <2>1. /\ pc'[r] \in Told \ {"settle"} => pc[r] \in Told \ {"settle"}
        /\ pc'[r] \notin Crediting \cup {"call", "save", "query", "settle"}
        /\ \A q \in Requests \ {r} : pc'[q] = pc[q]
    BY <1>1 DEF SplitGet, SplitPut, NotASplit, ReplayGet, ReplayPut, UnknownPayment
  <2>2. UNCHANGED <<payment, tingg, subj, status>>
    BY <1>1 DEF SplitGet, SplitPut, NotASplit, ReplayGet, ReplayPut, UnknownPayment
  <2> QED  BY <2>1, <2>2
<1>2. ASSUME UpdatePayment(r) PROVE OutcomesInv'
  BY <1>2 DEF UpdatePayment, RowExists, StatusFor
<1>3. ASSUME MarkBookingPaid(r) PROVE OutcomesInv'
  BY <1>3 DEF MarkBookingPaid
<1> QED  BY <1>1, <1>2, <1>3 DEF HookStep

LEMMA OtherStepOutcomes ==
    ASSUME IInv, OutcomesInv, NEW r \in Requests,
           PageStep(r) \/ DeskWrite(r) \/ PostEntry(r) \/ PostLines(r)
    PROVE  OutcomesInv'
<1> USE PaymentsAssumption
    DEF IInv, TypeOK, LocalsInv, RowsInv, CallsInv, OutcomesInv, Told, Crediting, Goto,
        dbVars, kvVars, ledgerVars, localVars, Callbacks, TinggStatus
<1>1. ASSUME QueryStatus(r) PROVE OutcomesInv'
  BY <1>1 DEF QueryStatus
<1>2. ASSUME SettleFromPoll(r) PROVE OutcomesInv'
  BY <1>2 DEF SettleFromPoll, StatusFor
<1>3. ASSUME DeskWrite(r) PROVE OutcomesInv'
  BY <1>3 DEF DeskWrite
<1>4. ASSUME PostEntry(r) PROVE OutcomesInv'
  BY <1>4 DEF PostEntry
<1>5. ASSUME PostLines(r) PROVE OutcomesInv'
  BY <1>5 DEF PostLines
<1> QED  BY <1>1, <1>2, <1>3, <1>4, <1>5 DEF PageStep

LEMMA EnvironmentOutcomes ==
    ASSUME IInv, OutcomesInv,
           \/ \E r \in Requests : LoseAnswer(r) \/ Abort(r) \/ Recycle(r)
           \/ \E p \in Payments, outcome \in Outcomes : Settle(p, outcome)
    PROVE  OutcomesInv'
<1> USE PaymentsAssumption
    DEF IInv, TypeOK, LocalsInv, RowsInv, CallsInv, OutcomesInv, Told, Crediting, Goto,
        dbVars, kvVars, ledgerVars, localVars, Outcomes
<1>1. ASSUME NEW r \in Requests, LoseAnswer(r) PROVE OutcomesInv'
  BY <1>1 DEF LoseAnswer
<1>2. ASSUME NEW r \in Requests, Abort(r) PROVE OutcomesInv'
  BY <1>2 DEF Abort
<1>3. ASSUME NEW r \in Requests, Recycle(r) PROVE OutcomesInv'
  <2>1. \A q \in Requests : pc'[q] # "idle" =>
           pc'[q] = pc[q] /\ subj'[q] = subj[q] /\ status'[q] = status[q]
    BY <1>3 DEF Recycle
  <2>2. UNCHANGED <<payment, tingg>>
    BY <1>3 DEF Recycle
  <2> QED  BY <2>1, <2>2
<1>4. ASSUME NEW p \in Payments, NEW outcome \in Outcomes, Settle(p, outcome)
      PROVE  OutcomesInv'
  BY <1>4 DEF Settle
<1> QED  BY <1>1, <1>2, <1>3, <1>4

LEMMA NextOutcomes == IInv /\ OutcomesInv /\ [Next]_vars => OutcomesInv'
<1>1. ASSUME IInv, OutcomesInv, Next PROVE OutcomesInv'
  BY <1>1, ArriveOutcomes, CheckoutOutcomes, HookOutcomes, OtherStepOutcomes,
     EnvironmentOutcomes
  DEF Next, Step, Outcomes
<1>2. ASSUME IInv, OutcomesInv, UNCHANGED vars PROVE OutcomesInv'
  BY <1>2 DEF OutcomesInv, vars, dbVars, kvVars, ledgerVars, localVars
<1> QED  BY <1>1, <1>2

LEMMA OutcomesKept == Spec => []OutcomesInv
  BY InitOutcomes, NextOutcomes, InductiveInvariant, PTL DEF Spec

\* A row that is succeeded or failed never becomes the other of the two: every
\* request that writes one of them was told so by the provider, which does not
\* change its mind (processCheckoutWebhook, getPaymentStatus, initiateCheckout).
THEOREM OutcomesAgree == Spec => NeverContradicted
<1>1. ASSUME IInv, OutcomesInv, IInv', OutcomesInv', Next, NEW p \in Payments
      PROVE  {payment[p], payment'[p]} # {"succeeded", "failed"}
  <2>1. payment[p] = "succeeded" => tingg[p] = "collected"
    BY <1>1 DEF IInv, RecordedOnlyIfCollected, Collected
  <2>2. payment'[p] = "succeeded" => tingg'[p] = "collected"
    BY <1>1 DEF IInv, RecordedOnlyIfCollected, Collected
  <2>3. payment'[p] = "failed" => tingg'[p] \in {"none", "declined"}
    BY <1>1 DEF OutcomesInv
  <2>4. payment[p] = "failed" => tingg[p] \in {"none", "declined"}
    BY <1>1 DEF OutcomesInv
  <2>5. payment'[p] # payment[p] => tingg'[p] = tingg[p]
    <3>1. tingg' = tingg \/ payment' = payment
      BY <1>1
      DEF Next, Arrive, Step, CheckoutStep, HookStep, PageStep, StartCheckout, Deliver,
          OpenPage, StartDesk, CheckExisting, CreatePayment, CallTingg, SaveCheckout,
          SplitGet, SplitPut, NotASplit, ReplayGet, ReplayPut, UnknownPayment,
          UpdatePayment, MarkBookingPaid, QueryStatus, SettleFromPoll, DeskWrite,
          PostEntry, PostLines, LoseAnswer, Abort, Recycle, Settle, dbVars, Zenon
    <3> QED  BY <3>1
  <2> QED  BY <2>1, <2>2, <2>3, <2>4, <2>5
<1>2. IInv /\ OutcomesInv /\ IInv' /\ OutcomesInv' /\ [Next]_vars =>
        [\A p \in Payments : {payment[p], payment'[p]} # {"succeeded", "failed"}]_vars
  BY <1>1
<1> QED
  BY <1>2, InductiveInvariant, OutcomesKept, PTL DEF Spec, NeverContradicted
-----------------------------------------------------------------------------
(* Which requests perform which awaits, and who came before whom *)

CheckoutAwaits == {"existing", "create", "call", "save"}
HookAwaits == {"split_get", "split_put", "split_find", "replay_get", "replay_put",
               "update", "book"}

RolesInv ==
    \A r \in Requests :
        /\ pc[r] \in CheckoutAwaits => r \in Checkouts
        /\ pc[r] \in HookAwaits => r \in Hooks
        /\ pc[r] \in {"query", "settle"} => r \in Pages
        /\ pc[r] = "desk" => r \in Desk
        /\ pc[r] \in {"post", "post_lines"} => r \in Hooks \cup Pages

\* The requests a request came after are over.
BeforeInv == \A r \in Requests : \A q \in before[r] : pc[q] \in Terminal

PeersInv == RolesInv /\ BeforeInv

\* What every step leaves of the requests other than the one that acts.
StepOf(r, q) ==
    /\ pc'[q] = pc[q]
    /\ subj'[q] = subj[q]
    /\ bk'[q] = bk[q]
    /\ status'[q] = status[q]

\* An action of the platform moves one request from one of its awaits to
\* another, or to an end, and changes none of what it came with.
LEMMA StepMoves ==
    ASSUME IInv, RolesInv, NEW r \in Requests,
           Step(r) \/ LoseAnswer(r) \/ Abort(r)
    PROVE  /\ \A q \in Requests \ {r} : StepOf(r, q)
           /\ pc[r] \in Running
           /\ pc'[r] \in Running \cup Terminal
           /\ bk' = bk
           /\ before' = before
           /\ pc'[r] \in CheckoutAwaits => r \in Checkouts
           /\ pc'[r] \in HookAwaits => r \in Hooks
           /\ pc'[r] \in {"query", "settle"} => r \in Pages
           /\ pc'[r] # "desk"
           /\ pc'[r] \in {"post", "post_lines"} => r \in Hooks \cup Pages
<1> USE DEF IInv, TypeOK, RolesInv, CheckoutAwaits, HookAwaits, Goto, Running, Terminal,
            StepOf, localVars
<1>1. CASE CheckoutStep(r)
  <2>1. CASE CheckExisting(r)
    BY <2>1 DEF CheckExisting
  <2>2. CASE CreatePayment(r)
    BY <2>2 DEF CreatePayment
  <2>3. CASE SaveCheckout(r)
    BY <2>3 DEF SaveCheckout
  <2>4. ASSUME NEW answer \in Answers, CallTingg(r, answer)
        PROVE  /\ \A q \in Requests \ {r} : StepOf(r, q)
               /\ pc[r] = "call" /\ pc'[r] = "save" /\ bk' = bk /\ before' = before
    BY <2>4 DEF CallTingg
  <2> QED  BY <1>1, <2>1, <2>2, <2>3, <2>4 DEF CheckoutStep, Answers
<1>2. CASE HookStep(r)
  BY <1>2
  DEF HookStep, SplitGet, SplitPut, NotASplit, ReplayGet, ReplayPut, UnknownPayment,
      UpdatePayment, MarkBookingPaid
<1>3. CASE PageStep(r) \/ DeskWrite(r) \/ PostEntry(r) \/ PostLines(r)
  BY <1>3
  DEF PageStep, QueryStatus, SettleFromPoll, DeskWrite, PostEntry, PostLines
<1>4. CASE LoseAnswer(r) \/ Abort(r)
  BY <1>4 DEF LoseAnswer, Abort
<1> QED  BY <1>1, <1>2, <1>3, <1>4 DEF Step

\* A request that arrives begins with an await of its own kind.
LEMMA ArrivalBegins ==
    ASSUME IInv, NEW r \in Requests, Arrive(r)
    PROVE  \E to \in Running, p \in Payments \cup Strays \cup {None},
              b \in Bookings \cup {None},
              s \in {"none"} \cup Callbacks \cup Targets :
             /\ Begin(r, to, p, b, s)
             /\ \/ to = "existing" /\ r \in Checkouts
                \/ to = "split_get" /\ r \in Hooks
                \/ to = "query" /\ r \in Pages
                \/ to = "desk" /\ r \in Desk
<1> USE DEF Running, Callbacks, Targets
<1>1. ASSUME NEW b \in Bookings, StartCheckout(r, b)
      PROVE  r \in Checkouts /\ Begin(r, "existing", None, b, "none")
  BY <1>1 DEF StartCheckout
<1>2. ASSUME NEW p \in Payments \cup Strays, NEW s \in Callbacks, Deliver(r, p, s)
      PROVE  r \in Hooks /\ Begin(r, "split_get", p, None, s)
  BY <1>2 DEF Deliver
<1>3. ASSUME NEW p \in Payments, OpenPage(r, p)
      PROVE  r \in Pages /\ Begin(r, "query", p, None, "none")
  BY <1>3 DEF OpenPage
<1>4. ASSUME NEW b \in Bookings, NEW t \in Targets, StartDesk(r, b, t)
      PROVE  r \in Desk /\ Begin(r, "desk", None, b, t)
  BY <1>4 DEF StartDesk
<1> HIDE DEF Running
<1>5. {"existing", "split_get", "query", "desk"} \subseteq Running
  BY DEF Running
<1> QED  BY <1>1, <1>2, <1>3, <1>4, <1>5 DEF Arrive

LEMMA NextPeers == IInv /\ PeersInv /\ [Next]_vars => PeersInv'
<1>1. ASSUME IInv, PeersInv, NEW r \in Requests, Arrive(r) PROVE PeersInv'
  <2>1. PICK to \in Running :
          /\ pc[r] = "idle"
          /\ pc' = [pc EXCEPT ![r] = to]
          /\ before' = [before EXCEPT ![r] = FinishedPeers(r)]
          /\ \/ to = "existing" /\ r \in Checkouts
             \/ to = "split_get" /\ r \in Hooks
             \/ to = "query" /\ r \in Pages
             \/ to = "desk" /\ r \in Desk
    BY <1>1, ArrivalBegins DEF Begin, Goto
  <2>2. RolesInv'
    BY <1>1, <2>1 DEF IInv, TypeOK, PeersInv, RolesInv, CheckoutAwaits, HookAwaits
  <2>3. \A q \in Requests : pc[q] \in Terminal => pc'[q] \in Terminal
    BY <1>1, <2>1 DEF IInv, TypeOK, Terminal
  <2>4. \A q \in Requests : before'[q] \subseteq before[q] \cup FinishedPeers(r)
    BY <1>1, <2>1 DEF IInv, TypeOK
  <2>5. \A q \in Requests : \A x \in before'[q] : x \in Requests /\ pc[x] \in Terminal
    BY <1>1, <2>4 DEF IInv, TypeOK, FinishedPeers, PeersInv, BeforeInv
  <2> QED  BY <2>2, <2>3, <2>5 DEF PeersInv, BeforeInv
<1>2. ASSUME IInv, PeersInv, NEW r \in Requests, Step(r) \/ LoseAnswer(r) \/ Abort(r)
      PROVE  PeersInv'
  <2>1. RolesInv
    BY <1>2 DEF PeersInv
  <2>2. RolesInv'
    BY <1>2, <2>1, StepMoves DEF RolesInv, StepOf
  <2>3. pc[r] \notin Terminal /\ before' = before /\ \A q \in Requests \ {r} : pc'[q] = pc[q]
    BY <1>2, <2>1, StepMoves DEF StepOf, Running, Terminal
  <2>4. BeforeInv'
    BY <1>2, <2>3 DEF IInv, TypeOK, PeersInv, BeforeInv
  <2> QED  BY <2>2, <2>4 DEF PeersInv
<1>3. ASSUME IInv, PeersInv, NEW r \in Requests, Recycle(r) PROVE PeersInv'
  <2>1. /\ pc' = [pc EXCEPT ![r] = "idle"]
        /\ before' = [q \in Requests |-> IF q = r THEN {} ELSE before[q] \ {r}]
    BY <1>3 DEF Recycle
  <2>2. RolesInv'
    BY <1>3, <2>1 DEF IInv, TypeOK, PeersInv, RolesInv, CheckoutAwaits, HookAwaits
  <2>3. BeforeInv'
    BY <1>3, <2>1 DEF IInv, TypeOK, PeersInv, BeforeInv
  <2> QED  BY <2>2, <2>3 DEF PeersInv
<1>4. ASSUME PeersInv, UNCHANGED <<pc, before>> PROVE PeersInv'
  BY <1>4 DEF PeersInv, RolesInv, BeforeInv
<1>5. ASSUME NEW p \in Payments, NEW outcome \in Outcomes, Settle(p, outcome)
      PROVE  UNCHANGED <<pc, before>>
  BY <1>5 DEF Settle, localVars
<1> QED
  BY <1>1, <1>2, <1>3, <1>4, <1>5 DEF Next, Outcomes, vars, localVars

LEMMA PeersKept == Spec => []PeersInv
<1>1. Init => PeersInv
  BY DEF Init, PeersInv, RolesInv, BeforeInv, CheckoutAwaits, HookAwaits
<1> QED  BY <1>1, NextPeers, InductiveInvariant, PTL DEF Spec

-----------------------------------------------------------------------------
(* No booking is charged twice without one of two accidents *)

\* The two accidents: a checkout that was cut short, and two that overlapped.
Trouble(b) ==
    \E r \in Checkouts :
        /\ bk[r] = b
        /\ \/ pc[r] = "aborted"
           \/ \E s \in Checkouts : bk[s] = bk[r] /\ Overlap(r, s)

Chargeable(p) == tingg[p] \in {"open", "collected"}

ChargeableFor(b) == {p \in Payments : BookingOf[p] = b /\ Chargeable(p)}

\* Without them a checkout that may still be paid is the booking's newest, and
\* it is in progress or about to be saved as such.
Newest(p) ==
    /\ newest[BookingOf[p]] = p
    /\ \/ payment[p] \in {"processing", "succeeded"}
       \/ \E r \in Checkouts : pc[r] = "save" /\ subj[r] = p /\ bk[r] = BookingOf[p]

NewestInv ==
    /\ \A p \in Payments : Chargeable(p) => Trouble(BookingOf[p]) \/ Newest(p)
    /\ \A r \in Checkouts :
         /\ pc[r] \in {"create", "call"} =>
              Trouble(bk[r]) \/ ChargeableFor(bk[r]) = {}
         /\ pc[r] = "call" => Trouble(bk[r]) \/ newest[bk[r]] = subj[r]
         /\ pc[r] \in {"call", "save"} => bk[r] = BookingOf[subj[r]]

Persists(r) ==
    /\ pc'[r] # "idle"
    /\ bk'[r] = bk[r]
    /\ before'[r] \subseteq before[r]
    /\ pc[r] = "aborted" => pc'[r] = "aborted"

\* A slot that serves one checkout only keeps the evidence of an accident.
LEMMA CheckoutsPersist ==
    ASSUME Recycled \cap Checkouts = {}, IInv, PeersInv, [Next]_vars,
           NEW r \in Checkouts, pc[r] # "idle"
    PROVE  Persists(r)
<1> USE DEF Requests, Persists
<1>1. ASSUME NEW q \in Requests, Arrive(q) PROVE Persists(r)
  <2>1. q # r /\ before' = [before EXCEPT ![q] = FinishedPeers(q)]
        /\ pc'[r] = pc[r] /\ bk'[r] = bk[r]
    BY <1>1, ArrivalBegins DEF Begin, Goto, IInv, TypeOK
  <2> QED  BY <2>1 DEF IInv, TypeOK
<1>2. ASSUME NEW q \in Requests, Step(q) \/ LoseAnswer(q) \/ Abort(q) PROVE Persists(r)
  BY <1>2, StepMoves DEF StepOf, Running, Terminal, PeersInv
<1>3. ASSUME NEW q \in Requests, Recycle(q) PROVE Persists(r)
  BY <1>3 DEF Recycle, IInv, TypeOK
<1>4. ASSUME NEW p \in Payments, NEW outcome \in Outcomes, Settle(p, outcome) PROVE Persists(r)
  BY <1>4 DEF Settle, localVars
<1>5. ASSUME UNCHANGED vars PROVE Persists(r)
  BY <1>5 DEF vars, localVars
<1> QED  BY <1>1, <1>2, <1>3, <1>4, <1>5 DEF Next, Outcomes

LEMMA TroubleStays ==
    ASSUME Recycled \cap Checkouts = {}, IInv, PeersInv, [Next]_vars,
           NEW b, Trouble(b)
    PROVE  Trouble(b)'
<1>1. PICK r \in Checkouts :
        /\ bk[r] = b
        /\ \/ pc[r] = "aborted"
           \/ \E s \in Checkouts : bk[s] = bk[r] /\ Overlap(r, s)
  BY DEF Trouble
<1>2. CASE pc[r] = "aborted"
  <2>1. Persists(r)
    BY <1>2, CheckoutsPersist
  <2> QED  BY <1>1, <1>2, <2>1 DEF Trouble, Persists
<1>3. ASSUME NEW s \in Checkouts, bk[s] = bk[r], Overlap(r, s) PROVE Trouble(b)'
  <2>1. Persists(r) /\ Persists(s)
    BY <1>3, CheckoutsPersist DEF Overlap
  <2> QED  BY <1>1, <1>3, <2>1 DEF Trouble, Overlap, Persists
<1> QED  BY <1>1, <1>2, <1>3

\* Two checkouts of a booking that both run have overlapped.
LEMMA RunningOverlap ==
    ASSUME IInv, PeersInv, NEW r \in Checkouts, NEW s \in Checkouts, r # s,
           bk[r] = bk[s], pc[r] \in CheckoutAwaits, pc[s] \in CheckoutAwaits
    PROVE  Trouble(bk[r])
<1>1. pc[r] \notin Terminal /\ pc[s] \notin Terminal
  BY DEF CheckoutAwaits, Terminal
<1>2. r \notin before[s] /\ s \notin before[r]
  BY <1>1 DEF PeersInv, BeforeInv, Requests
<1> QED  BY <1>2 DEF Trouble, Overlap, CheckoutAwaits

\* Steps that leave the checkouts and the provider alone, and write as the
\* status of a row only what the provider answered.
LEMMA QuietNewest ==
    ASSUME Recycled \cap Checkouts = {}, IInv, PeersInv, NewestInv, [Next]_vars,
           UNCHANGED <<tingg, newest>>,
           \A p \in Payments :
             \/ payment'[p] = payment[p]
             \/ payment'[p] \in {"processing", "succeeded"}
             \/ ~Chargeable(p),
           \A r \in Checkouts :
             pc'[r] \in {"create", "call", "save"} \/ pc[r] = "save" =>
                pc'[r] = pc[r] /\ subj'[r] = subj[r] /\ bk'[r] = bk[r]
    PROVE  NewestInv'
<1>1. \A b : Trouble(b) => Trouble(b)'
  BY TroubleStays
<1>2. /\ \A p : Chargeable(p)' <=> Chargeable(p)
      /\ \A b : ChargeableFor(b)' = ChargeableFor(b)
  BY DEF Chargeable, ChargeableFor
<1>3. ASSUME NEW p \in Payments, Chargeable(p), Newest(p) PROVE Newest(p)'
  BY <1>3 DEF Newest
<1>4. ASSUME NEW p \in Payments, Chargeable(p)'
      PROVE  Trouble(BookingOf[p])' \/ Newest(p)'
  BY <1>1, <1>2, <1>3, <1>4 DEF NewestInv
<1>5. ASSUME NEW r \in Checkouts, pc'[r] \in {"create", "call", "save"}
      PROVE  /\ pc'[r] = pc[r] /\ bk'[r] = bk[r] /\ subj'[r] = subj[r]
             /\ pc'[r] \in {"create", "call"} =>
                  Trouble(bk[r])' \/ ChargeableFor(bk[r])' = {}
             /\ pc'[r] = "call" => Trouble(bk[r])' \/ newest'[bk[r]] = subj[r]
             /\ pc'[r] \in {"call", "save"} => bk[r] = BookingOf[subj[r]]
  BY <1>1, <1>2, <1>5 DEF NewestInv
<1> HIDE DEF Trouble, ChargeableFor, Newest, Chargeable
<1>6. ASSUME NEW r \in Checkouts
      PROVE  /\ pc'[r] \in {"create", "call"} =>
                  Trouble(bk[r])' \/ ChargeableFor(bk[r])' = {}
             /\ pc'[r] = "call" => Trouble(bk[r])' \/ newest'[bk[r]] = subj'[r]
             /\ pc'[r] \in {"call", "save"} => bk'[r] = BookingOf[subj'[r]]
  BY <1>5
<1> QED  BY <1>4, <1>6 DEF NewestInv

LEMMA CheckoutNewest ==
    ASSUME Recycled \cap Checkouts = {}, IInv, OutcomesInv, PeersInv, NewestInv, Next,
           NEW r \in Checkouts, CheckoutStep(r) \/ LoseAnswer(r) \/ Abort(r)
    PROVE  NewestInv'
<1>1. \A b : Trouble(b) => Trouble(b)'
  BY TroubleStays
<1>2. r \in Requests /\ \A q \in Checkouts : q \in Requests
  BY DEF Requests
<1> DEFINE b == bk[r]
           Rows(q) == /\ pc[q] \in {"create", "call"} =>
                           Trouble(bk[q]) \/ ChargeableFor(bk[q]) = {}
                      /\ pc[q] = "call" => Trouble(bk[q]) \/ newest[bk[q]] = subj[q]
                      /\ pc[q] \in {"call", "save"} => bk[q] = BookingOf[subj[q]]
           Row(p) == Chargeable(p) => Trouble(BookingOf[p]) \/ Newest(p)
<1>3. (\A p \in Payments : Row(p)) /\ \A q \in Checkouts : Rows(q)
  BY DEF NewestInv
<1>4. (\A p \in Payments : Row(p)') /\ (\A q \in Checkouts : Rows(q)') => NewestInv'
  BY DEF NewestInv
<1>5. \A q \in Checkouts \ {r} : StepOf(r, q)
  BY <1>2, StepMoves DEF Step, PeersInv
<1>6. bk' = bk
  BY <1>2, StepMoves DEF Step, PeersInv
<1>7. ASSUME CheckExisting(r) PROVE NewestInv'
  <2>1. pc[r] = "existing" /\ pc' = [pc EXCEPT ![r] = IF InProgress(b) THEN "refused" ELSE "create"]
    BY <1>7 DEF CheckExisting, Goto
  <2>2. UNCHANGED <<payment, newest, tingg, subj>>
    BY <1>7 DEF CheckExisting, dbVars, localVars
  <2>3. ASSUME NEW p \in Payments PROVE Row(p)'
    <3>1. Chargeable(p)' <=> Chargeable(p)
      BY <2>2 DEF Chargeable
    <3>2. Newest(p) => Newest(p)'
      BY <2>1, <2>2, <1>6 DEF Newest, IInv, TypeOK
    <3> QED  BY <1>1, <1>3, <3>1, <3>2
  <2>4. ChargeableFor(b)' = ChargeableFor(b)
    BY <2>2, <1>6 DEF ChargeableFor, Chargeable
  <2>5. ASSUME ~InProgress(b), ~Trouble(b), NEW p \in ChargeableFor(b) PROVE FALSE
    <3>1. p \in Payments /\ BookingOf[p] = b /\ Newest(p) /\ newest[b] # None
      BY <1>3, <2>5, PaymentsAssumption DEF ChargeableFor, Newest
    <3>2. PICK s \in Checkouts : pc[s] = "save" /\ bk[s] = b
      BY <2>5, <3>1 DEF Newest, InProgress
    <3> QED  BY <2>1, <2>5, <3>2, RunningOverlap DEF CheckoutAwaits
  <2>6. Rows(r)'
    BY <1>1, <1>2, <1>6, <2>1, <2>4, <2>5 DEF IInv, TypeOK
  <2>7. ASSUME NEW q \in Checkouts \ {r} PROVE Rows(q)'
    <3>1. ChargeableFor(bk[q])' = ChargeableFor(bk[q])
      BY <2>2, <1>6 DEF ChargeableFor, Chargeable
    <3> QED  BY <1>1, <1>3, <1>5, <2>2, <3>1 DEF StepOf
  <2> QED  BY <1>4, <2>3, <2>6, <2>7
<1>8. ASSUME CreatePayment(r) PROVE NewestInv'
  <2>1. PICK p \in Payments :
          /\ pc[r] = "create" /\ pc' = [pc EXCEPT ![r] = "call"]
          /\ BookingOf[p] = b /\ payment[p] = "absent"
          /\ payment' = [payment EXCEPT ![p] = "initiated"]
          /\ newest' = [newest EXCEPT ![b] = p]
          /\ subj' = [subj EXCEPT ![r] = p]
          /\ tingg' = tingg
    BY <1>8 DEF CreatePayment, Goto
  <2>2. b \in Bookings /\ tingg[p] = "none"
    BY <1>2, <2>1 DEF IInv, LocalsInv, RowsInv
  <2>3. \A q : Chargeable(q)' <=> Chargeable(q)
    BY <2>1 DEF Chargeable
  <2>4. \A q \in Payments : Chargeable(q) => q # p /\ (BookingOf[q] # b \/ Trouble(b))
    BY <1>3, <2>1, <2>2 DEF Chargeable, ChargeableFor
  <2>5. ASSUME NEW q \in Payments, q # p, BookingOf[q] # b, Newest(q)
        PROVE  Newest(q)'
    BY <1>6, <2>1, <2>5, PaymentsAssumption DEF Newest, IInv, TypeOK
  <2>6. ASSUME NEW q \in Payments PROVE Row(q)'
    BY <1>1, <1>3, <2>3, <2>4, <2>5
  <2>7. \A c : ChargeableFor(c)' = ChargeableFor(c)
    BY <2>3 DEF ChargeableFor
  <2>8. Rows(r)'
    BY <1>1, <1>2, <1>3, <1>6, <2>1, <2>2, <2>7 DEF IInv, TypeOK
  <2>9. ASSUME NEW q \in Checkouts \ {r} PROVE Rows(q)'
    <3>1. pc[q] = "call" /\ bk[q] = b => Trouble(b)
      BY <2>1, <2>9, RunningOverlap DEF CheckoutAwaits
    <3>2. bk[q] # b => newest'[bk[q]] = newest[bk[q]]
      BY <2>1 DEF IInv, TypeOK
    <3>3. pc'[q] = pc[q] /\ subj'[q] = subj[q]
      BY <1>5 DEF StepOf
    <3> QED  BY <1>1, <1>3, <1>6, <2>7, <3>1, <3>2, <3>3
  <2> QED  BY <1>4, <2>6, <2>8, <2>9
<1>9. ASSUME SaveCheckout(r) PROVE NewestInv'
  <2> DEFINE p == subj[r]
  <2>1. /\ pc[r] = "save" /\ pc' = [pc EXCEPT ![r] = "processed"]
        /\ payment' = [payment EXCEPT ![p] =
                         IF status[r] = "SUCCESS" THEN "processing" ELSE "failed"]
        /\ UNCHANGED <<tingg, newest, subj>>
    BY <1>9 DEF SaveCheckout, Goto, localVars
  <2>2. status[r] = "SUCCESS" \/ tingg[p] = "none"
    BY <1>2, <2>1 DEF OutcomesInv
  <2>3. \A q : Chargeable(q)' <=> Chargeable(q)
    BY <2>1 DEF Chargeable
  <2>4. ASSUME NEW q \in Payments, Chargeable(q), Newest(q) PROVE Newest(q)'
    <3>1. CASE q = p
      BY <2>1, <2>2, <2>4, <3>1 DEF Newest, Chargeable, IInv, TypeOK
    <3>2. CASE q # p
      BY <1>6, <2>1, <2>4, <3>2 DEF Newest, IInv, TypeOK
    <3> QED  BY <3>1, <3>2
  <2>5. ASSUME NEW q \in Payments PROVE Row(q)'
    BY <1>1, <1>3, <2>3, <2>4
  <2>6. \A c : ChargeableFor(c)' = ChargeableFor(c)
    BY <2>3 DEF ChargeableFor
  <2>7. Rows(r)'
    BY <1>2, <2>1 DEF IInv, TypeOK
  <2>8. ASSUME NEW q \in Checkouts \ {r} PROVE Rows(q)'
    BY <1>1, <1>3, <1>5, <1>6, <2>1, <2>6 DEF StepOf
  <2> QED  BY <1>4, <2>5, <2>7, <2>8
<1>10. ASSUME NEW answer \in Answers, CallTingg(r, answer) PROVE NewestInv'
  <2> DEFINE p == subj[r]
  <2>1. /\ pc[r] = "call" /\ pc' = [pc EXCEPT ![r] = "save"]
        /\ \/ tingg' = tingg
           \/ tingg' = [tingg EXCEPT ![p] = "open"]
        /\ UNCHANGED <<payment, newest, subj>>
    BY <1>10 DEF CallTingg, Goto, dbVars
  <2>2. p \in Payments /\ BookingOf[p] = b /\ (Trouble(b) \/ newest[b] = p)
    BY <1>2, <1>3, <2>1 DEF IInv, LocalsInv
  <2>3. \A q \in Payments \ {p} : Chargeable(q)' <=> Chargeable(q)
    BY <2>1 DEF Chargeable, IInv, TypeOK
  <2>4. Trouble(b) \/ Newest(p)'
    BY <1>2, <1>6, <2>1, <2>2 DEF Newest, IInv, TypeOK
  <2>5. ASSUME NEW q \in Payments \ {p}, Newest(q) PROVE Newest(q)'
    BY <1>6, <2>1, <2>5 DEF Newest, IInv, TypeOK
  <2>6. ASSUME NEW q \in Payments PROVE Row(q)'
    BY <1>1, <1>3, <2>1, <2>2, <2>3, <2>4, <2>5
  <2>7. \A c : c # b => ChargeableFor(c)' = ChargeableFor(c)
    BY <2>2, <2>3 DEF ChargeableFor
  <2>8. Rows(r)'
    BY <1>2, <1>6, <2>1, <2>2 DEF IInv, TypeOK
  <2>9. ASSUME NEW q \in Checkouts \ {r} PROVE Rows(q)'
    <3>1. pc[q] \in CheckoutAwaits /\ bk[q] = b => Trouble(b)
      BY <2>1, <2>9, RunningOverlap DEF CheckoutAwaits
    <3>2. pc[q] \in {"create", "call", "save"} => pc[q] \in CheckoutAwaits
      BY DEF CheckoutAwaits
    <3> QED  BY <1>1, <1>3, <1>5, <1>6, <2>1, <2>7, <3>1, <3>2 DEF StepOf
  <2> QED  BY <1>4, <2>6, <2>8, <2>9
<1>11. ASSUME LoseAnswer(r) \/ Abort(r) PROVE NewestInv'
  \* A checkout cut short is an accident of its booking.
  <2> DEFINE p == subj[r]
  <2>1. /\ pc[r] \in Running /\ pc' = [pc EXCEPT ![r] = "aborted"]
        /\ UNCHANGED <<payment, newest, subj>>
        /\ \/ tingg' = tingg
           \/ pc[r] = "call" /\ tingg' = [tingg EXCEPT ![p] = "open"]
    BY <1>11 DEF LoseAnswer, Abort, Goto, dbVars, Running
  <2>2. Trouble(b)'
    BY <1>2, <1>6, <2>1 DEF Trouble, IInv, TypeOK
  <2>3. pc[r] \in {"call", "save"} => BookingOf[p] = b
    BY <1>3
  <2>4. \A q \in Payments : BookingOf[q] # b => (Chargeable(q)' <=> Chargeable(q))
    BY <2>1, <2>3 DEF Chargeable, IInv, TypeOK
  <2>5. ASSUME NEW q \in Payments, BookingOf[q] # b, Newest(q) PROVE Newest(q)'
    BY <1>6, <2>1, <2>5 DEF Newest, IInv, TypeOK
  <2>6. ASSUME NEW q \in Payments PROVE Row(q)'
    BY <1>1, <1>3, <1>6, <2>2, <2>4, <2>5
  <2>7. \A c : c # b => ChargeableFor(c)' = ChargeableFor(c)
    BY <2>4 DEF ChargeableFor
  <2>8. Rows(r)'
    BY <1>2, <2>1 DEF IInv, TypeOK
  <2>9. ASSUME NEW q \in Checkouts \ {r} PROVE Rows(q)'
    BY <1>1, <1>3, <1>5, <1>6, <2>1, <2>2, <2>7 DEF StepOf
  <2> QED  BY <1>4, <2>6, <2>8, <2>9
<1> QED
  BY <1>7, <1>8, <1>9, <1>10, <1>11 DEF CheckoutStep, Answers

LEMMA NextNewest ==
    ASSUME Recycled \cap Checkouts = {}
    PROVE  /\ IInv /\ OutcomesInv /\ PeersInv /\ NewestInv
           /\ [Next]_vars
           => NewestInv'
<1> SUFFICES ASSUME IInv, OutcomesInv, PeersInv, NewestInv, [Next]_vars
             PROVE  NewestInv'
  OBVIOUS
<1> USE PaymentsAssumption DEF Requests
<1>1. ASSUME NEW r \in Requests, Arrive(r) PROVE NewestInv'
  <2>1. UNCHANGED <<payment, tingg, newest>>
    BY <1>1
    DEF Arrive, StartCheckout, Deliver, OpenPage, StartDesk, dbVars
  <2>2. PICK to \in {"existing", "split_get", "query", "desk"} :
          /\ pc[r] = "idle" /\ pc' = [pc EXCEPT ![r] = to]
          /\ \A q \in Requests \ {r} : subj'[q] = subj[q] /\ bk'[q] = bk[q]
    BY <1>1, ArrivalBegins DEF Begin, Goto, IInv, TypeOK
  <2>3. \A q \in Checkouts :
           pc'[q] \in {"create", "call", "save"} \/ pc[q] = "save" =>
              pc'[q] = pc[q] /\ subj'[q] = subj[q] /\ bk'[q] = bk[q]
    BY <2>2 DEF IInv, TypeOK
  <2> QED  BY <2>1, <2>3, QuietNewest
<1>2. ASSUME NEW r \in Requests,
             CheckoutStep(r) \/ LoseAnswer(r) \/ (Abort(r) /\ r \in Checkouts)
      PROVE  NewestInv'
  <2>1. r \in Checkouts
    BY <1>2
    DEF CheckoutStep, LoseAnswer, CheckExisting, CreatePayment, SaveCheckout, CallTingg,
        Goto, PeersInv, RolesInv, CheckoutAwaits
  <2>2. Next
    BY <1>2 DEF Next, Step
  <2> QED  BY <1>2, <2>1, <2>2, CheckoutNewest
<1>3. ASSUME NEW r \in Requests,
             \/ HookStep(r) \/ PageStep(r) \/ DeskWrite(r) \/ PostEntry(r) \/ PostLines(r)
             \/ (Abort(r) /\ r \notin Checkouts)
      PROVE  NewestInv'
  <2>1. UNCHANGED <<tingg, newest>>
    BY <1>3
    DEF HookStep, SplitGet, SplitPut, NotASplit, ReplayGet, ReplayPut, UnknownPayment,
        UpdatePayment, MarkBookingPaid, PageStep, QueryStatus, SettleFromPoll,
        DeskWrite, PostEntry, PostLines, Abort, dbVars
  <2>2. r \notin Checkouts
    BY <1>3
    DEF HookStep, SplitGet, SplitPut, NotASplit, ReplayGet, ReplayPut, UnknownPayment,
        UpdatePayment, MarkBookingPaid, PageStep, QueryStatus, SettleFromPoll,
        DeskWrite, PostEntry, PostLines, Goto, PeersInv, RolesInv, HookAwaits
  <2>3. \A q \in Checkouts : StepOf(r, q)
    BY <1>3, <2>2, StepMoves DEF Step, PeersInv
  <2>4. \/ payment' = payment
        \/ /\ pc[r] \in {"update", "settle"}
           /\ payment' = [payment EXCEPT ![subj[r]] = StatusFor(status[r])]
    BY <1>3
    DEF HookStep, SplitGet, SplitPut, NotASplit, ReplayGet, ReplayPut, UnknownPayment,
        UpdatePayment, MarkBookingPaid, PageStep, QueryStatus, SettleFromPoll,
        DeskWrite, PostEntry, PostLines, Abort, dbVars, Goto
  <2>5. pc[r] \in {"update", "settle"} /\ subj[r] \in Payments =>
          \/ StatusFor(status[r]) \in {"processing", "succeeded"}
          \/ ~Chargeable(subj[r])
    BY DEF OutcomesInv, Told, Callbacks, StatusFor, Chargeable
  <2>6. \A p \in Payments :
             \/ payment'[p] = payment[p]
             \/ payment'[p] \in {"processing", "succeeded"}
             \/ ~Chargeable(p)
    BY <2>4, <2>5 DEF IInv, TypeOK
  <2> QED  BY <2>1, <2>3, <2>6, QuietNewest DEF StepOf
<1>4. ASSUME NEW r \in Requests, Recycle(r) PROVE NewestInv'
  <2>1. UNCHANGED <<payment, tingg, newest>>
    BY <1>4 DEF Recycle, dbVars
  <2>2. \A q \in Checkouts : StepOf(r, q)
    BY <1>4 DEF Recycle, StepOf, IInv, TypeOK
  <2> QED  BY <2>1, <2>2, QuietNewest DEF StepOf
<1>5. ASSUME NEW p \in Payments, NEW outcome \in Outcomes, Settle(p, outcome)
      PROVE  NewestInv'
  <2>1. /\ tingg[p] = "open" /\ tingg' = [tingg EXCEPT ![p] = outcome]
        /\ UNCHANGED <<payment, newest, pc, subj, bk, before>>
    BY <1>5 DEF Settle, dbVars, localVars
  <2>2. \A q \in Payments : Chargeable(q)' => Chargeable(q)
    BY <2>1 DEF Chargeable, IInv, TypeOK
  <2>3. \A b : ChargeableFor(b)' \subseteq ChargeableFor(b)
    BY <2>2 DEF ChargeableFor
  <2>4. (\A b : Trouble(b)' <=> Trouble(b)) /\ \A q : Newest(q)' <=> Newest(q)
    BY <2>1 DEF Trouble, Newest, Overlap
  <2> HIDE DEF Requests
  <2> QED  BY <2>1, <2>2, <2>3, <2>4 DEF NewestInv
<1>6. ASSUME UNCHANGED vars PROVE NewestInv'
  BY <1>6
  DEF vars, dbVars, localVars, NewestInv, Trouble, Newest, Overlap, ChargeableFor, Chargeable
<1>7. ASSUME NEW r \in Requests, Step(r) \/ LoseAnswer(r) \/ Abort(r) PROVE NewestInv'
  BY <1>2, <1>3, <1>7, Zenon DEF Step
<1> QED  BY <1>1, <1>4, <1>5, <1>6, <1>7, Zenon DEF Next, Outcomes

LEMMA InitNewest == Init => NewestInv
  BY DEF Init, NewestInv, Chargeable, Requests

\* A booking is charged twice only if two of its checkouts overlapped or one was
\* cut short: initiateCheckout's look at the newest payment of the booking covers
\* every sequence of completed checkouts.  A slot of the model that serves another
\* checkout forgets the one before, so each serves one.
THEOREM ChargedOnceWithoutAccident ==
    ASSUME Recycled \cap Checkouts = {}
    PROVE  Spec => []ChargedTwiceOnlyOnOverlap
<1>1. ASSUME NewestInv PROVE ChargedTwiceOnlyOnOverlap
  <2> SUFFICES ASSUME NEW p \in Collected, NEW q \in Collected,
                      p # q, BookingOf[p] = BookingOf[q]
               PROVE  Trouble(BookingOf[p])
    BY DEF ChargedTwiceOnlyOnOverlap, Trouble
  <2>1. /\ Trouble(BookingOf[p]) \/ newest[BookingOf[p]] = p
        /\ Trouble(BookingOf[q]) \/ newest[BookingOf[q]] = q
    BY <1>1 DEF NewestInv, Newest, Chargeable, Collected
  <2> QED  BY <2>1
<1>2. IInv /\ OutcomesInv /\ PeersInv /\ NewestInv /\ [Next]_vars => NewestInv'
  BY NextNewest
<1> QED
  BY <1>1, <1>2, InitNewest, InductiveInvariant, OutcomesKept, PeersKept, PTL DEF Spec

-----------------------------------------------------------------------------
(* What a callback answered 200 stands for *)

\* The awaits of a callback from when it has the second key until it is over.
Holding == {"update", "book", "post", "post_lines", "aborted"}

\* Callback g may still bring the outcome of p to the ledger, or failed to.
PendingAt(g, p) ==
    /\ subj[g] = p
    /\ \/ pc[g] \in {"split_find", "replay_get", "replay_put"} \cup Holding
       \/ pc[g] = "processed" /\ status[g] # "SUCCESS"

Pending(p) == \E g \in Hooks : PendingAt(g, p)

\* Whoever took a key is at work with it, was cut short, or finished.
SplitKeyHeld(p) ==
    p \in splitKey => \E g \in Hooks : subj[g] = p /\ pc[g] \in {"split_find", "aborted"}

ReplayKeyHeld(p) ==
    p \in replayKey => \E g \in Hooks : subj[g] = p /\ pc[g] \in Holding \cup {"processed"}

\* A SUCCESS callback that was processed is in the ledger, and one that was
\* skipped is, or another stands for it.
AnswerStands(h) ==
    status[h] = "SUCCESS" /\ subj[h] \in Payments =>
        /\ pc[h] = "processed" => lines[subj[h]] > 0
        /\ pc[h] = "skipped" => lines[subj[h]] > 0 \/ Pending(subj[h])

KeysInv ==
    /\ \A p \in Payments : SplitKeyHeld(p) /\ ReplayKeyHeld(p)
    /\ \A h \in Hooks : AnswerStands(h)

\* Steps that leave the keys and the callbacks alone, except that one may
\* arrive or be cut short.
LEMMA QuietKeys ==
    ASSUME IInv, KeysInv, UNCHANGED <<splitKey, replayKey>>,
           \A p \in Payments : lines[p] > 0 => lines'[p] > 0,
           \A h \in Hooks :
             \/ pc'[h] = pc[h] /\ subj'[h] = subj[h] /\ status'[h] = status[h]
             \/ pc[h] = "idle" /\ pc'[h] = "split_get"
             \/ /\ pc[h] \in Running /\ pc'[h] = "aborted"
                /\ subj'[h] = subj[h] /\ status'[h] = status[h]
    PROVE  KeysInv'
<1> USE DEF Running, Holding
<1>1. \A p : Pending(p) => Pending(p)'
  BY DEF Pending, PendingAt
<1>2. ASSUME NEW p \in Payments PROVE SplitKeyHeld(p)' /\ ReplayKeyHeld(p)'
  BY DEF KeysInv, SplitKeyHeld, ReplayKeyHeld
<1>3. ASSUME NEW h \in Hooks PROVE AnswerStands(h)'
  BY <1>1 DEF KeysInv, AnswerStands
<1> QED  BY <1>2, <1>3 DEF KeysInv

LEMMA HookKeys ==
    ASSUME IInv, OutcomesInv, PeersInv, KeysInv, NEW r \in Hooks,
           HookStep(r) \/ PostEntry(r) \/ PostLines(r)
    PROVE  KeysInv'
<1>0. r \in Requests /\ \A h \in Hooks : h \in Requests
  BY DEF Requests
<1> DEFINE p == subj[r]
<1>1. /\ UNCHANGED <<subj, status>>
      /\ \A h \in Requests \ {r} : pc'[h] = pc[h]
      /\ \A q \in Payments : lines[q] > 0 => lines'[q] > 0
  BY <1>0
  DEF HookStep, SplitGet, SplitPut, NotASplit, ReplayGet, ReplayPut, UnknownPayment,
      UpdatePayment, MarkBookingPaid, PostEntry, PostLines, Goto, IInv, TypeOK,
      localVars, ledgerVars
\* It is enough to look at the callback that acts.
<1>2. ASSUME \A q \in Payments : q \in splitKey' => q \in splitKey \/ (q = p /\ pc'[r] = "split_find"),
             \A q \in Payments : q \in replayKey' => q \in replayKey \/ (q = p /\ pc'[r] = "update"),
             p \in splitKey' \cap Payments /\ pc[r] \in {"split_find", "aborted"}
                => pc'[r] \in {"split_find", "aborted"},
             p \in replayKey' \cap Payments /\ pc[r] \in Holding \cup {"processed"}
                => pc'[r] \in Holding \cup {"processed"},
             p \in Payments /\ PendingAt(r, p) => lines'[p] > 0 \/ Pending(p)',
             AnswerStands(r)'
      PROVE  KeysInv'
  <2>1. ASSUME NEW q \in Payments PROVE SplitKeyHeld(q)'
    BY <1>0, <1>1, <1>2 DEF KeysInv, SplitKeyHeld
  <2>2. ASSUME NEW q \in Payments PROVE ReplayKeyHeld(q)'
    BY <1>0, <1>1, <1>2 DEF KeysInv, ReplayKeyHeld, Holding
  <2>3. ASSUME NEW q \in Payments, Pending(q) PROVE lines'[q] > 0 \/ Pending(q)'
    <3>1. PICK g \in Hooks : PendingAt(g, q)
      BY <2>3 DEF Pending
    <3>2. g # r => PendingAt(g, q)'
      BY <1>0, <1>1, <3>1 DEF PendingAt
    <3>3. q = p /\ PendingAt(r, p) => lines'[q] > 0 \/ Pending(q)'
      BY <1>1, <1>2, <2>3 DEF Pending
    <3>4. PendingAt(g, q) => subj[g] = q
      BY DEF PendingAt
    <3> QED  BY <3>1, <3>2, <3>3, <3>4 DEF Pending
  <2>4. ASSUME NEW h \in Hooks, h # r PROVE AnswerStands(h)'
    BY <1>0, <1>1, <2>3, <2>4 DEF KeysInv, AnswerStands
  <2> QED  BY <1>2, <2>1, <2>2, <2>4 DEF KeysInv
<1>3. CASE SplitGet(r)
  <2>1. /\ pc[r] = "split_get"
        /\ pc'[r] = IF p \in splitKey THEN "skipped" ELSE "split_put"
        /\ UNCHANGED <<splitKey, replayKey, lines>>
    BY <1>0, <1>3 DEF SplitGet, Goto, IInv, TypeOK, kvVars, ledgerVars
  <2>2. p \in splitKey \cap Payments => Pending(p)'
    <3>1. p \in splitKey \cap Payments =>
             \E g \in Hooks : subj[g] = p /\ pc[g] \in {"split_find", "aborted"}
      BY DEF KeysInv, SplitKeyHeld
    <3> QED  BY <1>0, <1>1, <2>1, <3>1 DEF Pending, PendingAt, Holding
  <2>3. AnswerStands(r)'
    BY <1>1, <2>1, <2>2 DEF AnswerStands
  <2>4. ~PendingAt(r, p)
    BY <2>1 DEF PendingAt, Holding
  <2> QED  BY <1>2, <2>1, <2>3, <2>4 DEF Holding
<1>4. CASE SplitPut(r)
  <2>1. /\ pc[r] = "split_put" /\ pc'[r] = "split_find"
        /\ splitKey' = splitKey \cup {p} /\ replayKey' = replayKey
    BY <1>0, <1>4 DEF SplitPut, Goto, IInv, TypeOK
  <2> QED  BY <1>2, <2>1 DEF AnswerStands, PendingAt, Holding
<1>5. CASE NotASplit(r)
  <2>1. /\ pc[r] = "split_find" /\ pc'[r] = "replay_get"
        /\ splitKey' = splitKey \ {p} /\ replayKey' = replayKey
    BY <1>0, <1>5 DEF NotASplit, Goto, IInv, TypeOK
  <2>2. PendingAt(r, p)'
    BY <1>1, <2>1 DEF PendingAt
  <2> QED  BY <1>1, <1>2, <2>1, <2>2 DEF AnswerStands, Pending, Holding
<1>6. CASE ReplayGet(r)
  <2>1. /\ pc[r] = "replay_get"
        /\ pc'[r] = IF p \in replayKey THEN "skipped" ELSE "replay_put"
        /\ UNCHANGED <<splitKey, replayKey, lines>>
    BY <1>0, <1>6 DEF ReplayGet, Goto, IInv, TypeOK, kvVars, ledgerVars
  <2>2. p \in replayKey \cap Payments => lines[p] > 0 \/ Pending(p)'
    <3>1. ASSUME p \in replayKey \cap Payments
          PROVE  \E g \in Hooks : subj[g] = p /\ pc[g] \in Holding \cup {"processed"}
      BY <3>1 DEF KeysInv, ReplayKeyHeld
    <3>2. ASSUME NEW g \in Hooks, p \in Payments, subj[g] = p,
                 pc[g] \in Holding \cup {"processed"}
          PROVE  lines[p] > 0 \/ Pending(p)'
      <4>1. g # r
        BY <2>1, <3>2 DEF Holding
      <4>2. lines[p] > 0 \/ PendingAt(g, p)
        BY <3>2 DEF KeysInv, AnswerStands, PendingAt
      <4> QED  BY <1>0, <1>1, <3>2, <4>1, <4>2 DEF Pending, PendingAt
    <3> QED  BY <3>1, <3>2
  <2>3. AnswerStands(r)'
    BY <1>1, <2>1, <2>2 DEF AnswerStands
  <2>4. p \notin replayKey => PendingAt(r, p)'
    BY <1>1, <2>1 DEF PendingAt
  <2>5. p \in Payments => lines'[p] > 0 \/ Pending(p)'
    BY <1>1, <2>1, <2>2, <2>4 DEF Pending
  <2> QED  BY <1>2, <2>1, <2>3, <2>5 DEF Holding
<1>7. CASE ReplayPut(r)
  <2>1. /\ pc[r] = "replay_put" /\ pc'[r] = "update"
        /\ replayKey' = replayKey \cup {p} /\ splitKey' = splitKey
    BY <1>0, <1>7 DEF ReplayPut, Goto, IInv, TypeOK
  <2>2. PendingAt(r, p)'
    BY <1>1, <2>1 DEF PendingAt, Holding
  <2> QED  BY <1>1, <1>2, <2>1, <2>2 DEF AnswerStands, Pending, Holding
<1>8. CASE UnknownPayment(r)
  \* No callback exists for a payment without a row, except for a stray.
  <2>1. /\ pc[r] = "update" /\ pc'[r] = "missing" /\ ~RowExists(p)
        /\ replayKey' = replayKey \ {p} /\ splitKey' = splitKey
    BY <1>0, <1>8 DEF UnknownPayment, Goto, IInv, TypeOK
  <2>2. p \notin Payments
    BY <1>0, <2>1 DEF RowExists, OutcomesInv, Told, IInv, RowsInv
  <2> QED  BY <1>2, <2>1, <2>2 DEF AnswerStands, Holding
<1>9. CASE UpdatePayment(r)
  <2>1. /\ pc[r] = "update"
        /\ pc'[r] = IF status[r] = "SUCCESS" THEN "book" ELSE "processed"
        /\ UNCHANGED <<splitKey, replayKey>>
    BY <1>0, <1>9 DEF UpdatePayment, Goto, IInv, TypeOK, kvVars
  <2>2. PendingAt(r, p)'
    BY <1>1, <2>1 DEF PendingAt, Holding
  <2> QED  BY <1>1, <1>2, <2>1, <2>2 DEF AnswerStands, Pending, Holding
<1>10. CASE MarkBookingPaid(r) \/ PostEntry(r)
  <2>1. /\ pc[r] \in {"book", "post"} /\ pc'[r] \in {"post", "post_lines"}
        /\ UNCHANGED <<splitKey, replayKey>>
    BY <1>0, <1>10 DEF MarkBookingPaid, PostEntry, Goto, IInv, TypeOK, kvVars
  <2>2. PendingAt(r, p)'
    BY <1>1, <2>1 DEF PendingAt, Holding
  <2> QED  BY <1>1, <1>2, <2>1, <2>2 DEF AnswerStands, Pending, Holding
<1>11. CASE PostLines(r)
  <2>1. /\ pc[r] = "post_lines" /\ pc'[r] = "processed"
        /\ UNCHANGED <<splitKey, replayKey>>
        /\ lines' = [lines EXCEPT ![p] = @ + 1]
    BY <1>0, <1>11 DEF PostLines, Goto, IInv, TypeOK, kvVars
  <2>2. p \in Payments => lines'[p] > 0
    BY <2>1 DEF IInv, TypeOK
  <2> QED  BY <1>1, <1>2, <2>1, <2>2 DEF AnswerStands, Holding
<1> QED
  BY <1>3, <1>4, <1>5, <1>6, <1>7, <1>8, <1>9, <1>10, <1>11 DEF HookStep

LEMMA NextKeys ==
    ASSUME Recycled \cap Hooks = {}
    PROVE  IInv /\ OutcomesInv /\ PeersInv /\ KeysInv /\ [Next]_vars => KeysInv'
<1> SUFFICES ASSUME IInv, OutcomesInv, PeersInv, KeysInv, [Next]_vars
             PROVE  KeysInv'
  OBVIOUS
<1>0. \A h \in Hooks : h \in Requests
  BY DEF Requests
<1>1. ASSUME NEW r \in Requests, Arrive(r) PROVE KeysInv'
  <2>1. UNCHANGED <<splitKey, replayKey, lines>>
    BY <1>1
    DEF Arrive, StartCheckout, Deliver, OpenPage, StartDesk, kvVars, ledgerVars
  <2>2. PICK to \in Running :
          /\ pc[r] = "idle" /\ pc' = [pc EXCEPT ![r] = to]
          /\ \A q \in Requests \ {r} : subj'[q] = subj[q] /\ status'[q] = status[q]
          /\ r \in Hooks => to = "split_get"
    BY <1>1, ArrivalBegins, PaymentsAssumption DEF Begin, Goto, IInv, TypeOK
  <2> QED  BY <1>0, <2>1, <2>2, QuietKeys DEF IInv, TypeOK
<1>2. ASSUME NEW r \in Hooks, HookStep(r) \/ PostEntry(r) \/ PostLines(r)
      PROVE  KeysInv'
  BY <1>2, HookKeys
<1>3. ASSUME NEW r \in Requests, HookStep(r) PROVE r \in Hooks
  BY <1>3
  DEF HookStep, SplitGet, SplitPut, NotASplit, ReplayGet, ReplayPut, UnknownPayment,
      UpdatePayment, MarkBookingPaid, Goto, PeersInv, RolesInv, HookAwaits
<1>4. ASSUME NEW r \in Requests,
             \/ CheckoutStep(r) \/ PageStep(r) \/ DeskWrite(r)
             \/ (PostEntry(r) /\ r \notin Hooks) \/ (PostLines(r) /\ r \notin Hooks)
      PROVE  KeysInv'
  <2>1. UNCHANGED <<splitKey, replayKey>> /\ \A p \in Payments : lines[p] > 0 => lines'[p] > 0
    BY <1>4
    DEF CheckoutStep, CheckExisting, CreatePayment, SaveCheckout, CallTingg, PageStep,
        QueryStatus, SettleFromPoll, DeskWrite, PostEntry, PostLines, kvVars, ledgerVars,
        IInv, TypeOK
  <2>2. r \notin Hooks
    BY <1>4, PaymentsAssumption
    DEF CheckoutStep, CheckExisting, CreatePayment, SaveCheckout, CallTingg, PageStep,
        QueryStatus, SettleFromPoll, DeskWrite, Goto, PeersInv, RolesInv, CheckoutAwaits
  <2>3. \A h \in Hooks : StepOf(r, h)
    BY <1>0, <1>4, <2>2, StepMoves DEF Step, PeersInv
  <2> QED  BY <2>1, <2>3, QuietKeys DEF StepOf
<1>5. ASSUME NEW r \in Requests, LoseAnswer(r) \/ Abort(r) PROVE KeysInv'
  <2>1. /\ pc[r] \in Running /\ pc' = [pc EXCEPT ![r] = "aborted"]
        /\ UNCHANGED <<splitKey, replayKey, lines, subj, status>>
    BY <1>5 DEF LoseAnswer, Abort, Goto, Running, kvVars, ledgerVars
  <2> QED  BY <1>0, <2>1, QuietKeys DEF IInv, TypeOK
<1>6. ASSUME NEW r \in Requests, Recycle(r) PROVE KeysInv'
  <2>1. UNCHANGED <<splitKey, replayKey, lines>>
    BY <1>6 DEF Recycle, kvVars, ledgerVars
  <2>2. \A h \in Hooks : StepOf(r, h)
    BY <1>0, <1>6 DEF Recycle, StepOf, IInv, TypeOK
  <2> QED  BY <2>1, <2>2, QuietKeys DEF StepOf
<1>7. ASSUME NEW p \in Payments, NEW outcome \in Outcomes, Settle(p, outcome)
      PROVE  KeysInv'
  BY <1>7, QuietKeys DEF Settle, kvVars, ledgerVars, localVars
<1>8. ASSUME UNCHANGED vars PROVE KeysInv'
  BY <1>8, QuietKeys DEF vars, kvVars, ledgerVars, localVars
<1>9. ASSUME NEW r \in Requests, Step(r) PROVE KeysInv'
  BY <1>2, <1>3, <1>4, <1>9, Zenon DEF Step
<1> QED  BY <1>1, <1>5, <1>6, <1>7, <1>8, <1>9, Zenon DEF Next, Outcomes

LEMMA InitKeys == Init => KeysInv
  BY DEF Init, KeysInv, SplitKeyHeld, ReplayKeyHeld, AnswerStands, Requests

\* A SUCCESS callback answered 200, processed or skipped as a duplicate, is in
\* the ledger, unless the callback that has its key still runs, was cut short, or
\* was not the final one (processSplitWebhook, processCheckoutWebhook).  A slot of
\* the model that serves another callback forgets the one before, so each serves one.
THEOREM AcknowledgedIsRecorded ==
    ASSUME Recycled \cap Hooks = {}
    PROVE  Spec => []AckedSuccessIsRecorded
<1>1. ASSUME KeysInv PROVE AckedSuccessIsRecorded
  <2> SUFFICES ASSUME NEW h \in Hooks, pc[h] \in {"processed", "skipped"},
                      status[h] = "SUCCESS", subj[h] \in Payments,
                      ~(lines[subj[h]] > 0)
               PROVE  \E g \in Hooks \ {h} :
                        /\ subj[g] = subj[h]
                        /\ \/ pc[g] \in Running \cup {"aborted"}
                           \/ pc[g] = "processed" /\ status[g] # "SUCCESS"
    BY DEF AckedSuccessIsRecorded
  <2>1. pc[h] = "skipped" /\ Pending(subj[h])
    BY <1>1 DEF KeysInv, AnswerStands
  <2> QED  BY <2>1 DEF Pending, PendingAt, Holding, Running
<1>2. IInv /\ OutcomesInv /\ PeersInv /\ KeysInv /\ [Next]_vars => KeysInv'
  BY NextKeys
<1> QED
  BY <1>1, <1>2, InitKeys, InductiveInvariant, OutcomesKept, PeersKept, PTL DEF Spec

=============================================================================
