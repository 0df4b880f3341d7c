--------------------------- MODULE CallbackProofs ---------------------------
(***************************************************************************)
(* Proofs about the callbacks that come in, for the splits of a payment    *)
(* (SplitCheckout), and those that go out to subscribers (Deliveries), for *)
(* any number of splits, callbacks, subscriptions and workers.             *)
(*                                                                         *)
(* The splits have three invariants.  A callback that comes after the loop *)
(* sees every row, so one that finds them all succeeded finds the payment  *)
(* collected in full.  Without overlap it has all the replay keys behind   *)
(* it, so no one posts after it.  And with nothing but successes, whoever  *)
(* writes the last split has yet to read them all, so someone settles the  *)
(* payment.                                                                *)
(*                                                                         *)
(* A delivery is a token until something makes the queue hand its message  *)
(* out again: it waits to be sent, or in the queue, or one worker holds    *)
(* it, or it is done.  The token tells how many requests have been made    *)
(* and what the row says of them.                                          *)
(***************************************************************************)
EXTENDS SplitCheckout, Deliveries, TLAPS


Outcomes == {"collected", "declined"}

-----------------------------------------------------------------------------
(* The inductive invariant.  A row is succeeded only if its split was       *)
(* collected; when no callback came early, every callback finds all the     *)
(* rows there, so one that saw them all succeeded saw the payment in full.  *)

\* The loop's counter names a split wherever the loop uses it, and the splits
\* it has passed have rows.
LoopInv ==
    /\ loop \in {"create", "create_split", "call", "save_split"} => i < N
    /\ loop \in {"create_split", "call", "save_split", "finish", "done"} =>
         \A k \in Splits : k < i => split[k] # "absent"
    /\ loop = "create" => i = 0
    /\ loop \in {"finish", "done"} => i = N
    /\ loop = "call" => tingg[i] = "none"
    /\ \A k \in Splits : k > i => tingg[k] = "none"
    /\ loop \in {"create", "create_split"} => \A k \in Splits : k >= i => tingg[k] = "none"

RowsInv == \A k \in Splits : split[k] = "succeeded" => tingg[k] = "collected"

HooksInv ==
    \A h \in Hooks :
        /\ pc[h] # "idle" /\ status[h] = "SUCCESS" => tingg[subj[h]] = "collected"
        /\ pc[h] \in {"read_all", "update", "book", "post"} => status[h] = "SUCCESS"
        /\ "early" \notin past /\ pc[h] # "idle" => loop = "done"
        /\ "early" \notin past /\ pc[h] \in {"update", "book", "post"} => PaidInFull

IInv == TypeOK /\ LoopInv /\ RowsInv /\ HooksInv /\ PaidInFullUnlessEarly

LEMMA InitIInv == Init => IInv
<1> SUFFICES ASSUME Init PROVE IInv
  OBVIOUS
<1>1. 0 \in Splits /\ 0 \in 0 .. N
  BY SplitsAssumption DEF Splits
<1>2. TypeOK
  BY <1>1, SplitsAssumption
  DEF Init, TypeOK, ParentStatus, SplitStatus, TinggStatus, Reports, LoopRunning
<1>3. LoopInv
  BY SplitsAssumption DEF Init, LoopInv, Splits
<1>4. RowsInv /\ HooksInv /\ PaidInFullUnlessEarly
  BY DEF Init, RowsInv, HooksInv, PaidInFullUnlessEarly
<1> QED  BY <1>2, <1>3, <1>4 DEF IInv

-----------------------------------------------------------------------------
LEMMA LoopIInv == IInv /\ LoopStep => IInv'
<1> SUFFICES ASSUME IInv, LoopStep PROVE IInv'
  OBVIOUS
<1>0. USE SplitsAssumption
      DEF IInv, TypeOK, LoopInv, RowsInv, HooksInv, PaidInFullUnlessEarly, PaidInFull,
          Splits, Loop, LoopRunning, ParentStatus, SplitStatus, TinggStatus,
          rows, hookVars
<1>1. CASE CreateParent
  BY <1>1 DEF CreateParent
<1>2. CASE CreateSplit
  BY <1>2 DEF CreateSplit
<1>3. CASE CallTingg
  BY <1>3 DEF CallTingg
<1>4. CASE SaveSplit
  BY <1>4 DEF SaveSplit, After
<1>5. CASE FinishLoop
  BY <1>5 DEF FinishLoop
<1>6. CASE AbortLoop
  BY <1>6 DEF AbortLoop
<1> QED  BY <1>1, <1>2, <1>3, <1>4, <1>5, <1>6 DEF LoopStep

LEMMA HookIInv == ASSUME IInv, NEW h \in Hooks, HookStep(h) PROVE IInv'
<1>0. USE DEF IInv, TypeOK, LoopInv, RowsInv, HooksInv, PaidInFullUnlessEarly, PaidInFull,
          Hook, HookRunning, HookOver, ParentStatus, SplitStatus,
          TinggStatus, Reports, rows, loopVars
<1>1. ASSUME NEW k \in Splits, NEW s \in Reports, Deliver(h, k, s) PROVE IInv'
  BY <1>1 DEF Deliver, Sent
<1>2. CASE Get(h)
  BY <1>2 DEF Get
<1>3. CASE Put(h)
  BY <1>3 DEF Put
<1>4. CASE UpdateSplit(h)
  BY <1>4 DEF UpdateSplit, StatusFor
<1>5. CASE ReadAll(h)
  <2>1. "early" \notin past => \A k \in Splits : split[k] # "absent"
    BY <1>5, SplitsAssumption DEF ReadAll, Splits
  <2> QED  BY <1>5, <2>1 DEF ReadAll, AllSucceeded
<1>6. CASE UpdateParent(h)
  BY <1>6 DEF UpdateParent
<1>7. CASE MarkBookingPaid(h)
  BY <1>7 DEF MarkBookingPaid
<1>8. CASE PostPayment(h)
  BY <1>8 DEF PostPayment
<1>9. CASE AbortHook(h)
  BY <1>9, SplitsAssumption DEF AbortHook
<1> HIDE DEF IInv
<1> QED  BY <1>1, <1>2, <1>3, <1>4, <1>5, <1>6, <1>7, <1>8, <1>9 DEF HookStep

LEMMA SettleIInv ==
    ASSUME IInv, NEW k \in Splits, NEW outcome \in Outcomes, Settle(k, outcome)
    PROVE  IInv'
  BY SplitsAssumption
  DEF IInv, TypeOK, LoopInv, RowsInv, HooksInv, PaidInFullUnlessEarly, PaidInFull,
      Splits, Settle, Outcomes, TinggStatus, rows, loopVars, hookVars

LEMMA NextIInv == IInv /\ [Next]_vars => IInv'
<1>1. ASSUME IInv, Next PROVE IInv'
  BY <1>1, LoopIInv, HookIInv, SettleIInv DEF Next, Outcomes
<1>2. ASSUME IInv, UNCHANGED vars PROVE IInv'
  BY <1>2 DEF IInv, TypeOK, LoopInv, RowsInv, HooksInv, PaidInFullUnlessEarly,
              PaidInFull, vars, rows, loopVars, hookVars
<1> QED  BY <1>1, <1>2

\* The split payment is settled, paid and posted only in full, unless a
\* callback overtook the checkout that creates the splits.
THEOREM SplitPaidInFull == Spec => [](TypeOK /\ PaidInFullUnlessEarly)
<1>1. IInv => TypeOK /\ PaidInFullUnlessEarly
  BY DEF IInv
<1> QED  BY <1>1, InitIInv, NextIInv, PTL DEF Spec

-----------------------------------------------------------------------------
(* Posted once.  Without overlap a callback that gets past the replay key   *)
(* found it absent; one that posts saw every split succeeded, hence every   *)
(* key put, so no callback after it gets past.                              *)

Writing == {"update_split", "read_all", "update", "book", "post"}

\* Rows succeed, and callbacks get to the rows, only past the replay key.
KeyedInv ==
    /\ \A k \in Splits : split[k] = "succeeded" => k \in key
    /\ \A h \in Hooks : pc[h] \in Writing => subj[h] \in key

\* The callbacks that run one at a time.
AloneInv ==
    past = {} =>
        \A g, h \in Hooks : pc[g] \in HookRunning /\ pc[h] \in HookRunning => g = h

\* A callback about to put its key is the first of its split; one that has
\* seen the whole set, and an entry in the ledger, have all the keys behind
\* them; no entry is there while a callback may still write one.
FirstInv ==
    past = {} =>
        /\ posted <= 1
        /\ posted > 0 => key = Splits
        /\ \A h \in Hooks :
             /\ pc[h] = "put" => subj[h] \notin key
             /\ pc[h] \in {"update", "book", "post"} => key = Splits
             /\ pc[h] \in Writing => posted = 0

PostInv == IInv /\ KeyedInv /\ AloneInv /\ FirstInv

LEMMA InitPost == Init => KeyedInv /\ AloneInv /\ FirstInv
  BY DEF Init, KeyedInv, AloneInv, FirstInv, Writing, HookRunning

LEMMA LoopPost == PostInv /\ LoopStep => (KeyedInv /\ AloneInv /\ FirstInv)'
<1> SUFFICES ASSUME PostInv, LoopStep PROVE (KeyedInv /\ AloneInv /\ FirstInv)'
  OBVIOUS
<1>1. UNCHANGED <<posted, key, pc, subj, past>>
  BY DEF LoopStep, CreateParent, CreateSplit, CallTingg, SaveSplit, FinishLoop,
         AbortLoop, rows, hookVars
<1>2. \A k \in Splits : split'[k] = "succeeded" => split[k] = "succeeded"
  BY DEF LoopStep, CreateParent, CreateSplit, CallTingg, SaveSplit, FinishLoop,
         AbortLoop, rows, PostInv, IInv, TypeOK
<1> QED  BY <1>1, <1>2 DEF PostInv, KeyedInv, AloneInv, FirstInv

LEMMA SettleTinggPost ==
    ASSUME PostInv, NEW k \in Splits, NEW outcome \in Outcomes, Settle(k, outcome)
    PROVE  (KeyedInv /\ AloneInv /\ FirstInv)'
<1>1. UNCHANGED <<posted, split, key, pc, subj, past>>
  BY DEF Settle, rows, hookVars
<1> QED  BY <1>1 DEF PostInv, KeyedInv, AloneInv, FirstInv

\* A callback that starts without overlap starts alone; one that goes on, or is
\* cut short, overlaps with no one it did not overlap with before.
LEMMA HookAlone == ASSUME PostInv, NEW h \in Hooks, HookStep(h) PROVE AloneInv'
<1>1. ASSUME NEW k \in Splits, NEW s \in Reports, Deliver(h, k, s) PROVE AloneInv'
  BY <1>1 DEF PostInv, IInv, TypeOK, AloneInv, Deliver, Hook, HookRunning
<1>2. ASSUME past' = past, pc[h] \in HookRunning, \A g \in Hooks : g # h => pc'[g] = pc[g]
      PROVE  AloneInv'
  BY <1>2 DEF PostInv, AloneInv
<1> QED
  BY <1>1, <1>2
  DEF HookStep, Get, Put, UpdateSplit, ReadAll, UpdateParent, MarkBookingPaid,
      PostPayment, AbortHook, Hook, HookRunning, PostInv, IInv, TypeOK, hookVars

LEMMA HookKeyed == ASSUME PostInv, NEW h \in Hooks, HookStep(h) PROVE KeyedInv'
<1> USE DEF PostInv, IInv, TypeOK, KeyedInv, Writing, Hook, rows
<1>1. ASSUME NEW k \in Splits, NEW s \in Reports, Deliver(h, k, s) PROVE KeyedInv'
  BY <1>1 DEF Deliver
<1>2. CASE Get(h)
  BY <1>2 DEF Get
<1>3. CASE Put(h)
  BY <1>3 DEF Put
<1>4. CASE UpdateSplit(h)
  BY <1>4 DEF UpdateSplit
<1>5. CASE ReadAll(h)
  BY <1>5 DEF ReadAll
<1>6. CASE UpdateParent(h) \/ MarkBookingPaid(h) \/ PostPayment(h) \/ AbortHook(h)
  BY <1>6 DEF UpdateParent, MarkBookingPaid, PostPayment, AbortHook
<1> HIDE DEF PostInv, KeyedInv
<1> QED  BY <1>1, <1>2, <1>3, <1>4, <1>5, <1>6 DEF HookStep

\* A callback that saw every other split succeeded saw every key put.
LEMMA SawEveryKey ==
    ASSUME PostInv, NEW h \in Hooks, pc[h] = "read_all", AllSucceeded(h), past = {}
    PROVE  key = Splits
<1>1. \A k \in Splits : split[k] # "absent"
  BY SplitsAssumption DEF PostInv, IInv, LoopInv, HooksInv, Splits, TypeOK
<1>2. subj[h] \in key
  BY DEF PostInv, KeyedInv, Writing
<1>3. \A k \in Splits : k \in key
  BY <1>1, <1>2 DEF AllSucceeded, PostInv, KeyedInv
<1> QED  BY <1>3 DEF PostInv, IInv, TypeOK

LEMMA HookFirst == ASSUME PostInv, NEW h \in Hooks, HookStep(h) PROVE FirstInv'
<1> SUFFICES ASSUME past' = {} PROVE FirstInv'
  BY DEF FirstInv
<1>0. past = {}
  BY DEF HookStep, Deliver, Get, Put, UpdateSplit, ReadAll, UpdateParent,
         MarkBookingPaid, PostPayment, AbortHook, hookVars
<1>a. pc \in [Hooks -> {"idle"} \cup HookRunning \cup HookOver] /\ posted \in Nat
      /\ key \subseteq Splits /\ subj \in [Hooks -> Splits]
  BY DEF PostInv, IInv, TypeOK
<1>b. /\ posted <= 1
      /\ posted > 0 => key = Splits
      /\ \A g \in Hooks :
           /\ pc[g] = "put" => subj[g] \notin key
           /\ pc[g] \in {"update", "book", "post"} => key = Splits
           /\ pc[g] \in Writing => posted = 0
  BY <1>0 DEF PostInv, FirstInv
<1>c. \A g \in Hooks : pc[g] \in HookRunning /\ pc[h] \in HookRunning => g = h
  BY <1>0 DEF PostInv, AloneInv
<1> USE <1>a, <1>b DEF FirstInv, Hook, Writing, rows
<1>1. ASSUME NEW k \in Splits, NEW s \in Reports, Deliver(h, k, s) PROVE FirstInv'
  BY <1>1 DEF Deliver
<1>2. CASE Get(h)
  BY <1>2 DEF Get
<1>3. CASE Put(h)
  <2>1. posted = 0
    BY <1>3 DEF Put
  <2>2. \A g \in Hooks : g # h => pc[g] \notin HookRunning
    BY <1>3, <1>c DEF Put, HookRunning
  <2> QED  BY <1>3, <2>1, <2>2 DEF Put, HookRunning
<1>4. CASE UpdateSplit(h)
  BY <1>4 DEF UpdateSplit
<1>5. CASE ReadAll(h)
  <2>1. AllSucceeded(h) => key = Splits
    BY <1>5, <1>0, SawEveryKey DEF ReadAll
  <2> QED  BY <1>5, <2>1 DEF ReadAll
<1>6. CASE UpdateParent(h)
  BY <1>6 DEF UpdateParent
<1>7. CASE MarkBookingPaid(h)
  BY <1>7 DEF MarkBookingPaid
<1>8. CASE PostPayment(h)
  <2>1. posted = 0 /\ key = Splits
    BY <1>8 DEF PostPayment
  <2>2. \A g \in Hooks : g # h => pc[g] \notin HookRunning
    BY <1>8, <1>c DEF PostPayment, HookRunning
  <2> QED  BY <1>8, <2>1, <2>2 DEF PostPayment, HookRunning
<1>9. CASE AbortHook(h)
  BY <1>9 DEF AbortHook
<1> HIDE DEF FirstInv
<1> QED  BY <1>1, <1>2, <1>3, <1>4, <1>5, <1>6, <1>7, <1>8, <1>9 DEF HookStep

LEMMA NextPost == PostInv /\ [Next]_vars => PostInv'
<1>1. ASSUME PostInv, Next PROVE (KeyedInv /\ AloneInv /\ FirstInv)'
  BY <1>1, LoopPost, SettleTinggPost, HookAlone, HookKeyed, HookFirst DEF Next, Outcomes
<1>2. ASSUME PostInv, UNCHANGED vars PROVE (KeyedInv /\ AloneInv /\ FirstInv)'
  BY <1>2 DEF PostInv, KeyedInv, AloneInv, FirstInv, vars, rows, hookVars
<1>3. PostInv /\ [Next]_vars => IInv'
  BY NextIInv DEF PostInv
<1> QED  BY <1>1, <1>2, <1>3 DEF PostInv

\* The payment gets one ledger entry, unless callbacks overlapped or came
\* while the checkout was still creating its splits.
THEOREM SplitPostedOnce == Spec => []PostedTwiceOnlyOnOverlap
<1>1. Init => PostInv
  BY InitIInv, InitPost DEF PostInv
<1>2. PostInv => PostedTwiceOnlyOnOverlap
  BY DEF PostInv, FirstInv, PostedTwiceOnlyOnOverlap, IInv, TypeOK
<1> QED  BY <1>1, <1>2, NextPost, PTL DEF Spec

-----------------------------------------------------------------------------
(* The last callback settles.  While every callback is a success and none   *)
(* is cut short, a split is succeeded from the moment its callback wrote    *)
(* it, so whoever writes the last one is still to read them all.            *)

\* Nothing has happened that excuses an unsettled payment.
Clean ==
    /\ "early" \notin past
    /\ \A h \in Hooks : pc[h] # "idle" => pc[h] # "aborted" /\ status[h] = "SUCCESS"

Settled == parent = "succeeded" /\ booking = "paid" /\ posted > 0

Wrote(h) == pc[h] \in {"read_all", "update", "book", "post", "processed"}

LoopOverInv ==
    "early" \notin past => \A k \in Splits : split[k] = "succeeded" => loop = "done"

\* What a callback has written so far is still there.
WrittenInv ==
    Clean => \A h \in Hooks :
        /\ Wrote(h) => split[subj[h]] = "succeeded"
        /\ pc[h] \in {"book", "post"} => parent = "succeeded"
        /\ pc[h] = "post" => booking = "paid"

\* Once all the splits are succeeded, someone is about to settle the payment,
\* or did.
SomeoneInv ==
    Clean /\ (\A k \in Splits : split[k] = "succeeded") =>
        \/ \E h \in Hooks : pc[h] \in {"read_all", "update", "book", "post"}
        \/ Settled

SettleInv == IInv /\ LoopOverInv /\ WrittenInv /\ SomeoneInv

LEMMA InitSettle == Init => LoopOverInv /\ WrittenInv /\ SomeoneInv
<1> SUFFICES ASSUME Init PROVE LoopOverInv /\ WrittenInv /\ SomeoneInv
  OBVIOUS
<1>1. 0 \in Splits
  BY SplitsAssumption DEF Splits
<1>2. \A k \in Splits : split[k] # "succeeded"
  BY DEF Init
<1>3. \A h \in Hooks : ~Wrote(h)
  BY DEF Init, Wrote
<1> QED  BY <1>1, <1>2, <1>3 DEF LoopOverInv, WrittenInv, SomeoneInv, Wrote

\* A checkout that is over does nothing, one that is not has no clean callback.
LEMMA LoopSettle == SettleInv /\ LoopStep => (LoopOverInv /\ WrittenInv /\ SomeoneInv)'
<1> SUFFICES ASSUME SettleInv, LoopStep PROVE (LoopOverInv /\ WrittenInv /\ SomeoneInv)'
  OBVIOUS
<1>1. UNCHANGED <<pc, subj, status, past>> /\ loop # "done"
  BY DEF LoopStep, CreateParent, CreateSplit, CallTingg, SaveSplit, FinishLoop,
         AbortLoop, Loop, LoopRunning, hookVars
<1>2. \A k \in Splits : split'[k] = "succeeded" => split[k] = "succeeded"
  BY DEF LoopStep, CreateParent, CreateSplit, CallTingg, SaveSplit, FinishLoop,
         AbortLoop, rows, SettleInv, IInv, TypeOK
<1>3. 0 \in Splits
  BY SplitsAssumption DEF Splits
<1>4. CASE "early" \in past
  BY <1>1, <1>4 DEF LoopOverInv, WrittenInv, SomeoneInv, Clean
<1>5. CASE "early" \notin past
  <2>1. \A h \in Hooks : pc[h] = "idle"
    BY <1>1, <1>5 DEF SettleInv, IInv, HooksInv
  <2>2. \A k \in Splits : split'[k] # "succeeded"
    BY <1>1, <1>2, <1>5 DEF SettleInv, LoopOverInv
  <2> QED  BY <1>1, <1>3, <2>1, <2>2 DEF LoopOverInv, WrittenInv, SomeoneInv, Wrote
<1> QED  BY <1>4, <1>5

LEMMA TinggSettle ==
    ASSUME SettleInv, NEW k \in Splits, NEW outcome \in Outcomes, Settle(k, outcome)
    PROVE  (LoopOverInv /\ WrittenInv /\ SomeoneInv)'
<1>1. UNCHANGED <<rows, loop, pc, subj, status, past>>
  BY DEF Settle, rows, loopVars, hookVars
<1> QED
  BY <1>1 DEF SettleInv, LoopOverInv, WrittenInv, SomeoneInv, Settled, Wrote, Clean, rows

\* What excuses an unsettled payment goes on excusing it.
LEMMA HookClean ==
    ASSUME SettleInv, NEW h \in Hooks, HookStep(h), Clean'
    PROVE  /\ Clean
           /\ pc[h] # "idle" => pc'[h] # "aborted" /\ status[h] = "SUCCESS" /\ loop = "done"
<1> USE DEF SettleInv, IInv, TypeOK, Clean
<1>1. ASSUME NEW k \in Splits, NEW s \in Reports, Deliver(h, k, s) PROVE Clean /\ pc[h] = "idle"
  BY <1>1 DEF Deliver, Hook
<1>2. ASSUME UNCHANGED <<past, status>>, pc[h] # "idle", pc[h] # "aborted",
             pc'[h] \notin {"idle"}, \A g \in Hooks : g # h => pc'[g] = pc[g]
      PROVE  Clean /\ pc'[h] # "aborted" /\ status[h] = "SUCCESS" /\ loop = "done"
  <2>1. Clean
    BY <1>2
  <2> QED  BY <2>1, <1>2 DEF HooksInv
<1>3. Get(h) \/ Put(h) \/ UpdateSplit(h) \/ ReadAll(h) \/ UpdateParent(h)
      \/ MarkBookingPaid(h) \/ PostPayment(h) \/ AbortHook(h)
      => /\ UNCHANGED <<past, status>> /\ pc[h] # "idle" /\ pc[h] # "aborted"
         /\ pc'[h] \notin {"idle"} /\ \A g \in Hooks : g # h => pc'[g] = pc[g]
  BY DEF Get, Put, UpdateSplit, ReadAll, UpdateParent, MarkBookingPaid, PostPayment,
         AbortHook, Hook, HookRunning, hookVars
<1> HIDE DEF SettleInv, Clean
<1> QED  BY <1>1, <1>2, <1>3 DEF HookStep

LEMMA HookSettle ==
    ASSUME SettleInv, NEW h \in Hooks, HookStep(h)
    PROVE  (LoopOverInv /\ WrittenInv /\ SomeoneInv)'
<1>a. /\ split \in [Splits -> SplitStatus] /\ posted \in Nat
      /\ pc \in [Hooks -> {"idle"} \cup HookRunning \cup HookOver]
      /\ subj \in [Hooks -> Splits]
  BY DEF SettleInv, IInv, TypeOK
<1>b. LoopOverInv'
  <2> SUFFICES ASSUME "early" \notin past', NEW k \in Splits, split'[k] = "succeeded"
               PROVE  loop' = "done"
    BY DEF LoopOverInv
  <2>1. "early" \notin past /\ loop' = loop
    BY DEF HookStep, Deliver, Get, Put, UpdateSplit, ReadAll, UpdateParent,
           MarkBookingPaid, PostPayment, AbortHook, hookVars, loopVars
  <2>2. split[k] = "succeeded" \/ pc[h] = "update_split"
    BY DEF HookStep, Deliver, Get, Put, UpdateSplit, ReadAll, UpdateParent,
           MarkBookingPaid, PostPayment, AbortHook, Hook, rows
  <2> QED  BY <2>1, <2>2 DEF SettleInv, LoopOverInv, IInv, HooksInv
<1> SUFFICES ASSUME Clean' PROVE (WrittenInv /\ SomeoneInv)'
  BY <1>b DEF WrittenInv, SomeoneInv
<1>c. /\ Clean
      /\ pc[h] # "idle" => pc'[h] # "aborted" /\ status[h] = "SUCCESS" /\ loop = "done"
  BY HookClean
<1>d. \A g \in Hooks :
        /\ Wrote(g) => split[subj[g]] = "succeeded"
        /\ pc[g] \in {"book", "post"} => parent = "succeeded"
        /\ pc[g] = "post" => booking = "paid"
  BY <1>c DEF SettleInv, WrittenInv
<1>e. (\A k \in Splits : split[k] = "succeeded") =>
        \/ \E g \in Hooks : pc[g] \in {"read_all", "update", "book", "post"}
        \/ Settled
  BY <1>c DEF SettleInv, SomeoneInv
<1> USE <1>a, <1>c, <1>d DEF WrittenInv, SomeoneInv, Settled, Wrote, Hook, rows
<1>1. ASSUME NEW k \in Splits, NEW s \in Reports, Deliver(h, k, s)
      PROVE  (WrittenInv /\ SomeoneInv)'
  BY <1>1, <1>e DEF Deliver
<1>2. CASE Get(h)
  BY <1>2, <1>e DEF Get
<1>3. CASE Put(h)
  BY <1>3, <1>e DEF Put
<1>4. CASE UpdateSplit(h)
  BY <1>4 DEF UpdateSplit, StatusFor
<1>5. CASE ReadAll(h)
  <2>1. (\A k \in Splits : split[k] = "succeeded") => AllSucceeded(h)
    BY DEF AllSucceeded
  <2>2. WrittenInv'
    BY <1>5 DEF ReadAll
  <2>3. SomeoneInv'
    BY <1>5, <1>e, <2>1 DEF ReadAll
  <2> QED  BY <2>2, <2>3
<1>6. CASE UpdateParent(h)
  BY <1>6, <1>e DEF UpdateParent
<1>7. CASE MarkBookingPaid(h)
  BY <1>7, <1>e DEF MarkBookingPaid
<1>8. CASE PostPayment(h)
  BY <1>8, <1>e DEF PostPayment
<1>9. CASE AbortHook(h)
  BY <1>9 DEF AbortHook, HookRunning
<1> QED  BY <1>1, <1>2, <1>3, <1>4, <1>5, <1>6, <1>7, <1>8, <1>9 DEF HookStep

LEMMA NextSettle == SettleInv /\ [Next]_vars => SettleInv'
<1>1. ASSUME SettleInv, Next PROVE (LoopOverInv /\ WrittenInv /\ SomeoneInv)'
  BY <1>1, LoopSettle, TinggSettle, HookSettle DEF Next, Outcomes
<1>2. ASSUME SettleInv, UNCHANGED vars PROVE (LoopOverInv /\ WrittenInv /\ SomeoneInv)'
  BY <1>2 DEF SettleInv, LoopOverInv, WrittenInv, SomeoneInv, Settled, Wrote, Clean,
              vars, rows, loopVars, hookVars
<1>3. SettleInv /\ [Next]_vars => IInv'
  BY NextIInv DEF SettleInv
<1> QED  BY <1>1, <1>2, <1>3 DEF SettleInv

\* When a success of every split has been handled and all callbacks are
\* answered, the payment is settled and in the ledger.
LEMMA SettledAtTheEnd == SettleInv => LastCallbackSettles
<1> SUFFICES ASSUME SettleInv,
                    \A k \in Splits : Counted(k),
                    \A h \in Hooks : pc[h] # "idle" =>
                      pc[h] \in {"processed", "skipped"} /\ status[h] = "SUCCESS",
                    "early" \notin past
             PROVE  Settled
  BY DEF LastCallbackSettles, Settled
<1>1. Clean
  BY DEF Clean
<1>2. \A k \in Splits : split[k] = "succeeded"
  BY <1>1 DEF Counted, SettleInv, WrittenInv, Wrote
<1>3. \A h \in Hooks : pc[h] \notin {"read_all", "update", "book", "post"}
  OBVIOUS
<1> QED  BY <1>1, <1>2, <1>3 DEF SettleInv, SomeoneInv

\* Whatever the order of the callbacks and however they interleave, the last
\* one to write its split settles the payment.
THEOREM SplitLastSettles == Spec => []LastCallbackSettles
<1>1. Init => SettleInv
  BY InitIInv, InitSettle DEF SettleInv
<1> QED  BY <1>1, NextSettle, SettledAtTheEnd, PTL DEF Spec

-----------------------------------------------------------------------------
(* Deliveries: the messages and rows of outbound webhooks *)


-----------------------------------------------------------------------------
(* Strengthening *)

Holds(w, x) == doing[w] \in Busy /\ job[w] = x

\* What a worker that holds a message knows, by where it is.
HolderKnows(w, x) ==
    /\ doing[w] \in {"find", "subscription", "inactive", "fetch"} =>
          posts[x] = 0 /\ attempts[x] = 0
    /\ doing[w] \in {"subscription", "fetch"} \cup {"update", "catch", "mark"} => read[w] = 0
    /\ doing[w] \in {"update", "catch", "mark"} => posts[x] = 1
    /\ doing[w] \in {"mark", "ack"} => attempts[x] = posts[x]

Token(x) ==
    /\ x \notin sent => queue[x] = 0
    /\ queue[x] <= 1
    /\ x \notin sent \/ queue[x] = 1 =>
          /\ posts[x] = 0 /\ attempts[x] = 0
          /\ \A w \in Workers : ~Holds(w, x)
    /\ \A v, w \in Workers : Holds(v, x) /\ Holds(w, x) => v = w
    /\ (\A w \in Workers : ~Holds(w, x)) => attempts[x] = posts[x]
    /\ \A w \in Workers : Holds(w, x) => HolderKnows(w, x)
    /\ posts[x] <= 1 /\ received[x] <= posts[x]

TokenInv == \A x \in Deliveries : x \notin again => Token(x)

\* A worker that has read a 2xx has it from the endpoint.
AcceptedInv ==
    \A w \in Workers : doing[w] = "update" /\ accepted[w] => received[job[w]] > 0

DeliveriesIInv == DeliveriesTypeOK /\ AcceptedInv /\ DeliveredWasReceived /\ TokenInv

-----------------------------------------------------------------------------
\* The types hold at first and every step keeps them.
LEMMA InitDeliveriesTyped == DeliveriesInit => DeliveriesTypeOK
BY DeliveriesAssumption DEF DeliveriesInit, DeliveriesTypeOK, Answered

LEMMA StepDeliveriesTyped == ASSUME DeliveriesTypeOK, DeliveriesNext PROVE DeliveriesTypeOK'
<1> USE DeliveriesAssumption
    DEF DeliveriesTypeOK, Answered, Busy, Guarded, Goto, Fault, rowVars, queueVars,
        workerVars, histVars
<1>1. ASSUME NEW x \in Deliveries, CreateDelivery(x) PROVE DeliveriesTypeOK'
  BY <1>1 DEF CreateDelivery
<1>2. ASSUME NEW x \in Deliveries, Send(x) PROVE DeliveriesTypeOK'
  BY <1>2 DEF Send
<1>3. ASSUME NEW w \in Workers, NEW x \in Deliveries, Take(w, x) PROVE DeliveriesTypeOK'
  BY <1>3 DEF Take
<1>4. ASSUME NEW w \in Workers, FindDelivery(w) PROVE DeliveriesTypeOK'
  BY <1>4 DEF FindDelivery
<1>5. ASSUME NEW w \in Workers, FindSubscription(w) PROVE DeliveriesTypeOK'
  BY <1>5 DEF FindSubscription
<1>6. ASSUME NEW w \in Workers, MarkInactive(w) PROVE DeliveriesTypeOK'
  BY <1>6 DEF MarkInactive
<1>7. ASSUME NEW w \in Workers, NEW ok \in BOOLEAN, Fetch(w, ok) PROVE DeliveriesTypeOK'
  BY <1>7 DEF Fetch
<1>8. ASSUME NEW w \in Workers, NEW ok \in BOOLEAN, FetchThrows(w, ok) PROVE DeliveriesTypeOK'
  BY <1>8 DEF FetchThrows
<1>9. ASSUME NEW w \in Workers, Update(w) PROVE DeliveriesTypeOK'
  BY <1>9 DEF Update, RetriesRemain
<1>10. ASSUME NEW w \in Workers, MarkRetrying(w) PROVE DeliveriesTypeOK'
  BY <1>10 DEF MarkRetrying
<1>11. ASSUME NEW w \in Workers, Catch(w) PROVE DeliveriesTypeOK'
  BY <1>11 DEF Catch
<1>12. ASSUME NEW w \in Workers, Ack(w) PROVE DeliveriesTypeOK'
  BY <1>12 DEF Ack
<1>13. ASSUME DispatchCut PROVE DeliveriesTypeOK'
  <2>1. dispatching' \in BOOLEAN
    BY <1>13, Zenon DEF DispatchCut
  <2>2. Fault /\ UNCHANGED <<rowVars, active, sent, queue, doing, workerVars, histVars, again>>
    BY <1>13, Zenon DEF DispatchCut
  <2>3. faults' \in 0..MaxFaults
    BY <2>2
  <2> QED  BY <2>1, <2>2, <2>3, Zenon
<1>14. ASSUME NEW w \in Workers, GuardedThrows(w) PROVE DeliveriesTypeOK'
  BY <1>14 DEF GuardedThrows
<1>15. ASSUME NEW w \in Workers, Throws(w) \/ Evict(w) PROVE DeliveriesTypeOK'
  BY <1>15 DEF Throws, Evict
<1>16. ASSUME NEW x \in Deliveries, Duplicate(x) PROVE DeliveriesTypeOK'
  BY <1>16 DEF Duplicate
<1>17. ASSUME NEW x \in Deliveries, Redeliver(x) \/ Deactivate(x) PROVE DeliveriesTypeOK'
  BY <1>17 DEF Redeliver, Deactivate
<1> QED
  BY <1>1, <1>2, <1>3, <1>4, <1>5, <1>6, <1>7, <1>8, <1>9, <1>10, <1>11, <1>12,
     <1>13, <1>14, <1>15, <1>16, <1>17, Zenon DEF DeliveriesNext, Dispatch, Handle, Fail

-----------------------------------------------------------------------------
(* A delivered row *)

LEMMA StepDelivered ==
    ASSUME DeliveriesTypeOK, AcceptedInv, DeliveredWasReceived, DeliveriesNext
    PROVE  AcceptedInv' /\ DeliveredWasReceived'
<1> USE DEF DeliveriesTypeOK, AcceptedInv, DeliveredWasReceived, Goto, rowVars, queueVars,
        workerVars, histVars
<1> DEFINE Goal == AcceptedInv' /\ DeliveredWasReceived'
<1>1. ASSUME NEW x \in Deliveries, CreateDelivery(x) \/ Send(x) PROVE Goal
  BY <1>1 DEF CreateDelivery, Send
<1>2. ASSUME NEW w \in Workers, NEW x \in Deliveries, Take(w, x) PROVE Goal
  BY <1>2 DEF Take
<1>3. ASSUME NEW w \in Workers, FindDelivery(w) \/ FindSubscription(w) PROVE Goal
  BY <1>3 DEF FindDelivery, FindSubscription
<1>4. ASSUME NEW w \in Workers, MarkInactive(w) \/ MarkRetrying(w) PROVE Goal
  BY <1>4 DEF MarkInactive, MarkRetrying
<1>5. ASSUME NEW w \in Workers, NEW ok \in BOOLEAN, Fetch(w, ok) PROVE Goal
  BY <1>5 DEF Fetch
<1>6. ASSUME NEW w \in Workers, NEW ok \in BOOLEAN, FetchThrows(w, ok) PROVE Goal
  BY <1>6 DEF FetchThrows
<1>7. ASSUME NEW w \in Workers, Update(w) PROVE Goal
  BY <1>7 DEF Update
<1>8. ASSUME NEW w \in Workers, Catch(w) PROVE Goal
  BY <1>8 DEF Catch
<1>9. ASSUME NEW w \in Workers, Ack(w) \/ GuardedThrows(w) \/ Throws(w) \/ Evict(w) PROVE Goal
  BY <1>9 DEF Ack, GuardedThrows, Throws, Evict
<1>10. ASSUME DispatchCut \/ (\E x \in Deliveries : Duplicate(x) \/ Deactivate(x)) PROVE Goal
  BY <1>10 DEF DispatchCut, Duplicate, Deactivate
<1>11. ASSUME NEW x \in Deliveries, Redeliver(x) PROVE Goal
  BY <1>11 DEF Redeliver
<1> QED
  BY <1>1, <1>2, <1>3, <1>4, <1>5, <1>6, <1>7, <1>8, <1>9, <1>10, <1>11, Zenon
  DEF DeliveriesNext, Dispatch, Handle, Fail

-----------------------------------------------------------------------------
(* The token of a delivery *)

\* The steps of a worker on the message it holds.
LEMMA WorkTokens ==
    ASSUME DeliveriesTypeOK, DeliveriesTypeOK', TokenInv, NEW w \in Workers,
           \/ FindDelivery(w) \/ FindSubscription(w) \/ MarkInactive(w)
           \/ \E ok \in BOOLEAN : Fetch(w, ok) \/ FetchThrows(w, ok)
           \/ Update(w) \/ MarkRetrying(w) \/ Catch(w) \/ Ack(w)
    PROVE  TokenInv'
<1> DEFINE d == job[w]
<1>1. d \in Deliveries /\ Holds(w, d)
  BY DEF DeliveriesTypeOK, Holds, Goto, Busy, Guarded, FindDelivery, FindSubscription,
         MarkInactive, Fetch, FetchThrows, Update, MarkRetrying, Catch, Ack
<1>2. UNCHANGED <<sent, queue, job, again>>
  BY DEF FindDelivery, FindSubscription, MarkInactive, Fetch, FetchThrows, Update, MarkRetrying,
         Catch, Ack, queueVars, workerVars
<1>3. /\ \A v \in Workers \ {w} : doing'[v] = doing[v] /\ read'[v] = read[v]
      /\ \A x \in Deliveries \ {d} : /\ attempts'[x] = attempts[x] /\ posts'[x] = posts[x]
                                      /\ received'[x] = received[x]
  BY DEF DeliveriesTypeOK, Goto, FindDelivery, FindSubscription, MarkInactive, Fetch,
         FetchThrows, Update, MarkRetrying, Catch, Ack, rowVars, workerVars, histVars
<1> SUFFICES ASSUME NEW x \in Deliveries, x \notin again PROVE Token(x)'
  BY <1>2 DEF TokenInv
<1>4. Token(x)
  BY DEF TokenInv
<1>5. CASE x # d
  <2>1. \A v \in Workers : Holds(v, x)' <=> Holds(v, x)
    BY <1>1, <1>2, <1>3, <1>5 DEF Holds
  <2>2. \A v \in Workers : Holds(v, x) => v # w
    BY <1>5 DEF Holds
  <2>3. \A v \in Workers : Holds(v, x)' => HolderKnows(v, x)'
    BY <1>3, <1>4, <1>5, <2>1, <2>2 DEF Token, HolderKnows
  <2> QED  BY <1>2, <1>3, <1>4, <1>5, <2>1, <2>3 DEF Token
<1>6. CASE x = d
  <2>1. /\ x \in sent /\ queue[x] = 0
        /\ \A v \in Workers : Holds(v, x) => v = w
        /\ HolderKnows(w, x) /\ posts[x] <= 1 /\ received[x] <= posts[x]
    BY <1>1, <1>4, <1>6 DEF Token, DeliveriesTypeOK
  <2>2. \A v \in Workers : Holds(v, x)' => v = w
    BY <1>2, <1>3, <2>1 DEF Holds
  <2>3. Holds(w, x)' <=> doing'[w] # "idle"
    <3>1. job'[w] = x
      BY <1>2, <1>6
    <3>2. doing'[w] \in {"idle"} \cup Busy
      BY DEF DeliveriesTypeOK
    <3> QED  BY <3>1, <3>2 DEF Holds, Busy, Guarded
  <2>4. /\ posts'[x] <= 1 /\ received'[x] <= posts'[x]
        /\ Holds(w, x)' => HolderKnows(w, x)'
        /\ ~Holds(w, x)' => attempts'[x] = posts'[x]
    <3> DEFINE Goal == /\ posts'[x] <= 1 /\ received'[x] <= posts'[x]
                       /\ Holds(w, x)' => HolderKnows(w, x)'
                       /\ ~Holds(w, x)' => attempts'[x] = posts'[x]
    <3> USE <1>6, <2>1, <2>3 DEF DeliveriesTypeOK, HolderKnows, Goto, rowVars, workerVars, histVars
    <3>1. ASSUME FindDelivery(w) \/ FindSubscription(w) PROVE Goal
      BY <3>1 DEF FindDelivery, FindSubscription
    <3>2. ASSUME MarkInactive(w) \/ MarkRetrying(w) PROVE Goal
      BY <3>2 DEF MarkInactive, MarkRetrying
    <3>3. ASSUME NEW ok \in BOOLEAN, Fetch(w, ok) PROVE Goal
      BY <3>3 DEF Fetch
    <3>4. ASSUME NEW ok \in BOOLEAN, FetchThrows(w, ok) PROVE Goal
      BY <3>4 DEF FetchThrows
    <3>5. ASSUME Update(w) PROVE Goal
      BY <3>5 DEF Update
    <3>6. ASSUME Catch(w) \/ Ack(w) PROVE Goal
      BY <3>6 DEF Catch, Ack
    <3> QED  BY <3>1, <3>2, <3>3, <3>4, <3>5, <3>6, Zenon
  <2> QED  BY <1>2, <2>1, <2>2, <2>4 DEF Token
<1> QED  BY <1>5, <1>6

\* The steps that hand messages out, take them up again or leave them alone.
LEMMA HandTokens ==
    ASSUME DeliveriesTypeOK, DeliveriesTypeOK', TokenInv,
           \/ Dispatch \/ Fail
           \/ \E w \in Workers, x \in Deliveries : Take(w, x)
           \/ \E x \in Deliveries : Redeliver(x) \/ Deactivate(x)
    PROVE  TokenInv'
<1> SUFFICES ASSUME NEW x \in Deliveries, x \notin again' PROVE Token(x)'
  BY DEF TokenInv
<1>1. x \notin again /\ Token(x)
  BY DEF TokenInv, Dispatch, CreateDelivery, Send, Fail, DispatchCut, GuardedThrows, Throws, Evict,
         Duplicate, Take, Redeliver, Deactivate
<1> USE <1>1 DEF Token, Holds, HolderKnows
<1>2. ASSUME NEW y \in Deliveries, CreateDelivery(y) \/ Redeliver(y) \/ Deactivate(y)
      PROVE  Token(x)'
  BY <1>2 DEF CreateDelivery, Redeliver, Deactivate, queueVars, rowVars, workerVars, histVars
<1>3. ASSUME NEW y \in Deliveries, Send(y) PROVE Token(x)'
  BY <1>3 DEF Send, DeliveriesTypeOK, rowVars, workerVars, histVars
<1>4. ASSUME NEW w \in Workers, NEW y \in Deliveries, Take(w, y) PROVE Token(x)'
  <2>1. /\ UNCHANGED <<posts, received, attempts, sent, read>>
        /\ doing' = [doing EXCEPT ![w] = "find"] /\ doing[w] = "idle"
        /\ job' = [job EXCEPT ![w] = y]
        /\ queue' = [queue EXCEPT ![y] = @ - 1] /\ queue[y] > 0
    BY <1>4 DEF Take, Goto, rowVars, histVars
  <2>2. CASE x # y
    <3>1. \A v \in Workers : Holds(v, x)' <=> Holds(v, x)
      BY <2>1, <2>2 DEF DeliveriesTypeOK, Busy, Guarded
    <3>2. \A v \in Workers : Holds(v, x)' => HolderKnows(v, x)'
      BY <2>1, <2>2 DEF DeliveriesTypeOK
    <3>3. queue'[x] = queue[x]
      BY <2>1, <2>2 DEF DeliveriesTypeOK
    <3> QED  BY <2>1, <3>1, <3>2, <3>3
  <2>3. CASE x = y
    <3>1. /\ queue[x] = 1 /\ queue'[x] = 0 /\ x \in sent /\ posts[x] = 0 /\ attempts[x] = 0
          /\ \A v \in Workers : ~Holds(v, x)
      BY <2>1, <2>3 DEF DeliveriesTypeOK
    <3>2. \A v \in Workers : Holds(v, x)' => v = w
      BY <2>1, <2>3, <3>1 DEF DeliveriesTypeOK
    <3>3. Holds(w, x)' /\ HolderKnows(w, x)'
      BY <2>1, <2>3, <3>1 DEF DeliveriesTypeOK, Busy, Guarded
    <3> QED  BY <2>1, <3>1, <3>2, <3>3
  <2> QED  BY <2>2, <2>3
<1>5. ASSUME NEW w \in Workers, GuardedThrows(w) PROVE Token(x)'
  <2>1. /\ UNCHANGED <<posts, received, attempts, sent, read, queue, job>>
        /\ doing' = [doing EXCEPT ![w] = "catch"] /\ doing[w] \in {"update", "mark"}
    BY <1>5 DEF GuardedThrows, rowVars, histVars, queueVars, workerVars
  <2>2. \A v \in Workers : Holds(v, x)' <=> Holds(v, x)
    BY <2>1 DEF DeliveriesTypeOK, Busy, Guarded
  <2>3. \A v \in Workers : Holds(v, x)' => HolderKnows(v, x)'
    BY <2>1, <2>2 DEF DeliveriesTypeOK
  <2> QED  BY <2>1, <2>2, <2>3
<1>6. ASSUME NEW w \in Workers, Throws(w) \/ Evict(w) PROVE Token(x)'
  <2>1. /\ UNCHANGED <<posts, received, attempts, sent, read, job>>
        /\ doing' = [doing EXCEPT ![w] = "idle"] /\ doing[w] \in Busy
        /\ queue' = [queue EXCEPT ![job[w]] = @ + 1] /\ x # job[w]
    BY <1>6 DEF Throws, Evict, rowVars, histVars, workerVars, Busy
  <2>2. \A v \in Workers : Holds(v, x)' <=> Holds(v, x)
    BY <2>1 DEF DeliveriesTypeOK, Busy, Guarded
  <2>3. \A v \in Workers : Holds(v, x)' => HolderKnows(v, x)'
    BY <2>1, <2>2 DEF DeliveriesTypeOK
  <2>4. queue'[x] = queue[x]
    BY <2>1 DEF DeliveriesTypeOK
  <2> QED  BY <2>1, <2>2, <2>3, <2>4
<1>7. ASSUME NEW y \in Deliveries, Duplicate(y) PROVE Token(x)'
  BY <1>7 DEF Duplicate, DeliveriesTypeOK, rowVars, histVars, workerVars
<1>8. ASSUME DispatchCut PROVE Token(x)'
  BY <1>8 DEF DispatchCut, rowVars, histVars, workerVars
<1> QED
  BY <1>2, <1>3, <1>4, <1>5, <1>6, <1>7, <1>8, Zenon DEF Dispatch, Fail

-----------------------------------------------------------------------------
LEMMA InitDeliveries == DeliveriesInit => DeliveriesIInv
<1> SUFFICES ASSUME DeliveriesInit PROVE DeliveriesIInv
  OBVIOUS
<1>1. AcceptedInv /\ DeliveredWasReceived
  BY DEF DeliveriesInit, AcceptedInv, DeliveredWasReceived
<1>2. TokenInv
  BY DEF DeliveriesInit, TokenInv, Token, Holds, HolderKnows, Busy, Guarded
<1> QED  BY InitDeliveriesTyped, <1>1, <1>2 DEF DeliveriesIInv

LEMMA DeliveriesStep == DeliveriesIInv /\ [DeliveriesNext]_deliveryVars => DeliveriesIInv'
<1>1. ASSUME DeliveriesIInv, DeliveriesNext PROVE DeliveriesIInv'
  <2>1. DeliveriesTypeOK'
    BY <1>1, StepDeliveriesTyped DEF DeliveriesIInv
  <2>2. AcceptedInv' /\ DeliveredWasReceived'
    BY <1>1, StepDelivered DEF DeliveriesIInv
  <2>3. TokenInv'
    BY <1>1, <2>1, WorkTokens, HandTokens, Zenon DEF DeliveriesIInv, DeliveriesNext, Handle
  <2> QED  BY <2>1, <2>2, <2>3 DEF DeliveriesIInv
<1>2. ASSUME DeliveriesIInv, UNCHANGED deliveryVars PROVE DeliveriesIInv'
  BY <1>2 DEF deliveryVars, rowVars, queueVars, workerVars, histVars, DeliveriesIInv,
     DeliveriesTypeOK, AcceptedInv, DeliveredWasReceived, TokenInv, Token, Holds, HolderKnows
<1> QED  BY <1>1, <1>2

LEMMA DeliveriesInvariance == DeliveriesSpec => []DeliveriesIInv
BY InitDeliveries, DeliveriesStep, PTL DEF DeliveriesSpec

\* The types (webhook_deliveries, its queue and the workers).
THEOREM DeliveriesTyped == DeliveriesSpec => []DeliveriesTypeOK
BY DeliveriesInvariance, PTL DEF DeliveriesIInv

\* deliverWebhook writes "delivered" only after a 2xx, for any number of
\* workers, retries and failures.
THEOREM DeliveredIsReceived == DeliveriesSpec => []DeliveredWasReceived
BY DeliveriesInvariance, PTL DEF DeliveriesIInv

\* A second request for a delivery takes a message the queue hands out twice.
THEOREM ReceivedOnce == DeliveriesSpec => []ReceivedTwiceOnlyIfTakenAgain
<1>1. DeliveriesIInv => ReceivedTwiceOnlyIfTakenAgain
  BY DEF DeliveriesIInv, DeliveriesTypeOK, TokenInv, Token, ReceivedTwiceOnlyIfTakenAgain
<1> QED  BY <1>1, DeliveriesInvariance, PTL

\* The row counts the requests made, unless a message was handed out twice.
THEOREM AttemptsCounted == DeliveriesSpec => []AttemptsArePosts
<1>1. DeliveriesIInv => AttemptsArePosts
  BY DEF DeliveriesIInv, TokenInv, Token, Holds, HandledBy, AttemptsArePosts
<1> QED  BY <1>1, DeliveriesInvariance, PTL
=============================================================================
