---------------------------- MODULE PayoutsProofs ---------------------------
(***************************************************************************)
(* Proofs about Payouts.                                                   *)
(*                                                                         *)
(* A row that does not exist yet, or that is above the threshold and not   *)
(* approved, is out of reach: no request is in a handler that could write  *)
(* "pending" or call Tingg for it.  What a callback reports as sent stays  *)
(* sent, and the run that created a row is the only one that links it.     *)
(*                                                                         *)
(* A payout nobody doubts, and which no two requests dispatch at once, has *)
(* no live payment at Tingg while its row is pending or failed, or while a *)
(* request is about to post it; so it never has two.                       *)
(***************************************************************************)
EXTENDS Payouts, FiniteSetTheorems, TLAPS

-----------------------------------------------------------------------------
(* Strengthening *)

\* Awaits that follow a status check no absent or held row passes.
Admitting == {"reset", "claim", "call", "save", "post", "fail", "unwind",
              "get", "put", "find", "update"}

OutOfReach(k) ==
    payout[k] = "absent" \/ (NeedsApproval(batch[k]) /\ k \notin approved)

HeldInv ==
    \A k \in Keys : OutOfReach(k) =>
        /\ payout[k] \in {"absent", "on_hold"}
        /\ posts[k] = <<>>
        /\ \A r \in Requests : key[r] = k => pc[r] \notin Admitting

ReportInv ==
    \A r \in Requests :
        pc[r] \in {"get", "put", "find", "update"} =>
            /\ post[r] \in DOMAIN posts[key[r]]
            /\ status[r] = "SUCCESS" => posts[key[r]][post[r]] = "sent"

RunInv ==
    \A r \in Requests :
        /\ pc[r] \in {"eligible", "create", "link"} => r \in Runs
        /\ pc[r] \in {"link", "approve"} => payout[key[r]] # "absent"
        /\ pc[r] = "link" => batch[key[r]] = seen[r]

LinkPending(k) == \E r \in Runs : key[r] = k /\ pc[r] \in {"link", "aborted"}

LinkInv == \A k \in Keys :
    payout[k] # "absent" => links[k] = batch[k] \/ LinkPending(k)

IInv == TypeOK /\ HeldInv /\ ReportInv /\ RunInv /\ LinkInv /\ SucceededOnlyIfSent

-----------------------------------------------------------------------------
LEMMA InitIInv == Init => IInv
  BY PayoutsAssumption
  DEF Init, IInv, TypeOK, HeldInv, ReportInv, RunInv, LinkInv, LinkPending, SucceededOnlyIfSent,
      OutOfReach, Admitting, Running, Terminal, PayoutStatus, Reports, Requests, Dispatchers

\* A link that is pending stays so until its run writes it.
LEMMA LinkInvKept ==
    ASSUME LinkInv, UNCHANGED <<batch, links>>,
           \A k \in Keys : payout'[k] # "absent" => payout[k] # "absent",
           \A r \in Runs : pc[r] \in {"link", "aborted"} =>
                key'[r] = key[r] /\ pc'[r] \in {"link", "aborted"}
    PROVE  LinkInv'
<1> SUFFICES ASSUME NEW k \in Keys, payout'[k] # "absent", links'[k] # batch'[k]
             PROVE  LinkPending(k)'
  BY DEF LinkInv
<1>1. PICK r \in Runs : key[r] = k /\ pc[r] \in {"link", "aborted"}
  BY DEF LinkInv, LinkPending
<1> QED  BY <1>1 DEF LinkPending

\* Steps at a row within reach leave every row out of reach as it was.
LEMMA HeldInvWithin ==
    ASSUME HeldInv, NEW r \in Requests, NEW k \in Keys, ~OutOfReach(k),
           key'[r] = k, payout'[k] # "absent", UNCHANGED <<batch, approved>>,
           \A q \in Requests : q # r => pc'[q] = pc[q] /\ key'[q] = key[q],
           \A j \in Keys : j # k => payout'[j] = payout[j] /\ posts'[j] = posts[j]
    PROVE  HeldInv'
<1> SUFFICES ASSUME NEW j \in Keys, OutOfReach(j)'
             PROVE  /\ payout'[j] \in {"absent", "on_hold"}
                    /\ posts'[j] = <<>>
                    /\ \A q \in Requests : key'[q] = j => pc'[q] \notin Admitting
  BY DEF HeldInv, Admitting
<1>1. j # k
  BY DEF OutOfReach
<1>2. OutOfReach(j)
  BY <1>1 DEF OutOfReach
<1>3. \A q \in Requests : key'[q] = j => q # r
  BY <1>1
<1> QED  BY <1>1, <1>2, <1>3 DEF HeldInv

\* A request past the status check is at a row within reach.
LEMMA Within ==
    ASSUME HeldInv, NEW r \in Requests, key[r] \in Keys, pc[r] \in Admitting
    PROVE  ~OutOfReach(key[r]) /\ payout[key[r]] # "absent"
  BY DEF HeldInv, OutOfReach

LEMMA ArriveIInv ==
    ASSUME IInv, NEW r \in Requests, NEW k \in Keys, Arrive(r, k)
    PROVE  IInv'
<1>0. USE DEF IInv, TypeOK, ReportInv, RunInv, SucceededOnlyIfSent,
          Running, Terminal, PayoutStatus,
          Reports, Begin, Goto, rowVars, bookVars, provVars
<1>l. ASSUME pc[r] = "idle", UNCHANGED rowVars,
             key' = [key EXCEPT ![r] = k],
             NEW to \in Running, pc' = [pc EXCEPT ![r] = to]
      PROVE  LinkInv'
  <2>1. Runs \subseteq Requests
    BY DEF Requests, Dispatchers
  <2> QED  BY <1>l, <2>1, LinkInvKept
<1>1. CASE StartRun(r, k)
  <2>1. LinkInv'
    BY <1>1, <1>l DEF StartRun
  <2>2. TypeOK'
    BY <1>1 DEF StartRun
  <2>3. HeldInv'
    BY <1>1 DEF StartRun, HeldInv, OutOfReach, Admitting
  <2>4. ReportInv'
    BY <1>1 DEF StartRun
  <2>5. RunInv'
    BY <1>1 DEF StartRun
  <2>6. SucceededOnlyIfSent'
    BY <1>1 DEF StartRun
  <2> QED  BY <2>1, <2>2, <2>3, <2>4, <2>5, <2>6 DEF IInv
<1>2. CASE StartDispatch(r, k)
  <2>1. LinkInv'
    BY <1>2, <1>l DEF StartDispatch
  <2>2. TypeOK'
    BY <1>2 DEF StartDispatch
  <2>3. HeldInv'
    BY <1>2 DEF StartDispatch, HeldInv, OutOfReach, Admitting
  <2>4. ReportInv'
    BY <1>2 DEF StartDispatch
  <2>5. RunInv'
    BY <1>2 DEF StartDispatch
  <2>6. SucceededOnlyIfSent'
    BY <1>2 DEF StartDispatch
  <2> QED  BY <2>1, <2>2, <2>3, <2>4, <2>5, <2>6 DEF IInv
<1>3. CASE StartRetry(r, k)
  <2>1. LinkInv'
    BY <1>3, <1>l DEF StartRetry
  <2>2. TypeOK'
    BY <1>3 DEF StartRetry
  <2>3. HeldInv'
    <3>1. ~OutOfReach(k) /\ payout[k] # "absent"
      BY <1>3 DEF StartRetry, HeldInv, OutOfReach, Admitting
    <3> QED  BY <1>3, <3>1, HeldInvWithin DEF StartRetry
  <2>4. ReportInv'
    BY <1>3 DEF StartRetry
  <2>5. RunInv'
    BY <1>3 DEF StartRetry
  <2>6. SucceededOnlyIfSent'
    BY <1>3 DEF StartRetry
  <2> QED  BY <2>1, <2>2, <2>3, <2>4, <2>5, <2>6 DEF IInv
<1>4. CASE StartApprove(r, k)
  <2>1. LinkInv'
    BY <1>4, <1>l DEF StartApprove
  <2>2. TypeOK'
    BY <1>4 DEF StartApprove
  <2>3. HeldInv'
    BY <1>4 DEF StartApprove, HeldInv, OutOfReach, Admitting
  <2>4. ReportInv'
    BY <1>4 DEF StartApprove
  <2>5. RunInv'
    BY <1>4 DEF StartApprove
  <2>6. SucceededOnlyIfSent'
    BY <1>4 DEF StartApprove
  <2> QED  BY <2>1, <2>2, <2>3, <2>4, <2>5, <2>6 DEF IInv
<1>5. ASSUME NEW n \in 1 .. MaxPosts, NEW s \in Reports, Deliver(r, k, n, s)
      PROVE  IInv'
  <2>1. LinkInv'
    BY <1>5, <1>l DEF Deliver
  <2>2. TypeOK'
    <3>1. n \in Nat
      BY PayoutsAssumption
    <3> QED  BY <1>5, <3>1 DEF Deliver
  <2>3. HeldInv'
    <3>1. posts[k] # <<>>
      BY <1>5 DEF Deliver
    <3>2. ~OutOfReach(k) /\ payout[k] # "absent"
      BY <3>1 DEF HeldInv, OutOfReach
    <3> QED  BY <1>5, <3>2, HeldInvWithin DEF Deliver
  <2>4. ReportInv'
    BY <1>5 DEF Deliver, Sent
  <2>5. RunInv'
    BY <1>5 DEF Deliver, Sent
  <2>6. SucceededOnlyIfSent'
    BY <1>5 DEF Deliver, Sent
  <2> QED  BY <2>1, <2>2, <2>3, <2>4, <2>5, <2>6 DEF IInv
<1> HIDE DEF IInv
<1> QED  BY <1>1, <1>2, <1>3, <1>4, <1>5 DEF Arrive

LEMMA RunStepIInv == ASSUME IInv, NEW r \in Requests, RunStep(r) PROVE IInv'
<1>0. USE DEF IInv, TypeOK, ReportInv, RunInv, LinkInv, SucceededOnlyIfSent,
          Running, Terminal, PayoutStatus,
          Goto, rowVars, bookVars, provVars, localVars
<1>1. CASE ReadEligible(r)
  <2>1. TypeOK'
    BY <1>1 DEF ReadEligible
  <2>2. HeldInv'
    BY <1>1 DEF ReadEligible, HeldInv, OutOfReach, Admitting
  <2>3. ReportInv'
    BY <1>1 DEF ReadEligible
  <2>4. RunInv'
    BY <1>1 DEF ReadEligible
  <2>5. LinkInv'
    BY <1>1, LinkInvKept DEF ReadEligible, Requests, Dispatchers
  <2>6. SucceededOnlyIfSent'
    BY <1>1 DEF ReadEligible
  <2> QED  BY <2>1, <2>2, <2>3, <2>4, <2>5, <2>6 DEF IInv
<1>2. CASE CreatePayout(r)
  <2>1. TypeOK'
    BY <1>2 DEF CreatePayout
  <2>2. HeldInv'
    BY <1>2 DEF CreatePayout, HeldInv, OutOfReach, Admitting
  <2>3. ReportInv'
    BY <1>2 DEF CreatePayout
  <2>4. RunInv'
    BY <1>2 DEF CreatePayout
  <2>5. LinkInv'
    BY <1>2 DEF CreatePayout, LinkPending, Requests, Dispatchers
  <2>6. SucceededOnlyIfSent'
    BY <1>2 DEF CreatePayout
  <2> QED  BY <2>1, <2>2, <2>3, <2>4, <2>5, <2>6 DEF IInv
<1>3. CASE CreateRefused(r)
  <2>1. TypeOK'
    BY <1>3 DEF CreateRefused
  <2>2. HeldInv'
    BY <1>3 DEF CreateRefused, HeldInv, OutOfReach, Admitting
  <2>3. ReportInv'
    BY <1>3 DEF CreateRefused
  <2>4. RunInv'
    BY <1>3 DEF CreateRefused
  <2>5. LinkInv'
    BY <1>3, LinkInvKept DEF CreateRefused, Requests, Dispatchers
  <2>6. SucceededOnlyIfSent'
    BY <1>3 DEF CreateRefused
  <2> QED  BY <2>1, <2>2, <2>3, <2>4, <2>5, <2>6 DEF IInv
<1>4. CASE LinkBookings(r)
  <2>1. TypeOK'
    BY <1>4 DEF LinkBookings
  <2>2. HeldInv'
    BY <1>4 DEF LinkBookings, HeldInv, OutOfReach, Admitting
  <2>3. ReportInv'
    BY <1>4 DEF LinkBookings
  <2>4. RunInv'
    BY <1>4 DEF LinkBookings
  <2>5. LinkInv'
    BY <1>4 DEF LinkBookings, LinkPending, Requests, Dispatchers
  <2>6. SucceededOnlyIfSent'
    BY <1>4 DEF LinkBookings
  <2> QED  BY <2>1, <2>2, <2>3, <2>4, <2>5, <2>6 DEF IInv
<1> HIDE DEF IInv
<1> QED  BY <1>1, <1>2, <1>3, <1>4 DEF RunStep

\* What Tingg has accepted stays at its place when it accepts more.
LEMMA PostsGrow ==
    ASSUME TypeOK, NEW k \in Keys,
           posts' = [posts EXCEPT ![k] = Append(@, "open")]
    PROVE  /\ posts' \in [Keys -> Seq(Fates)]
           /\ \A j \in Keys : j # k => posts'[j] = posts[j]
           /\ \A j \in Keys : \A n \in DOMAIN posts[j] :
                n \in DOMAIN posts'[j] /\ posts'[j][n] = posts[j][n]
<1>1. posts[k] \in Seq(Fates) /\ "open" \in Fates
  BY DEF TypeOK, Fates
<1>2. Append(posts[k], "open") \in Seq(Fates)
  BY <1>1
<1>3. \A n \in DOMAIN posts[k] :
        /\ n \in DOMAIN Append(posts[k], "open")
        /\ Append(posts[k], "open")[n] = posts[k][n]
  BY <1>1
<1> QED  BY <1>2, <1>3 DEF TypeOK

LEMMA DispatchStepIInv == ASSUME IInv, NEW r \in Requests, DispatchStep(r) PROVE IInv'
<1>0. USE DEF IInv, TypeOK, ReportInv, RunInv, LinkInv, SucceededOnlyIfSent,
          Running, Terminal, PayoutStatus,
          Goto, rowVars, bookVars, provVars, localVars
<1>1. CASE Load(r)
  <2>1. TypeOK'
    BY <1>1 DEF Load
  <2>2. HeldInv'
    BY <1>1 DEF Load, HeldInv, OutOfReach, Admitting
  <2>3. ReportInv'
    BY <1>1 DEF Load
  <2>4. RunInv'
    BY <1>1 DEF Load
  <2>5. LinkInv'
    BY <1>1, LinkInvKept DEF Load, Requests, Dispatchers
  <2>6. SucceededOnlyIfSent'
    BY <1>1 DEF Load
  <2> QED  BY <2>1, <2>2, <2>3, <2>4, <2>5, <2>6 DEF IInv
<1>2. CASE Claim(r)
  <2>1. key[r] \in Keys /\ ~OutOfReach(key[r]) /\ payout[key[r]] # "absent"
    <3>1. key[r] \in Keys /\ pc[r] \in Admitting
      BY <1>2 DEF Claim, Admitting
    <3> QED  BY <3>1, Within
  <2>2. TypeOK'
    BY <1>2 DEF Claim
  <2>3. HeldInv'
    BY <1>2, <2>1, HeldInvWithin DEF Claim
  <2>4. ReportInv'
    BY <1>2 DEF Claim
  <2>5. RunInv'
    BY <1>2 DEF Claim
  <2>6. LinkInv'
    BY <1>2, <2>1, LinkInvKept DEF Claim, Requests, Dispatchers
  <2>7. SucceededOnlyIfSent'
    BY <1>2 DEF Claim
  <2> QED  BY <2>2, <2>3, <2>4, <2>5, <2>6, <2>7 DEF IInv
<1>3. CASE PostAccepted(r)
  <2>1. LinkInv'
    BY <1>3, LinkInvKept DEF PostAccepted, Requests, Dispatchers
  <2>2. posts' = [posts EXCEPT ![key[r]] = Append(@, "open")] /\ key[r] \in Keys
    BY <1>3 DEF PostAccepted
  <2>3. /\ posts' \in [Keys -> Seq(Fates)]
        /\ \A j \in Keys : j # key[r] => posts'[j] = posts[j]
        /\ \A j \in Keys : \A n \in DOMAIN posts[j] :
             n \in DOMAIN posts'[j] /\ posts'[j][n] = posts[j][n]
    BY <2>2, PostsGrow
  <2>4. TypeOK'
    <3>1. Len(posts[key[r]]) + 1 \in Nat
      BY <2>2
    <3>2. doubt' \subseteq Keys
      BY <1>3, <2>2 DEF PostAccepted, NoteDoubt
    <3> QED  BY <1>3, <2>3, <3>1, <3>2, PayoutsAssumption DEF PostAccepted
  <2>5. HeldInv'
    <3>1. pc[r] \in Admitting
      BY <1>3 DEF PostAccepted, Admitting
    <3>2. ~OutOfReach(key[r]) /\ payout[key[r]] # "absent"
      BY <2>2, <3>1, Within
    <3> QED  BY <1>3, <2>2, <2>3, <3>2, HeldInvWithin DEF PostAccepted
  <2>6. ReportInv'
    BY <1>3, <2>3 DEF PostAccepted
  <2>7. RunInv'
    BY <1>3 DEF PostAccepted
  <2>8. SucceededOnlyIfSent'
    BY <1>3, <2>3 DEF PostAccepted
  <2> QED  BY <2>1, <2>4, <2>5, <2>6, <2>7, <2>8 DEF IInv
<1>4. CASE PostNotAccepted(r)
  <2>1. key[r] \in Keys /\ ~OutOfReach(key[r]) /\ payout[key[r]] # "absent"
    <3>1. key[r] \in Keys /\ pc[r] \in Admitting
      BY <1>4 DEF PostNotAccepted, Admitting
    <3> QED  BY <3>1, Within
  <2>2. PICK n \in {0} \cup DOMAIN posts[key[r]] : post' = [post EXCEPT ![r] = n]
    BY <1>4 DEF PostNotAccepted
  <2>3. n \in Nat
    BY <2>2
  <2>4. TypeOK'
    BY <1>4, <2>2, <2>3 DEF PostNotAccepted
  <2>5. HeldInv'
    BY <1>4, <2>1, HeldInvWithin DEF PostNotAccepted
  <2>6. ReportInv'
    BY <1>4 DEF PostNotAccepted
  <2>7. RunInv'
    BY <1>4 DEF PostNotAccepted
  <2>8. LinkInv'
    BY <1>4, <2>1, LinkInvKept DEF PostNotAccepted, Requests, Dispatchers
  <2>9. SucceededOnlyIfSent'
    BY <1>4 DEF PostNotAccepted
  <2> QED  BY <2>4, <2>5, <2>6, <2>7, <2>8, <2>9 DEF IInv
<1>5. CASE PostRepeated(r)
  <2>1. LinkInv'
    BY <1>5, LinkInvKept DEF PostRepeated, Requests, Dispatchers
  <2>2. posts' = [posts EXCEPT ![key[r]] = Append(@, "open")] /\ key[r] \in Keys
    BY <1>5 DEF PostRepeated
  <2>3. /\ posts' \in [Keys -> Seq(Fates)]
        /\ \A j \in Keys : j # key[r] => posts'[j] = posts[j]
        /\ \A j \in Keys : \A n \in DOMAIN posts[j] :
             n \in DOMAIN posts'[j] /\ posts'[j][n] = posts[j][n]
    BY <2>2, PostsGrow
  <2>4. TypeOK'
    <3>1. faults' \in 0 .. MaxFaults
      BY <1>5, PayoutsAssumption DEF PostRepeated
    <3> QED  BY <1>5, <2>2, <2>3, <3>1 DEF PostRepeated
  <2>5. HeldInv'
    <3>1. pc[r] \in Admitting
      BY <1>5 DEF PostRepeated, Admitting
    <3>2. ~OutOfReach(key[r]) /\ payout[key[r]] # "absent"
      BY <2>2, <3>1, Within
    <3> QED  BY <1>5, <2>2, <2>3, <3>2, HeldInvWithin DEF PostRepeated
  <2>6. ReportInv'
    BY <1>5, <2>3 DEF PostRepeated
  <2>7. RunInv'
    BY <1>5 DEF PostRepeated
  <2>8. SucceededOnlyIfSent'
    BY <1>5, <2>3 DEF PostRepeated
  <2> QED  BY <2>1, <2>4, <2>5, <2>6, <2>7, <2>8 DEF IInv
<1>6. CASE SavePost(r)
  <2>1. key[r] \in Keys /\ ~OutOfReach(key[r]) /\ payout[key[r]] # "absent"
    <3>1. key[r] \in Keys /\ pc[r] \in Admitting
      BY <1>6 DEF SavePost, Admitting
    <3> QED  BY <3>1, Within
  <2>2. TypeOK'
    BY <1>6 DEF SavePost
  <2>3. HeldInv'
    BY <1>6, <2>1, HeldInvWithin DEF SavePost
  <2>4. ReportInv'
    BY <1>6 DEF SavePost
  <2>5. RunInv'
    BY <1>6 DEF SavePost
  <2>6. LinkInv'
    BY <1>6, <2>1, LinkInvKept DEF SavePost, Requests, Dispatchers
  <2>7. SucceededOnlyIfSent'
    BY <1>6 DEF SavePost
  <2> QED  BY <2>2, <2>3, <2>4, <2>5, <2>6, <2>7 DEF IInv
<1>7. CASE PostIssuance(r)
  <2>1. key[r] \in Keys /\ ~OutOfReach(key[r]) /\ payout[key[r]] # "absent"
    <3>1. key[r] \in Keys /\ pc[r] \in Admitting
      BY <1>7 DEF PostIssuance, Admitting
    <3> QED  BY <3>1, Within
  <2>2. TypeOK'
    BY <1>7 DEF PostIssuance
  <2>3. HeldInv'
    BY <1>7, <2>1, HeldInvWithin DEF PostIssuance
  <2>4. ReportInv'
    BY <1>7 DEF PostIssuance
  <2>5. RunInv'
    BY <1>7 DEF PostIssuance
  <2>6. LinkInv'
    BY <1>7, <2>1, LinkInvKept DEF PostIssuance, Requests, Dispatchers
  <2>7. SucceededOnlyIfSent'
    BY <1>7 DEF PostIssuance
  <2> QED  BY <2>2, <2>3, <2>4, <2>5, <2>6, <2>7 DEF IInv
<1>8. CASE Throw(r)
  <2>1. LinkInv'
    BY <1>8, LinkInvKept DEF Throw, Guarded, Requests, Dispatchers
  <2>2. faults' \in 0 .. MaxFaults
    BY <1>8, PayoutsAssumption DEF Throw
  <2>3. key[r] \in Keys /\ ~OutOfReach(key[r]) /\ payout[key[r]] # "absent"
    <3>1. key[r] \in Keys /\ pc[r] \in Admitting
      BY <1>8 DEF Throw, Guarded, Admitting
    <3> QED  BY <3>1, Within
  <2>4. CASE UNCHANGED posts
    <3>1. HeldInv'
      BY <1>8, <2>3, <2>4, HeldInvWithin DEF Throw
    <3> QED  BY <1>8, <2>1, <2>2, <2>4, <3>1 DEF Throw, Guarded, NoteDoubt
  <2>5. CASE posts' = [posts EXCEPT ![key[r]] = Append(@, "open")]
    <3>1. /\ posts' \in [Keys -> Seq(Fates)]
          /\ \A j \in Keys : j # key[r] => posts'[j] = posts[j]
          /\ \A j \in Keys : \A n \in DOMAIN posts[j] :
               n \in DOMAIN posts'[j] /\ posts'[j][n] = posts[j][n]
      BY <2>3, <2>5, PostsGrow
    <3>2. TypeOK'
      <4>1. doubt' \subseteq Keys
        BY <1>8, <2>3 DEF Throw, NoteDoubt
      <4> QED  BY <1>8, <2>2, <3>1, <4>1 DEF Throw
    <3>3. HeldInv'
      BY <1>8, <2>3, <3>1, HeldInvWithin DEF Throw
    <3>4. ReportInv'
      BY <1>8, <3>1 DEF Throw
    <3>5. RunInv'
      BY <1>8 DEF Throw
    <3>6. SucceededOnlyIfSent'
      BY <1>8, <3>1 DEF Throw
    <3> QED  BY <2>1, <3>2, <3>3, <3>4, <3>5, <3>6 DEF IInv
  <2> QED  BY <1>8, <2>4, <2>5 DEF Throw
<1>9. CASE MarkFailed(r)
  <2>1. key[r] \in Keys /\ ~OutOfReach(key[r]) /\ payout[key[r]] # "absent"
    <3>1. key[r] \in Keys /\ pc[r] \in Admitting
      BY <1>9 DEF MarkFailed, Admitting
    <3> QED  BY <3>1, Within
  <2>2. TypeOK'
    BY <1>9 DEF MarkFailed, NoteDoubt
  <2>3. HeldInv'
    BY <1>9, <2>1, HeldInvWithin DEF MarkFailed
  <2>4. ReportInv'
    BY <1>9 DEF MarkFailed
  <2>5. RunInv'
    BY <1>9 DEF MarkFailed
  <2>6. LinkInv'
    BY <1>9, <2>1, LinkInvKept DEF MarkFailed, Requests, Dispatchers
  <2>7. SucceededOnlyIfSent'
    BY <1>9 DEF MarkFailed
  <2> QED  BY <2>2, <2>3, <2>4, <2>5, <2>6, <2>7 DEF IInv
<1>10. CASE Unwind(r)
  <2>1. key[r] \in Keys /\ ~OutOfReach(key[r]) /\ payout[key[r]] # "absent"
    <3>1. key[r] \in Keys /\ pc[r] \in Admitting
      BY <1>10 DEF Unwind, Admitting
    <3> QED  BY <3>1, Within
  <2>2. TypeOK'
    BY <1>10 DEF Unwind
  <2>3. HeldInv'
    BY <1>10, <2>1, HeldInvWithin DEF Unwind
  <2>4. ReportInv'
    BY <1>10 DEF Unwind
  <2>5. RunInv'
    BY <1>10 DEF Unwind
  <2>6. LinkInv'
    BY <1>10, <2>1, LinkInvKept DEF Unwind, Requests, Dispatchers
  <2>7. SucceededOnlyIfSent'
    BY <1>10 DEF Unwind
  <2> QED  BY <2>2, <2>3, <2>4, <2>5, <2>6, <2>7 DEF IInv
<1> HIDE DEF IInv
<1> QED  BY <1>1, <1>2, <1>3, <1>4, <1>5, <1>6, <1>7, <1>8, <1>9, <1>10 DEF DispatchStep

LEMMA HookStepIInv == ASSUME IInv, NEW r \in Requests, HookStep(r) PROVE IInv'
<1>0. USE DEF IInv, TypeOK, ReportInv, RunInv, LinkInv, SucceededOnlyIfSent,
          Running, Terminal, PayoutStatus,
          Goto, rowVars, bookVars, provVars, localVars
<1>1. CASE Get(r)
  <2>1. key[r] \in Keys /\ ~OutOfReach(key[r]) /\ payout[key[r]] # "absent"
    <3>1. key[r] \in Keys /\ pc[r] \in Admitting
      BY <1>1 DEF Get, Admitting
    <3> QED  BY <3>1, Within
  <2>2. TypeOK'
    BY <1>1 DEF Get, PaymentRef
  <2>3. HeldInv'
    BY <1>1, <2>1, HeldInvWithin DEF Get
  <2>4. ReportInv'
    BY <1>1 DEF Get, PaymentRef
  <2>5. RunInv'
    BY <1>1 DEF Get, PaymentRef
  <2>6. LinkInv'
    BY <1>1, <2>1, LinkInvKept DEF Get, Requests, Dispatchers
  <2>7. SucceededOnlyIfSent'
    BY <1>1 DEF Get, PaymentRef
  <2> QED  BY <2>2, <2>3, <2>4, <2>5, <2>6, <2>7 DEF IInv
<1>2. CASE Put(r)
  <2>1. key[r] \in Keys /\ ~OutOfReach(key[r]) /\ payout[key[r]] # "absent"
    <3>1. key[r] \in Keys /\ pc[r] \in Admitting
      BY <1>2 DEF Put, Admitting
    <3> QED  BY <3>1, Within
  <2>2. TypeOK'
    BY <1>2 DEF Put, PaymentRef
  <2>3. HeldInv'
    BY <1>2, <2>1, HeldInvWithin DEF Put
  <2>4. ReportInv'
    BY <1>2 DEF Put, PaymentRef
  <2>5. RunInv'
    BY <1>2 DEF Put, PaymentRef
  <2>6. LinkInv'
    BY <1>2, <2>1, LinkInvKept DEF Put, Requests, Dispatchers
  <2>7. SucceededOnlyIfSent'
    BY <1>2 DEF Put, PaymentRef
  <2> QED  BY <2>2, <2>3, <2>4, <2>5, <2>6, <2>7 DEF IInv
<1>3. CASE FindPayout(r)
  <2>1. key[r] \in Keys /\ ~OutOfReach(key[r]) /\ payout[key[r]] # "absent"
    <3>1. key[r] \in Keys /\ pc[r] \in Admitting
      BY <1>3 DEF FindPayout, Admitting
    <3> QED  BY <3>1, Within
  <2>2. TypeOK'
    BY <1>3 DEF FindPayout
  <2>3. HeldInv'
    BY <1>3, <2>1, HeldInvWithin DEF FindPayout
  <2>4. ReportInv'
    BY <1>3 DEF FindPayout
  <2>5. RunInv'
    BY <1>3 DEF FindPayout
  <2>6. LinkInv'
    BY <1>3, <2>1, LinkInvKept DEF FindPayout, Requests, Dispatchers
  <2>7. SucceededOnlyIfSent'
    BY <1>3 DEF FindPayout
  <2> QED  BY <2>2, <2>3, <2>4, <2>5, <2>6, <2>7 DEF IInv
<1>4. CASE UnknownPayout(r)
  <2>1. key[r] \in Keys /\ ~OutOfReach(key[r]) /\ payout[key[r]] # "absent"
    <3>1. key[r] \in Keys /\ pc[r] \in Admitting
      BY <1>4 DEF UnknownPayout, Admitting
    <3> QED  BY <3>1, Within
  <2>2. TypeOK'
    BY <1>4 DEF UnknownPayout, PaymentRef
  <2>3. HeldInv'
    BY <1>4, <2>1, HeldInvWithin DEF UnknownPayout
  <2>4. ReportInv'
    BY <1>4 DEF UnknownPayout, PaymentRef
  <2>5. RunInv'
    BY <1>4 DEF UnknownPayout, PaymentRef
  <2>6. LinkInv'
    BY <1>4, <2>1, LinkInvKept DEF UnknownPayout, Requests, Dispatchers
  <2>7. SucceededOnlyIfSent'
    BY <1>4 DEF UnknownPayout, PaymentRef
  <2> QED  BY <2>2, <2>3, <2>4, <2>5, <2>6, <2>7 DEF IInv
<1>5. CASE UpdatePayout(r)
  <2>1. key[r] \in Keys /\ ~OutOfReach(key[r]) /\ payout[key[r]] # "absent"
    <3>1. key[r] \in Keys /\ pc[r] \in Admitting
      BY <1>5 DEF UpdatePayout, Admitting
    <3> QED  BY <3>1, Within
  <2>2. TypeOK'
    BY <1>5 DEF UpdatePayout, StatusFor, Reports, NoteDoubt
  <2>3. HeldInv'
    BY <1>5, <2>1, HeldInvWithin DEF UpdatePayout, StatusFor
  <2>4. ReportInv'
    BY <1>5 DEF UpdatePayout, StatusFor, Reports
  <2>5. RunInv'
    BY <1>5 DEF UpdatePayout, StatusFor, Reports
  <2>6. LinkInv'
    BY <1>5, <2>1, LinkInvKept DEF UpdatePayout, Requests, Dispatchers
  <2>7. SucceededOnlyIfSent'
    BY <1>5 DEF UpdatePayout, StatusFor, Reports
  <2> QED  BY <2>2, <2>3, <2>4, <2>5, <2>6, <2>7 DEF IInv
<1> HIDE DEF IInv
<1> QED  BY <1>1, <1>2, <1>3, <1>4, <1>5 DEF HookStep

LEMMA OtherStepIInv ==
    ASSUME IInv, NEW r \in Requests, Reset(r) \/ Approve(r) \/ Evict(r)
    PROVE  IInv'
<1>0. USE DEF IInv, TypeOK, ReportInv, RunInv, LinkInv, SucceededOnlyIfSent,
          Running, Terminal, PayoutStatus,
          Goto, rowVars, bookVars, provVars, localVars
<1>1. CASE Reset(r)
  <2>1. key[r] \in Keys /\ ~OutOfReach(key[r]) /\ payout[key[r]] # "absent"
    <3>1. key[r] \in Keys /\ pc[r] \in Admitting
      BY <1>1 DEF Reset, Admitting
    <3> QED  BY <3>1, Within
  <2>2. TypeOK'
    BY <1>1 DEF Reset
  <2>3. HeldInv'
    BY <1>1, <2>1, HeldInvWithin DEF Reset
  <2>4. ReportInv'
    BY <1>1 DEF Reset
  <2>5. RunInv'
    BY <1>1 DEF Reset
  <2>6. LinkInv'
    BY <1>1, <2>1, LinkInvKept DEF Reset, Requests, Dispatchers
  <2>7. SucceededOnlyIfSent'
    BY <1>1 DEF Reset
  <2> QED  BY <2>2, <2>3, <2>4, <2>5, <2>6, <2>7 DEF IInv
<1>2. CASE Approve(r)
  <2>1. LinkInv'
    BY <1>2, LinkInvKept DEF Approve, Requests, Dispatchers
  <2>2. TypeOK'
    BY <1>2 DEF Approve
  <2>3. HeldInv'
    <3>1. key[r] \in Keys /\ ~OutOfReach(key[r])'
      BY <1>2, <2>2 DEF Approve, RunInv, OutOfReach
    <3> QED  BY <1>2, <3>1 DEF Approve, HeldInv, OutOfReach, Admitting
  <2>4. ReportInv'
    BY <1>2 DEF Approve
  <2>5. RunInv'
    BY <1>2 DEF Approve
  <2>6. SucceededOnlyIfSent'
    BY <1>2 DEF Approve
  <2> QED  BY <2>1, <2>2, <2>3, <2>4, <2>5, <2>6 DEF IInv
<1>3. CASE Evict(r)
  <2>1. faults' \in 0 .. MaxFaults
    BY <1>3, PayoutsAssumption DEF Evict
  <2>2. TypeOK'
    BY <1>3, <2>1 DEF Evict
  <2>3. HeldInv'
    BY <1>3 DEF Evict, HeldInv, OutOfReach, Admitting
  <2>4. ReportInv'
    BY <1>3 DEF Evict
  <2>5. RunInv'
    BY <1>3 DEF Evict
  <2>6. LinkInv'
    BY <1>3, LinkInvKept DEF Evict, Requests, Dispatchers
  <2>7. SucceededOnlyIfSent'
    BY <1>3 DEF Evict
  <2> QED  BY <2>2, <2>3, <2>4, <2>5, <2>6, <2>7 DEF IInv
<1> HIDE DEF IInv
<1> QED  BY <1>1, <1>2, <1>3 DEF Requests

LEMMA OutsideIInv ==
    ASSUME IInv,
           \/ \E b \in Bookings : DueChanges(b)
           \/ \E k \in Keys, n \in 1 .. MaxPosts, fate \in {"sent", "declined"} :
                Settle(k, n, fate)
    PROVE  IInv'
<1>0. USE DEF IInv, TypeOK, HeldInv, ReportInv, RunInv, LinkInv, LinkPending,
          SucceededOnlyIfSent, OutOfReach, Admitting, rowVars, bookVars, localVars
<1>1. ASSUME NEW b \in Bookings, DueChanges(b) PROVE IInv'
  BY <1>1 DEF DueChanges, provVars
<1>2. ASSUME NEW k \in Keys, NEW n \in 1 .. MaxPosts,
             NEW fate \in {"sent", "declined"}, Settle(k, n, fate)
      PROVE  IInv'
  <2>1. posts[k] \in Seq(Fates) /\ n \in DOMAIN posts[k] /\ fate \in Fates
    BY <1>2 DEF Settle, Fates
  <2>2. [posts[k] EXCEPT ![n] = fate] \in Seq(Fates)
    BY <2>1
  <2>3. posts' = [posts EXCEPT ![k] = [posts[k] EXCEPT ![n] = fate]]
    BY <1>2 DEF Settle
  <2>4. posts' \in [Keys -> Seq(Fates)]
    BY <2>2, <2>3
  <2>5. \A j \in Keys : DOMAIN posts'[j] = DOMAIN posts[j]
    BY <2>1, <2>3
  <2>6. \A j \in Keys : \A l \in DOMAIN posts[j] :
          posts[j][l] = "sent" => posts'[j][l] = "sent"
    BY <1>2, <2>1, <2>3 DEF Settle
  <2>7. \A j \in Keys : posts[j] = <<>> => posts'[j] = <<>>
    BY <2>1, <2>3
  <2>8. TypeOK'
    BY <1>2, <2>4 DEF Settle
  <2>9. HeldInv' /\ RunInv' /\ LinkInv'
    BY <1>2, <2>7 DEF Settle
  <2>10. ReportInv' /\ SucceededOnlyIfSent'
    BY <1>2, <2>5, <2>6 DEF Settle
  <2> QED  BY <2>8, <2>9, <2>10 DEF IInv
<1> HIDE DEF IInv
<1> QED  BY <1>1, <1>2

LEMMA NextIInv == IInv /\ [Next]_vars => IInv'
<1>1. ASSUME IInv, Next PROVE IInv'
  BY <1>1, ArriveIInv, RunStepIInv, DispatchStepIInv, HookStepIInv, OtherStepIInv,
     OutsideIInv DEF Next
<1>2. ASSUME IInv, UNCHANGED vars PROVE IInv'
  BY <1>2 DEF IInv, TypeOK, HeldInv, ReportInv, RunInv, LinkInv, LinkPending,
     SucceededOnlyIfSent, OutOfReach, vars, rowVars, bookVars, provVars, localVars
<1> QED  BY <1>1, <1>2

-----------------------------------------------------------------------------
(* Money sent twice.  While no two dispatchers of a payout met and its row  *)
(* was never failed with the money at Tingg, a row that may be dispatched   *)
(* has no money at Tingg, and one request at most is about to send some.    *)

Clean(k) == k \notin doubt \cup overlapped

\* Awaits of those who dispatch.
Dispatching == {"reset", "approve", "load", "claim", "call", "save", "post", "fail"}

\* Awaits after which Tingg is called.
Sending == {"reset", "approve", "claim", "call"}

Alone(k) ==
    k \notin overlapped =>
        \A q, r \in Dispatchers :
            key[q] = k /\ key[r] = k /\ pc[q] \in Running /\ pc[r] \in Running => q = r

RowOnce(k) ==
    /\ k \in approved => payout[k] # "absent"
    /\ payout[k] = "on_hold" => NeedsApproval(batch[k]) /\ k \notin approved
    /\ payout[k] = "failed" /\ Live(k) # {} => k \in doubt
    /\ Clean(k) =>
         /\ payout[k] = "pending" => Live(k) = {}
         /\ \A m, n \in Live(k) : m = n

RequestOnce(r) ==
    /\ pc[r] \in Dispatching => r \in Dispatchers
    /\ Clean(key[r]) =>
         /\ pc[r] \in Sending => Live(key[r]) = {}
         /\ pc[r] = "call" => payout[key[r]] # "pending"

OnceInv ==
    /\ \A k \in Keys : Alone(k) /\ RowOnce(k)
    /\ \A r \in Requests : RequestOnce(r)

LEMMA InitOnce == Init => OnceInv
<1> SUFFICES ASSUME Init PROVE OnceInv
  OBVIOUS
<1>1. \A k \in Keys : Live(k) = {} /\ payout[k] = "absent" /\ approved = {}
  BY DEF Init, Live
<1>2. \A r \in Requests : pc[r] = "idle"
  BY DEF Init
<1>3. \A r \in Dispatchers : r \in Requests
  BY DEF Requests
<1> QED
  BY <1>1, <1>2, <1>3
  DEF OnceInv, Alone, RowOnce, RequestOnce, Dispatching, Sending, Running

\* Neither the row of k nor what Tingg has of it changes.
SameRow(k) ==
    /\ payout'[k] = payout[k] /\ posts'[k] = posts[k] /\ batch'[k] = batch[k]
    /\ k \in approved' <=> k \in approved
    /\ k \in doubt <=> k \in doubt'

\* A request at one of its awaits works on its own payout.  If it may give the
\* others more to fear it is the only one that dispatches.
LEMMA OnceStep ==
    ASSUME IInv, OnceInv, NEW r \in Requests, NEW k \in Keys, key[r] = k,
           UNCHANGED <<key, overlapped>>, pc[r] \in Running,
           \A q \in Requests : q # r => pc'[q] = pc[q],
           \A j \in Keys : j # k => SameRow(j),
           k \in doubt => k \in doubt',
           RowOnce(k)', RequestOnce(r)',
           \/ r \in Dispatchers
           \/ /\ Live(k)' \subseteq Live(k)
              /\ payout'[k] = "pending" => payout[k] = "pending"
    PROVE  OnceInv'
<1>0. \A q \in Dispatchers : q \in Requests
  BY DEF Requests
<1>1. ASSUME NEW j \in Keys PROVE Alone(j)'
  BY <1>0 DEF OnceInv, Alone
<1>2. ASSUME NEW j \in Keys, j # k PROVE RowOnce(j)'
  BY <1>2 DEF OnceInv, RowOnce, SameRow, Clean, Live
<1>3. ASSUME NEW q \in Requests, q # r PROVE RequestOnce(q)'
  <2>1. key[q] \in Keys
    BY DEF IInv, TypeOK
  <2>2. CASE key[q] # k
    BY <1>3, <2>1, <2>2 DEF OnceInv, RequestOnce, SameRow, Clean, Live
  <2>3. CASE key[q] = k /\ pc[q] \in Dispatching /\ r \in Dispatchers
    <3>1. q \in Dispatchers /\ pc[q] \in Running
      BY <2>3 DEF OnceInv, RequestOnce, Dispatching, Running
    <3>2. ~Clean(k)
      BY <1>3, <2>3, <3>1 DEF OnceInv, Alone, Clean
    <3> QED  BY <1>3, <2>3, <3>1, <3>2 DEF RequestOnce, Clean
  <2>4. CASE key[q] = k /\ pc[q] \notin Dispatching
    BY <1>3, <2>4 DEF RequestOnce, Dispatching, Sending
  <2>5. CASE key[q] = k /\ r \notin Dispatchers
    BY <1>3, <2>5 DEF OnceInv, RequestOnce, Clean
  <2> QED  BY <2>2, <2>3, <2>4, <2>5
<1> QED  BY <1>1, <1>2, <1>3 DEF OnceInv

\* Most steps leave every row alone.
LEMMA OnceQuiet ==
    ASSUME IInv, OnceInv, NEW r \in Requests,
           UNCHANGED <<key, overlapped, payout, posts, batch, approved, doubt>>,
           pc[r] \in Running, \A q \in Requests : q # r => pc'[q] = pc[q],
           pc'[r] \in Dispatching => r \in Dispatchers,
           pc'[r] \in Sending \ {"call"} =>
              pc[r] \in Sending \/ payout[key[r]] = "pending",
           pc'[r] = "call" => pc[r] = "call"
    PROVE  OnceInv'
<1>1. key[r] \in Keys
  BY DEF IInv, TypeOK
<1>2. \A j \in Keys : SameRow(j)
  BY DEF SameRow
<1>3. RowOnce(key[r])' /\ Live(key[r])' = Live(key[r])
  BY <1>1 DEF OnceInv, RowOnce, Clean, Live
<1>4. RequestOnce(r)'
  BY <1>1, <1>3 DEF OnceInv, RequestOnce, RowOnce, Clean, Sending
<1> QED  BY <1>1, <1>2, <1>3, <1>4, OnceStep

LEMMA ArriveOnce ==
    ASSUME IInv, OnceInv, NEW r \in Requests, NEW k \in Keys, Arrive(r, k)
    PROVE  OnceInv'
<1>1. PICK to \in Running :
        /\ Begin(r, to, k)
        /\ UNCHANGED <<payout, posts, batch, approved, doubt>>
        /\ to \in Dispatching => r \in Dispatchers
        /\ to \in Sending => payout[k] \in {"failed", "on_hold"}
        /\ to # "call"
  BY DEF Arrive, StartRun, StartDispatch, StartRetry, StartApprove, Deliver, rowVars,
         provVars, Running, Dispatching, Sending, Dispatchers
<1>2. /\ pc[r] = "idle" /\ pc' = [pc EXCEPT ![r] = to]
      /\ key' = [key EXCEPT ![r] = k]
      /\ overlapped \subseteq overlapped'
      /\ r \in Dispatchers /\ k \notin overlapped' =>
            \A q \in Dispatchers : key[q] = k => pc[q] \notin Running
  BY <1>1 DEF Begin, Goto
<1>3. \A q \in Dispatchers : q \in Requests
  BY DEF Requests
<1>4. ASSUME NEW j \in Keys PROVE Alone(j)'
  BY <1>2, <1>3 DEF OnceInv, Alone, IInv, TypeOK
<1>5. \A j \in Keys : Live(j)' = Live(j)
  BY <1>1 DEF Live
<1>6. ASSUME NEW j \in Keys PROVE RowOnce(j)'
  BY <1>1, <1>2, <1>5 DEF OnceInv, RowOnce, Clean
<1>7. ASSUME NEW q \in Requests, q # r PROVE RequestOnce(q)'
  <2>1. key[q] \in Keys /\ key'[q] = key[q] /\ pc'[q] = pc[q]
    BY <1>2, <1>7 DEF IInv, TypeOK
  <2> QED  BY <1>1, <1>2, <1>5, <2>1 DEF OnceInv, RequestOnce, Clean
<1>8. payout[k] \in {"failed", "on_hold"} /\ Clean(k) => Live(k) = {}
  <2>1. payout[k] = "on_hold" => posts[k] = <<>>
    BY DEF OnceInv, RowOnce, IInv, HeldInv, OutOfReach
  <2> QED  BY <2>1 DEF OnceInv, RowOnce, Clean, Live
<1>9. RequestOnce(r)'
  <2>1. key'[r] = k /\ pc'[r] = to
    BY <1>2 DEF IInv, TypeOK
  <2> QED  BY <1>1, <1>2, <1>5, <1>8, <2>1 DEF RequestOnce, Clean
<1> QED  BY <1>4, <1>6, <1>7, <1>9 DEF OnceInv

LEMMA RunOnce ==
    ASSUME IInv, OnceInv, NEW r \in Requests, RunStep(r)
    PROVE  OnceInv'
<1>0. r \in Dispatchers /\ key[r] \in Keys
  BY DEF RunStep, ReadEligible, CreatePayout, CreateRefused, LinkBookings, Goto, IInv,
         RunInv, TypeOK, Dispatchers
<1>1. CASE CreatePayout(r)
  <2> DEFINE k == key[r]
  <2>1. /\ pc[r] = "create" /\ pc' = [pc EXCEPT ![r] = "link"]
        /\ payout[k] = "absent"
        /\ payout' = [payout EXCEPT ![k] =
                        IF NeedsApproval(seen[r]) THEN "on_hold" ELSE "pending"]
        /\ batch' = [batch EXCEPT ![k] = seen[r]]
        /\ UNCHANGED <<key, overlapped, posts, approved, doubt>>
    BY <1>1 DEF CreatePayout, Goto, provVars, localVars
  <2>2. Live(k) = {} /\ Live(k)' = {}
    BY <1>0, <2>1 DEF IInv, HeldInv, OutOfReach, Live
  <2>3. /\ payout'[k] = IF NeedsApproval(batch'[k]) THEN "on_hold" ELSE "pending"
        /\ k \notin approved'
    BY <1>0, <2>1 DEF OnceInv, RowOnce, IInv, TypeOK
  <2>4. RowOnce(k)'
    BY <2>1, <2>2, <2>3 DEF RowOnce
  <2>5. RequestOnce(r)'
    BY <1>0, <2>1, <2>2 DEF RequestOnce, Sending, IInv, TypeOK
  <2>6. \A j \in Keys : j # k => SameRow(j)
    BY <2>1 DEF SameRow, IInv, TypeOK
  <2> QED  BY <1>0, <2>1, <2>4, <2>5, <2>6, OnceStep DEF Running
<1>2. CASE ReadEligible(r) \/ CreateRefused(r) \/ LinkBookings(r)
  <2>1. /\ pc[r] \in {"eligible", "create", "link"}
        /\ pc'[r] \notin Sending
        /\ \A q \in Requests : q # r => pc'[q] = pc[q]
        /\ UNCHANGED <<key, overlapped, payout, posts, batch, approved, doubt>>
    BY <1>2
    DEF ReadEligible, CreateRefused, LinkBookings, Goto, rowVars, provVars, localVars,
        Sending, IInv, TypeOK
  <2> QED  BY <1>0, <2>1, OnceQuiet DEF Running, Sending
<1> QED  BY <1>1, <1>2 DEF RunStep

LEMMA AcceptedOnce ==
    ASSUME IInv, OnceInv, NEW r \in Requests, pc[r] = "call",
           posts' = [posts EXCEPT ![key[r]] = Append(@, "open")],
           pc' \in {[pc EXCEPT ![r] = "save"], [pc EXCEPT ![r] = "fail"]},
           UNCHANGED <<key, overlapped, payout, batch, approved>>,
           NoteDoubt(key[r])
    PROVE  OnceInv'
<1> DEFINE k == key[r]
<1>0. k \in Keys /\ r \in Dispatchers /\ pc'[r] \in {"save", "fail"}
  BY DEF OnceInv, RequestOnce, Dispatching, IInv, TypeOK
<1>1. posts[k] \in Seq(Fates) /\ posts'[k] = Append(posts[k], "open")
  BY <1>0 DEF IInv, TypeOK
<1>2. Clean(k) => Live(k) = {} /\ payout[k] # "pending"
  BY DEF OnceInv, RequestOnce, Sending
<1>3. Live(k)' \subseteq Live(k) \cup {Len(posts[k]) + 1}
  BY <1>1 DEF Live
<1>4. doubt \subseteq doubt' /\ doubt' \subseteq doubt \cup {k}
  BY DEF NoteDoubt
<1>5. Clean(k)' => Clean(k)
  BY <1>4 DEF Clean
<1>6. payout'[k] = "failed" /\ Live(k)' # {} => k \in doubt'
  BY DEF NoteDoubt
<1>7. RowOnce(k)'
  BY <1>0, <1>2, <1>3, <1>5, <1>6 DEF OnceInv, RowOnce
<1>8. RequestOnce(r)'
  BY <1>0 DEF RequestOnce, Sending
<1>9. \A j \in Keys : j # k => SameRow(j)
  BY <1>4 DEF SameRow, IInv, TypeOK
<1> QED  BY <1>0, <1>4, <1>7, <1>8, <1>9, OnceStep DEF Running, IInv, TypeOK

\* A step writes the status of its row and leaves the money alone.
LEMMA StatusOnce ==
    ASSUME IInv, OnceInv, NEW r \in Requests, NEW to, NEW s \in PayoutStatus,
           pc[r] \in Running, pc' = [pc EXCEPT ![r] = to],
           payout' = [payout EXCEPT ![key[r]] = s],
           UNCHANGED <<key, overlapped, posts, batch>>,
           approved \subseteq approved' /\ approved' \subseteq approved \cup {key[r]},
           payout[key[r]] # "absent" /\ s \notin {"absent", "on_hold"},
           s # "failed" => doubt' = doubt,
           s = "failed" => NoteDoubt(key[r]),
           s = "pending" => r \in Dispatchers /\ (Clean(key[r]) => Live(key[r]) = {}),
           to \in Dispatching => r \in Dispatchers,
           to \in Sending => (Clean(key[r]) => Live(key[r]) = {}),
           to = "call" => s # "pending"
    PROVE  OnceInv'
<1> DEFINE k == key[r]
<1>0. k \in Keys /\ payout'[k] = s /\ pc'[r] = to
  BY DEF IInv, TypeOK
<1>1. doubt \subseteq doubt' /\ doubt' \subseteq doubt \cup {k}
  BY DEF NoteDoubt
<1>2. (Clean(k)' => Clean(k)) /\ Live(k)' = Live(k)
  BY <1>1 DEF Clean, Live
<1>3. s = "failed" /\ Live(k)' # {} => k \in doubt'
  BY <1>0 DEF NoteDoubt
<1>4. RowOnce(k)'
  BY <1>0, <1>2, <1>3 DEF OnceInv, RowOnce
<1>5. RequestOnce(r)'
  BY <1>0, <1>2 DEF RequestOnce
<1>6. \A j \in Keys : j # k => SameRow(j)
  BY <1>1 DEF SameRow, IInv, TypeOK
<1>7. \A q \in Requests : q # r => pc'[q] = pc[q]
  BY DEF IInv, TypeOK
<1>8. r \in Dispatchers \/ (Live(k)' \subseteq Live(k) /\ payout'[k] # "pending")
  BY <1>0, <1>2
<1> QED  BY <1>0, <1>1, <1>4, <1>5, <1>6, <1>7, <1>8, OnceStep

LEMMA DispatchOnce ==
    ASSUME IInv, OnceInv, NEW r \in Requests, DispatchStep(r)
    PROVE  OnceInv'
<1> DEFINE k == key[r]
<1>0. k \in Keys /\ (pc[r] \in Admitting => payout[k] # "absent")
  BY Within DEF IInv, TypeOK
<1>1. CASE Load(r) \/ PostNotAccepted(r) \/ PostIssuance(r) \/ Unwind(r)
  <2>1. /\ pc[r] \in {"load", "call", "post", "unwind"}
        /\ \/ pc[r] = "load" /\ payout[k] = "pending" /\ pc'[r] = "claim"
           \/ pc[r] = "call" /\ pc'[r] = "save"
           \/ pc'[r] \in Terminal
        /\ \A q \in Requests : q # r => pc'[q] = pc[q]
        /\ UNCHANGED <<key, overlapped, payout, posts, batch, approved, doubt>>
    BY <1>1
    DEF Load, PostNotAccepted, PostIssuance, Unwind, Goto, rowVars, provVars, localVars,
        Terminal, IInv, TypeOK
  <2>2. pc'[r] \in Dispatching => r \in Dispatchers
    BY <2>1 DEF OnceInv, RequestOnce, Dispatching, Terminal
  <2> QED  BY <2>1, <2>2, OnceQuiet DEF Running, Sending, Terminal
<1>2. CASE Claim(r)
  <2>1. r \in Dispatchers /\ (Clean(k) => Live(k) = {})
    BY <1>2 DEF Claim, Goto, OnceInv, RequestOnce, Dispatching, Sending
  <2>2. payout[k] # "absent"
    BY <1>0, <1>2 DEF Claim, Goto, Admitting
  <2> QED
    BY <1>2, <2>1, <2>2, StatusOnce
    DEF Claim, Goto, provVars, localVars, Running, PayoutStatus
<1>3. CASE PostAccepted(r)
  BY <1>3, AcceptedOnce DEF PostAccepted, Goto, rowVars
<1>4. CASE PostRepeated(r)
  <2>1. /\ pc[r] = "call" /\ doubt' = doubt \cup {k}
        /\ posts' = [posts EXCEPT ![k] = Append(@, "open")]
        /\ UNCHANGED <<payout, batch, approved, pc, key, overlapped>>
    BY <1>4 DEF PostRepeated, rowVars, localVars
  <2>2. ~Clean(k)' /\ k \in doubt'
    BY <2>1 DEF Clean
  <2>3. r \in Dispatchers
    BY <2>1 DEF OnceInv, RequestOnce, Dispatching
  <2>4. RowOnce(k)' /\ RequestOnce(r)'
    BY <1>0, <2>1, <2>2, <2>3 DEF OnceInv, RowOnce, RequestOnce
  <2>5. \A j \in Keys : j # k => SameRow(j)
    BY <2>1 DEF SameRow, IInv, TypeOK
  <2> QED  BY <1>0, <2>1, <2>3, <2>4, <2>5, OnceStep DEF Running
<1>5. CASE SavePost(r)
  <2>1. r \in Dispatchers /\ payout[k] # "absent"
    BY <1>0, <1>5 DEF SavePost, Goto, OnceInv, RequestOnce, Dispatching, Admitting
  <2> QED
    BY <1>5, <2>1, StatusOnce
    DEF SavePost, Goto, provVars, localVars, Running, PayoutStatus, Dispatching, Sending
<1>6. CASE Throw(r)
  <2>1. /\ pc[r] \in {"call", "save", "post"} /\ pc' = [pc EXCEPT ![r] = "fail"]
        /\ UNCHANGED <<key, overlapped, payout, batch, approved>>
        /\ NoteDoubt(k)
    BY <1>6 DEF Throw, Guarded, rowVars, localVars
  <2>2. r \in Dispatchers
    BY <2>1 DEF OnceInv, RequestOnce, Dispatching
  <2>3. CASE UNCHANGED posts
    <3>1. doubt' = doubt
      BY <1>0, <2>1, <2>3 DEF NoteDoubt, Live, OnceInv, RowOnce
    <3>2. pc'[r] = "fail" /\ \A q \in Requests : q # r => pc'[q] = pc[q]
      BY <2>1 DEF IInv, TypeOK
    <3> QED  BY <2>1, <2>2, <2>3, <3>1, <3>2, OnceQuiet DEF Running, Sending
  <2>4. CASE pc[r] = "call" /\ posts' = [posts EXCEPT ![k] = Append(@, "open")]
    BY <2>1, <2>4, AcceptedOnce
  <2> QED  BY <1>6, <2>3, <2>4 DEF Throw
<1>7. CASE MarkFailed(r)
  <2>1. r \in Dispatchers /\ payout[k] # "absent"
    BY <1>0, <1>7 DEF MarkFailed, Goto, OnceInv, RequestOnce, Dispatching, Admitting
  <2> QED
    BY <1>7, <2>1, StatusOnce
    DEF MarkFailed, Goto, localVars, Running, PayoutStatus, Dispatching, Sending
<1> QED  BY <1>1, <1>2, <1>3, <1>4, <1>5, <1>6, <1>7 DEF DispatchStep

LEMMA OtherOnce ==
    ASSUME IInv, OnceInv, NEW r \in Requests,
           HookStep(r) \/ Reset(r) \/ Approve(r) \/ Evict(r)
    PROVE  OnceInv'
<1> DEFINE k == key[r]
<1>0. k \in Keys /\ (pc[r] \in Admitting => payout[k] # "absent")
  BY Within DEF IInv, TypeOK
<1>1. CASE Get(r) \/ Put(r) \/ FindPayout(r) \/ UnknownPayout(r) \/ Evict(r)
  <2>1. /\ pc[r] \in Running
        /\ pc'[r] \in {"skipped", "put", "find", "update", "missing", "aborted"}
        /\ \A q \in Requests : q # r => pc'[q] = pc[q]
        /\ UNCHANGED <<key, overlapped, payout, posts, batch, approved, doubt>>
    BY <1>1
    DEF Get, Put, FindPayout, UnknownPayout, Evict, Goto, rowVars, provVars, localVars,
        Running, IInv, TypeOK
  <2> QED  BY <2>1, OnceQuiet DEF Dispatching, Sending
<1>2. CASE UpdatePayout(r)
  <2>1. status[r] \in Reports /\ payout[k] # "absent"
    BY <1>0, <1>2 DEF UpdatePayout, Goto, IInv, TypeOK, Admitting
  <2>2. StatusFor(status[r]) \in {"processing", "succeeded", "failed"}
    BY DEF StatusFor
  <2>3. /\ pc[r] = "update" /\ NoteDoubt(k)
        /\ pc' = [pc EXCEPT ![r] = IF status[r] = "FAILED" THEN "unwind" ELSE "processed"]
        /\ payout' = [payout EXCEPT ![k] = StatusFor(status[r])]
        /\ UNCHANGED <<key, overlapped, posts, batch, approved>>
    BY <1>2 DEF UpdatePayout, Goto, localVars
  <2>4. StatusFor(status[r]) # "failed" => doubt' = doubt
    BY <1>0, <2>3 DEF NoteDoubt, IInv, TypeOK
  <2> QED
    BY <2>1, <2>2, <2>3, <2>4, StatusOnce
    DEF Running, PayoutStatus, Dispatching, Sending
<1>3. CASE Reset(r)
  <2>1. /\ r \in Dispatchers /\ payout[k] # "absent"
        /\ Clean(k) => Live(k) = {}
    BY <1>0, <1>3 DEF Reset, Goto, OnceInv, RequestOnce, Dispatching, Sending, Admitting
  <2> QED
    BY <1>3, <2>1, StatusOnce
    DEF Reset, Goto, provVars, localVars, Running, PayoutStatus, Sending
<1>4. CASE Approve(r)
  <2>1. /\ r \in Dispatchers /\ payout[k] # "absent"
        /\ Clean(k) => Live(k) = {}
    BY <1>4
    DEF Approve, Goto, OnceInv, RequestOnce, Dispatching, Sending, IInv, RunInv
  <2>2. /\ pc[r] = "approve" /\ pc' = [pc EXCEPT ![r] = "load"]
        /\ payout' = [payout EXCEPT ![k] = "pending"]
        /\ approved' = approved \cup {k}
        /\ UNCHANGED <<key, overlapped, posts, doubt, batch>>
    BY <1>4 DEF Approve, Goto, provVars, localVars
  <2> QED  BY <2>1, <2>2, StatusOnce DEF Running, PayoutStatus, Sending
<1> QED  BY <1>1, <1>2, <1>3, <1>4 DEF HookStep

LEMMA OutsideOnce ==
    ASSUME IInv, OnceInv,
           \/ \E b \in Bookings : DueChanges(b)
           \/ \E k \in Keys, n \in 1 .. MaxPosts, fate \in {"sent", "declined"} :
                Settle(k, n, fate)
    PROVE  OnceInv'
<1>1. UNCHANGED <<payout, batch, approved, pc, key, overlapped, doubt>>
  BY DEF DueChanges, Settle, rowVars, provVars, localVars
<1>2. \A k \in Keys : Live(k)' \subseteq Live(k)
  <2>1. ASSUME NEW b \in Bookings, DueChanges(b) PROVE UNCHANGED posts
    BY <2>1 DEF DueChanges, provVars
  <2>2. ASSUME NEW k \in Keys, NEW n \in 1 .. MaxPosts, NEW fate \in {"sent", "declined"},
               Settle(k, n, fate), NEW j \in Keys
        PROVE  Live(j)' \subseteq Live(j)
    <3>1. /\ n \in DOMAIN posts[k] /\ posts[k][n] = "open"
          /\ posts' = [posts EXCEPT ![k] = [posts[k] EXCEPT ![n] = fate]]
      BY <2>2 DEF Settle
    <3>2. \A m \in DOMAIN posts'[j] :
            m \in DOMAIN posts[j] /\ (posts[j][m] = "declined" => posts'[j][m] = "declined")
      BY <3>1 DEF IInv, TypeOK
    <3> QED  BY <3>2 DEF Live
  <2> QED  BY <2>1, <2>2 DEF Live
<1>3. \A r \in Requests : key[r] \in Keys
  BY DEF IInv, TypeOK
<1>4. ASSUME NEW k \in Keys PROVE Alone(k)' /\ RowOnce(k)'
  BY <1>1, <1>2 DEF OnceInv, Alone, RowOnce, Clean
<1>5. ASSUME NEW r \in Requests PROVE RequestOnce(r)'
  BY <1>1, <1>2, <1>3 DEF OnceInv, RequestOnce, Clean
<1> QED  BY <1>4, <1>5 DEF OnceInv

LEMMA NextOnce == IInv /\ OnceInv /\ [Next]_vars => OnceInv'
<1>1. ASSUME IInv, OnceInv, Next PROVE OnceInv'
  BY <1>1, ArriveOnce, RunOnce, DispatchOnce, OtherOnce, OutsideOnce DEF Next
<1>2. ASSUME IInv, OnceInv, UNCHANGED vars PROVE OnceInv'
  BY <1>2
  DEF OnceInv, Alone, RowOnce, RequestOnce, Clean, Live, vars, rowVars, provVars, localVars
<1> QED  BY <1>1, <1>2

-----------------------------------------------------------------------------
(* Theorems *)

\* The inductive invariant holds of every reachable state.
THEOREM InductiveInvariant == Spec => []IInv
  BY InitIInv, NextIInv, PTL DEF Spec

\* However many requests of whatever kind run, Tingg is not asked for a payout
\* above the threshold before it is approved (runPayout, dispatchPayout,
\* retryPayout, approvePayout, processPayoutWebhook).
THEOREM ApprovalBeforeMoney == Spec => [](TypeOK /\ LargeNeedsApproval)
<1>1. IInv => TypeOK /\ LargeNeedsApproval
  BY DEF IInv, HeldInv, OutOfReach, LargeNeedsApproval
<1> QED  BY <1>1, InductiveInvariant, PTL

\* A payout is succeeded only if Tingg sent it (processPayoutWebhook).
THEOREM SucceededWasSent == Spec => []SucceededOnlyIfSent
  BY InductiveInvariant, PTL DEF IInv

\* What reached Tingg has its bookings linked, or the run that links them is still
\* on its way or was cut short (runPayout, dispatchPayout).
THEOREM SentAndLinked == Spec => []SentIsLinked
<1>1. IInv => SentIsLinked
  BY DEF IInv, HeldInv, OutOfReach, LinkInv, LinkPending, SentIsLinked
<1> QED  BY <1>1, InductiveInvariant, PTL

\* A provider gets the money of one payout twice only if two requests that
\* dispatch it met, or Tingg had accepted it while its row was failed or while the
\* HTTP client had given up on the answer: otherwise a row that is pending, or
\* failed and may be retried, has no money at Tingg (dispatchPayout, retryPayout,
\* approvePayout, processPayoutWebhook).
THEOREM SentOnceUnlessInDoubt == Spec => []SentTwiceOnlyInDoubt
<1>1. ASSUME OnceInv PROVE SentTwiceOnlyInDoubt
  <2> SUFFICES ASSUME NEW k \in Keys, Clean(k)
               PROVE  ~(Cardinality(Live(k)) > 1)
    BY DEF SentTwiceOnlyInDoubt, Clean
  <2>1. \A m, n \in Live(k) : m = n
    BY <1>1 DEF OnceInv, RowOnce
  <2>2. CASE Live(k) = {}
    BY <2>2, FS_EmptySet
  <2>3. ASSUME NEW n \in Live(k) PROVE Cardinality(Live(k)) = 1
    <3>1. Live(k) = {n}
      BY <2>1
    <3> QED  BY <3>1, FS_Singleton
  <2> QED  BY <2>2, <2>3
<1> QED  BY <1>1, InitOnce, NextOnce, InductiveInvariant, PTL DEF Spec
=============================================================================
