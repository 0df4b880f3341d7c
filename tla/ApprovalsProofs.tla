--------------------------- MODULE ApprovalsProofs --------------------------
(***************************************************************************)
(* Proofs about Approvals, for any workflow and any number of users,       *)
(* calls, delegations and faults.                                          *)
(*                                                                         *)
(* A call acts on what it read of the request when it came in.  What makes *)
(* that right in the end is that recorded decisions stay: a step once      *)
(* passed stays passed, so the step a call has seen was reached, and a     *)
(* call that is past the count has it passed as well.  Without overlap     *)
(* one call runs at a time, and the rows are what that call left.          *)
(***************************************************************************)
EXTENDS Approvals, FiniteSetTheorems, TLAPS

-----------------------------------------------------------------------------
(* Strengthening *)

\* The awaits of a call whose decision is an approval that counts.
Approving == {"count", "complete", "advance", "startNext", "finish", "execute", "wait"}
Rejecting == {"reject", "rejectStep"}
Escalating == {"escalate", "move"}

\* Where a call is says what it decides, whether that is recorded, and that the
\* orders it writes to are orders of steps.
CallInv ==
    \A d \in Calls :
        /\ d \in recorded <=> pc[d] \notin {"idle", "eligible", "record"}
        /\ pc[d] \in Approving => kind[d] = "approve"
        /\ pc[d] \in Rejecting => kind[d] = "reject"
        /\ pc[d] \in Escalating => kind[d] = "escalate"
        /\ pc[d] \in {"advance", "startNext"} => seen[d] + 1 \in orders
        /\ pc[d] = "finish" => seen[d] + 1 \notin orders
        /\ pc[d] = "move" => EscalateTo[seen[d]] \in orders

\* The steps are inserted in their order, before their candidates, and calls get
\* to the rows of inserted steps only.
CreationInv ==
    /\ creator = "idle" <=> request = "absent"
    /\ request = "absent" => InsertedSteps = {} /\ \A d \in Calls : pc[d] = "idle"
    /\ \A s \in InsertedSteps, t \in orders \ InsertedSteps : s < t
    /\ \A s \in orders : candidates[s] # {} => s \in InsertedSteps
    /\ \A d \in Calls : pc[d] \notin {"idle", "eligible"} => seen[d] \in InsertedSteps

Entitled(u, s) == Answers(u, s) \/ \E p \in lent : p[2] = u /\ Answers(p[1], s)

CandidatesInv ==
    /\ \A s \in orders : \A u \in candidates[s] : Answers(u, s)
    /\ \A s \in InsertedSteps :
          (\A t \in InsertedSteps : t <= s) => \A u \in left : Answers(u, s)
    /\ \A d \in Calls : pc[d] \notin {"idle", "eligible"} => Entitled(by[d], seen[d])

PassedSteps == {s \in orders : Passed(s)}

\* Each step of the chain before s has been passed.
Reached(s) == \A t \in Chain : t < s => t \in PassedSteps
AllPassed == Chain \subseteq PassedSteps

QuorumInv ==
    /\ Reached(current)
    /\ \A d \in Calls : /\ pc[d] # "idle" => Reached(seen[d])
                        /\ pc[d] \in {"complete", "advance", "finish"} => seen[d] \in PassedSteps
                        /\ pc[d] = "execute" => AllPassed
    /\ request = "approved" \/ executed > 0 => AllPassed

\* Without overlap one call runs at a time; and onApproved, once it has run,
\* leaves a request that no call can be made on.
AloneInv ==
    ~overlapped =>
        /\ \A d, e \in Calls : pc[d] \in Running /\ pc[e] \in Running => d = e
        /\ \A d \in Calls : pc[d] = "execute" => request = "approved" /\ executed = 0
        /\ executed <= 1
        /\ executed = 1 => /\ request = "approved"
                           /\ \A d \in Calls : pc[d] \notin Running

\* The awaits of a call that may still write the request's row.  A call that has
\* decided the request is past them.
Writing == Running \ {"rejectStep", "startNext", "execute"}

LateInv == request \in Final => \A d \in Calls : pc[d] \in Writing => d \in late

\* Nothing overlapped, failed or was escalated.
Clean == ~overlapped /\ faults = 0 /\ \A s \in orders : EscalationsOf(s) = {}

NoneRuns == \A d \in Calls : pc[d] \notin Running

\* Then the step of the request is opened by its creation and by each call that
\* moves the request on, and closed only by a call on its way to the next one.
ListedInv ==
    Clean /\ 1 \in orders =>
        /\ creator # "cut"
        /\ ~Created => /\ NoneRuns /\ current = 1
                       /\ 1 \in InsertedSteps => step[1] = "in_progress"
        /\ Created /\ request \in Open /\ NoneRuns => step[current] = "in_progress"
        /\ \A d \in Calls :
              /\ pc[d] \in {"eligible", "record", "count", "reject", "wait"} =>
                    seen[d] = current /\ step[current] = "in_progress"
              /\ pc[d] \in {"complete", "advance"} => seen[d] = current
              /\ pc[d] = "startNext" => current = seen[d] + 1
              /\ pc[d] \in {"rejectStep", "execute"} => request \in Final

\* A request whose template starts with an inactive step stays where it is: calls
\* get no further than the check of who makes them.
StuckInv ==
    1 \notin orders =>
        /\ \A s \in orders : step[s] \in {"absent", "pending"}
        /\ \A d \in Calls : pc[d] \in {"idle", "eligible"} /\ seen[d] = 1
        /\ current = 1 /\ request \in {"absent", "pending", "cancelled"}

IInv == /\ TypeOK /\ CallInv /\ CreationInv /\ CandidatesInv
        /\ QuorumInv /\ AloneInv /\ LateInv /\ ListedInv /\ StuckInv

-----------------------------------------------------------------------------
(* Types *)

LEMMA InitTyped == Init => TypeOK
<1> SUFFICES ASSUME Init PROVE TypeOK
  OBVIOUS
<1> USE ApprovalsAssumption DEF Init
<1>1. overlapped \in BOOLEAN
  BY Zenon
<1>2. faults \in 0..MaxFaults /\ executed \in Nat /\ current \in orders \cup {1}
  OBVIOUS
<1>3. /\ step \in [orders -> {"absent", "pending", "in_progress", "completed", "escalated"}]
      /\ candidates \in [orders -> SUBSET Users]
  OBVIOUS
<1>4. /\ by \in [Calls -> Users] /\ kind \in [Calls -> Decisions] /\ seen \in [Calls -> orders \cup {1}]
      /\ pc \in [Calls -> {"idle", "done"} \cup Running]
  BY DEF Decisions
<1>5. orders \subseteq Steps
  BY DEF Compiled
<1> QED  BY <1>1, <1>2, <1>3, <1>4, <1>5 DEF TypeOK

\* The steps of a request are those compiled for it.
LEMMA OrdersStay ==
    /\ Create \/ Cancel \/ (\E p \in Deputies : Delegate(p) \/ EndDelegation(p)) => orders' = orders
    /\ \A d \in Calls : SubmitDecision(d) => orders' = orders
    /\ Next => orders' = orders
<1>1. ASSUME Create \/ Cancel \/ (\E p \in Deputies : Delegate(p) \/ EndDelegation(p))
      PROVE  orders' = orders
  BY <1>1, Zenon DEF Create, InsertRequest, InsertStep, InsertCandidate, AbortCreation, Cancel,
     Delegate, EndDelegation
<1>2. ASSUME NEW d \in Calls, SubmitDecision(d) PROVE orders' = orders
  BY <1>2, Zenon DEF SubmitDecision, Submit, CheckEligible, Refuse, RecordDecision, RejectRequest,
     CountApprovals, CompleteStep, Advance, StartNext, Finish, Execute, Wait, EscalateStep, MoveTo,
     Abort
<1> QED  BY <1>1, <1>2, Zenon DEF Next

\* The steps of the creation, of the delegations and of a cancellation.
LEMMA OthersTyped ==
    ASSUME TypeOK, Create \/ Cancel \/ (\E p \in Deputies : Delegate(p) \/ EndDelegation(p))
    PROVE  TypeOK'
<1> USE DEF TypeOK, Open, Final, Decide, requestVars, createVars, callVars, lendVars
<1>1. ASSUME InsertRequest PROVE TypeOK'
  BY <1>1 DEF InsertRequest
<1>2. ASSUME NEW S \in SUBSET Users, InsertStep(S) PROVE TypeOK'
  BY <1>2 DEF InsertStep
<1>3. ASSUME NEW u \in Users, InsertCandidate(u) PROVE TypeOK'
  <2>1. PICK s \in InsertedSteps : candidates' = [candidates EXCEPT ![s] = @ \cup {u}]
    BY <1>3 DEF InsertCandidate
  <2>2. s \in orders
    BY <2>1 DEF InsertedSteps
  <2>3. candidates' \in [orders -> SUBSET Users]
    BY <2>1, <2>2
  <2>4. /\ left' \subseteq Users
        /\ UNCHANGED <<requestVars, step, creator, recorded, lendVars, pc, callVars,
                       executed, late, overlapped, faults>>
    BY <1>3 DEF InsertCandidate
  <2> QED  BY <2>3, <2>4, <1>3, OrdersStay DEF Create
<1>4. ASSUME AbortCreation PROVE TypeOK'
  BY <1>4, ApprovalsAssumption DEF AbortCreation
<1>5. ASSUME Cancel PROVE TypeOK'
  BY <1>5 DEF Cancel
<1>6. ASSUME NEW p \in Deputies, Delegate(p) \/ EndDelegation(p) PROVE TypeOK'
  BY <1>6 DEF Delegate, EndDelegation
<1> QED  BY <1>1, <1>2, <1>3, <1>4, <1>5, <1>6, Zenon DEF Create

\* The steps of a call.
LEMMA CallTyped ==
    ASSUME TypeOK, CallInv, NEW d \in Calls, SubmitDecision(d)
    PROVE  TypeOK'
<1> USE ApprovalsAssumption
    DEF TypeOK, Goto, Open, Final, Decide, Running, Decisions, requestVars, createVars, callVars,
        lendVars
<1>1. ASSUME NEW u \in Users, NEW k \in Decisions, Submit(d, u, k) PROVE TypeOK'
  <2>1. overlapped' \in BOOLEAN
    BY <1>1, Zenon DEF Submit
  <2>2. /\ UNCHANGED <<requestVars, step, createVars, recorded, lendVars, executed, late, faults>>
        /\ Goto(d, "idle", "eligible")
        /\ by' = [by EXCEPT ![d] = u]
        /\ kind' = [kind EXCEPT ![d] = k]
        /\ seen' = [seen EXCEPT ![d] = current]
        /\ orders' = orders
    BY <1>1, Zenon DEF Submit
  <2> QED  BY <2>1, <2>2
<1>2. ASSUME CheckEligible(d) PROVE TypeOK'
  BY <1>2 DEF CheckEligible
<1>3. ASSUME Refuse(d) PROVE TypeOK'
  BY <1>3 DEF Refuse
<1>4. ASSUME RecordDecision(d) PROVE TypeOK'
  BY <1>4 DEF RecordDecision, AfterRecord
<1>5. ASSUME RejectRequest(d) PROVE TypeOK'
  BY <1>5 DEF RejectRequest
<1>6. ASSUME CountApprovals(d) PROVE TypeOK'
  BY <1>6 DEF CountApprovals
<1>7. ASSUME CompleteStep(d) PROVE TypeOK'
  BY <1>7 DEF CompleteStep
<1>8. ASSUME Advance(d) PROVE TypeOK'
  BY <1>8 DEF Advance, CallInv
<1>9. ASSUME StartNext(d) PROVE TypeOK'
  BY <1>9 DEF StartNext, CallInv
<1>10. ASSUME Finish(d) PROVE TypeOK'
  BY <1>10 DEF Finish
<1>11. ASSUME Execute(d) \/ Wait(d) PROVE TypeOK'
  BY <1>11 DEF Execute, Wait
<1>12. ASSUME EscalateStep(d) PROVE TypeOK'
  BY <1>12 DEF EscalateStep
<1>13. ASSUME MoveTo(d) PROVE TypeOK'
  BY <1>13 DEF MoveTo, CallInv
<1>14. ASSUME Abort(d) PROVE TypeOK'
  BY <1>14 DEF Abort
<1> QED
  BY <1>1, <1>2, <1>3, <1>4, <1>5, <1>6, <1>7, <1>8, <1>9, <1>10, <1>11, <1>12, <1>13, <1>14,
     Zenon DEF SubmitDecision

LEMMA StepTyped == ASSUME TypeOK, CallInv, Next PROVE TypeOK'
BY OthersTyped, CallTyped, Zenon DEF Next

-----------------------------------------------------------------------------
(* What a call is about *)

LEMMA StepCall == ASSUME TypeOK, CallInv, Next PROVE CallInv'
<1>1. ASSUME Create \/ Cancel \/ (\E p \in Deputies : Delegate(p) \/ EndDelegation(p))
      PROVE  CallInv'
  <2>1. UNCHANGED <<recorded, pc, kind, seen>>
    BY <1>1 DEF Create, InsertRequest, InsertStep, InsertCandidate, AbortCreation, Cancel, Delegate,
                EndDelegation, callVars
  <2> QED  BY <1>1, <2>1, OrdersStay DEF CallInv
<1>2. ASSUME NEW d \in Calls, SubmitDecision(d) PROVE CallInv'
  <2> USE DEF TypeOK, CallInv, Goto, Running, Approving, Rejecting, Escalating, callVars
  <2>1. ASSUME NEW u \in Users, NEW k \in Decisions, Submit(d, u, k) PROVE CallInv'
    BY <2>1 DEF Submit
  <2>2. ASSUME CheckEligible(d) \/ Refuse(d) PROVE CallInv'
    BY <2>2 DEF CheckEligible, Refuse
  <2>3. ASSUME RecordDecision(d) PROVE CallInv'
    BY <2>3 DEF RecordDecision, AfterRecord, Decisions
  <2>4. ASSUME RejectRequest(d) \/ CountApprovals(d) PROVE CallInv'
    BY <2>4 DEF RejectRequest, CountApprovals
  <2>5. ASSUME CompleteStep(d) PROVE CallInv'
    BY <2>5 DEF CompleteStep
  <2>6. ASSUME Advance(d) \/ StartNext(d) \/ Finish(d) PROVE CallInv'
    BY <2>6 DEF Advance, StartNext, Finish
  <2>7. ASSUME Execute(d) \/ Wait(d) \/ MoveTo(d) \/ Abort(d) PROVE CallInv'
    BY <2>7 DEF Execute, Wait, MoveTo, Abort
  <2>8. ASSUME EscalateStep(d) PROVE CallInv'
    BY <2>8 DEF EscalateStep
  <2> QED
    BY <1>2, <2>1, <2>2, <2>3, <2>4, <2>5, <2>6, <2>7, <2>8, Zenon DEF SubmitDecision
<1> QED  BY <1>1, <1>2, Zenon DEF Next

\* Once a call is past the check of who it is, what it decides stays, and so
\* does a recorded decision.
LEMMA StepKeeps ==
    ASSUME TypeOK, CallInv, Next
    PROVE  /\ \A d \in Calls : pc[d] \notin {"idle", "eligible"} =>
                 /\ by'[d] = by[d] /\ kind'[d] = kind[d] /\ seen'[d] = seen[d]
                 /\ pc'[d] \notin {"idle", "eligible"}
           /\ recorded \subseteq recorded' /\ lent \subseteq lent'
<1> DEFINE Goal ==
      /\ \A d \in Calls : pc[d] \notin {"idle", "eligible"} =>
            /\ by'[d] = by[d] /\ kind'[d] = kind[d] /\ seen'[d] = seen[d]
            /\ pc'[d] \notin {"idle", "eligible"}
      /\ recorded \subseteq recorded' /\ lent \subseteq lent'
<1>1. ASSUME Create \/ Cancel \/ (\E p \in Deputies : Delegate(p) \/ EndDelegation(p))
      PROVE  Goal
  BY <1>1 DEF Create, InsertRequest, InsertStep, InsertCandidate, AbortCreation, Cancel, Delegate,
              EndDelegation, callVars, lendVars
<1>2. ASSUME NEW d \in Calls, SubmitDecision(d) PROVE Goal
  <2> USE DEF TypeOK, Goto, callVars, lendVars, Running
  <2>1. ASSUME NEW u \in Users, NEW k \in Decisions, Submit(d, u, k) PROVE Goal
    BY <2>1 DEF Submit
  <2>2. ASSUME CheckEligible(d) \/ Refuse(d) PROVE Goal
    BY <2>2 DEF CheckEligible, Refuse
  <2>3. ASSUME RecordDecision(d) PROVE Goal
    BY <2>3 DEF RecordDecision, AfterRecord, Decisions
  <2>4. ASSUME RejectRequest(d) \/ CountApprovals(d) \/ CompleteStep(d) PROVE Goal
    BY <2>4 DEF RejectRequest, CountApprovals, CompleteStep
  <2>5. ASSUME Advance(d) \/ StartNext(d) \/ Finish(d) \/ Execute(d) \/ Wait(d) PROVE Goal
    BY <2>5 DEF Advance, StartNext, Finish, Execute, Wait
  <2>6. ASSUME EscalateStep(d) \/ MoveTo(d) \/ Abort(d) PROVE Goal
    BY <2>6 DEF EscalateStep, MoveTo, Abort
  <2> QED
    BY <1>2, <2>1, <2>2, <2>3, <2>4, <2>5, <2>6, Zenon DEF SubmitDecision
<1> QED  BY <1>1, <1>2, Zenon DEF Next

-----------------------------------------------------------------------------
(* The creation of the request *)

\* The steps of a call leave the creation, the delegations and other calls alone,
\* and what they write to a step does not tell whether it is inserted.
LEMMA CallFrame ==
    ASSUME TypeOK, CallInv, CreationInv, NEW d \in Calls, SubmitDecision(d)
    PROVE  /\ UNCHANGED <<createVars, lendVars>>
           /\ \A e \in Calls \ {d} : /\ pc'[e] = pc[e] /\ by'[e] = by[e]
                                     /\ kind'[e] = kind[e] /\ seen'[e] = seen[e]
           /\ InsertedSteps' = InsertedSteps
           /\ request # "absent" /\ request' # "absent"
<1> DEFINE Goal == /\ UNCHANGED <<createVars, lendVars>>
                   /\ \A e \in Calls \ {d} : /\ pc'[e] = pc[e] /\ by'[e] = by[e]
                                             /\ kind'[e] = kind[e] /\ seen'[e] = seen[e]
                   /\ InsertedSteps' = InsertedSteps
                   /\ request' \in {request} \cup Open \cup Final
<1> USE DEF TypeOK, Goto, createVars, callVars, requestVars, InsertedSteps
<1>1. ASSUME NEW u \in Users, NEW k \in Decisions, Submit(d, u, k) PROVE Goal
  BY <1>1 DEF Submit
<1>2. ASSUME CheckEligible(d) \/ Refuse(d) \/ RecordDecision(d) PROVE Goal
  BY <1>2 DEF CheckEligible, Refuse, RecordDecision
<1>3. ASSUME RejectRequest(d) \/ CountApprovals(d) PROVE Goal
  BY <1>3 DEF RejectRequest, CountApprovals, Decide, Final
<1>4. ASSUME CompleteStep(d) PROVE Goal
  <2>1. seen[d] \in InsertedSteps
    BY <1>4 DEF CompleteStep, CreationInv
  <2> QED  BY <1>4, <2>1 DEF CompleteStep
<1>5. ASSUME Advance(d) \/ Finish(d) \/ Execute(d) \/ Wait(d) PROVE Goal
  BY <1>5 DEF Advance, Finish, Execute, Wait, Decide, Final, Open
<1>6. ASSUME StartNext(d) PROVE Goal
  BY <1>6 DEF StartNext
<1>7. ASSUME EscalateStep(d) PROVE Goal
  <2>1. seen[d] \in InsertedSteps
    BY <1>7 DEF EscalateStep, CreationInv
  <2> QED  BY <1>7, <2>1 DEF EscalateStep
<1>8. ASSUME MoveTo(d) \/ Abort(d) PROVE Goal
  BY <1>8 DEF MoveTo, Abort
<1>9. Goal
  BY <1>1, <1>2, <1>3, <1>4, <1>5, <1>6, <1>7, <1>8, Zenon DEF SubmitDecision
<1>10. request # "absent"
  <2>1. CASE pc[d] = "idle"
    <3>1. request \in Open
      BY <2>1 DEF SubmitDecision, Submit, CheckEligible, Refuse, RecordDecision, RejectRequest,
         CountApprovals, CompleteStep, Advance, StartNext, Finish, Execute, Wait, EscalateStep,
         MoveTo, Abort, Running
    <3> QED  BY <3>1 DEF Open
  <2>2. CASE pc[d] # "idle"
    BY <2>2 DEF CreationInv
  <2> QED  BY <2>1, <2>2
<1> QED  BY <1>9, <1>10 DEF Open, Final

LEMMA InitCreation == Init => CreationInv
BY DEF Init, CreationInv, InsertedSteps

LEMMA StepCreation ==
    ASSUME TypeOK, CallInv, CreationInv, Next
    PROVE  CreationInv'
<1>1. ASSUME NEW d \in Calls, SubmitDecision(d) PROVE CreationInv'
  <2>1. /\ UNCHANGED <<candidates, creator, InsertedSteps>>
        /\ \A e \in Calls \ {d} : pc'[e] = pc[e] /\ seen'[e] = seen[e]
        /\ request # "absent" /\ request' # "absent"
    BY <1>1, CallFrame DEF createVars
  <2>2. pc'[d] \notin {"idle", "eligible"} => seen'[d] \in InsertedSteps
    <3>1. CASE pc[d] \notin {"idle", "eligible"}
      <4>1. Next
        BY <1>1, Zenon DEF Next
      <4> QED  BY <3>1, <4>1, StepKeeps DEF CreationInv
    <3>2. CASE pc[d] = "idle"
      <4>1. \E u \in Users, k \in Decisions : Submit(d, u, k)
        BY <1>1, <3>2 DEF SubmitDecision, CheckEligible, Refuse, RecordDecision, RejectRequest,
           CountApprovals, CompleteStep, Advance, StartNext, Finish, Execute, Wait, EscalateStep,
           MoveTo, Abort, Running, Goto
      <4> QED  BY <4>1 DEF Submit, Goto, TypeOK
    <3>3. CASE pc[d] = "eligible"
      <4>1. CheckEligible(d) \/ Refuse(d)
        BY <1>1, <3>3 DEF SubmitDecision, Submit, RecordDecision, RejectRequest,
           CountApprovals, CompleteStep, Advance, StartNext, Finish, Execute, Wait, EscalateStep,
           MoveTo, Abort, Running, Goto
      <4>2. ASSUME CheckEligible(d) PROVE seen'[d] \in InsertedSteps
        BY <4>2 DEF CheckEligible, Eligible, CreationInv, TypeOK, callVars
      <4>3. ASSUME Refuse(d) PROVE pc'[d] = "idle"
        BY <4>3 DEF Refuse, Goto, TypeOK
      <4> QED  BY <4>1, <4>2, <4>3
    <3> QED  BY <3>1, <3>2, <3>3
  <2>3. /\ creator # "idle"
        /\ \A s \in orders : candidates[s] # {} => s \in InsertedSteps
        /\ \A s \in InsertedSteps, t \in orders \ InsertedSteps : s < t
        /\ \A e \in Calls : pc[e] \notin {"idle", "eligible"} => seen[e] \in InsertedSteps
    BY <2>1 DEF CreationInv
  <2>4. \A e \in Calls : pc'[e] \notin {"idle", "eligible"} => seen'[e] \in InsertedSteps
    BY <2>1, <2>2, <2>3
  <2> QED  BY <1>1, <2>1, <2>3, <2>4, OrdersStay DEF CreationInv
<1>2. ASSUME InsertRequest PROVE CreationInv'
  BY <1>2 DEF InsertRequest, CreationInv, InsertedSteps, callVars
<1>3. ASSUME NEW S \in SUBSET Users, InsertStep(S) PROVE CreationInv'
  <2>1. PICK s \in orders : /\ IsNext(s)
                            /\ step' = [step EXCEPT ![s] = IF s = 1 THEN "in_progress" ELSE "pending"]
    BY <1>3 DEF InsertStep
  <2>2. InsertedSteps' = InsertedSteps \cup {s}
    BY <2>1, OrdersStay DEF InsertedSteps, TypeOK
  <2>3. orders \subseteq Nat
    BY CandidatesAssumption DEF TypeOK
  <2>4. \A t \in InsertedSteps', r \in orders \ InsertedSteps' : t < r
    BY <2>1, <2>2, <2>3 DEF CreationInv, IsNext
  <2>5. UNCHANGED <<request, candidates, creator, pc, seen>> /\ creator = "running"
    BY <1>3 DEF InsertStep, requestVars, callVars
  <2> HIDE <2>3
  <2>6. \A t \in InsertedSteps : t \in InsertedSteps'
    BY <2>2
  <2> QED  BY <2>4, <2>5, <2>6, OrdersStay DEF CreationInv
<1>4. ASSUME NEW u \in Users, InsertCandidate(u) PROVE CreationInv'
  <2>1. PICK s \in InsertedSteps : candidates' = [candidates EXCEPT ![s] = @ \cup {u}]
    BY <1>4 DEF InsertCandidate
  <2>2. UNCHANGED <<request, creator, pc, seen, InsertedSteps>>
    BY <1>4 DEF InsertCandidate, requestVars, callVars, InsertedSteps
  <2>3. \A t \in orders : candidates'[t] # {} => t \in InsertedSteps
    BY <2>1 DEF CreationInv, TypeOK
  <2> QED  BY <2>2, <2>3, OrdersStay DEF CreationInv
<1>5. ASSUME AbortCreation \/ (\E p \in Deputies : Delegate(p) \/ EndDelegation(p))
      PROVE  CreationInv'
  <2>1. /\ UNCHANGED <<request, candidates, pc, seen, InsertedSteps>>
        /\ creator' = creator \/ (creator = "running" /\ creator' = "cut")
    BY <1>5 DEF AbortCreation, Delegate, EndDelegation, requestVars, callVars, InsertedSteps,
                createVars
  <2> QED  BY <2>1, OrdersStay DEF CreationInv
<1>6. ASSUME Cancel PROVE CreationInv'
  BY <1>6 DEF Cancel, Decide, Open, CreationInv, InsertedSteps, createVars, callVars
<1> QED  BY <1>1, <1>2, <1>3, <1>4, <1>5, <1>6, Zenon DEF Next, Create

-----------------------------------------------------------------------------
(* Who is behind a decision *)

LEMMA InitCandidates == Init => CandidatesInv
BY DEF Init, CandidatesInv, InsertedSteps

\* Somebody the rules resolve to, without the requester, answers for the step.
LEMMA ResolvedAnswer ==
    ASSUME NEW s \in orders, NEW u \in Resolve(s, {Requester})
    PROVE  Answers(u, s)
BY DEF Resolve, Answers

\* What is selected for a step is among its candidates.
LEMMA SelectedIsCandidate ==
    ASSUME NEW s, NEW C, NEW S \in Selections(s, C)
    PROVE  S \subseteq C
BY DEF Selections

LEMMA StepCandidates ==
    ASSUME TypeOK, CallInv, CreationInv, CandidatesInv, Next
    PROVE  CandidatesInv'
<1>0. /\ \A s \in orders : \A u \in candidates[s] : Answers(u, s)
      /\ \A s \in InsertedSteps :
            (\A t \in InsertedSteps : t <= s) => \A u \in left : Answers(u, s)
      /\ \A d \in Calls : pc[d] \notin {"idle", "eligible"} => Entitled(by[d], seen[d])
  BY DEF CandidatesInv
<1>1. \A u, s : Entitled(u, s) => Entitled(u, s)'
  BY StepKeeps DEF Entitled, Answers
<1>2. ASSUME NEW d \in Calls, SubmitDecision(d) PROVE CandidatesInv'
  <2>1. /\ UNCHANGED <<candidates, left, InsertedSteps, delegations, lent>>
        /\ \A e \in Calls \ {d} : pc'[e] = pc[e] /\ by'[e] = by[e] /\ seen'[e] = seen[e]
    BY <1>2, CallFrame DEF createVars, lendVars
  <2>2. pc'[d] \notin {"idle", "eligible"} => Entitled(by[d], seen[d])'
    <3>1. CASE pc[d] \notin {"idle", "eligible"}
      <4>1. by'[d] = by[d] /\ seen'[d] = seen[d]
        BY <3>1, StepKeeps
      <4>2. Entitled(by[d], seen[d])
        BY <1>0, <3>1
      <4> QED  BY <2>1, <4>1, <4>2 DEF Entitled, Answers
    <3>2. CASE pc[d] = "idle"
      <4>1. \E u \in Users, k \in Decisions : Submit(d, u, k)
        BY <1>2, <3>2 DEF SubmitDecision, CheckEligible, Refuse, RecordDecision, RejectRequest,
           CountApprovals, CompleteStep, Advance, StartNext, Finish, Execute, Wait, EscalateStep,
           MoveTo, Abort, Running, Goto
      <4> QED  BY <4>1 DEF Submit, Goto, TypeOK
    <3>3. CASE pc[d] = "eligible"
      <4>1. CheckEligible(d) \/ Refuse(d)
        BY <1>2, <3>3 DEF SubmitDecision, Submit, RecordDecision, RejectRequest,
           CountApprovals, CompleteStep, Advance, StartNext, Finish, Execute, Wait, EscalateStep,
           MoveTo, Abort, Running, Goto
      <4>2. ASSUME CheckEligible(d) PROVE Entitled(by[d], seen[d])'
        <5>1. by' = by /\ seen' = seen /\ seen[d] \in orders /\ Eligible(by[d], seen[d])
          BY <4>2 DEF CheckEligible, Eligible, InsertedSteps, callVars, TypeOK
        <5>2. Entitled(by[d], seen[d])
          BY <1>0, <5>1 DEF Eligible, Entitled, TypeOK
        <5> QED  BY <2>1, <5>1, <5>2 DEF Entitled, Answers
      <4>3. ASSUME Refuse(d) PROVE pc'[d] = "idle"
        BY <4>3 DEF Refuse, Goto, TypeOK
      <4> QED  BY <4>1, <4>2, <4>3
    <3> QED  BY <3>1, <3>2, <3>3
  <2>3. \A e \in Calls : pc'[e] \notin {"idle", "eligible"} => Entitled(by[e], seen[e])'
    <3> SUFFICES ASSUME NEW e \in Calls, pc'[e] \notin {"idle", "eligible"}
                 PROVE  Entitled(by[e], seen[e])'
      OBVIOUS
    <3>1. CASE e = d
      BY <2>2, <3>1
    <3>2. CASE e # d
      <4>1. Entitled(by[e], seen[e]) /\ by'[e] = by[e] /\ seen'[e] = seen[e]
        BY <1>0, <2>1, <3>2
      <4> QED  BY <2>1, <4>1 DEF Entitled, Answers
    <3> QED  BY <3>1, <3>2
  <2>4. \A u, s : Answers(u, s)' <=> Answers(u, s)
    BY DEF Answers
  <2> QED  BY <1>0, <2>1, <2>3, <2>4, OrdersStay DEF CandidatesInv
<1>3. ASSUME UNCHANGED <<pc, by, seen>>
      PROVE  \A d \in Calls : pc'[d] \notin {"idle", "eligible"} => Entitled(by[d], seen[d])'
  <2> SUFFICES ASSUME NEW d \in Calls, pc'[d] \notin {"idle", "eligible"}
               PROVE  Entitled(by[d], seen[d])'
    OBVIOUS
  <2>1. Entitled(by[d], seen[d]) /\ lent \subseteq lent'
    BY <1>0, <1>3, StepKeeps
  <2> QED  BY <1>3, <2>1 DEF Entitled, Answers
<1>4. ASSUME NEW S \in SUBSET Users, InsertStep(S) PROVE CandidatesInv'
  <2>1. PICK s \in orders : /\ IsNext(s)
                            /\ S \in Selections(s, Resolve(s, {Requester}))
                            /\ step' = [step EXCEPT ![s] = IF s = 1 THEN "in_progress" ELSE "pending"]
    BY <1>4 DEF InsertStep
  <2>2. InsertedSteps' = InsertedSteps \cup {s}
    BY <2>1, OrdersStay DEF InsertedSteps, TypeOK
  <2>3. \A u \in S : Answers(u, s)
    BY <2>1, ResolvedAnswer, SelectedIsCandidate
  <2>4. \A t \in InsertedSteps' : s <= t => t = s
    <3>1. \A t \in InsertedSteps : t < s
      BY <2>1 DEF CreationInv, IsNext
    <3>2. orders \subseteq Nat /\ InsertedSteps \subseteq orders
      BY CandidatesAssumption DEF TypeOK, InsertedSteps
    <3> QED  BY <2>2, <3>1, <3>2
  <2>5. UNCHANGED <<candidates, pc, by, seen>> /\ left' = S
    BY <1>4 DEF InsertStep, callVars
  <2>6. \A t \in InsertedSteps' :
           (\A r \in InsertedSteps' : r <= t) => \A u \in S : Answers(u, t)
    BY <2>2, <2>3, <2>4
  <2> QED  BY <1>0, <1>3, <2>5, <2>6, OrdersStay DEF CandidatesInv, Answers
<1>5. ASSUME NEW u \in Users, InsertCandidate(u) PROVE CandidatesInv'
  <2>1. PICK s \in InsertedSteps : /\ \A t \in InsertedSteps : t <= s
                                   /\ candidates' = [candidates EXCEPT ![s] = @ \cup {u}]
    BY <1>5 DEF InsertCandidate
  <2>2. UNCHANGED <<pc, by, seen, InsertedSteps>> /\ left' \subseteq left /\ u \in left
    BY <1>5 DEF InsertCandidate, callVars, InsertedSteps
  <2>3. \A t \in orders : \A v \in candidates'[t] : Answers(v, t)
    BY <1>0, <2>1, <2>2 DEF TypeOK
  <2> QED  BY <1>0, <1>3, <2>2, <2>3, OrdersStay DEF CandidatesInv, Answers
<1>6. ASSUME \/ InsertRequest \/ AbortCreation \/ Cancel
             \/ \E p \in Deputies : Delegate(p) \/ EndDelegation(p)
      PROVE  CandidatesInv'
  <2>1. UNCHANGED <<candidates, left, InsertedSteps, pc, by, seen>>
    BY <1>6 DEF InsertRequest, AbortCreation, Cancel, Delegate, EndDelegation, createVars,
                callVars, InsertedSteps
  <2> QED  BY <1>0, <1>3, <2>1, OrdersStay DEF CandidatesInv, Answers
<1> QED  BY <1>2, <1>4, <1>5, <1>6, Zenon DEF Next, Create

-----------------------------------------------------------------------------
(* Calls one at a time *)

LEMMA InitAlone == Init => AloneInv
<1> SUFFICES ASSUME Init PROVE AloneInv
  OBVIOUS
<1>1. executed = 0 /\ \A d \in Calls : pc[d] = "idle"
  BY DEF Init
<1> QED  BY <1>1 DEF AloneInv, Running

LEMMA StepAlone ==
    ASSUME TypeOK, CallInv, CreationInv, AloneInv, Next
    PROVE  AloneInv'
<1> SUFFICES ASSUME ~overlapped' PROVE AloneInv'
  BY Zenon DEF AloneInv
<1>1. ~overlapped
  <2>1. overlapped' = overlapped \/ overlapped' = (overlapped \/ Underway)
    BY Zenon DEF Next, Create, InsertRequest, InsertStep, InsertCandidate, AbortCreation, Cancel,
       Delegate, EndDelegation, SubmitDecision, Submit, CheckEligible, Refuse, RecordDecision,
       RejectRequest, CountApprovals, CompleteStep, Advance, StartNext, Finish, Execute, Wait,
       EscalateStep, MoveTo, Abort
  <2> QED  BY <2>1, Zenon
<1>2. /\ \A d, e \in Calls : pc[d] \in Running /\ pc[e] \in Running => d = e
      /\ \A d \in Calls : pc[d] = "execute" => request = "approved" /\ executed = 0
      /\ executed <= 1
      /\ executed = 1 => request = "approved" /\ \A d \in Calls : pc[d] \notin Running
  BY <1>1, Zenon DEF AloneInv
<1> DEFINE Goal ==
      /\ \A d, e \in Calls : pc'[d] \in Running /\ pc'[e] \in Running => d = e
      /\ \A d \in Calls : pc'[d] = "execute" => request' = "approved" /\ executed' = 0
      /\ executed' <= 1
      /\ executed' = 1 => request' = "approved" /\ \A d \in Calls : pc'[d] \notin Running
<1>3. ASSUME NEW d \in Calls, SubmitDecision(d) PROVE Goal
  <2>1. \A e \in Calls \ {d} : pc'[e] = pc[e]
    BY <1>3, CallFrame
  <2>2. CASE pc[d] = "idle"
    <3>1. PICK u \in Users, k \in Decisions : Submit(d, u, k)
      BY <1>3, <2>2 DEF SubmitDecision, CheckEligible, Refuse, RecordDecision, RejectRequest,
         CountApprovals, CompleteStep, Advance, StartNext, Finish, Execute, Wait, EscalateStep,
         MoveTo, Abort, Running, Goto
    <3>2. ~Underway
      <4>1. overlapped' = (overlapped \/ Underway)
        BY <3>1, Zenon DEF Submit
      <4> QED  BY <4>1, Zenon
    <3>3. \A e \in Calls : pc[e] \notin Running
      BY <3>2 DEF Underway
    <3>4. request \in Open /\ request' = request /\ executed' = executed /\ pc'[d] = "eligible"
      BY <3>1 DEF Submit, requestVars, Goto, TypeOK
    <3>5. \A e \in Calls : pc'[e] \in Running => e = d
      BY <2>1, <3>3
    <3>6. \A e \in Calls : pc'[e] # "execute"
      BY <2>1, <3>3, <3>4 DEF Running
    <3> QED  BY <1>2, <3>4, <3>5, <3>6 DEF Open
  <2>3. CASE pc[d] # "idle"
    <3>1. pc[d] \in Running
      BY <1>3, <2>3 DEF SubmitDecision, Submit, CheckEligible, Refuse, RecordDecision, RejectRequest,
         CountApprovals, CompleteStep, Advance, StartNext, Finish, Execute, Wait, EscalateStep,
         MoveTo, Abort, Running, Goto
    <3>2. \A e \in Calls \ {d} : pc'[e] \notin Running
      BY <1>2, <2>1, <3>1
    <3>3. executed = 0
      BY <1>2, <3>1 DEF TypeOK
    <3>4. \/ pc'[d] = "execute" /\ request' = "approved" /\ executed' = 0
          \/ pc'[d] # "execute" /\ executed' = 0
          \/ pc'[d] = "done" /\ executed' = 1 /\ request' = "approved"
      <4> USE <3>3 DEF TypeOK, Goto
      <4>1. CASE CheckEligible(d) \/ Refuse(d) \/ RecordDecision(d)
        BY <4>1 DEF CheckEligible, Refuse, RecordDecision, AfterRecord, Decisions
      <4>2. CASE RejectRequest(d) \/ CountApprovals(d) \/ CompleteStep(d) \/ Advance(d)
        BY <4>2 DEF RejectRequest, CountApprovals, CompleteStep, Advance
      <4>3. CASE StartNext(d) \/ Wait(d) \/ EscalateStep(d) \/ MoveTo(d) \/ Abort(d)
        BY <4>3 DEF StartNext, Wait, EscalateStep, MoveTo, Abort
      <4>4. CASE Finish(d)
        BY <4>4 DEF Finish, Decide
      <4>5. CASE Execute(d)
        BY <1>2, <4>5 DEF Execute, requestVars
      <4>6. ASSUME NEW u \in Users, NEW k \in Decisions, Submit(d, u, k) PROVE FALSE
        BY <2>3, <4>6 DEF Submit
      <4> QED  BY <1>3, <4>1, <4>2, <4>3, <4>4, <4>5, <4>6, Zenon DEF SubmitDecision
    <3>5. \A e \in Calls : pc'[e] \in Running => e = d
      BY <3>2
    <3>6. \A e \in Calls : pc'[e] = "execute" => e = d
      BY <3>5 DEF Running
    <3> QED  BY <3>4, <3>5, <3>6 DEF Running
  <2> QED  BY <2>2, <2>3
<1>4. ASSUME Create \/ Cancel \/ (\E p \in Deputies : Delegate(p) \/ EndDelegation(p))
      PROVE  Goal
  <2>1. pc' = pc /\ executed' = executed
    BY <1>4 DEF Create, InsertRequest, InsertStep, InsertCandidate, AbortCreation, Cancel, Delegate,
                EndDelegation
  <2>2. request = "approved" => request' = "approved"
    BY <1>4 DEF Create, InsertRequest, InsertStep, InsertCandidate, AbortCreation, Cancel, Delegate,
                EndDelegation, requestVars, Open, CreationInv
  <2> QED  BY <1>2, <2>1, <2>2
<1>5. Goal
  BY <1>3, <1>4, Zenon DEF Next
<1> QED  BY <1>5 DEF AloneInv

-----------------------------------------------------------------------------
(* Late calls *)

LEMMA InitLate == Init => LateInv
BY DEF Init, LateInv, Final

LEMMA StepLate ==
    ASSUME TypeOK, CallInv, CreationInv, LateInv, Next
    PROVE  LateInv'
<1>1. ASSUME Create \/ (\E p \in Deputies : Delegate(p) \/ EndDelegation(p)) PROVE LateInv'
  <2>1. UNCHANGED <<pc, late>> /\ request' \in {request, "pending"}
    BY <1>1 DEF Create, InsertRequest, InsertStep, InsertCandidate, AbortCreation, Delegate,
                EndDelegation, requestVars
  <2> QED  BY <2>1 DEF LateInv, Final
<1>2. ASSUME Cancel PROVE LateInv'
  BY <1>2 DEF Cancel, Decide, LateInv, Writing
<1>3. ASSUME NEW d \in Calls, SubmitDecision(d) PROVE LateInv'
  <2> USE DEF TypeOK, LateInv, Final, Goto, Writing, Running, requestVars
  <2>1. ASSUME NEW u \in Users, NEW k \in Decisions, Submit(d, u, k) PROVE LateInv'
    BY <2>1 DEF Submit, Open
  <2>2. ASSUME CheckEligible(d) \/ Refuse(d) \/ CountApprovals(d) PROVE LateInv'
    BY <2>2 DEF CheckEligible, Refuse, CountApprovals
  <2>3. ASSUME RecordDecision(d) PROVE LateInv'
    BY <2>3 DEF RecordDecision, AfterRecord, Decisions
  <2>4. ASSUME RejectRequest(d) \/ Finish(d) PROVE LateInv'
    BY <2>4 DEF RejectRequest, Finish, Decide
  <2>5. ASSUME CompleteStep(d) PROVE LateInv'
    BY <2>5 DEF CompleteStep
  <2>6. ASSUME Advance(d) \/ Wait(d) PROVE LateInv'
    BY <2>6 DEF Advance, Wait
  <2>7. ASSUME StartNext(d) \/ Execute(d) \/ EscalateStep(d) \/ MoveTo(d) \/ Abort(d)
        PROVE  LateInv'
    BY <2>7 DEF StartNext, Execute, EscalateStep, MoveTo, Abort
  <2> QED  BY <1>3, <2>1, <2>2, <2>3, <2>4, <2>5, <2>6, <2>7, Zenon DEF SubmitDecision
<1> QED  BY <1>1, <1>2, <1>3, Zenon DEF Next

\* Whoever writes a decided request is late.
LEMMA DecidedStep ==
    ASSUME TypeOK, CreationInv, LateInv, Next, request' # request, request \in Final
    PROVE  \E d \in late : pc'[d] # pc[d]
<1>1. PICK d \in Calls : RejectRequest(d) \/ Advance(d) \/ Finish(d) \/ Wait(d)
  <2>1. ~Create /\ ~Cancel
    BY DEF Create, InsertRequest, InsertStep, InsertCandidate, AbortCreation, Cancel, Open, Final,
       requestVars, CreationInv
  <2>2. \A p \in Deputies : ~Delegate(p) /\ ~EndDelegation(p)
    BY DEF Delegate, EndDelegation, requestVars
  <2>3. PICK d \in Calls : SubmitDecision(d)
    BY <2>1, <2>2, Zenon DEF Next
  <2>4. RejectRequest(d) \/ Advance(d) \/ Finish(d) \/ Wait(d)
    BY <2>3 DEF SubmitDecision, Submit, CheckEligible, Refuse, RecordDecision, CountApprovals,
       CompleteStep, StartNext, Execute, EscalateStep, MoveTo, Abort, requestVars
  <2> QED  BY <2>4
<1>2. pc[d] \in Writing /\ pc'[d] # pc[d]
  BY <1>1 DEF RejectRequest, Advance, Finish, Wait, Goto, Writing, Running, TypeOK
<1> QED  BY <1>2 DEF LateInv

-----------------------------------------------------------------------------
(* Steps passed *)

\* The calls that approve a step are finitely many, and so are the approvers.
LEMMA ApproversFinite ==
    ASSUME TypeOK, NEW s
    PROVE  /\ IsFiniteSet(ApprovalsOf(s))
           /\ IsFiniteSet({by[d] : d \in ApprovalsOf(s)})
           /\ Cardinality({by[d] : d \in ApprovalsOf(s)}) \in Nat
<1>1. ApprovalsOf(s) \in SUBSET Calls
  BY DEF ApprovalsOf, TypeOK
<1>2. IsFiniteSet(ApprovalsOf(s))
  BY <1>1, FS_Subset, ApprovalsAssumption
<1> DEFINE B == {by[d] : d \in ApprovalsOf(s)}
           f == [d \in ApprovalsOf(s) |-> by[d]]
<1>3. f \in Surjection(ApprovalsOf(s), B)
  BY DEF Surjection
<1>4. IsFiniteSet(B)
  <2> HIDE DEF B, f
  <2> QED  BY <1>2, <1>3, FS_Surjection
<1> QED  BY <1>2, <1>4, FS_CardinalityType

\* As many approvals as the quorum are by as many people, or one repeats himself.
LEMMA CountedIsPassed ==
    ASSUME TypeOK, NEW s \in orders, Cardinality(ApprovalsOf(s)) >= Needed(s)
    PROVE  Passed(s)
<1> SUFFICES ASSUME ~Repeated(s)
             PROVE  Cardinality({by[d] : d \in ApprovalsOf(s)}) >= Needed(s)
  BY DEF Passed
<1> DEFINE A == ApprovalsOf(s)
           B == {by[d] : d \in A}
           f == [d \in A |-> by[d]]
<1>1. f \in Bijection(A, B)
  <2>1. \A x, y \in A : by[x] = by[y] => x = y
    BY DEF Repeated
  <2>2. f \in [A -> B] /\ \A x \in A : f[x] = by[x]
    OBVIOUS
  <2>3. \A b \in B : \E x \in A : f[x] = b
    OBVIOUS
  <2> HIDE DEF A, B, f
  <2>4. f \in Injection(A, B)
    BY <2>1, <2>2 DEF Injection, IsInjective
  <2>5. f \in Surjection(A, B)
    BY <2>2, <2>3 DEF Surjection
  <2> QED  BY <2>4, <2>5 DEF Bijection
<1>2. IsFiniteSet(A)
  BY ApproversFinite
<1>3. ExistsBijection(A, B)
  BY <1>1 DEF ExistsBijection
<1>4. Cardinality(B) = Cardinality(A)
  <2> HIDE DEF A, B, f
  <2> QED  BY <1>2, <1>3, FS_Bijection
<1> QED  BY <1>4

LEMMA PassedStays ==
    ASSUME TypeOK, TypeOK', CallInv, Next, NEW s \in orders, Passed(s)
    PROVE  Passed(s)'
<1>1. \A d \in recorded : /\ d \in recorded' /\ by'[d] = by[d]
                          /\ kind'[d] = kind[d] /\ seen'[d] = seen[d]
  BY StepKeeps DEF CallInv, TypeOK
<1>2. /\ ApprovalsOf(s) \subseteq ApprovalsOf(s)'
      /\ \A t : EscalationsOf(t) \subseteq EscalationsOf(t)'
      /\ \A d \in ApprovalsOf(s) : by'[d] = by[d]
  BY <1>1 DEF ApprovalsOf, EscalationsOf
<1>3. Needed(s)' = Needed(s) /\ Needed(s) \in Nat
  BY ApprovalsAssumption DEF Needed, TypeOK
<1>4. CASE Cardinality({by[d] : d \in ApprovalsOf(s)}) >= Needed(s)
  <2> DEFINE B == {by[d] : d \in ApprovalsOf(s)}
             C == {by'[d] : d \in ApprovalsOf(s)'}
  <2>1. IsFiniteSet(B) /\ Cardinality(B) \in Nat
    BY ApproversFinite
  <2>2. IsFiniteSet(C) /\ Cardinality(C) \in Nat
    <3>1. ApprovalsOf(s)' \in SUBSET Calls
      BY DEF ApprovalsOf, TypeOK
    <3>2. IsFiniteSet(ApprovalsOf(s)')
      BY <3>1, FS_Subset, ApprovalsAssumption
    <3> DEFINE g == [d \in ApprovalsOf(s)' |-> by'[d]]
    <3>3. g \in Surjection(ApprovalsOf(s)', C)
      BY DEF Surjection
    <3> HIDE DEF C, g
    <3>4. IsFiniteSet(C)
      BY <3>2, <3>3, FS_Surjection
    <3> QED  BY <3>4, FS_CardinalityType
  <2>3. B \in SUBSET C
    BY <1>2
  <2>4. Cardinality(B) <= Cardinality(C)
    <3> HIDE DEF B, C
    <3> QED  BY <2>2, <2>3, FS_Subset
  <2>5. Cardinality(C) >= Needed(s)
    <3>1. Cardinality(B) >= Needed(s)
      BY <1>4
    <3> HIDE DEF B, C
    <3> QED  BY <1>3, <2>1, <2>2, <2>4, <3>1
  <2> QED  BY <1>3, <2>5 DEF Passed
<1>5. CASE Repeated(s)
  <2>1. Repeated(s)'
    BY <1>2, <1>5 DEF Repeated
  <2> QED  BY <2>1 DEF Passed
<1>6. CASE \E t \in orders : /\ t <= s /\ EscalationsOf(t) # {}
                              /\ EscalateTo[t] \in orders /\ EscalateTo[t] > s
  <2>1. \E t \in orders' : /\ t <= s /\ EscalationsOf(t)' # {}
                            /\ EscalateTo[t] \in orders' /\ EscalateTo[t] > s
    BY <1>2, <1>6, OrdersStay
  <2> QED  BY <2>1 DEF Passed
<1> QED  BY <1>4, <1>5, <1>6 DEF Passed

LEMMA InitQuorum == Init => QuorumInv
<1> SUFFICES ASSUME Init PROVE QuorumInv
  OBVIOUS
<1>1. Chain \subseteq Nat \ {0}
  BY CandidatesAssumption, InitTyped DEF Chain, TypeOK
<1>2. Reached(1)
  BY <1>1 DEF Reached
<1> QED  BY <1>2 DEF Init, QuorumInv

LEMMA StepQuorum ==
    ASSUME TypeOK, TypeOK', CallInv, CallInv', CreationInv, QuorumInv, Next
    PROVE  QuorumInv'
<1>1. PassedSteps \subseteq PassedSteps'
  BY PassedStays, OrdersStay DEF PassedSteps
<1>2. Chain \subseteq orders /\ orders \subseteq Nat
  BY CandidatesAssumption DEF Chain, TypeOK
<1>3. /\ \A t \in Chain : t < current => t \in PassedSteps
      /\ \A d \in Calls :
            /\ pc[d] # "idle" => \A t \in Chain : t < seen[d] => t \in PassedSteps
            /\ pc[d] \in {"complete", "advance", "finish"} => seen[d] \in PassedSteps
            /\ pc[d] = "execute" => Chain \subseteq PassedSteps
      /\ request = "approved" \/ executed > 0 => Chain \subseteq PassedSteps
  BY DEF QuorumInv, Reached, AllPassed
<1> DEFINE Current == \A t \in Chain : t < current' => t \in PassedSteps'
           Ahead(e) ==
              /\ pc'[e] # "idle" => \A t \in Chain : t < seen'[e] => t \in PassedSteps'
              /\ pc'[e] \in {"complete", "advance", "finish"} => seen'[e] \in PassedSteps'
              /\ pc'[e] = "execute" => Chain \subseteq PassedSteps'
           Over == request' = "approved" \/ executed' > 0 => Chain \subseteq PassedSteps'
           Goal == Current /\ (\A e \in Calls : Ahead(e)) /\ Over
<1>0. orders' = orders
  BY OrdersStay
<1>4. UNCHANGED current => Current
  BY <1>1, <1>3
<1>5. \A e \in Calls : pc'[e] = pc[e] /\ seen'[e] = seen[e] => Ahead(e)
  BY <1>1, <1>3
<1>6. (UNCHANGED request \/ request' # "approved") /\ UNCHANGED executed => Over
  BY <1>1, <1>3
<1>7. ASSUME Create \/ Cancel \/ (\E p \in Deputies : Delegate(p) \/ EndDelegation(p))
      PROVE  Goal
  <2>1. UNCHANGED <<current, pc, seen, executed>>
    BY <1>7 DEF Create, InsertRequest, InsertStep, InsertCandidate, AbortCreation, Cancel, Delegate,
                EndDelegation, callVars, requestVars
  <2>2. UNCHANGED request \/ request' # "approved"
    BY <1>7 DEF Create, InsertRequest, InsertStep, InsertCandidate, AbortCreation, Cancel, Decide,
                Delegate, EndDelegation, requestVars
  <2> QED  BY <1>4, <1>5, <1>6, <2>1, <2>2
<1>8. ASSUME NEW d \in Calls, SubmitDecision(d) PROVE Goal
  <2>1. \A e \in Calls \ {d} : pc'[e] = pc[e] /\ seen'[e] = seen[e]
    <3> DEFINE Others == \A e \in Calls \ {d} : pc'[e] = pc[e] /\ seen'[e] = seen[e]
    <3> USE DEF TypeOK, Goto, callVars
    <3>1. ASSUME NEW u \in Users, NEW k \in Decisions, Submit(d, u, k) PROVE Others
      BY <3>1 DEF Submit
    <3>2. ASSUME CheckEligible(d) \/ Refuse(d) \/ RecordDecision(d) \/ RejectRequest(d) \/ Abort(d)
          PROVE  Others
      BY <3>2 DEF CheckEligible, Refuse, RecordDecision, RejectRequest, Abort
    <3>3. ASSUME CountApprovals(d) \/ CompleteStep(d) \/ Advance(d) \/ StartNext(d) \/ Finish(d)
          PROVE  Others
      BY <3>3 DEF CountApprovals, CompleteStep, Advance, StartNext, Finish
    <3>4. ASSUME Execute(d) \/ Wait(d) \/ EscalateStep(d) \/ MoveTo(d)
          PROVE  Others
      BY <3>4 DEF Execute, Wait, EscalateStep, MoveTo
    <3> QED  BY <1>8, <3>1, <3>2, <3>3, <3>4, Zenon DEF SubmitDecision
  <2>2. \A e \in Calls \ {d} : Ahead(e)
    BY <1>5, <2>1
  \* What a call that goes on knows of the step it has seen.
  <2>3. PICK s \in orders \cup {1} :
          s = seen[d] /\ (pc[d] \notin {"idle", "eligible"} => s \in orders)
    BY DEF TypeOK, CreationInv, InsertedSteps
  <2>4. /\ pc[d] # "idle" => \A t \in Chain : t < s => t \in PassedSteps
        /\ pc[d] \in {"complete", "advance", "finish"} => s \in PassedSteps
        /\ pc[d] = "execute" => Chain \subseteq PassedSteps
    BY <1>3, <2>3
  <2> DEFINE Mine == Current /\ Ahead(d) /\ Over
  <2>5. ASSUME NEW u \in Users, NEW k \in Decisions, Submit(d, u, k) PROVE Mine
    <3>1. /\ pc'[d] = "eligible" /\ seen'[d] = current
          /\ UNCHANGED <<request, current, executed>>
      BY <2>5 DEF Submit, Goto, requestVars, TypeOK
    <3> QED  BY <1>1, <1>3, <1>4, <1>6, <3>1
  <2>6. ASSUME \/ CheckEligible(d) \/ RecordDecision(d) \/ RejectRequest(d) \/ StartNext(d)
               \/ Wait(d) \/ EscalateStep(d) \/ Abort(d)
        PROVE  Mine
    <3>1. /\ pc[d] # "idle" /\ seen'[d] = seen[d] /\ UNCHANGED <<current, executed>>
          /\ pc'[d] \notin {"complete", "advance", "finish", "execute"}
          /\ UNCHANGED request \/ request' # "approved"
      <4> USE DEF TypeOK, Goto, callVars, requestVars
      <4>1. CASE CheckEligible(d) \/ RecordDecision(d) \/ Abort(d)
        BY <4>1 DEF CheckEligible, RecordDecision, AfterRecord, Decisions, Abort, Running
      <4>2. CASE RejectRequest(d) \/ StartNext(d) \/ Wait(d)
        BY <4>2 DEF RejectRequest, Decide, StartNext, Wait
      <4>3. CASE EscalateStep(d)
        BY <4>3 DEF EscalateStep
      <4> QED  BY <2>6, <4>1, <4>2, <4>3
    <3> QED  BY <1>1, <1>4, <1>6, <2>3, <2>4, <3>1
  <2>7. ASSUME Refuse(d) PROVE Mine
    <3>1. pc'[d] = "idle" /\ UNCHANGED <<request, current, executed>>
      BY <2>7 DEF Refuse, Goto, TypeOK, requestVars
    <3> QED  BY <1>4, <1>6, <3>1
  <2>8. ASSUME CountApprovals(d) PROVE Mine
    <3>1. /\ pc[d] = "count" /\ seen'[d] = s /\ UNCHANGED <<request, current, executed>>
          /\ \/ pc'[d] = "complete" /\ Cardinality(ApprovalsOf(s)) >= Needed(s)
             \/ pc'[d] = "wait"
      BY <2>3, <2>8 DEF CountApprovals, Goto, TypeOK, callVars, requestVars
    <3>2. pc'[d] = "complete" => s \in PassedSteps
      BY <2>3, <3>1, CountedIsPassed DEF PassedSteps
    <3> QED  BY <1>1, <1>4, <1>6, <2>4, <3>1, <3>2
  <2>9. ASSUME CompleteStep(d) PROVE Mine
    <3>1. /\ seen'[d] = s /\ UNCHANGED <<request, current, executed>>
          /\ \/ pc[d] = "rejectStep" /\ pc'[d] = "done"
             \/ pc[d] = "complete" /\ pc'[d] \in {"advance", "finish"}
      BY <2>3, <2>9 DEF CompleteStep, Goto, TypeOK, callVars, requestVars
    <3> QED  BY <1>1, <1>4, <1>6, <2>4, <3>1
  <2>10. ASSUME Advance(d) PROVE Mine
    <3>1. /\ pc[d] = "advance" /\ seen'[d] = s /\ pc'[d] = "startNext"
          /\ request' = "in_progress" /\ executed' = executed /\ current' = s + 1
      BY <2>3, <2>10 DEF Advance, Goto, TypeOK, callVars
    <3>2. \A t \in Chain : t < s + 1 => t \in PassedSteps
      BY <1>2, <2>3, <2>4, <3>1
    <3> QED  BY <1>1, <1>6, <2>4, <3>1, <3>2
  <2>11. ASSUME Finish(d) PROVE Mine
    <3>1. pc[d] = "finish" /\ seen'[d] = s /\ pc'[d] = "execute" /\ current' = current
      BY <2>3, <2>11 DEF Finish, Goto, TypeOK, callVars
    <3>2. s + 1 \notin orders
      BY <2>3, <3>1 DEF CallInv
    <3>3. \A t \in Chain : t <= s
      <4> SUFFICES ASSUME NEW t \in Chain, s < t PROVE FALSE
        BY <1>2
      <4>1. s + 1 \in 1..t
        BY <1>2
      <4> QED  BY <3>2, <4>1 DEF Chain
    <3>4. Chain \subseteq PassedSteps'
      BY <1>1, <1>2, <2>4, <3>1, <3>3
    <3> QED  BY <1>1, <1>4, <2>4, <3>1, <3>4
  <2>12. ASSUME Execute(d) PROVE Mine
    <3>1. pc[d] = "execute" /\ seen'[d] = s /\ pc'[d] = "done" /\ current' = current
      BY <2>3, <2>12 DEF Execute, Goto, TypeOK, callVars, requestVars
    <3> QED  BY <1>1, <1>4, <2>4, <3>1
  <2>13. ASSUME MoveTo(d) PROVE Mine
    <3>1. /\ pc[d] = "move" /\ pc'[d] = "done" /\ current' = EscalateTo[s] /\ seen'[d] = s
          /\ UNCHANGED <<request, recorded, kind, executed>>
      BY <2>3, <2>13 DEF MoveTo, Goto, TypeOK, callVars
    <3>2. d \in recorded' /\ kind'[d] = "escalate"
      BY <3>1 DEF CallInv, Escalating
    <3>3. Current
      <4> SUFFICES ASSUME NEW t \in Chain, t < EscalateTo[s] PROVE t \in PassedSteps'
        BY <3>1
      <4>1. t \in orders /\ t \in Nat /\ s \in Nat
        BY <1>2
      <4>2. CASE t < s
        BY <1>1, <2>4, <3>1, <4>2
      <4>3. CASE s <= t
        <5>1. EscalationsOf(s)' # {} /\ EscalateTo[s] > t /\ EscalateTo[s] \in orders'
          BY <2>3, <3>1, <3>2, <4>3, <1>2, <1>0 DEF EscalationsOf, CallInv
        <5>2. Passed(t)'
          BY <1>0, <2>3, <3>1, <4>3, <5>1 DEF Passed
        <5> QED  BY <1>0, <4>1, <5>2 DEF PassedSteps
      <4> QED  BY <4>1, <4>2, <4>3
    <3> QED  BY <1>1, <1>6, <2>4, <3>1, <3>3
  <2>14. Mine
    <3> HIDE DEF Mine
    <3> QED
      BY <1>8, <2>5, <2>6, <2>7, <2>8, <2>9, <2>10, <2>11, <2>12, <2>13, Zenon DEF SubmitDecision
  <2> QED  BY <2>2, <2>14
<1>9. Goal
  <2> HIDE DEF Goal
  <2> QED  BY <1>7, <1>8, Zenon DEF Next
<1>10. Chain' = Chain
  BY <1>0 DEF Chain
<1> QED  BY <1>9, <1>10 DEF QuorumInv, Reached, AllPassed

-----------------------------------------------------------------------------
(* The step of an open request *)

LEMMA InitListed == Init => ListedInv
<1> SUFFICES ASSUME Init PROVE ListedInv
  OBVIOUS
<1>1. 1 \in orders => ~Created
  BY DEF Init, Created, InsertedSteps
<1>2. NoneRuns /\ current = 1 /\ creator = "idle" /\ InsertedSteps = {}
  BY DEF Init, NoneRuns, Running, InsertedSteps
<1>3. \A d \in Calls : pc[d] = "idle"
  BY DEF Init
<1> QED  BY <1>1, <1>2, <1>3 DEF ListedInv

\* What spoils a history stays in it.
LEMMA CleanBefore ==
    ASSUME TypeOK, CallInv, Next, Clean'
    PROVE  Clean
<1>1. ~overlapped
  <2>1. overlapped' = overlapped \/ overlapped' = (overlapped \/ Underway)
    BY Zenon DEF Next, Create, InsertRequest, InsertStep, InsertCandidate, AbortCreation, Cancel,
       Delegate, EndDelegation, SubmitDecision, Submit, CheckEligible, Refuse, RecordDecision,
       RejectRequest, CountApprovals, CompleteStep, Advance, StartNext, Finish, Execute, Wait,
       EscalateStep, MoveTo, Abort
  <2>2. ~overlapped'
    BY Zenon DEF Clean
  <2> QED  BY <2>1, <2>2, Zenon
<1>2. faults = 0
  <2>1. faults' = faults \/ faults' = faults + 1
    BY Zenon DEF Next, Create, InsertRequest, InsertStep, InsertCandidate, AbortCreation, Cancel,
       Delegate, EndDelegation, SubmitDecision, Submit, CheckEligible, Refuse, RecordDecision,
       RejectRequest, CountApprovals, CompleteStep, Advance, StartNext, Finish, Execute, Wait,
       EscalateStep, MoveTo, Abort
  <2> QED  BY <2>1, ApprovalsAssumption DEF Clean, TypeOK
<1>3. \A s \in orders : EscalationsOf(s) = {}
  <2> SUFFICES ASSUME NEW s \in orders, NEW d \in EscalationsOf(s) PROVE FALSE
    OBVIOUS
  <2>1. d \in recorded /\ d \in Calls /\ pc[d] \notin {"idle", "eligible"}
    BY DEF EscalationsOf, TypeOK, CallInv
  <2>2. d \in EscalationsOf(s)'
    BY <2>1, StepKeeps DEF EscalationsOf
  <2> QED  BY <2>2, OrdersStay DEF Clean
<1> QED  BY <1>1, <1>2, <1>3, Zenon DEF Clean

\* While nobody calls, the creation opens the first step.
LEMMA CreateListed ==
    ASSUME TypeOK, CallInv, CreationInv, ListedInv, Clean, Clean', 1 \in orders,
           Create \/ Cancel \/ (\E p \in Deputies : Delegate(p) \/ EndDelegation(p))
    PROVE  ListedInv'
<1>1. UNCHANGED <<pc, current, seen>>
  BY DEF Create, InsertRequest, InsertStep, InsertCandidate, AbortCreation, Cancel, Delegate,
     EndDelegation, requestVars, callVars
<1>2. /\ creator # "cut"
      /\ ~Created => NoneRuns /\ current = 1 /\ (1 \in InsertedSteps => step[1] = "in_progress")
      /\ Created /\ request \in Open /\ NoneRuns => step[current] = "in_progress"
      /\ \A d \in Calls :
            /\ pc[d] \in {"eligible", "record", "count", "reject", "wait"} =>
                  seen[d] = current /\ step[current] = "in_progress"
            /\ pc[d] \in {"complete", "advance"} => seen[d] = current
            /\ pc[d] = "startNext" => current = seen[d] + 1
            /\ pc[d] \in {"rejectStep", "execute"} => request \in Final
  BY DEF ListedInv
<1>3. NoneRuns' <=> NoneRuns
  BY <1>1 DEF NoneRuns
<1>4. CASE UNCHANGED <<step, left, creator>> /\ (request' = request \/ (request \in Open /\ request' \in Final))
  <2>1. Created' <=> Created
    BY <1>4, OrdersStay DEF Created, InsertedSteps
  <2>2. request' \in Open => request \in Open
    BY <1>4 DEF Open, Final
  <2>3. request \in Final => request' \in Final
    BY <1>4 DEF Open, Final
  <2>4. InsertedSteps' = InsertedSteps
    BY <1>4, OrdersStay DEF InsertedSteps
  <2> QED  BY <1>1, <1>2, <1>3, <1>4, <2>1, <2>2, <2>3, <2>4 DEF ListedInv
<1>5. CASE InsertRequest
  <2>1. ~Created /\ ~Created'
    <3>1. UNCHANGED <<step, left>> /\ InsertedSteps = {}
      BY <1>5 DEF InsertRequest, CreationInv
    <3>2. Created' <=> Created
      BY <3>1, OrdersStay DEF Created, InsertedSteps
    <3>3. InsertedSteps # orders
      BY <3>1, ApprovalsAssumption
    <3> QED  BY <3>2, <3>3 DEF Created
  <2>2. UNCHANGED step /\ creator' = "running"
    BY <1>5 DEF InsertRequest
  <2>3. InsertedSteps' = InsertedSteps
    BY <2>2, OrdersStay DEF InsertedSteps
  <2>4. \A d \in Calls : pc'[d] \notin Running
    BY <1>1, <1>2, <2>1 DEF NoneRuns
  <2> QED  BY <1>1, <1>2, <1>3, <2>1, <2>2, <2>3, <2>4 DEF ListedInv, Running
<1>6. CASE (\E S \in SUBSET Users : InsertStep(S)) \/ (\E u \in Users : InsertCandidate(u))
  <2>1. ~Created
    BY <1>6 DEF InsertStep, InsertCandidate, Created, IsNext
  <2>2. step' = step \/ \E s \in orders \ InsertedSteps :
                           step' = [step EXCEPT ![s] = IF s = 1 THEN "in_progress" ELSE "pending"]
    BY <1>6 DEF InsertStep, InsertCandidate, IsNext
  <2>3. 1 \in InsertedSteps' => step'[1] = "in_progress"
    BY <1>2, <2>1, <2>2, ApprovalsAssumption DEF InsertedSteps, TypeOK
  <2>4. creator' = creator
    BY <1>6 DEF InsertStep, InsertCandidate
  <2>5. \A d \in Calls : pc'[d] \notin Running
    BY <1>1, <1>2, <2>1 DEF NoneRuns
  <2>6. Created' => 1 \in InsertedSteps'
    BY OrdersStay DEF Created
  <2> QED  BY <1>1, <1>2, <1>3, <2>1, <2>3, <2>4, <2>5, <2>6 DEF ListedInv, Running
<1>7. ~AbortCreation
  BY DEF AbortCreation, Clean, TypeOK
<1>8. ASSUME Cancel \/ (\E p \in Deputies : Delegate(p) \/ EndDelegation(p))
      PROVE  UNCHANGED <<step, left, creator>> /\ (request' = request \/ (request \in Open /\ request' \in Final))
  BY <1>8 DEF Cancel, Decide, Delegate, EndDelegation, createVars, requestVars, Final
<1> QED  BY <1>4, <1>5, <1>6, <1>7, <1>8, Zenon DEF Create

\* A call that comes in alone finds the step of the request open, and leaves it
\* open unless it goes on to the next one or decides the request.
LEMMA CallListed ==
    ASSUME TypeOK, TypeOK', CallInv, CallInv', CreationInv, CreationInv', AloneInv, ListedInv, Clean, Clean', 1 \in orders,
           NEW d \in Calls, SubmitDecision(d)
    PROVE  ListedInv'
<1>1. /\ UNCHANGED <<creator, left, InsertedSteps>>
      /\ \A e \in Calls \ {d} : pc'[e] = pc[e] /\ seen'[e] = seen[e]
  BY CallFrame DEF createVars
<1>2. Created' <=> Created
  BY <1>1, OrdersStay DEF Created
<1>3. /\ creator # "cut"
      /\ ~Created => NoneRuns /\ current = 1 /\ (1 \in InsertedSteps => step[1] = "in_progress")
      /\ Created /\ request \in Open /\ NoneRuns => step[current] = "in_progress"
      /\ pc[d] \in {"eligible", "record", "count", "reject", "wait"} =>
                  seen[d] = current /\ step[current] = "in_progress"
      /\ pc[d] \in {"complete", "advance"} => seen[d] = current
      /\ pc[d] = "startNext" => current = seen[d] + 1
      /\ pc[d] \in {"rejectStep", "execute"} => request \in Final
  BY DEF ListedInv
\* The call is the only one, and the creation is over.
<1>4. Created /\ \A e \in Calls \ {d} : pc[e] \notin Running
  <2>1. CASE pc[d] = "idle"
    <3>1. PICK u \in Users, k \in Decisions : Submit(d, u, k)
      BY <2>1 DEF SubmitDecision, CheckEligible, Refuse, RecordDecision, RejectRequest,
         CountApprovals, CompleteStep, Advance, StartNext, Finish, Execute, Wait, EscalateStep,
         MoveTo, Abort, Running, Goto
    <3>2. overlapped' = (overlapped \/ Underway) /\ ~overlapped'
      BY <3>1, Zenon DEF Submit, Clean
    <3>3. ~Underway
      BY <3>2, Zenon
    <3>4. creator = "running"
      BY <3>1, <1>3 DEF Submit, Open, CreationInv, TypeOK
    <3> QED  BY <3>3, <3>4 DEF Underway
  <2>2. CASE pc[d] # "idle"
    <3>1. pc[d] \in Running
      BY <2>2 DEF SubmitDecision, Submit, CheckEligible, Refuse, RecordDecision, RejectRequest,
         CountApprovals, CompleteStep, Advance, StartNext, Finish, Execute, Wait, EscalateStep,
         MoveTo, Abort, Running, Goto
    <3>2. ~overlapped
      BY Zenon DEF Clean
    <3>3. \A e, f \in Calls : pc[e] \in Running /\ pc[f] \in Running => e = f
      BY <3>2, Zenon DEF AloneInv
    <3> QED  BY <1>3, <3>1, <3>3 DEF NoneRuns
  <2> QED  BY <2>1, <2>2
<1> DEFINE Kept ==
      /\ request' \in Open /\ pc'[d] \notin Running => step'[current'] = "in_progress"
      /\ pc'[d] \in {"eligible", "record", "count", "reject", "wait"} =>
            seen'[d] = current' /\ step'[current'] = "in_progress"
      /\ pc'[d] \in {"complete", "advance"} => seen'[d] = current'
      /\ pc'[d] = "startNext" => current' = seen'[d] + 1
      /\ pc'[d] \in {"rejectStep", "execute"} => request' \in Final
<1>5. ASSUME Kept PROVE ListedInv'
  <2>1. \A e \in Calls \ {d} : pc'[e] \notin Running
    BY <1>1, <1>4
  <2>2. NoneRuns' => pc'[d] \notin Running
    BY DEF NoneRuns
  <2>3. \A e \in Calls \ {d} :
          /\ pc'[e] \notin {"eligible", "record", "count", "reject", "wait", "complete", "advance"}
          /\ pc'[e] \notin {"startNext", "rejectStep", "execute"}
    BY <2>1 DEF Running
  <2>4. Created' /\ creator' # "cut"
    BY <1>1, <1>2, <1>3, <1>4
  <2>5. Created' /\ request' \in Open /\ NoneRuns' => step'[current'] = "in_progress"
    BY <1>5, <2>2
  <2>6. \A e \in Calls :
          /\ pc'[e] \in {"eligible", "record", "count", "reject", "wait"} =>
                seen'[e] = current' /\ step'[current'] = "in_progress"
          /\ pc'[e] \in {"complete", "advance"} => seen'[e] = current'
          /\ pc'[e] = "startNext" => current' = seen'[e] + 1
          /\ pc'[e] \in {"rejectStep", "execute"} => request' \in Final
    BY <1>5, <2>3
  <2> QED  BY <2>4, <2>5, <2>6 DEF ListedInv
<1> USE DEF TypeOK, Goto, Running, callVars, requestVars
<1>6. ASSUME NEW u \in Users, NEW k \in Decisions, Submit(d, u, k) PROVE Kept
  <2>1. NoneRuns
    BY <1>4, <1>6 DEF Submit, NoneRuns
  <2> QED  BY <1>3, <1>4, <1>6, <2>1 DEF Submit
<1>7. ASSUME CheckEligible(d) \/ Refuse(d) PROVE Kept
  BY <1>3, <1>7 DEF CheckEligible, Refuse
\* A recorded escalation would not be clean.
<1>8. pc'[d] \notin Escalating
  <2> SUFFICES ASSUME pc'[d] \in Escalating PROVE FALSE
    OBVIOUS
  <2>1. d \in recorded' /\ kind'[d] = "escalate" /\ seen'[d] \in orders'
    BY DEF CallInv, CreationInv, InsertedSteps, Escalating
  <2>2. d \in EscalationsOf(seen[d])'
    BY <2>1 DEF EscalationsOf
  <2> QED  BY <2>1, <2>2 DEF Clean
<1>9. pc[d] \notin Escalating
  <2> SUFFICES ASSUME pc[d] \in Escalating PROVE FALSE
    OBVIOUS
  <2>1. d \in recorded /\ kind[d] = "escalate" /\ seen[d] \in orders
    BY DEF CallInv, CreationInv, InsertedSteps, Escalating
  <2>2. d \in EscalationsOf(seen[d])
    BY <2>1 DEF EscalationsOf
  <2> QED  BY <2>1, <2>2 DEF Clean
<1>10. ASSUME RecordDecision(d) PROVE Kept
  BY <1>3, <1>8, <1>10 DEF RecordDecision, AfterRecord, Decisions, Escalating
<1>11. ASSUME RejectRequest(d) PROVE Kept
  BY <1>11 DEF RejectRequest, Decide, Final, Open
<1>12. ASSUME CountApprovals(d) \/ Wait(d) PROVE Kept
  BY <1>3, <1>12 DEF CountApprovals, Wait
<1>13. ASSUME CompleteStep(d) PROVE Kept
  BY <1>3, <1>13 DEF CompleteStep, Open, Final
<1>14. ASSUME Advance(d) PROVE Kept
  BY <1>14 DEF Advance
<1>15. ASSUME StartNext(d) PROVE Kept
  <2>1. current = seen[d] + 1 /\ current \in InsertedSteps
    BY <1>3, <1>4, <1>15 DEF StartNext, Created
  <2> QED  BY <1>15, <2>1 DEF StartNext, InsertedSteps
<1>16. ASSUME Finish(d) PROVE Kept
  BY <1>16 DEF Finish, Decide, Final, Open
<1>17. ASSUME Execute(d) PROVE Kept
  BY <1>3, <1>17 DEF Execute, Final, Open
<1>18. ~EscalateStep(d) /\ ~MoveTo(d) /\ ~Abort(d)
  <2>1. ~EscalateStep(d) /\ ~MoveTo(d)
    BY <1>9 DEF EscalateStep, MoveTo, Escalating
  <2>2. ~Abort(d)
    BY DEF Abort, Clean
  <2> QED  BY <2>1, <2>2
<1>19. Kept
  <2> HIDE DEF Kept
  <2> QED
    BY <1>6, <1>7, <1>10, <1>11, <1>12, <1>13, <1>14, <1>15, <1>16, <1>17, <1>18, Zenon
    DEF SubmitDecision
<1> HIDE DEF Kept
<1> QED  BY <1>5, <1>19

LEMMA StepStuck ==
    ASSUME TypeOK, CallInv, CreationInv, StuckInv, Next
    PROVE  StuckInv'
<1> SUFFICES ASSUME 1 \notin orders PROVE StuckInv'
  BY OrdersStay DEF StuckInv
<1>1. /\ \A s \in orders : step[s] \in {"absent", "pending"}
      /\ \A d \in Calls : pc[d] \in {"idle", "eligible"} /\ seen[d] = 1
      /\ current = 1 /\ request \in {"absent", "pending", "cancelled"}
  BY DEF StuckInv
<1>2. orders' = orders
  BY OrdersStay
<1> DEFINE Goal == /\ \A s \in orders : step'[s] \in {"absent", "pending"}
                   /\ \A d \in Calls : pc'[d] \in {"idle", "eligible"} /\ seen'[d] = 1
                   /\ current' = 1 /\ request' \in {"absent", "pending", "cancelled"}
<1> USE DEF TypeOK, requestVars, createVars, callVars
<1>3. ASSUME NEW S \in SUBSET Users, InsertStep(S) PROVE Goal
  BY <1>1, <1>3 DEF InsertStep, IsNext
<1>4. ASSUME InsertRequest \/ AbortCreation \/ (\E u \in Users : InsertCandidate(u)) PROVE Goal
  BY <1>1, <1>4 DEF InsertRequest, AbortCreation, InsertCandidate
<1>5. ASSUME Cancel \/ (\E p \in Deputies : Delegate(p) \/ EndDelegation(p)) PROVE Goal
  BY <1>1, <1>5 DEF Cancel, Decide, Delegate, EndDelegation
<1>6. ASSUME NEW d \in Calls, SubmitDecision(d) PROVE Goal
  <2>1. \/ \E u \in Users, k \in Decisions : Submit(d, u, k)
        \/ CheckEligible(d) \/ Refuse(d)
    BY <1>1, <1>6 DEF SubmitDecision, RecordDecision, RejectRequest, CountApprovals, CompleteStep,
       Advance, StartNext, Finish, Execute, Wait, EscalateStep, MoveTo, Abort, Running, Goto
  <2>2. ASSUME NEW u \in Users, NEW k \in Decisions, Submit(d, u, k) PROVE Goal
    BY <1>1, <2>2 DEF Submit, Goto
  <2>3. ~CheckEligible(d)
    BY <1>1 DEF CheckEligible, Eligible, InsertedSteps
  <2>4. ASSUME Refuse(d) PROVE Goal
    BY <1>1, <2>4 DEF Refuse, Goto
  <2> HIDE DEF Goal
  <2> QED  BY <2>1, <2>2, <2>3, <2>4
<1>7. Goal
  <2> HIDE DEF Goal
  <2> QED  BY <1>3, <1>4, <1>5, <1>6, Zenon DEF Next, Create
<1> QED  BY <1>2, <1>7 DEF StuckInv

LEMMA StepListed ==
    ASSUME TypeOK, TypeOK', CallInv, CallInv', CreationInv, CreationInv', AloneInv, ListedInv, Next
    PROVE  ListedInv'
<1>1. CASE Clean' /\ 1 \in orders'
  <2>1. Clean /\ 1 \in orders
    BY <1>1, CleanBefore, OrdersStay
  <2> QED  BY <1>1, <2>1, CreateListed, CallListed, Zenon DEF Next
<1>2. CASE ~(Clean' /\ 1 \in orders')
  BY <1>2, Zenon DEF ListedInv
<1> QED  BY <1>1, <1>2

-----------------------------------------------------------------------------
LEMMA InitIInv == Init => IInv
<1> SUFFICES ASSUME Init PROVE IInv
  OBVIOUS
<1>1. CallInv
  BY DEF Init, CallInv, Approving, Rejecting, Escalating
<1>2. StuckInv
  BY DEF Init, StuckInv
<1> QED
  BY <1>1, <1>2, InitTyped, InitCreation, InitCandidates, InitQuorum, InitAlone, InitLate, InitListed
  DEF IInv

LEMMA StepIInv == IInv /\ [Next]_vars => IInv'
<1>1. ASSUME IInv, Next PROVE IInv'
  <2>1. TypeOK' /\ CallInv'
    BY <1>1, StepTyped, StepCall DEF IInv
  <2>2. CreationInv' /\ CandidatesInv' /\ AloneInv' /\ LateInv'
    BY <1>1, StepCreation, StepCandidates, StepAlone, StepLate DEF IInv
  <2>3. QuorumInv' /\ ListedInv' /\ StuckInv'
    BY <1>1, <2>1, <2>2, StepQuorum, StepListed, StepStuck DEF IInv
  <2> QED  BY <2>1, <2>2, <2>3 DEF IInv
<1>2. ASSUME IInv, UNCHANGED vars PROVE IInv'
  <2> USE <1>2 DEF vars, requestVars, createVars, callVars, lendVars, IInv
  <2>1. TypeOK' /\ CallInv'
    BY DEF TypeOK, CallInv
  <2>2. CreationInv' /\ CandidatesInv' /\ LateInv'
    BY DEF CreationInv, CandidatesInv, Entitled, Answers, LateInv, InsertedSteps
  <2>3. AloneInv'
    BY Zenon DEF AloneInv
  <2>4. QuorumInv'
    <3>1. PassedSteps' = PassedSteps
      BY DEF PassedSteps, Passed, Repeated, ApprovalsOf, EscalationsOf
    <3> QED  BY <3>1 DEF QuorumInv, Reached, AllPassed, Chain
  <2>5. ListedInv'
    <3>1. Clean' <=> Clean
      BY Zenon DEF Clean, EscalationsOf
    <3> QED  BY <3>1 DEF ListedInv, Created, NoneRuns, InsertedSteps
  <2>6. StuckInv'
    BY DEF StuckInv
  <2> QED  BY <2>1, <2>2, <2>3, <2>4, <2>5, <2>6
<1> QED  BY <1>1, <1>2

LEMMA Invariance == Spec => []IInv
BY InitIInv, StepIInv, PTL DEF Spec

\* The types (the rows of a request, its decisions and delegations).
THEOREM TypeCorrect == Spec => []TypeOK
BY Invariance, PTL DEF IInv

\* submitDecision approves, and calls onApproved, only when each step on the way
\* has the approvals of as many people as its quorum, but for who approved twice
\* and for what an escalation jumped over.
THEOREM QuorumsApprove == Spec => []ApprovedByQuorums
<1>1. IInv => ApprovedByQuorums
  BY DEF IInv, QuorumInv, AllPassed, PassedSteps, ApprovedByQuorums
<1> QED  BY <1>1, Invariance, PTL

\* isDeciderEligible lets nobody decide whom the rules do not name, unless
\* somebody they name delegated to him.
THEOREM DecidersNamed == Spec => []DecidersAnswer
<1>1. IInv => DecidersAnswer
  BY DEF IInv, TypeOK, CallInv, CandidatesInv, Entitled, DecidersAnswer
<1> QED  BY <1>1, Invariance, PTL

\* onApproved runs twice only if calls overlapped.
THEOREM ExecutedOnce == Spec => []ExecutedAgainOnlyOnOverlap
<1>1. IInv => ExecutedAgainOnlyOnOverlap
  <2> SUFFICES ASSUME IInv, executed > 1, ~overlapped PROVE FALSE
    BY Zenon DEF ExecutedAgainOnlyOnOverlap
  <2>1. executed <= 1
    BY Zenon DEF IInv, AloneInv
  <2> QED  BY <2>1 DEF IInv, TypeOK
<1> QED  BY <1>1, Invariance, PTL

\* createRequest opens step 1, and submitDecision the step it moves the request on
\* to.  Without overlap, failure or escalation an open request has its step open,
\* provided there is a step 1; if there is none nobody is ever shown the request
\* or decides it.
THEOREM OpenIsListed == Spec => []OpenRequestIsListed
<1>1. ASSUME IInv, 1 \in orders PROVE OpenRequestIsListed
  <2> SUFFICES ASSUME request \in Open, ~Underway, ~overlapped, faults = 0,
                      \A s \in orders : EscalationsOf(s) = {}
               PROVE  step[current] = "in_progress"
    BY <1>1, Zenon DEF OpenRequestIsListed
  <2>1. Clean
    BY Zenon DEF Clean
  <2>2. NoneRuns
    BY DEF Underway, NoneRuns
  <2>3. creator = "running"
    BY <1>1, <2>1 DEF IInv, ListedInv, CreationInv, Open, TypeOK
  <2>4. Created
    BY <2>3 DEF Underway
  <2> QED  BY <1>1, <2>1, <2>2, <2>4 DEF IInv, ListedInv
<1>2. ASSUME IInv, 1 \notin orders PROVE OpenRequestIsListed
  <2>1. /\ \A s \in orders : step[s] \in {"absent", "pending"}
        /\ \A d \in Calls : pc[d] \in {"idle", "eligible"}
        /\ current = 1 /\ request \in {"absent", "pending", "cancelled"}
    BY <1>2 DEF IInv, StuckInv
  <2>2. recorded = {}
    BY <1>2, <2>1 DEF IInv, TypeOK, CallInv
  <2>3. \A u \in Users : ~Eligible(u, current)
    BY <1>2, <2>1 DEF Eligible, InsertedSteps
  <2> QED  BY <1>2, <2>1, <2>2, <2>3, Zenon DEF OpenRequestIsListed
<1>3. IInv => OpenRequestIsListed
  BY <1>1, <1>2
<1> QED  BY <1>3, Invariance, PTL

\* A decided request is written again only by a call that was under way.
THEOREM DecidedIsFinal == Spec => DecidedStands
<1>1. IInv /\ [Next]_vars =>
        [(request' # request /\ request \in Final) => \E d \in late : pc'[d] # pc[d]]_vars
  <2> SUFFICES ASSUME IInv, Next, request' # request, request \in Final
               PROVE  \E d \in late : pc'[d] # pc[d]
    OBVIOUS
  <2> QED  BY DecidedStep DEF IInv
<1> QED  BY <1>1, Invariance, PTL DEF Spec, DecidedStands
=============================================================================
