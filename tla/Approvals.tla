------------------------------ MODULE Approvals -----------------------------
(***************************************************************************)
(* ApprovalService (packages/maker-checker/src/approval-service.ts): one   *)
(* approval request, from the creation of its steps and candidates to the  *)
(* decision that completes it, and the delegations that lend a candidate's *)
(* place to somebody else.                                                 *)
(*                                                                         *)
(* Each await that reads or writes a row the others can see is a step; the *)
(* event log and the notifications change nothing and are left out.  No    *)
(* request ever gets an expiresAt, so expireStaleRequests finds none.      *)
(***************************************************************************)
EXTENDS Candidates

CONSTANTS
    Requester,      \* approval_requests.requested_by
    Modes,          \* Modes[s]: candidateSelectionMode
    Quorum,         \* Quorum[s]: quorumCount, 0 for null
    EscalateTo,     \* EscalateTo[s]: order of the escalation target, 0 for none
    Deputies,       \* pairs <<u, v>>: u may delegate to v
    Calls,          \* calls of submitDecision
    MaxFaults       \* bound: calls cut short

ASSUME ApprovalsAssumption ==
    /\ Requester \in Users
    /\ Modes \in [Steps -> {"all", "any", "quorum", "random", "weighted_random"}]
    /\ Quorum \in [Steps -> Nat]
    /\ EscalateTo \in [Steps -> Steps \cup {0}]
    /\ Deputies \subseteq {p \in Users \X Users : p[1] # p[2]}
    /\ IsFiniteSet(Calls)
    /\ MaxFaults \in Nat

VARIABLES
    orders,         \* step_order of the steps in workflow_snapshot
    request,        \* approval_requests.status, "absent" before the row exists
    current,        \* approval_requests.current_step_order
    step,           \* approval_request_steps.status by step_order
    candidates,     \* selected rows of approval_request_candidates by step_order
    recorded,       \* calls whose row is in approval_decisions
    delegations,    \* delegations neither revoked nor expired
    creator,        \* the await createRequest is about to perform
    left,           \* candidates createRequest still has to insert
    pc,             \* the await a call is about to perform
    by, kind,       \* who decides in a call, and what
    seen,           \* request.currentStepOrder, as a call has read it
    executed,       \* how often onApproved was called
    lent,           \* history: every delegation there has been
    late,           \* history: calls under way when the request was decided
    overlapped,     \* history: whether two requests ran at once
    faults          \* calls cut short so far

requestVars == <<request, current>>
createVars == <<candidates, creator, left>>
callVars == <<by, kind, seen>>
lendVars == <<delegations, lent>>
vars == <<orders, requestVars, step, createVars, recorded, lendVars, pc, callVars,
          executed, late, overlapped, faults>>

-----------------------------------------------------------------------------
Open == {"pending", "in_progress"}
Final == {"approved", "rejected", "cancelled"}
Decisions == {"approve", "reject", "escalate", "abstain"}

\* The awaits of a call that has read the request and found it open.
Running == {"eligible", "record", "reject", "rejectStep", "count",
            "complete", "advance", "startNext", "finish", "execute", "wait",
            "escalate", "move"}

Goto(d, from, to) ==
    /\ pc[d] = from
    /\ pc' = [pc EXCEPT ![d] = to]

\* compiledStep?.quorumCount ?? 1
Needed(s) == IF Quorum[s] = 0 THEN 1 ELSE Quorum[s]

\* Approvals recorded for a step, whoever gave them and how often.
ApprovalsOf(s) == {d \in recorded : kind[d] = "approve" /\ seen[d] = s}
EscalationsOf(s) == {d \in recorded : kind[d] = "escalate" /\ seen[d] = s}

\* A random step selects as many candidates as its quorum, the others all.
Selections(s, C) ==
    IF Modes[s] \in {"random", "weighted_random"}
    THEN {S \in SUBSET C : \/ Cardinality(S) = Needed(s)
                           \/ S = C /\ Cardinality(C) < Needed(s)}
    ELSE {C}

InsertedSteps == {s \in orders : step[s] # "absent"}
IsNext(s) == /\ s \in orders \ InsertedSteps
             /\ \A t \in orders \ InsertedSteps : s <= t

Created == InsertedSteps = orders /\ left = {}

Underway == \/ creator = "running" /\ ~Created
            \/ \E e \in Calls : pc[e] \in Running

\* A write that decides the request: the calls it overtakes are late.
Decide(status, self) ==
    /\ request' = status
    /\ late' = late \cup {e \in Calls \ self : pc[e] \in Running}

-----------------------------------------------------------------------------
(* Variants: plausible bugs, one per property.  No action uses them.        *)

\* A step still short of its quorum falls through to the callback.
WaitAndExecute(d) ==
    /\ Goto(d, "wait", "execute")
    /\ request' = "in_progress"
    /\ UNCHANGED <<orders, current, step, createVars, recorded, lendVars, callVars,
                   executed, late, overlapped, faults>>

\* The update that cancels is by the request's id alone.
CancelAny ==
    /\ request \in Open \cup {"approved", "rejected"}
    /\ Decide("cancelled", {})
    /\ UNCHANGED <<orders, current, step, createVars, recorded, lendVars, pc, callVars,
                   executed, overlapped, faults>>

\* Every decision on the step counts towards its quorum.
CountAll(d) ==
    /\ Goto(d, "count", IF Cardinality({e \in recorded : seen[e] = seen[d]})
                              >= Needed(seen[d])
                        THEN "complete" ELSE "wait")
    /\ UNCHANGED <<orders, requestVars, step, createVars, recorded, lendVars, callVars,
                   executed, late, overlapped, faults>>

\* The requester is not left out of the candidates.
InsertStepAny(S) ==
    /\ creator = "running" /\ left = {}
    /\ \E s \in orders : /\ IsNext(s)
                         /\ S \in Selections(s, Resolve(s, {}))
                         /\ step' = [step EXCEPT ![s] =
                                        IF s = 1 THEN "in_progress" ELSE "pending"]
    /\ left' = S
    /\ UNCHANGED <<orders, requestVars, candidates, creator, recorded, lendVars, pc,
                   callVars, executed, late, overlapped, faults>>

\* The step that just ended is the one opened.
StartSame(d) ==
    /\ Goto(d, "startNext", "done")
    /\ step' = [step EXCEPT ![seen[d]] = "in_progress"]
    /\ UNCHANGED <<orders, requestVars, createVars, recorded, lendVars, callVars,
                   executed, late, overlapped, faults>>

-----------------------------------------------------------------------------
(* createRequest *)

InsertRequest ==
    /\ creator = "idle"
    /\ creator' = "running"
    /\ request' = "pending"
    /\ UNCHANGED <<orders, current, step, candidates, left, recorded, lendVars, pc,
                   callVars, executed, late, overlapped, faults>>

\* One round of the loop: the row of the next step, and the candidates its
\* rules resolve to without the requester, of whom some are selected.
InsertStep(S) ==
    /\ creator = "running" /\ left = {}
    /\ \E s \in orders : /\ IsNext(s)
                         /\ S \in Selections(s, Resolve(s, {Requester}))
                         /\ step' = [step EXCEPT ![s] =
                                        IF s = 1 THEN "in_progress" ELSE "pending"]
    /\ left' = S
    /\ UNCHANGED <<orders, requestVars, candidates, creator, recorded, lendVars, pc,
                   callVars, executed, late, overlapped, faults>>

\* The rows belong to the step inserted last.
InsertCandidate(u) ==
    /\ creator = "running"
    /\ u \in left
    /\ \E s \in InsertedSteps :
          /\ \A t \in InsertedSteps : t <= s
          /\ candidates' = [candidates EXCEPT ![s] = @ \cup {u}]
    /\ left' = left \ {u}
    /\ UNCHANGED <<orders, requestVars, step, creator, recorded, lendVars, pc, callVars,
                   executed, late, overlapped, faults>>

-----------------------------------------------------------------------------
(* submitDecision *)

\* The request's row is read once: what follows relies on its status and on
\* its current step as they were then.  A request that is not open refuses the
\* call, which then leaves nothing behind.
Submit(d, u, k) ==
    /\ request \in Open
    /\ Goto(d, "idle", "eligible")
    /\ by' = [by EXCEPT ![d] = u]
    /\ kind' = [kind EXCEPT ![d] = k]
    /\ seen' = [seen EXCEPT ![d] = current]
    /\ overlapped' = (overlapped \/ Underway)
    /\ UNCHANGED <<orders, requestVars, step, createVars, recorded, lendVars, executed,
                   late, faults>>

\* A candidate of the step may decide, and whoever one of them delegated to,
\* whatever the scope of the delegation.  The row of a step precedes those of
\* its candidates, so who is eligible finds the step as well.
Eligible(u, s) ==
    /\ s \in InsertedSteps
    /\ \/ u \in candidates[s]
       \/ \E p \in delegations : p[2] = u /\ p[1] \in candidates[s]

CheckEligible(d) ==
    /\ Eligible(by[d], seen[d])
    /\ Goto(d, "eligible", "record")
    /\ UNCHANGED <<orders, requestVars, step, createVars, recorded, lendVars, callVars,
                   executed, late, overlapped, faults>>

\* A refused call is over, as if it had not been made.
Refuse(d) ==
    /\ ~Eligible(by[d], seen[d])
    /\ Goto(d, "eligible", "idle")
    /\ by' = [by EXCEPT ![d] = Requester]
    /\ kind' = [kind EXCEPT ![d] = "abstain"]
    /\ seen' = [seen EXCEPT ![d] = 1]
    /\ late' = late \ {d}
    /\ UNCHANGED <<orders, requestVars, step, createVars, recorded, lendVars, executed,
                   overlapped, faults>>

AfterRecord(k) ==
    CASE k = "approve" -> "count"
      [] k = "reject" -> "reject"
      [] k = "escalate" -> "escalate"
      [] k = "abstain" -> "done"

RecordDecision(d) ==
    /\ Goto(d, "record", AfterRecord(kind[d]))
    /\ recorded' = recorded \cup {d}
    /\ UNCHANGED <<orders, requestVars, step, createVars, lendVars, callVars, executed,
                   late, overlapped, faults>>

RejectRequest(d) ==
    /\ Goto(d, "reject", "rejectStep")
    /\ Decide("rejected", {d})
    /\ UNCHANGED <<orders, current, step, createVars, recorded, lendVars, callVars,
                   executed, overlapped, faults>>

CountApprovals(d) ==
    /\ Goto(d, "count", IF Cardinality(ApprovalsOf(seen[d])) >= Needed(seen[d])
                        THEN "complete" ELSE "wait")
    /\ UNCHANGED <<orders, requestVars, step, createVars, recorded, lendVars, callVars,
                   executed, late, overlapped, faults>>

\* The step is completed: by a rejection, which ends there, or by a quorum,
\* which opens the step of the next order or, when there is none, approves.
CompleteStep(d) ==
    /\ \/ Goto(d, "rejectStep", "done")
       \/ Goto(d, "complete", IF seen[d] + 1 \in orders THEN "advance" ELSE "finish")
    /\ step' = [step EXCEPT ![seen[d]] = "completed"]
    /\ UNCHANGED <<orders, requestVars, createVars, recorded, lendVars, callVars,
                   executed, late, overlapped, faults>>

Advance(d) ==
    /\ Goto(d, "advance", "startNext")
    /\ request' = "in_progress"
    /\ current' = seen[d] + 1
    /\ UNCHANGED <<orders, step, createVars, recorded, lendVars, callVars, executed, late,
                   overlapped, faults>>

\* An update by request and order: of no row, if createRequest has not got there.
StartNext(d) ==
    /\ Goto(d, "startNext", "done")
    /\ step' = IF step[seen[d] + 1] = "absent" THEN step
               ELSE [step EXCEPT ![seen[d] + 1] = "in_progress"]
    /\ UNCHANGED <<orders, requestVars, createVars, recorded, lendVars, callVars,
                   executed, late, overlapped, faults>>

Finish(d) ==
    /\ Goto(d, "finish", "execute")
    /\ Decide("approved", {d})
    /\ UNCHANGED <<orders, current, step, createVars, recorded, lendVars, callVars,
                   executed, overlapped, faults>>

\* deps.onApproved: whatever was waiting for the approval is done.
Execute(d) ==
    /\ Goto(d, "execute", "done")
    /\ executed' = executed + 1
    /\ UNCHANGED <<orders, requestVars, step, createVars, recorded, lendVars, callVars,
                   late, overlapped, faults>>

Wait(d) ==
    /\ Goto(d, "wait", "done")
    /\ request' = "in_progress"
    /\ UNCHANGED <<orders, current, step, createVars, recorded, lendVars, callVars,
                   executed, late, overlapped, faults>>

EscalateStep(d) ==
    /\ Goto(d, "escalate", IF EscalateTo[seen[d]] \in orders THEN "move" ELSE "done")
    /\ step' = [step EXCEPT ![seen[d]] = "escalated"]
    /\ UNCHANGED <<orders, requestVars, createVars, recorded, lendVars, callVars,
                   executed, late, overlapped, faults>>

\* The request moves, the step it moves to is not opened.
MoveTo(d) ==
    /\ Goto(d, "move", "done")
    /\ current' = EscalateTo[seen[d]]
    /\ UNCHANGED <<orders, request, step, createVars, recorded, lendVars, callVars,
                   executed, late, overlapped, faults>>

-----------------------------------------------------------------------------
(* cancelRequest, the delegations, and evictions *)

Cancel ==
    /\ request \in Open
    /\ Decide("cancelled", {})
    /\ UNCHANGED <<orders, current, step, createVars, recorded, lendVars, pc, callVars,
                   executed, overlapped, faults>>

Delegate(p) ==
    /\ p \in Deputies \ lent
    /\ delegations' = delegations \cup {p}
    /\ lent' = lent \cup {p}
    /\ UNCHANGED <<orders, requestVars, step, createVars, recorded, pc, callVars,
                   executed, late, overlapped, faults>>

\* Revoked, or expired.
EndDelegation(p) ==
    /\ p \in delegations
    /\ delegations' = delegations \ {p}
    /\ UNCHANGED <<orders, requestVars, step, createVars, recorded, lent, pc, callVars,
                   executed, late, overlapped, faults>>

\* A call cut short before its first write is one that was refused.
Abort(d) ==
    /\ pc[d] \in Running \ {"eligible", "record"} /\ faults < MaxFaults
    /\ pc' = [pc EXCEPT ![d] = "done"]
    /\ faults' = faults + 1
    /\ UNCHANGED <<orders, requestVars, step, createVars, recorded, lendVars, callVars,
                   executed, late, overlapped>>

AbortCreation ==
    /\ creator = "running" /\ ~Created /\ faults < MaxFaults
    /\ creator' = "cut"
    /\ faults' = faults + 1
    /\ UNCHANGED <<orders, requestVars, step, candidates, left, recorded, lendVars, pc,
                   callVars, executed, late, overlapped>>

-----------------------------------------------------------------------------
Init ==
    /\ \E off \in Inactive : orders = Compiled(off)
    /\ request = "absent" /\ current = 1
    /\ step = [s \in orders |-> "absent"]
    /\ candidates = [s \in orders |-> {}]
    /\ recorded = {} /\ delegations = {} /\ lent = {}
    /\ creator = "idle" /\ left = {}
    /\ pc = [d \in Calls |-> "idle"]
    /\ by = [d \in Calls |-> Requester]
    /\ kind = [d \in Calls |-> "abstain"]
    /\ seen = [d \in Calls |-> 1]
    /\ executed = 0 /\ late = {} /\ overlapped = FALSE /\ faults = 0

Create == \/ InsertRequest
          \/ \E S \in SUBSET Users : InsertStep(S)
          \/ \E u \in Users : InsertCandidate(u)
          \/ AbortCreation

SubmitDecision(d) ==
    \/ \E u \in Users, k \in Decisions : Submit(d, u, k)
    \/ CheckEligible(d) \/ Refuse(d) \/ RecordDecision(d)
    \/ RejectRequest(d) \/ CountApprovals(d)
    \/ CompleteStep(d) \/ Advance(d) \/ StartNext(d) \/ Finish(d) \/ Execute(d)
    \/ Wait(d) \/ EscalateStep(d) \/ MoveTo(d) \/ Abort(d)

Next == \/ Create
        \/ \E d \in Calls : SubmitDecision(d)
        \/ Cancel
        \/ \E p \in Deputies : Delegate(p) \/ EndDelegation(p)

Spec == Init /\ [][Next]_vars

-----------------------------------------------------------------------------
TypeOK ==
    /\ request \in Open \cup Final \cup {"absent"}
    /\ orders \subseteq Steps
    /\ current \in orders \cup {1}
    /\ step \in [orders -> {"absent", "pending", "in_progress", "completed", "escalated"}]
    /\ candidates \in [orders -> SUBSET Users]
    /\ recorded \subseteq Calls
    /\ delegations \subseteq lent /\ lent \subseteq Deputies
    /\ creator \in {"idle", "running", "cut"}
    /\ left \subseteq Users
    /\ pc \in [Calls -> {"idle", "done"} \cup Running]
    /\ by \in [Calls -> Users]
    /\ kind \in [Calls -> Decisions]
    /\ seen \in [Calls -> orders \cup {1}]
    /\ executed \in Nat
    /\ late \subseteq Calls
    /\ overlapped \in BOOLEAN
    /\ faults \in 0..MaxFaults

\* The steps an approval leads through: a gap in the orders ends them.
Chain == {s \in orders : \A t \in 1..s : t \in orders}

Repeated(s) == \E d, e \in ApprovalsOf(s) : d # e /\ by[d] = by[e]

Passed(s) == \/ Cardinality({by[d] : d \in ApprovalsOf(s)}) >= Needed(s)
             \/ Repeated(s)
             \/ \E t \in orders : t <= s /\ EscalationsOf(t) # {}
                                /\ EscalateTo[t] \in orders /\ EscalateTo[t] > s

\* What waits for an approval is done only when each step on the way was
\* approved by as many people as its quorum.  There are two exceptions: the
\* count is of decisions, so one person may have approved twice, and an
\* escalation jumps over the steps before its target.
ApprovedByQuorums ==
    request = "approved" \/ executed > 0 => \A s \in Chain : Passed(s)

\* A row by which u matched a rule of step s, and was not the requester.  The
\* role may have been removed since: removeRole clears is_active, and neither
\* the resolver nor a decision reads it.
Answers(u, s) ==
    /\ u # Requester
    /\ \E row \in UserRoles, rule \in Rules[s] : row.user = u /\ Matches(row, rule)

\* isDeciderEligible (approval-service.ts:604-664): behind every decision is
\* somebody the rules of that step name, other than the requester; the requester
\* decides only if such a person delegated to him.
DecidersAnswer ==
    \A d \in recorded :
        \/ Answers(by[d], seen[d])
        \/ \E p \in lent : p[2] = by[d] /\ Answers(p[1], seen[d])

\* onApproved runs again only if two calls, or a call and the creation of the
\* request, ran at once.
ExecutedAgainOnlyOnOverlap == executed > 1 => overlapped

\* As long as nothing overlapped, failed or was escalated, the current step of
\* an open request is in progress, so it is in its candidates' lists: if the
\* template's first step is active.  If it is not, no step ever is in progress,
\* and nobody can decide: the request stays open until it is cancelled.
OpenRequestIsListed ==
    IF 1 \in orders
    THEN /\ request \in Open /\ ~Underway
         /\ ~overlapped /\ faults = 0
         /\ \A s \in orders : EscalationsOf(s) = {}
         => step[current] = "in_progress"
    ELSE /\ \A s \in orders : step[s] \in {"absent", "pending"}
         /\ \A u \in Users : ~Eligible(u, current)
         /\ recorded = {} /\ request \in {"absent", "pending", "cancelled"}

\* A request once decided is rewritten only by calls that had read it before.
DecidedStands ==
    [][(request' # request /\ request \in Final)
         => \E d \in late : pc'[d] # pc[d]]_vars
=============================================================================
