------------------------------ MODULE Bookings ------------------------------
(***************************************************************************)
(* BookingService (apps/api-edge/src/services/booking.service.ts), the     *)
(* repository's updateStatus and ChargeService.applyBookingCharges.  The   *)
(* route that confirms a booking is wrapped in the idempotency middleware. *)
(*                                                                         *)
(* A request is in the middleware (stage) and, inside it, about to perform *)
(* an await of its handler (pc).                                           *)
(***************************************************************************)
EXTENDS Idempotency, Sequences

CONSTANTS
    Ids,            \* bookings
    NoBooking,
    Headers,        \* values clients send as Idempotency-Key
    Lines,          \* charge lines the engine computes for a booking: 1..Lines
    MaxCalls,       \* bound: requests made
    MaxFaults       \* bound: exceptions, evictions and lock expiries

ASSUME BookingsAssumption ==
    /\ Keys = Ids \X Headers
    /\ NoBooking \notin Ids
    /\ Lines \in Nat /\ MaxCalls \in Nat /\ MaxFaults \in Nat

VARIABLES
    status,         \* bookings.status, "absent" before the row exists
    travellers,     \* bookings with their travellers' rows
    payable,        \* bookings with a payment that may yet succeed
    trail,          \* booking_status_history: from and to
    charges,        \* how often each charge line of a booking was inserted
    allocations,    \* how often its allocation was
    pc, op, on,     \* what a request is about to do, its operation and booking
    target, seen,   \* the status updateStatus sets, and the one it has read
    line,           \* the charge line a confirmation is at
    overlapped,     \* history: bookings two requests worked on at once
    cut,            \* history: bookings a request was cut short on
    calls, faults   \* requests and faults so far

rowVars == <<status, travellers, payable, trail>>
chargeVars == <<charges, allocations>>
handlerVars == <<op, on, target, seen, line>>
histVars == <<overlapped, cut>>
countVars == <<calls, faults>>
vars == <<idemVars, rowVars, chargeVars, pc, handlerVars, histVars, countVars>>

-----------------------------------------------------------------------------
Statuses == {"absent", "draft", "quoted", "pending_payment", "paid", "confirmed",
             "provider_accepted", "provider_on_hold", "provider_rejected", "cancelled"}

\* Statuses each operation accepts, and the one it sets first.
Allowed == [ confirm |-> {"draft", "quoted"},
             accept  |-> {"paid", "provider_on_hold"},
             hold    |-> {"paid"},
             reject  |-> {"paid", "provider_on_hold"},
             force   |-> {"paid", "provider_accepted", "provider_on_hold"},
             cancel  |-> {"draft", "quoted", "pending_payment", "paid", "confirmed"},
             capture |-> Statuses \ {"absent"} ]

Sets == [ confirm |-> "pending_payment", accept |-> "provider_accepted",
          hold |-> "provider_on_hold", reject |-> "provider_rejected",
          force |-> "confirmed", cancel |-> "cancelled", capture |-> "paid" ]

Operations == DOMAIN Allowed

\* Awaits of a handler, "done" when it is about to return.
Steps == {"insert", "travellers", "find", "read", "write", "history",
          "line", "allocation", "done"}

\* Requests whose handler is at work on b.
WorkingOn(b) == {r \in Requests : on[r] = b /\ pc[r] # "idle"}

Fault == /\ faults < MaxFaults
         /\ faults' = faults + 1

\* What r leaves undone is recorded, once it has begun to write.
CutAt(r) == cut' = IF pc[r] \in {"idle", "insert", "find", "done"} THEN cut ELSE cut \cup {on[r]}

\* A step of a handler that the middleware has no part in.
Goto(r, from, to) ==
    /\ stage[r] = "inside"
    /\ pc[r] = from
    /\ pc' = [pc EXCEPT ![r] = to]
    /\ UNCHANGED <<idemVars, histVars, countVars>>

-----------------------------------------------------------------------------
(* Variants: plausible bugs, one per property.  No action uses them.        *)

\* The history is kept of the status the caller had read, not the current one.
ReadNothing(r) ==
    /\ Goto(r, "read", "write")
    /\ UNCHANGED <<rowVars, chargeVars, handlerVars>>

\* A charge is allocated only when it is the last.
InsertLineUnallocated(r) ==
    /\ Goto(r, "line", IF line[r] < Lines THEN "line" ELSE "allocation")
    /\ charges' = [charges EXCEPT ![on[r]][line[r]] = @ + 1]
    /\ line' = [line EXCEPT ![r] = IF @ < Lines THEN @ + 1 ELSE @]
    /\ UNCHANGED <<rowVars, allocations, op, on, target, seen>>

\* Charges that failed are inserted again from the first.
ThrowAndRetry(r) ==
    /\ pc[r] \in {"line", "allocation"} /\ Fault
    /\ pc' = [pc EXCEPT ![r] = "line"]
    /\ line' = [line EXCEPT ![r] = 1]
    /\ UNCHANGED <<idemVars, rowVars, chargeVars, op, on, target, seen, histVars, calls>>

-----------------------------------------------------------------------------
(* Requests and their handlers *)

\* Whom a request may be refused to for who makes it ends as one for its status.
Call(r, o, b, k) ==
    /\ calls < MaxCalls /\ calls' = calls + 1
    /\ pc[r] = "idle"
    /\ IF o = "create" THEN status[b] = "absent" /\ WorkingOn(b) = {}
                       ELSE status[b] # "absent"
    /\ o = "capture" => b \in payable
    /\ Enter(r, IF o = "confirm" THEN <<b, k>> ELSE NoKey)
    /\ pc' = [pc EXCEPT ![r] = IF o = "create" THEN "insert" ELSE "find"]
    /\ op' = [op EXCEPT ![r] = o]
    /\ on' = [on EXCEPT ![r] = b]
    /\ overlapped' = IF WorkingOn(b) # {} THEN overlapped \cup {b} ELSE overlapped
    /\ UNCHANGED <<rowVars, chargeVars, target, seen, line, cut, faults>>

\* createDraft
InsertDraft(r) ==
    /\ Goto(r, "insert", "travellers")
    /\ status' = [status EXCEPT ![on[r]] = "draft"]
    /\ UNCHANGED <<travellers, payable, trail, chargeVars, handlerVars>>

InsertTravellers(r) ==
    /\ Goto(r, "travellers", "done")
    /\ travellers' = travellers \cup {on[r]}
    /\ UNCHANGED <<status, payable, trail, chargeVars, handlerVars>>

\* The operation looks at the status.  cancel writes it without updateStatus.
Find(r) ==
    /\ Goto(r, "find", IF op[r] = "cancel" THEN "write" ELSE "read")
    /\ status[on[r]] \in Allowed[op[r]]
    /\ target' = [target EXCEPT ![r] = Sets[op[r]]]
    /\ UNCHANGED <<rowVars, chargeVars, op, on, seen, line>>

\* updateStatus reads the row, writes it, whatever it holds by then, and adds
\* what it had read to the history.
ReadStatus(r) ==
    /\ Goto(r, "read", "write")
    /\ seen' = [seen EXCEPT ![r] = status[on[r]]]
    /\ UNCHANGED <<rowVars, chargeVars, op, on, target, line>>

WriteStatus(r) ==
    /\ Goto(r, "write", IF op[r] = "cancel" THEN "done" ELSE "history")
    /\ status' = [status EXCEPT ![on[r]] = target[r]]
    /\ UNCHANGED <<travellers, payable, trail, chargeVars, handlerVars>>

\* What follows a status: the charges of a confirmed booking, the second status
\* of an accepted one.
AddHistory(r) ==
    /\ LET b == on[r]
           again == op[r] = "accept" /\ target[r] = "provider_accepted"
       IN /\ Goto(r, "history", CASE again -> "read"
                                  [] op[r] = "confirm" /\ Lines > 0 -> "line"
                                  [] OTHER -> "done")
          /\ trail' = [trail EXCEPT ![b] = Append(@, <<seen[r], target[r]>>)]
          /\ target' = IF again THEN [target EXCEPT ![r] = "confirmed"] ELSE target
          /\ line' = [line EXCEPT ![r] = 1]
    /\ UNCHANGED <<status, travellers, payable, chargeVars, op, on, seen>>

\* applyBookingCharges: a line, then its allocation, then the next line.
InsertLine(r) ==
    /\ Goto(r, "line", "allocation")
    /\ charges' = [charges EXCEPT ![on[r]][line[r]] = @ + 1]
    /\ UNCHANGED <<rowVars, allocations, handlerVars>>

InsertAllocation(r) ==
    /\ Goto(r, "allocation", IF line[r] < Lines THEN "line" ELSE "done")
    /\ allocations' = [allocations EXCEPT ![on[r]][line[r]] = @ + 1]
    /\ line' = [line EXCEPT ![r] = IF @ < Lines THEN @ + 1 ELSE @]
    /\ UNCHANGED <<rowVars, charges, op, on, target, seen>>

\* The handler returns, or refuses a status, or an await of it throws.
Return(r) ==
    /\ pc[r] = "done"
    /\ Leave(r, TRUE)
    /\ pc' = [pc EXCEPT ![r] = "idle"]
    /\ UNCHANGED <<rowVars, chargeVars, handlerVars, histVars, countVars>>

Refuse(r) ==
    /\ pc[r] = "find"
    /\ status[on[r]] \notin Allowed[op[r]]
    /\ Leave(r, FALSE)
    /\ pc' = [pc EXCEPT ![r] = "idle"]
    /\ UNCHANGED <<rowVars, chargeVars, handlerVars, histVars, countVars>>

Throw(r) ==
    /\ pc[r] \notin {"idle", "done"} /\ Fault
    /\ Leave(r, FALSE)
    /\ pc' = [pc EXCEPT ![r] = "idle"]
    /\ CutAt(r)
    /\ UNCHANGED <<rowVars, chargeVars, handlerVars, overlapped, calls>>

-----------------------------------------------------------------------------
(* The middleware, and what else happens *)

\* A request that the middleware answers does not reach its handler.
Middleware(r) ==
    /\ Wrap(r)
    /\ pc' = IF stage'[r] = "outside" THEN [pc EXCEPT ![r] = "idle"] ELSE pc
    /\ UNCHANGED <<rowVars, chargeVars, handlerVars, histVars, countVars>>

Evict(r) ==
    /\ CutShort(r) /\ Fault
    /\ pc' = [pc EXCEPT ![r] = "idle"]
    /\ CutAt(r)
    /\ UNCHANGED <<rowVars, chargeVars, handlerVars, overlapped, calls>>

Expire(k) ==
    /\ ExpireLock(k) \/ ExpireAnswer(k)
    /\ Fault
    /\ UNCHANGED <<rowVars, chargeVars, pc, handlerVars, histVars, calls>>

\* A checkout opens a payment for a booking in one of these statuses.
Checkout(b) ==
    /\ status[b] \in {"pending_payment", "confirmed"}
    /\ b \notin payable
    /\ payable' = payable \cup {b}
    /\ UNCHANGED <<idemVars, status, travellers, trail, chargeVars, pc, handlerVars,
                   histVars, countVars>>

-----------------------------------------------------------------------------
Init ==
    /\ IdemInit
    /\ status = [b \in Ids |-> "absent"]
    /\ travellers = {} /\ payable = {}
    /\ trail = [b \in Ids |-> <<>>]
    /\ charges = [b \in Ids |-> [i \in 1..Lines |-> 0]]
    /\ allocations = [b \in Ids |-> [i \in 1..Lines |-> 0]]
    /\ pc = [r \in Requests |-> "idle"]
    /\ op = [r \in Requests |-> "create"]
    /\ on = [r \in Requests |-> NoBooking]
    /\ target = [r \in Requests |-> "absent"]
    /\ seen = [r \in Requests |-> "absent"]
    /\ line = [r \in Requests |-> 1]
    /\ overlapped = {} /\ cut = {}
    /\ calls = 0 /\ faults = 0

Handle(r) ==
    \/ InsertDraft(r) \/ InsertTravellers(r)
    \/ Find(r) \/ ReadStatus(r) \/ WriteStatus(r) \/ AddHistory(r)
    \/ InsertLine(r) \/ InsertAllocation(r)
    \/ Return(r) \/ Refuse(r) \/ Throw(r)

Next ==
    \/ \E r \in Requests :
        \/ \E o \in Operations \cup {"create"}, b \in Ids, k \in Headers : Call(r, o, b, k)
        \/ Handle(r) \/ Middleware(r) \/ Evict(r)
    \/ \E k \in Keys : Expire(k)
    \/ \E b \in Ids : Checkout(b)

Spec == Init /\ [][Next]_vars

-----------------------------------------------------------------------------
TypeOK ==
    /\ IdemTypeOK
    /\ status \in [Ids -> Statuses]
    /\ travellers \subseteq Ids /\ payable \subseteq Ids
    /\ trail \in [Ids -> Seq(Statuses \X Statuses)]
    /\ charges \in [Ids -> [1..Lines -> Nat]]
    /\ allocations \in [Ids -> [1..Lines -> Nat]]
    /\ pc \in [Requests -> Steps \cup {"idle"}]
    /\ op \in [Requests -> Operations \cup {"create"}]
    /\ on \in [Requests -> Ids \cup {NoBooking}]
    /\ target \in [Requests -> Statuses] /\ seen \in [Requests -> Statuses]
    /\ line \in [Requests -> Nat]
    /\ overlapped \subseteq Ids /\ cut \subseteq Ids
    /\ calls \in 0..MaxCalls /\ faults \in 0..MaxFaults

\* A booking is charged twice for one thing only if two requests worked on it at
\* once: no retry, replay or expiry of a key is enough by itself.
ChargedTwiceOnlyOnOverlap ==
    \A b \in Ids \ overlapped, i \in 1..Lines :
        charges[b][i] <= 1 /\ allocations[b][i] <= 1

\* An answer that is replayed was given for a booking all of whose charges, and
\* their allocations, were inserted.
ReplayIsOfACharged ==
    \A k \in cached, i \in 1..Lines :
        charges[k[1]][i] > 0 /\ allocations[k[1]][i] > 0

\* A booking nobody works on shows the last status of its history, which leads
\* there without a gap, or else is cancelled: cancelling leaves no history.
HistoryLeadsToStatus ==
    \A b \in Ids \ (overlapped \cup cut) :
        /\ WorkingOn(b) = {} /\ status[b] \notin {"absent", "draft", "cancelled"} =>
            trail[b] # <<>> /\ trail[b][Len(trail[b])][2] = status[b]
        /\ \A i \in 2..Len(trail[b]) : trail[b][i][1] \in {trail[b][i - 1][2], "cancelled"}

\* Beyond a draft, a booking has its travellers and its charges, unless a request
\* that worked on it was cut short: nothing takes them up again.
ConfirmedIsComplete ==
    \A b \in Ids \ (cut \cup overlapped) :
        WorkingOn(b) = {} /\ status[b] \notin {"absent", "draft", "cancelled"} =>
            /\ b \in travellers
            /\ \A i \in 1..Lines : charges[b][i] = 1 /\ allocations[b][i] = 1
=============================================================================
