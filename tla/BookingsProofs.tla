--------------------------- MODULE BookingsProofs ---------------------------
(***************************************************************************)
(* Proofs about Bookings and the idempotency middleware it runs in.        *)
(*                                                                         *)
(* While nobody raced for its lock and no lock of it expired, a key that   *)
(* has a holder has a lock, and then nobody is about to take one.  And a   *)
(* booking only one request at a time works on has no charges before it    *)
(* leaves the statuses that can be confirmed, to which it never returns.   *)
(*                                                                         *)
(* What such a booking is owed, one request is about to insert: while it   *)
(* goes on, nobody else writes the row it read, so that what it adds to    *)
(* the history is the step the status took; and if it is cut short the     *)
(* booking is taken down.                                                  *)
(***************************************************************************)
EXTENDS Bookings, TLAPS

-----------------------------------------------------------------------------
(* Strengthening *)

Holding(r, k) == keyOf[r] = k /\ stage[r] \in {"inside", "store", "release"}
Taking(r, k) == keyOf[r] = k /\ stage[r] = "put"

LockInv ==
    \A k \in Keys : k \notin raced \cup expired =>
        /\ \A r \in Requests : Holding(r, k) => k \in locks
        /\ \A r \in Requests : Taking(r, k) => k \notin locks
        /\ \A r, s \in Requests : Holding(r, k) /\ Holding(s, k) => r = s

Early == {"absent", "draft", "quoted"}

\* Where a handler is says what it does and what it has seen.
LocalInv ==
    \A r \in Requests :
        /\ pc[r] # "idle" => on[r] \in Ids
        /\ pc[r] \in {"insert", "travellers"} => op[r] = "create"
        /\ pc[r] \in {"find", "read", "write", "history"} => op[r] \in Operations
        /\ pc[r] \in {"read", "write", "history"} => target[r] \notin Early
        /\ pc[r] \in {"line", "allocation"} => op[r] = "confirm" /\ line[r] \in 1..Lines
        /\ stage[r] \in {"cache", "lock", "put", "store", "release"} => keyOf[r] \in Keys
        /\ stage[r] \in {"cache", "lock", "put", "inside"} /\ keyOf[r] \in Keys =>
              op[r] = "confirm" /\ keyOf[r][1] = on[r]

Charged(b) == \A i \in 1..Lines : charges[b][i] > 0 /\ allocations[b][i] > 0

\* What a confirmation has inserted so far.
ProgressInv ==
    \A r \in Requests :
        /\ pc[r] \in {"line", "allocation"} =>
              \A i \in 1..Lines : i < line[r] =>
                  charges[on[r]][i] > 0 /\ allocations[on[r]][i] > 0
        /\ pc[r] = "allocation" => charges[on[r]][line[r]] > 0
        /\ pc[r] = "done" /\ op[r] = "confirm" => Charged(on[r])
        /\ stage[r] = "store" => Charged(keyOf[r][1])

ReplayInv == \A k \in cached : Charged(k[1])

Works(r, b) == on[r] = b /\ pc[r] # "idle"

NoneFrom(b, m, n) == \A i \in 1..Lines : /\ i >= m => charges[b][i] = 0
                                         /\ i >= n => allocations[b][i] = 0

\* What is not inserted yet, of a booking one request at a time works on.
Once(b) ==
    /\ \A r, s \in Requests : Works(r, b) /\ Works(s, b) => r = s
    /\ status[b] \in Early => NoneFrom(b, 1, 1)
    /\ \A i \in 1..Lines : charges[b][i] <= 1 /\ allocations[b][i] <= 1
    /\ \A r \in Requests : on[r] = b =>
          /\ pc[r] = "insert" => NoneFrom(b, 1, 1)
          /\ pc[r] \in {"read", "write", "history"} /\ op[r] = "confirm" => NoneFrom(b, 1, 1)
          /\ pc[r] \in {"history", "line", "allocation"} => status[b] \notin Early
          /\ pc[r] = "line" => NoneFrom(b, line[r], line[r])
          /\ pc[r] = "allocation" => NoneFrom(b, line[r] + 1, line[r])

OnceInv == \A b \in Ids : b \notin overlapped => Once(b)

Inv == TypeOK /\ LockInv /\ LocalInv /\ ProgressInv /\ ReplayInv /\ OnceInv

-----------------------------------------------------------------------------
LEMMA OperationsAre ==
    /\ Operations = {"confirm", "accept", "hold", "reject", "force", "cancel", "capture"}
    /\ \A o \in Operations : Sets[o] \in Statuses \ Early
    /\ Allowed["confirm"] \subseteq Early
BY DEF Operations, Allowed, Sets, Statuses, Early

LEMMA KeysArePairs ==
    /\ NoKey \notin Keys
    /\ \A k \in Keys : k[1] \in Ids
    /\ \A b \in Ids, h \in Headers : <<b, h>> \in Keys
BY KeysAssumption, BookingsAssumption

-----------------------------------------------------------------------------
LEMMA InitInv == Init => Inv
<1> SUFFICES ASSUME Init PROVE Inv
  OBVIOUS
<1> USE KeysAssumption, BookingsAssumption DEF Init, IdemInit
<1>1. TypeOK
  BY DEF TypeOK, IdemTypeOK, Stages, Statuses, Steps
<1>2. LockInv /\ LocalInv
  BY DEF LockInv, Holding, Taking, LocalInv
<1>3. ProgressInv /\ ReplayInv
  BY DEF ProgressInv, ReplayInv
<1>4. OnceInv
  BY DEF OnceInv, Once, Works, NoneFrom
<1> QED  BY <1>1, <1>2, <1>3, <1>4 DEF Inv

-----------------------------------------------------------------------------
(* Types *)

LEMMA CountedTyped ==
    ASSUME NEW f \in [Ids -> [1..Lines -> Nat]], NEW b \in Ids, NEW i \in 1..Lines
    PROVE  [f EXCEPT ![b][i] = @ + 1] \in [Ids -> [1..Lines -> Nat]]
<1>1. [f[b] EXCEPT ![i] = f[b][i] + 1] \in [1..Lines -> Nat]
  <2>1. f[b] \in [1..Lines -> Nat]
    OBVIOUS
  <2> QED  BY <2>1
<1> QED  BY <1>1

\* The middleware's own variables after a handler returns.
LEMMA LeaveTyped ==
    ASSUME IdemTypeOK, LocalInv, NEW r \in Requests, NEW ok \in BOOLEAN, Leave(r, ok)
    PROVE  IdemTypeOK'
<1>1. answered' \in [Requests -> BOOLEAN]
  BY Zenon DEF IdemTypeOK, Leave
<1>2. stage' \in [Requests -> Stages]
  BY DEF IdemTypeOK, Leave, Move, Stages
<1> QED  BY <1>1, <1>2 DEF IdemTypeOK, Leave

LEMMA CallTyped ==
    ASSUME TypeOK, NEW r \in Requests, NEW o \in Operations \cup {"create"}, NEW b \in Ids,
           NEW h \in Headers, Call(r, o, b, h)
    PROVE  TypeOK'
<1>1. IdemTypeOK'
  BY KeysArePairs DEF TypeOK, IdemTypeOK, Call, Enter, Move, Stages
<1>2. pc' \in [Requests -> Steps \cup {"idle"}]
  BY DEF TypeOK, Call, Steps
<1>3. calls' \in 0..MaxCalls
  BY BookingsAssumption DEF TypeOK, Call
<1>4. /\ op' \in [Requests -> Operations \cup {"create"}]
      /\ on' \in [Requests -> Ids \cup {NoBooking}] /\ overlapped' \subseteq Ids
  BY DEF TypeOK, Call
<1>5. UNCHANGED <<rowVars, chargeVars, target, seen, line, cut, faults>>
  BY DEF Call
<1> QED  BY <1>1, <1>2, <1>3, <1>4, <1>5 DEF TypeOK, rowVars, chargeVars

LEMMA HandleTyped == ASSUME TypeOK, LocalInv, NEW r \in Requests, Handle(r) PROVE TypeOK'
<1> USE BookingsAssumption DEF TypeOK, IdemTypeOK, Goto, idemVars, rowVars, chargeVars, handlerVars,
        histVars, countVars, Steps, LocalInv
<1>1. ASSUME InsertDraft(r) PROVE TypeOK'
  BY <1>1 DEF InsertDraft, Statuses
<1>2. ASSUME InsertTravellers(r) PROVE TypeOK'
  BY <1>2 DEF InsertTravellers
<1>3. ASSUME Find(r) PROVE TypeOK'
  BY <1>3, OperationsAre DEF Find
<1>4. ASSUME ReadStatus(r) PROVE TypeOK'
  BY <1>4 DEF ReadStatus
<1>5. ASSUME WriteStatus(r) PROVE TypeOK'
  BY <1>5 DEF WriteStatus
<1>6. ASSUME AddHistory(r) PROVE TypeOK'
  BY <1>6 DEF AddHistory, Statuses
<1>7. ASSUME InsertLine(r) PROVE TypeOK'
  <2>1. charges' \in [Ids -> [1..Lines -> Nat]]
    BY <1>7, CountedTyped DEF InsertLine
  <2> QED  BY <1>7, <2>1 DEF InsertLine
<1>8. ASSUME InsertAllocation(r) PROVE TypeOK'
  <2>1. allocations' \in [Ids -> [1..Lines -> Nat]]
    BY <1>8, CountedTyped DEF InsertAllocation
  <2>2. pc' \in [Requests -> Steps \cup {"idle"}] /\ line' \in [Requests -> Nat]
    BY <1>8 DEF InsertAllocation
  <2>3. UNCHANGED <<idemVars, rowVars, charges, op, on, target, seen, histVars, countVars>>
    BY <1>8 DEF InsertAllocation
  <2> QED  BY <2>1, <2>2, <2>3
<1>9. ASSUME Return(r) \/ Refuse(r) PROVE TypeOK'
  <2>1. IdemTypeOK'
    BY <1>9, LeaveTyped DEF Return, Refuse
  <2> QED  BY <1>9, <2>1 DEF Return, Refuse
<1>10. ASSUME Throw(r) PROVE TypeOK'
  <2>1. IdemTypeOK'
    BY <1>10, LeaveTyped DEF Throw
  <2>2. cut' \subseteq Ids
    BY <1>10 DEF Throw, CutAt
  <2>3. faults' \in 0..MaxFaults /\ pc' \in [Requests -> Steps \cup {"idle"}]
    BY <1>10 DEF Throw, Fault
  <2>4. UNCHANGED <<rowVars, chargeVars, handlerVars, overlapped, calls>>
    BY <1>10 DEF Throw
  <2> QED  BY <2>1, <2>2, <2>3, <2>4
<1> QED
  BY <1>1, <1>2, <1>3, <1>4, <1>5, <1>6, <1>7, <1>8, <1>9, <1>10, Zenon DEF Handle

LEMMA OtherTyped ==
    ASSUME TypeOK, LocalInv,
           \/ \E r \in Requests : Middleware(r) \/ Evict(r)
           \/ \E k \in Keys : Expire(k)
           \/ \E b \in Ids : Checkout(b)
    PROVE  TypeOK'
<1> USE BookingsAssumption DEF TypeOK, IdemTypeOK, idemVars, rowVars, chargeVars, handlerVars,
        histVars, countVars, Move, Stages
<1>1. ASSUME NEW r \in Requests, Middleware(r) PROVE TypeOK'
  <2>1. IdemTypeOK'
    <3> USE <1>1 DEF LocalInv
    <3>1. CASE GetCached(r) \/ GetLock(r)
      BY <3>1 DEF GetCached, GetLock
    <3>2. CASE PutLock(r)
      BY <3>2 DEF PutLock
    <3>3. CASE StoreAnswer(r)
      BY <3>3 DEF StoreAnswer
    <3>4. CASE StoreFails(r) \/ ReleaseLock(r)
      BY <3>4 DEF StoreFails, ReleaseLock
    <3> QED  BY <3>1, <3>2, <3>3, <3>4 DEF Middleware, Wrap
  <2>2. pc' \in [Requests -> Steps \cup {"idle"}]
    BY <1>1 DEF Middleware, Steps
  <2> QED  BY <1>1, <2>1, <2>2 DEF Middleware
<1>2. ASSUME NEW r \in Requests, Evict(r) PROVE TypeOK'
  <2>1. cut' \subseteq Ids
    BY <1>2 DEF Evict, CutAt, LocalInv, Steps
  <2>2. faults' \in 0..MaxFaults /\ pc' \in [Requests -> Steps \cup {"idle"}]
    BY <1>2 DEF Evict, Fault
  <2>3. IdemTypeOK'
    BY <1>2 DEF Evict, CutShort
  <2> QED  BY <1>2, <2>1, <2>2, <2>3 DEF Evict
<1>3. ASSUME NEW k \in Keys, Expire(k) PROVE TypeOK'
  BY <1>3 DEF Expire, ExpireLock, ExpireAnswer, Fault
<1>4. ASSUME NEW b \in Ids, Checkout(b) PROVE TypeOK'
  BY <1>4 DEF Checkout
<1> QED  BY <1>1, <1>2, <1>3, <1>4

-----------------------------------------------------------------------------
(* Locks *)

\* What a step is to the middleware.
IdemStep ==
    \/ \E r \in Requests :
          \/ \E k \in Keys \cup {NoKey} : Enter(r, k)
          \/ \E ok \in BOOLEAN : Leave(r, ok)
          \/ Wrap(r) \/ CutShort(r)
    \/ \E k \in Keys : ExpireLock(k) \/ ExpireAnswer(k)
    \/ UNCHANGED idemVars

LEMMA NextIsIdemStep == ASSUME Next PROVE IdemStep
<1>1. ASSUME NEW r \in Requests, NEW o \in Operations \cup {"create"}, NEW b \in Ids,
             NEW h \in Headers, Call(r, o, b, h)
      PROVE  IdemStep
  <2>1. \E k \in Keys \cup {NoKey} : Enter(r, k)
    BY <1>1, KeysArePairs DEF Call
  <2> QED  BY <2>1 DEF IdemStep
<1>2. ASSUME NEW r \in Requests, Handle(r) PROVE IdemStep
  <2>1. CASE Return(r) \/ Refuse(r) \/ Throw(r)
    <3>1. \E ok \in BOOLEAN : Leave(r, ok)
      BY <2>1, Zenon DEF Return, Refuse, Throw
    <3> QED  BY <3>1 DEF IdemStep
  <2>2. CASE ~(Return(r) \/ Refuse(r) \/ Throw(r))
    <3>1. UNCHANGED idemVars
      BY <1>2, <2>2 DEF Handle, InsertDraft, InsertTravellers, Find, ReadStatus, WriteStatus,
         AddHistory, InsertLine, InsertAllocation, Goto
    <3> QED  BY <3>1 DEF IdemStep
  <2> QED  BY <2>1, <2>2
<1>3. ASSUME NEW r \in Requests, Middleware(r) \/ Evict(r) PROVE IdemStep
  BY <1>3 DEF Middleware, Evict, IdemStep
<1>4. ASSUME NEW k \in Keys, Expire(k) PROVE IdemStep
  BY <1>4 DEF Expire, IdemStep
<1>5. ASSUME NEW b \in Ids, Checkout(b) PROVE IdemStep
  BY <1>5 DEF Checkout, IdemStep
<1> QED  BY <1>1, <1>2, <1>3, <1>4, <1>5, Zenon DEF Next

LEMMA StepLocks == ASSUME IdemTypeOK, LockInv, IdemStep PROVE LockInv'
<1> USE KeysAssumption DEF IdemTypeOK, LockInv, Holding, Taking, Move
<1>1. ASSUME NEW r \in Requests, NEW k \in Keys \cup {NoKey}, Enter(r, k) PROVE LockInv'
  BY <1>1 DEF Enter
<1>2. ASSUME NEW r \in Requests, NEW ok \in BOOLEAN, Leave(r, ok) PROVE LockInv'
  BY <1>2 DEF Leave
<1>3. ASSUME NEW r \in Requests, GetCached(r) \/ GetLock(r) PROVE LockInv'
  BY <1>3 DEF GetCached, GetLock
<1>4. ASSUME NEW r \in Requests, PutLock(r) PROVE LockInv'
  <2> SUFFICES ASSUME NEW k \in Keys, k \notin raced' \cup expired'
               PROVE  /\ \A q \in Requests : Holding(q, k)' => k \in locks'
                      /\ \A q \in Requests : Taking(q, k)' => k \notin locks'
                      /\ \A p, q \in Requests : Holding(p, k)' /\ Holding(q, k)' => p = q
    OBVIOUS
  <2>1. k \notin raced \cup expired
    BY <1>4 DEF PutLock
  <2>2. CASE keyOf[r] # k
    BY <1>4, <2>1, <2>2 DEF PutLock
  <2>3. CASE keyOf[r] = k
    <3>1. \A q \in Requests : Taking(q, k) => q = r
      BY <1>4, <2>3 DEF PutLock, Takers
    <3>2. \A q \in Requests : ~Holding(q, k)
      BY <1>4, <2>1, <2>3 DEF PutLock
    <3> QED  BY <1>4, <2>3, <3>1, <3>2 DEF PutLock
  <2> QED  BY <2>2, <2>3
<1>5. ASSUME NEW r \in Requests, StoreAnswer(r) \/ StoreFails(r) \/ CutShort(r) PROVE LockInv'
  BY <1>5 DEF StoreAnswer, StoreFails, CutShort
<1>6. ASSUME NEW r \in Requests, ReleaseLock(r) PROVE LockInv'
  BY <1>6 DEF ReleaseLock
<1>7. ASSUME NEW k \in Keys, ExpireLock(k) \/ ExpireAnswer(k) PROVE LockInv'
  BY <1>7 DEF ExpireLock, ExpireAnswer
<1>8. ASSUME UNCHANGED idemVars PROVE LockInv'
  BY <1>8 DEF idemVars
<1> QED  BY <1>1, <1>2, <1>3, <1>4, <1>5, <1>6, <1>7, <1>8, Zenon DEF IdemStep, Wrap

-----------------------------------------------------------------------------
(* What a handler knows *)

LEMMA CallLocal ==
    ASSUME TypeOK, LocalInv, NEW r \in Requests, NEW o \in Operations \cup {"create"},
           NEW b \in Ids, NEW h \in Headers, Call(r, o, b, h)
    PROVE  LocalInv'
<1>1. <<b, h>> \in Keys /\ NoKey \notin Keys /\ <<b, h>>[1] = b
  BY KeysArePairs
<1> QED
  BY <1>1, OperationsAre DEF TypeOK, IdemTypeOK, LocalInv, Call, Enter, Move

LEMMA HandleLocal == ASSUME TypeOK, LocalInv, NEW r \in Requests, Handle(r) PROVE LocalInv'
<1> USE BookingsAssumption DEF TypeOK, IdemTypeOK, LocalInv, Goto, idemVars, handlerVars
<1>1. ASSUME InsertDraft(r) \/ InsertTravellers(r) PROVE LocalInv'
  BY <1>1 DEF InsertDraft, InsertTravellers
<1>2. ASSUME Find(r) PROVE LocalInv'
  BY <1>2, OperationsAre DEF Find
<1>3. ASSUME ReadStatus(r) \/ WriteStatus(r) PROVE LocalInv'
  BY <1>3 DEF ReadStatus, WriteStatus
<1>4. ASSUME AddHistory(r) PROVE LocalInv'
  BY <1>4 DEF AddHistory, Early
<1>5. ASSUME InsertLine(r) PROVE LocalInv'
  BY <1>5 DEF InsertLine
<1>6. ASSUME InsertAllocation(r) PROVE LocalInv'
  <2>1. pc[r] = "allocation" /\ op[r] = "confirm" /\ line[r] \in 1..Lines
    BY <1>6 DEF InsertAllocation
  <2>2. pc'[r] = "line" => line'[r] \in 1..Lines
    BY <1>6, <2>1 DEF InsertAllocation
  <2> QED  BY <1>6, <2>1, <2>2 DEF InsertAllocation
<1>7. ASSUME Return(r) \/ Refuse(r) \/ Throw(r) PROVE LocalInv'
  BY <1>7 DEF Return, Refuse, Throw, Leave, Move
<1> QED  BY <1>1, <1>2, <1>3, <1>4, <1>5, <1>6, <1>7, Zenon DEF Handle

\* The other steps move a request through the middleware or end it.
LEMMA OtherLocal ==
    ASSUME TypeOK, LocalInv,
           \/ \E r \in Requests : Middleware(r) \/ Evict(r)
           \/ \E k \in Keys : Expire(k)
           \/ \E b \in Ids : Checkout(b)
    PROVE  LocalInv'
<1> USE DEF TypeOK, IdemTypeOK, LocalInv, idemVars, handlerVars, Move
<1>1. ASSUME NEW r \in Requests, Middleware(r) PROVE LocalInv'
  BY <1>1 DEF Middleware, Wrap, GetCached, GetLock, PutLock, StoreAnswer, StoreFails, ReleaseLock
<1>2. ASSUME NEW r \in Requests, Evict(r) PROVE LocalInv'
  BY <1>2 DEF Evict, CutShort
<1>3. ASSUME \/ \E k \in Keys : Expire(k)
             \/ \E b \in Ids : Checkout(b)
      PROVE  LocalInv'
  BY <1>3 DEF Expire, ExpireLock, ExpireAnswer, Checkout
<1> QED  BY <1>1, <1>2, <1>3

-----------------------------------------------------------------------------
(* Charges inserted *)

LEMMA CountedAt ==
    ASSUME NEW f \in [Ids -> [1..Lines -> Nat]], NEW b \in Ids, NEW i \in 1..Lines,
           NEW c \in Ids, NEW j \in 1..Lines
    PROVE  [f EXCEPT ![b][i] = @ + 1][c][j] = IF c = b /\ j = i THEN f[c][j] + 1 ELSE f[c][j]
<1>1. f[b] \in [1..Lines -> Nat]
  OBVIOUS
<1>2. [f EXCEPT ![b][i] = @ + 1][c] = IF c = b THEN [f[b] EXCEPT ![i] = @ + 1] ELSE f[c]
  OBVIOUS
<1>3. [f[b] EXCEPT ![i] = @ + 1][j] = IF j = i THEN f[b][j] + 1 ELSE f[b][j]
  BY <1>1
<1> QED  BY <1>2, <1>3

\* What the two inserts do to a row.
LEMMA LineInserted ==
    ASSUME TypeOK, LocalInv, NEW r \in Requests, InsertLine(r)
    PROVE  /\ \A b \in Ids, i \in 1..Lines :
                 charges'[b][i] = IF b = on[r] /\ i = line[r] THEN charges[b][i] + 1
                                                             ELSE charges[b][i]
           /\ UNCHANGED <<allocations, status, op, on, line>>
           /\ pc[r] = "line" /\ pc' = [pc EXCEPT ![r] = "allocation"]
<1>1. on[r] \in Ids /\ line[r] \in 1..Lines
  BY DEF LocalInv, InsertLine, Goto
<1>2. charges' = [charges EXCEPT ![on[r]][line[r]] = @ + 1] /\ charges \in [Ids -> [1..Lines -> Nat]]
  BY DEF InsertLine, TypeOK
<1> QED  BY <1>1, <1>2, CountedAt DEF InsertLine, Goto, rowVars, handlerVars

LEMMA AllocationInserted ==
    ASSUME TypeOK, LocalInv, NEW r \in Requests, InsertAllocation(r)
    PROVE  /\ \A b \in Ids, i \in 1..Lines :
                 allocations'[b][i] = IF b = on[r] /\ i = line[r] THEN allocations[b][i] + 1
                                                                 ELSE allocations[b][i]
           /\ UNCHANGED <<charges, status, op, on>>
           /\ pc[r] = "allocation"
           /\ pc' = [pc EXCEPT ![r] = IF line[r] < Lines THEN "line" ELSE "done"]
           /\ line' = [line EXCEPT ![r] = IF @ < Lines THEN @ + 1 ELSE @]
<1>1. on[r] \in Ids /\ line[r] \in 1..Lines
  BY DEF LocalInv, InsertAllocation, Goto
<1>2. /\ allocations' = [allocations EXCEPT ![on[r]][line[r]] = @ + 1]
      /\ allocations \in [Ids -> [1..Lines -> Nat]]
  BY DEF InsertAllocation, TypeOK
<1> QED  BY <1>1, <1>2, CountedAt DEF InsertAllocation, Goto, rowVars

LEMMA NextTyped == ASSUME TypeOK, LocalInv, Next PROVE TypeOK'
BY CallTyped, HandleTyped, OtherTyped, Zenon DEF Next

LEMMA CountsAreNumbers ==
    ASSUME TypeOK
    PROVE  \A b \in Ids, i \in 1..Lines : charges[b][i] \in Nat /\ allocations[b][i] \in Nat
BY DEF TypeOK

LEMMA OnlyInsertsCharge ==
    ASSUME Next, ~\E r \in Requests : InsertLine(r) \/ InsertAllocation(r)
    PROVE  UNCHANGED chargeVars
<1>1. ASSUME NEW r \in Requests, Handle(r) PROVE UNCHANGED chargeVars
  BY <1>1 DEF Handle, InsertDraft, InsertTravellers, Find, ReadStatus, WriteStatus, AddHistory,
     Return, Refuse, Throw
<1>2. ASSUME NEW r \in Requests, Middleware(r) \/ Evict(r) PROVE UNCHANGED chargeVars
  BY <1>2 DEF Middleware, Evict
<1>3. ASSUME NEW r \in Requests, NEW o, NEW b, NEW h, Call(r, o, b, h) PROVE UNCHANGED chargeVars
  BY <1>3 DEF Call
<1>4. ASSUME NEW k \in Keys, Expire(k) PROVE UNCHANGED chargeVars
  BY <1>4 DEF Expire
<1>5. ASSUME NEW b \in Ids, Checkout(b) PROVE UNCHANGED chargeVars
  BY <1>5 DEF Checkout
<1> QED  BY <1>1, <1>2, <1>3, <1>4, <1>5, Zenon DEF Next

\* Nothing takes a charge or an allocation back.
LEMMA ChargesStay ==
    ASSUME TypeOK, LocalInv, Next
    PROVE  \A b \in Ids, i \in 1..Lines : /\ charges'[b][i] >= charges[b][i]
                                         /\ allocations'[b][i] >= allocations[b][i]
<1> USE CountsAreNumbers
<1>1. ASSUME NEW r \in Requests, InsertLine(r)
      PROVE  \A b \in Ids, i \in 1..Lines : /\ charges'[b][i] >= charges[b][i]
                                           /\ allocations'[b][i] >= allocations[b][i]
  BY <1>1, LineInserted
<1>2. ASSUME NEW r \in Requests, InsertAllocation(r)
      PROVE  \A b \in Ids, i \in 1..Lines : /\ charges'[b][i] >= charges[b][i]
                                           /\ allocations'[b][i] >= allocations[b][i]
  BY <1>2, AllocationInserted
<1>3. CASE ~\E r \in Requests : InsertLine(r) \/ InsertAllocation(r)
  <2>1. UNCHANGED chargeVars
    BY <1>3, OnlyInsertsCharge
  <2> QED  BY <2>1 DEF chargeVars
<1> QED  BY <1>1, <1>2, <1>3, Zenon

\* What has been inserted stays inserted.
LEMMA ChargedStays ==
    ASSUME TypeOK, LocalInv, Next, NEW b \in Ids, NEW i \in 1..Lines
    PROVE  /\ charges[b][i] > 0 => charges'[b][i] > 0
           /\ allocations[b][i] > 0 => allocations'[b][i] > 0
<1>1. TypeOK'
  BY NextTyped
<1>2. charges'[b][i] \in Nat /\ allocations'[b][i] \in Nat
  BY <1>1 DEF TypeOK
<1>3. charges'[b][i] >= charges[b][i] /\ allocations'[b][i] >= allocations[b][i]
  BY ChargesStay
<1> QED  BY <1>2, <1>3, CountsAreNumbers

\* Progress of one request, and of those that an insert of r leaves alone.
Progress(r) ==
    /\ pc[r] \in {"line", "allocation"} =>
          \A i \in 1..Lines : i < line[r] =>
              charges[on[r]][i] > 0 /\ allocations[on[r]][i] > 0
    /\ pc[r] = "allocation" => charges[on[r]][line[r]] > 0
    /\ pc[r] = "done" /\ op[r] = "confirm" => Charged(on[r])
    /\ stage[r] = "store" => Charged(keyOf[r][1])

LEMMA SameProgress ==
    ASSUME TypeOK, LocalInv, Next, NEW q \in Requests, Progress(q),
           UNCHANGED <<pc[q], line[q], on[q], op[q], stage[q], keyOf[q]>>
    PROVE  Progress(q)'
<1>1. \A b \in Ids : Charged(b) => Charged(b)'
  BY ChargedStays DEF Charged
<1>2. pc[q] # "idle" => on[q] \in Ids
  BY DEF LocalInv
<1>3. pc[q] \in {"line", "allocation"} => line[q] \in 1..Lines
  BY DEF LocalInv
<1>4. stage[q] = "store" => keyOf[q][1] \in Ids
  BY KeysArePairs DEF LocalInv
<1>5. (pc[q] \in {"line", "allocation"} =>
          \A i \in 1..Lines : i < line[q] =>
              charges[on[q]][i] > 0 /\ allocations[on[q]][i] > 0)'
  BY <1>2, ChargedStays DEF Progress
<1>6. (pc[q] = "allocation" => charges[on[q]][line[q]] > 0)'
  BY <1>2, <1>3, ChargedStays DEF Progress
<1>7. (pc[q] = "done" /\ op[q] = "confirm" => Charged(on[q]))'
  BY <1>1, <1>2 DEF Progress
<1>8. (stage[q] = "store" => Charged(keyOf[q][1]))'
  BY <1>1, <1>4 DEF Progress
<1> QED  BY <1>5, <1>6, <1>7, <1>8 DEF Progress

LEMMA InsertProgress ==
    ASSUME TypeOK, LocalInv, ProgressInv, Next, NEW r \in Requests,
           InsertLine(r) \/ InsertAllocation(r)
    PROVE  ProgressInv'
<1> DEFINE UpTo(n, c, a) == \A i \in 1..Lines : i < n => c[on[r]][i] > 0 /\ a[on[r]][i] > 0
<1>1. /\ pc[r] \in {"line", "allocation"} /\ on[r] \in Ids /\ line[r] \in 1..Lines
      /\ UpTo(line[r], charges, allocations) /\ Progress(r)
      /\ stage[r] = "inside"
  BY DEF InsertLine, InsertAllocation, Goto, LocalInv, ProgressInv, Progress
<1>2. \A q \in Requests : q # r => UNCHANGED <<pc[q], line[q], on[q], op[q], stage[q], keyOf[q]>>
  BY DEF InsertLine, InsertAllocation, Goto, TypeOK, handlerVars, idemVars
<1>3. \A q \in Requests : q # r => Progress(q)'
  BY <1>2, SameProgress DEF ProgressInv, Progress
<1>4. UNCHANGED <<stage, on>>
  BY DEF InsertLine, InsertAllocation, Goto, handlerVars, idemVars
<1>5. UpTo(line[r], charges', allocations')
  BY <1>1, ChargedStays
<1>6. Progress(r)'
  <2>1. CASE InsertLine(r)
    <3>1. charges'[on[r]][line[r]] > 0
      BY <1>1, <2>1, LineInserted, CountsAreNumbers
    <3>2. pc'[r] = "allocation" /\ line'[r] = line[r]
      BY <2>1, LineInserted DEF TypeOK
    <3> QED  BY <1>1, <1>4, <1>5, <3>1, <3>2 DEF Progress
  <2>2. CASE InsertAllocation(r)
    <3>1. allocations'[on[r]][line[r]] > 0
      BY <1>1, <2>2, AllocationInserted, CountsAreNumbers
    <3>2. charges'[on[r]][line[r]] > 0
      BY <1>1, <2>2, ChargedStays DEF InsertAllocation, Goto, Progress
    <3>3. UpTo(line[r] + 1, charges', allocations')
      BY <1>1, <1>5, <3>1, <3>2
    <3>4. /\ pc'[r] = IF line[r] < Lines THEN "line" ELSE "done"
          /\ line'[r] = IF line[r] < Lines THEN line[r] + 1 ELSE line[r]
      BY <2>2, AllocationInserted DEF TypeOK
    <3>5. CASE line[r] < Lines
      BY <1>1, <1>4, <3>3, <3>4, <3>5 DEF Progress
    <3>6. CASE line[r] = Lines
      <4>1. Charged(on[r])'
        BY <1>1, <1>4, <3>3, <3>6 DEF Charged
      <4> QED  BY <1>1, <1>4, <3>4, <3>6, <4>1 DEF Progress
    <3> QED  BY <1>1, <3>5, <3>6, BookingsAssumption
  <2> QED  BY <2>1, <2>2
<1> QED  BY <1>3, <1>6 DEF ProgressInv, Progress

LEMMA StepProgress == ASSUME TypeOK, LocalInv, ProgressInv, Next PROVE ProgressInv'
<1> DEFINE Inserts == \E r \in Requests : InsertLine(r) \/ InsertAllocation(r)
<1>1. CASE ~Inserts
  <2>1. UNCHANGED chargeVars
    BY <1>1, OnlyInsertsCharge
  <2>2. \A b : Charged(b)' <=> Charged(b)
    BY <2>1 DEF Charged, chargeVars
  <2> USE <2>1, <2>2 DEF ProgressInv, chargeVars, TypeOK, IdemTypeOK, idemVars, handlerVars, Move, Goto
  <2>3. ASSUME NEW r \in Requests, NEW o \in Operations \cup {"create"}, NEW b \in Ids,
               NEW h \in Headers, Call(r, o, b, h)
        PROVE  ProgressInv'
    BY <2>3 DEF Call, Enter
  <2>4. ASSUME NEW r \in Requests, InsertDraft(r) \/ InsertTravellers(r) PROVE ProgressInv'
    BY <2>4 DEF InsertDraft, InsertTravellers, LocalInv
  <2>5. ASSUME NEW r \in Requests, Find(r) \/ ReadStatus(r) PROVE ProgressInv'
    BY <2>5 DEF Find, ReadStatus
  <2>6. ASSUME NEW r \in Requests, WriteStatus(r) PROVE ProgressInv'
    BY <2>6 DEF WriteStatus
  <2>7. ASSUME NEW r \in Requests, AddHistory(r) PROVE ProgressInv'
    <3>1. pc'[r] = "line" => line'[r] = 1
      BY <2>7 DEF AddHistory
    <3>2. pc'[r] = "done" /\ op[r] = "confirm" => Lines = 0
      BY <2>7, BookingsAssumption DEF AddHistory
    <3> QED  BY <2>7, <3>1, <3>2 DEF AddHistory, Charged
  <2>8. ASSUME NEW r \in Requests, Return(r) PROVE ProgressInv'
    BY <2>8 DEF Return, Leave, LocalInv
  <2>9. ASSUME NEW r \in Requests, Refuse(r) \/ Throw(r) PROVE ProgressInv'
    BY <2>9 DEF Refuse, Throw, Leave
  <2>10. ASSUME NEW r \in Requests, Middleware(r) PROVE ProgressInv'
    BY <2>10 DEF Middleware, Wrap, GetCached, GetLock, PutLock, StoreAnswer, StoreFails, ReleaseLock
  <2>11. ASSUME NEW r \in Requests, Evict(r) PROVE ProgressInv'
    BY <2>11 DEF Evict, CutShort
  <2>12. ASSUME \/ \E k \in Keys : Expire(k)
                \/ \E b \in Ids : Checkout(b)
         PROVE  ProgressInv'
    BY <2>12 DEF Expire, ExpireLock, ExpireAnswer, Checkout
  <2> QED
    BY <1>1, <2>3, <2>4, <2>5, <2>6, <2>7, <2>8, <2>9, <2>10, <2>11, <2>12, Zenon
    DEF Next, Handle
<1> QED  BY <1>1, InsertProgress

\* An answer is cached by a request whose handler has charged the booking.
LEMMA StepReplay ==
    ASSUME TypeOK, LocalInv, ProgressInv, ReplayInv, Next PROVE ReplayInv'
<1>1. \A b \in Ids : Charged(b) => Charged(b)'
  BY ChargedStays DEF Charged
<1>2. ASSUME NEW k \in cached' PROVE k \in cached \/ (k \in Keys /\ Charged(k[1]))
  <2>1. IdemStep
    BY NextIsIdemStep
  <2>2. CASE \E r \in Requests : StoreAnswer(r)
    BY <1>2, <2>2 DEF StoreAnswer, Move, ProgressInv, LocalInv
  <2>3. CASE ~\E r \in Requests : StoreAnswer(r)
    BY <1>2, <2>1, <2>3 DEF IdemStep, Enter, Leave, Wrap, GetCached, GetLock, PutLock, StoreFails,
       ReleaseLock, CutShort, ExpireLock, ExpireAnswer, idemVars
  <2> QED  BY <2>2, <2>3
<1>3. \A k \in cached : k \in Keys
  BY DEF TypeOK, IdemTypeOK
<1> QED  BY <1>1, <1>2, <1>3, KeysArePairs DEF ReplayInv

-----------------------------------------------------------------------------
(* Charged once *)

LEMMA CallOnce ==
    ASSUME TypeOK, LocalInv, OnceInv, NEW r \in Requests, NEW o \in Operations \cup {"create"},
           NEW b \in Ids, NEW h \in Headers, Call(r, o, b, h)
    PROVE  OnceInv'
<1> SUFFICES ASSUME NEW c \in Ids, c \notin overlapped' PROVE Once(c)'
  BY DEF OnceInv
<1>1. c \notin overlapped /\ Once(c)
  BY DEF Call, OnceInv
<1>2. /\ UNCHANGED <<status, charges, allocations, line>>
      /\ pc[r] = "idle" /\ pc' = [pc EXCEPT ![r] = IF o = "create" THEN "insert" ELSE "find"]
      /\ op' = [op EXCEPT ![r] = o] /\ on' = [on EXCEPT ![r] = b]
      /\ o = "create" => status[b] = "absent"
      /\ c = b => \A q \in Requests : ~Works(q, b)
  BY DEF Call, rowVars, chargeVars, WorkingOn, Works
<1>3. \A q \in Requests : q # r =>
         pc'[q] = pc[q] /\ on'[q] = on[q] /\ op'[q] = op[q] /\ line'[q] = line[q]
  BY <1>2 DEF TypeOK
<1>4. on'[r] = b /\ pc'[r] = IF o = "create" THEN "insert" ELSE "find"
  BY <1>2 DEF TypeOK
<1>5. \A m, n : NoneFrom(c, m, n)' <=> NoneFrom(c, m, n)
  BY <1>2 DEF NoneFrom
<1>6. \A p, q \in Requests : Works(p, c)' /\ Works(q, c)' => p = q
  BY <1>1, <1>2, <1>3, <1>4 DEF Once, Works
<1>7. on'[r] = c /\ pc'[r] = "insert" => NoneFrom(c, 1, 1)
  BY <1>1, <1>2, <1>4 DEF Once, Early
<1> QED  BY <1>1, <1>2, <1>3, <1>4, <1>5, <1>6, <1>7 DEF Once

\* Steps of a handler that write neither a row nor a charge.
LEMMA QuietOnce ==
    ASSUME TypeOK, LocalInv, OnceInv, NEW r \in Requests, InsertTravellers(r) \/ Find(r) \/ ReadStatus(r)
    PROVE  OnceInv'
<1> SUFFICES ASSUME NEW c \in Ids, c \notin overlapped PROVE Once(c)'
  BY DEF OnceInv, InsertTravellers, Find, ReadStatus, Goto, histVars
<1>1. Once(c)
  BY DEF OnceInv
<1>2. /\ UNCHANGED <<status, charges, allocations, line, on, op>>
      /\ pc[r] \in {"travellers", "find", "read"}
      /\ \/ pc' = [pc EXCEPT ![r] = "done"]
         \/ pc' = [pc EXCEPT ![r] = "read"] /\ status[on[r]] \in Allowed[op[r]]
         \/ pc' = [pc EXCEPT ![r] = "write"] /\ pc[r] = "read"
         \/ pc' = [pc EXCEPT ![r] = "write"] /\ status[on[r]] \in Allowed[op[r]]
  BY DEF InsertTravellers, Find, ReadStatus, Goto, rowVars, chargeVars, handlerVars
<1>3. \A m, n : NoneFrom(c, m, n)' <=> NoneFrom(c, m, n)
  BY <1>2 DEF NoneFrom
<1>4. on[r] = c /\ pc'[r] \in {"read", "write"} /\ op[r] = "confirm" => NoneFrom(c, 1, 1)
  <2>1. on[r] = c /\ op[r] = "confirm" /\ status[on[r]] \in Allowed[op[r]] => NoneFrom(c, 1, 1)
    BY <1>1, OperationsAre DEF Once
  <2>2. on[r] = c /\ op[r] = "confirm" /\ pc[r] = "read" => NoneFrom(c, 1, 1)
    BY <1>1 DEF Once
  <2> QED  BY <1>2, <2>1, <2>2 DEF TypeOK
<1>5. \A q \in Requests : q # r => pc'[q] = pc[q]
  BY <1>2 DEF TypeOK
<1>6. \A q \in Requests : Works(q, c)' => Works(q, c)
  BY <1>2, <1>5 DEF Works
<1>7. pc'[r] \in {"read", "write", "done"}
  BY <1>2 DEF TypeOK
<1> QED  BY <1>1, <1>2, <1>3, <1>4, <1>5, <1>6, <1>7 DEF Once

\* Steps that write the status or its history.
LEMMA WriteOnce ==
    ASSUME TypeOK, LocalInv, OnceInv, NEW r \in Requests,
           InsertDraft(r) \/ WriteStatus(r) \/ AddHistory(r)
    PROVE  OnceInv'
<1> SUFFICES ASSUME NEW c \in Ids, c \notin overlapped PROVE Once(c)'
  BY DEF OnceInv, InsertDraft, WriteStatus, AddHistory, Goto, histVars
<1>1. Once(c) /\ on[r] \in Ids
  BY DEF OnceInv, LocalInv, InsertDraft, WriteStatus, AddHistory, Goto
<1>2. /\ UNCHANGED <<charges, allocations, on, op>>
      /\ pc[r] \in {"insert", "write", "history"}
      /\ \A q \in Requests : q # r => pc'[q] = pc[q] /\ line'[q] = line[q]
      /\ \A b \in Ids : b # on[r] => status'[b] = status[b]
  BY DEF InsertDraft, WriteStatus, AddHistory, Goto, rowVars, chargeVars, handlerVars, TypeOK
<1>3. \A m, n : NoneFrom(c, m, n)' <=> NoneFrom(c, m, n)
  BY <1>2 DEF NoneFrom
<1>4. \A q \in Requests : Works(q, c)' => Works(q, c)
  BY <1>2 DEF Works
<1>5. status'[c] \in Early => NoneFrom(c, 1, 1)
  <2>1. CASE c # on[r]
    BY <1>1, <1>2, <2>1 DEF Once
  <2>2. CASE c = on[r] /\ InsertDraft(r)
    BY <1>1, <2>2 DEF Once, InsertDraft, Goto
  <2>3. CASE c = on[r] /\ WriteStatus(r)
    BY <1>1, <2>3 DEF WriteStatus, Goto, LocalInv, TypeOK
  <2>4. CASE c = on[r] /\ AddHistory(r)
    BY <1>1, <2>4 DEF Once, AddHistory
  <2> QED  BY <2>1, <2>2, <2>3, <2>4
<1>6. on[r] = c =>
        /\ pc'[r] \in {"read", "write", "history"} /\ op[r] = "confirm" => NoneFrom(c, 1, 1)
        /\ pc'[r] = "line" => line'[r] = 1 /\ NoneFrom(c, 1, 1)
        /\ pc'[r] \in {"history", "line", "allocation"} => status'[c] \notin Early
        /\ pc'[r] \notin {"insert", "allocation"}
  <2>1. CASE InsertDraft(r)
    BY <2>1 DEF InsertDraft, Goto, TypeOK
  <2>2. CASE WriteStatus(r)
    BY <1>1, <2>2 DEF WriteStatus, Goto, TypeOK, Once, LocalInv
  <2>3. CASE AddHistory(r)
    <3>1. status' = status /\ pc[r] = "history" /\ pc'[r] \in {"read", "line", "done"}
      BY <2>3 DEF AddHistory, Goto, TypeOK
    <3>2. line'[r] = 1 /\ (pc'[r] = "line" => op[r] = "confirm")
      BY <2>3 DEF AddHistory, Goto, TypeOK
    <3> QED  BY <1>1, <3>1, <3>2 DEF Once
  <2> QED  BY <2>1, <2>2, <2>3
<1>7. on[r] = c => \A q \in Requests : q # r /\ on[q] = c => pc[q] = "idle"
  BY <1>1, <1>2 DEF Once, Works
<1>8. on[r] # c => status'[c] = status[c]
  BY <1>2
<1> QED  BY <1>1, <1>2, <1>3, <1>4, <1>5, <1>6, <1>7, <1>8 DEF Once

LEMMA InsertOnce ==
    ASSUME TypeOK, LocalInv, OnceInv, NEW r \in Requests, InsertLine(r) \/ InsertAllocation(r)
    PROVE  OnceInv'
<1> SUFFICES ASSUME NEW c \in Ids, c \notin overlapped PROVE Once(c)'
  BY DEF OnceInv, InsertLine, InsertAllocation, Goto, histVars
<1>1. Once(c) /\ on[r] \in Ids /\ line[r] \in 1..Lines /\ pc[r] \in {"line", "allocation"}
  BY DEF OnceInv, LocalInv, InsertLine, InsertAllocation, Goto
<1>2. /\ UNCHANGED <<status, on, op>>
      /\ \A q \in Requests : q # r => pc'[q] = pc[q] /\ line'[q] = line[q]
      /\ pc'[r] \in {"line", "allocation", "done"}
  BY LineInserted, AllocationInserted DEF TypeOK
<1>3. \A q \in Requests : Works(q, c)' <=> (on[q] = c /\ (q = r \/ pc[q] # "idle"))
  BY <1>2 DEF Works
<1>4. \A p, q \in Requests : Works(p, c)' /\ Works(q, c)' => p = q
  BY <1>1, <1>3 DEF Once, Works
<1>5. CASE c # on[r]
  <2>1. \A i \in 1..Lines : charges'[c][i] = charges[c][i] /\ allocations'[c][i] = allocations[c][i]
    BY <1>5, LineInserted, AllocationInserted
  <2>2. \A m, n : NoneFrom(c, m, n)' <=> NoneFrom(c, m, n)
    BY <2>1 DEF NoneFrom
  <2> QED  BY <1>1, <1>2, <1>4, <1>5, <2>1, <2>2 DEF Once
<1>6. CASE c = on[r]
  <2>1. \A q \in Requests : q # r /\ on[q] = c => pc[q] = "idle"
    BY <1>1, <1>6 DEF Once, Works
  <2>2. status[c] \notin Early
    BY <1>1, <1>6 DEF Once
  <2>3. CASE InsertLine(r)
    <3>1. pc[r] = "line" /\ pc'[r] = "allocation" /\ line'[r] = line[r]
      BY <2>3, LineInserted DEF TypeOK
    <3>2. NoneFrom(c, line[r], line[r])
      BY <1>1, <1>6, <3>1 DEF Once
    <3>3. NoneFrom(c, line[r] + 1, line[r])'
      BY <1>1, <1>6, <2>3, <3>1, <3>2, LineInserted DEF NoneFrom
    <3>4. \A i \in 1..Lines : charges'[c][i] <= 1 /\ allocations'[c][i] <= 1
      BY <1>1, <1>6, <2>3, <3>2, LineInserted DEF NoneFrom, Once
    <3> QED  BY <1>2, <1>4, <1>6, <2>1, <2>2, <3>1, <3>3, <3>4 DEF Once
  <2>4. CASE InsertAllocation(r)
    <3>1. /\ pc[r] = "allocation"
          /\ pc'[r] = IF line[r] < Lines THEN "line" ELSE "done"
          /\ line'[r] = IF line[r] < Lines THEN line[r] + 1 ELSE line[r]
      BY <2>4, AllocationInserted DEF TypeOK
    <3>2. NoneFrom(c, line[r] + 1, line[r])
      BY <1>1, <1>6, <3>1 DEF Once
    <3>3. pc'[r] = "line" => NoneFrom(c, line[r], line[r])'
      BY <1>1, <1>6, <2>4, <3>1, <3>2, AllocationInserted DEF NoneFrom
    <3>4. \A i \in 1..Lines : charges'[c][i] <= 1 /\ allocations'[c][i] <= 1
      BY <1>1, <1>6, <2>4, <3>2, AllocationInserted DEF NoneFrom, Once
    <3> QED  BY <1>2, <1>4, <1>6, <2>1, <2>2, <3>1, <3>3, <3>4 DEF Once
  <2> QED  BY <2>3, <2>4
<1> QED  BY <1>5, <1>6

\* The other steps end a request, or leave it where it is.
LEMMA OtherOnce ==
    ASSUME TypeOK, OnceInv,
           \/ \E r \in Requests : \/ Return(r) \/ Refuse(r) \/ Throw(r)
                                \/ Middleware(r) \/ Evict(r)
           \/ \E k \in Keys : Expire(k)
           \/ \E b \in Ids : Checkout(b)
    PROVE  OnceInv'
<1>1. /\ UNCHANGED <<status, charges, allocations, line, on, op, overlapped>>
      /\ \A q \in Requests : pc'[q] \in {pc[q], "idle"}
  <2>1. ASSUME NEW r \in Requests, Return(r) \/ Refuse(r) \/ Throw(r) PROVE <1>1
    BY <2>1 DEF Return, Refuse, Throw, TypeOK, rowVars, chargeVars, handlerVars, histVars
  <2>2. ASSUME NEW r \in Requests, Middleware(r) \/ Evict(r) PROVE <1>1
    BY <2>2 DEF Middleware, Evict, TypeOK, rowVars, chargeVars, handlerVars, histVars
  <2>3. ASSUME \/ \E k \in Keys : Expire(k)
               \/ \E b \in Ids : Checkout(b)
        PROVE  <1>1
    BY <2>3 DEF Expire, Checkout, rowVars, chargeVars, handlerVars, histVars
  <2> QED  BY <2>1, <2>2, <2>3
<1> SUFFICES ASSUME NEW c \in Ids, c \notin overlapped PROVE Once(c)'
  BY <1>1 DEF OnceInv
<1>2. Once(c)
  BY DEF OnceInv
<1>3. \A m, n : NoneFrom(c, m, n)' <=> NoneFrom(c, m, n)
  BY <1>1 DEF NoneFrom
<1>4. \A q \in Requests : Works(q, c)' => Works(q, c)
  BY <1>1 DEF Works
<1> QED  BY <1>1, <1>2, <1>3, <1>4 DEF Once

-----------------------------------------------------------------------------
LEMMA StepInv == Inv /\ [Next]_vars => Inv'
<1>1. ASSUME Inv, Next PROVE Inv'
  <2> USE <1>1
  <2>1. TypeOK'
    BY NextTyped DEF Inv
  <2>2. LockInv'
    BY NextIsIdemStep, StepLocks DEF Inv, TypeOK
  <2>3. LocalInv'
    BY CallLocal, HandleLocal, OtherLocal, Zenon DEF Inv, Next
  <2>4. ProgressInv' /\ ReplayInv'
    BY StepProgress, StepReplay DEF Inv
  <2>5. OnceInv'
    BY CallOnce, QuietOnce, WriteOnce, InsertOnce, OtherOnce, Zenon DEF Inv, Next, Handle
  <2> QED  BY <2>1, <2>2, <2>3, <2>4, <2>5 DEF Inv
<1>2. ASSUME Inv, UNCHANGED vars PROVE Inv'
  <2> USE <1>2 DEF vars, idemVars, rowVars, chargeVars, handlerVars, histVars, countVars
  <2>1. TypeOK' /\ LockInv' /\ LocalInv'
    BY DEF Inv, TypeOK, IdemTypeOK, LockInv, Holding, Taking, LocalInv
  <2>2. ProgressInv' /\ ReplayInv'
    BY DEF Inv, ProgressInv, ReplayInv, Charged
  <2>3. OnceInv'
    BY DEF Inv, OnceInv, Once, Works, NoneFrom
  <2> QED  BY <2>1, <2>2, <2>3 DEF Inv
<1> QED  BY <1>1, <1>2

LEMMA Invariance == Spec => []Inv
BY InitInv, StepInv, PTL DEF Spec

\* The types of bookings, their charges and the requests.
THEOREM TypeCorrect == Spec => []TypeOK
BY Invariance, PTL DEF Inv

\* The idempotency middleware (idempotency.middleware.ts:45-66) runs one handler
\* at a time under a key, but for the race for its lock and the lock's expiry.
THEOREM AloneUnderKey == Spec => []HandlerRunsAlone
<1>1. Inv => HandlerRunsAlone
  BY DEF Inv, LockInv, Holding, HandlerRunsAlone, Holders
<1> QED  BY <1>1, Invariance, PTL

\* applyBookingCharges runs once for a booking that no two requests work on at
\* a time, with or without a key, whatever is cut short or expires.
THEOREM ChargedOnce == Spec => []ChargedTwiceOnlyOnOverlap
<1>1. Inv => ChargedTwiceOnlyOnOverlap
  BY DEF Inv, OnceInv, Once, ChargedTwiceOnlyOnOverlap
<1> QED  BY <1>1, Invariance, PTL

\* A cached answer stands for a confirmation that ran to its end.
THEOREM ReplayIsOfAConfirmation == Spec => []ReplayIsOfACharged
<1>1. Inv => ReplayIsOfACharged
  BY DEF Inv, ReplayInv, Charged, ReplayIsOfACharged
<1> QED  BY <1>1, Invariance, PTL
-----------------------------------------------------------------------------
(* Complete, and traced *)

\* A handler begins where the middleware lets it in, and has ended when the
\* middleware goes on.
StageInv == \A r \in Requests : stage[r] # "inside" => pc[r] \in {"find", "idle"}

Full(b) == \A i \in 1..Lines : charges[b][i] = 1 /\ allocations[b][i] = 1

\* A confirmation that has set the status and is yet to insert charges.
Charging(r, b) == on[r] = b /\ op[r] = "confirm" /\ pc[r] \in {"history", "line", "allocation"}

\* Statuses that a booking has only after it was confirmed.
Late == Statuses \ (Early \cup {"cancelled"})

\* What a booking is still owed, a request is about to insert.
Whole(b) ==
    /\ status[b] # "absent" => b \in travellers \/ \E r \in Requests : on[r] = b /\ pc[r] = "travellers"
    /\ status[b] \in Late \/ b \in payable => Full(b) \/ \E r \in Requests : Charging(r, b)
    /\ \A r \in Requests : on[r] = b =>
          /\ op[r] = "capture" /\ pc[r] # "idle" => b \in payable
          /\ pc[r] \in {"read", "write"} => b \in travellers
          /\ op[r] \notin {"confirm", "cancel"} /\ pc[r] \in {"read", "write", "history"} => Full(b)

WholeInv == \A b \in Ids \ (cut \cup overlapped) : Whole(b)

Last(b) == trail[b][Len(trail[b])][2]

\* The history may go on from a status.
Follows(b, s) == trail[b] = <<>> \/ s \in {Last(b), "cancelled"}

\* The history has no gap and leads to the status, or to the one before it if a
\* request is about to add to it.
Traced(b) ==
    /\ \A i \in 2..Len(trail[b]) : trail[b][i][1] \in {trail[b][i - 1][2], "cancelled"}
    /\ status[b] \in {"absent", "draft"} => trail[b] = <<>>
    /\ status[b] \notin {"absent", "draft", "cancelled"} =>
          \/ trail[b] # <<>> /\ Last(b) = status[b]
          \/ \E r \in Requests : on[r] = b /\ pc[r] = "history"
    /\ \A r \in Requests : on[r] = b =>
          /\ pc[r] = "insert" => trail[b] = <<>>
          /\ pc[r] = "write" /\ op[r] # "cancel" => Follows(b, seen[r])
          /\ pc[r] \in {"read", "history"} => op[r] # "cancel"
          /\ pc[r] = "write" /\ op[r] = "cancel" => target[r] = "cancelled"
          /\ pc[r] = "history" => Follows(b, seen[r]) /\ status[b] = target[r]

TracedInv == \A b \in Ids \ (cut \cup overlapped) : Traced(b)

LEMMA StagesKept == ASSUME TypeOK, LocalInv, StageInv, [Next]_vars PROVE StageInv'
<1> USE DEF TypeOK, IdemTypeOK, StageInv, Move
<1>1. ASSUME NEW r \in Requests, NEW o \in Operations \cup {"create"}, NEW b \in Ids,
             NEW h \in Headers, Call(r, o, b, h)
      PROVE  StageInv'
  <2>1. o = "create" => o # "confirm"
    OBVIOUS
  <2>2. stage' = [stage EXCEPT ![r] = IF o = "confirm" THEN "cache" ELSE "inside"]
    BY <1>1, KeysArePairs DEF Call, Enter
  <2> QED  BY <1>1, <2>1, <2>2 DEF Call
<1>2. ASSUME NEW r \in Requests, Handle(r) PROVE StageInv'
  <2>1. CASE Return(r) \/ Refuse(r) \/ Throw(r)
    BY <2>1 DEF Return, Refuse, Throw, Leave
  <2>2. CASE ~(Return(r) \/ Refuse(r) \/ Throw(r))
    <3>1. stage' = stage /\ stage[r] = "inside" /\ \A q \in Requests : q # r => pc'[q] = pc[q]
      BY <1>2, <2>2 DEF Handle, InsertDraft, InsertTravellers, Find, ReadStatus, WriteStatus,
         AddHistory, InsertLine, InsertAllocation, Goto, idemVars
    <3> QED  BY <3>1
  <2> QED  BY <2>1, <2>2
<1>3. ASSUME NEW r \in Requests, Middleware(r) PROVE StageInv'
  <2>1. /\ \A q \in Requests : q # r => stage'[q] = stage[q]
        /\ stage[r] \in {"cache", "lock", "put", "store", "release"}
    BY <1>3 DEF Middleware, Wrap, GetCached, GetLock, PutLock, StoreAnswer, StoreFails, ReleaseLock
  <2>2. \A q \in Requests : pc'[q] = pc[q] \/ (q = r /\ pc'[q] = "idle")
    BY <1>3 DEF Middleware
  <2> QED  BY <2>1, <2>2
<1>4. ASSUME NEW r \in Requests, Evict(r) PROVE StageInv'
  BY <1>4 DEF Evict, CutShort
<1>5. ASSUME \/ \E k \in Keys : Expire(k)
             \/ \E b \in Ids : Checkout(b)
      PROVE  StageInv'
  BY <1>5 DEF Expire, ExpireLock, ExpireAnswer, Checkout, idemVars
<1>6. ASSUME UNCHANGED vars PROVE StageInv'
  BY <1>6 DEF vars, idemVars
<1> QED  BY <1>1, <1>2, <1>3, <1>4, <1>5, <1>6, Zenon DEF Next

\* A step that leaves the booking and who works on it as they are, or ends one
\* who owes it nothing.
LEMMA QuietPath ==
    ASSUME NEW b \in Ids, Whole(b), Traced(b),
           status'[b] = status[b], trail'[b] = trail[b],
           b \in travellers => b \in travellers', b \in payable <=> b \in payable',
           Full(b) => Full(b)',
           \A q \in Requests : on'[q] = b /\ pc'[q] # "idle" =>
              /\ on[q] = b /\ pc'[q] = pc[q] /\ op'[q] = op[q]
              /\ target'[q] = target[q] /\ seen'[q] = seen[q],
           \A q \in Requests : on[q] = b /\ pc[q] \in {"travellers", "history", "line", "allocation"} =>
              on'[q] = b /\ pc'[q] = pc[q] /\ op'[q] = op[q]
    PROVE  Whole(b)' /\ Traced(b)'
<1>1. Whole(b)'
  BY DEF Whole, Charging
<1>2. Last(b)' = Last(b)
  BY DEF Last
<1>3. \A s : Follows(b, s)' <=> Follows(b, s)
  BY <1>2 DEF Follows
<1>4. Traced(b)'
  BY <1>2, <1>3 DEF Traced
<1> QED  BY <1>1, <1>4

\* What is to be shown of a booking that one request works on.
LEMMA AloneAfter ==
    ASSUME NEW b \in Ids, NEW r \in Requests, on'[r] = b,
           \A q \in Requests : q # r /\ on'[q] = b => pc'[q] = "idle",
           status'[b] # "absent" => b \in travellers' \/ pc'[r] = "travellers",
           status'[b] \in Late \/ b \in payable' => Full(b)' \/ Charging(r, b)',
           op'[r] = "capture" /\ pc'[r] # "idle" => b \in payable',
           pc'[r] \in {"read", "write"} => b \in travellers',
           op'[r] \notin {"confirm", "cancel"} /\ pc'[r] \in {"read", "write", "history"} => Full(b)'
    PROVE  Whole(b)'
  BY DEF Whole

LEMMA AloneTraced ==
    ASSUME NEW b \in Ids, NEW r \in Requests, on'[r] = b,
           \A q \in Requests : q # r /\ on'[q] = b => pc'[q] = "idle",
           (\A i \in 2..Len(trail[b]) : trail[b][i][1] \in {trail[b][i - 1][2], "cancelled"})',
           status'[b] \in {"absent", "draft"} => trail'[b] = <<>>,
           status'[b] \notin {"absent", "draft", "cancelled"} =>
              (trail'[b] # <<>> /\ Last(b)' = status'[b]) \/ pc'[r] = "history",
           pc'[r] = "insert" => trail'[b] = <<>>,
           pc'[r] = "write" /\ op'[r] # "cancel" => Follows(b, seen[r])',
           pc'[r] \in {"read", "history"} => op'[r] # "cancel",
           pc'[r] = "write" /\ op'[r] = "cancel" => target'[r] = "cancelled",
           pc'[r] = "history" => Follows(b, seen[r])' /\ status'[b] = target'[r]
    PROVE  Traced(b)'
<1>1. \A q \in Requests : on'[q] = b =>
          /\ pc'[q] = "insert" => trail'[b] = <<>>
          /\ pc'[q] = "write" /\ op'[q] # "cancel" => Follows(b, seen[q])'
          /\ pc'[q] \in {"read", "history"} => op'[q] # "cancel"
          /\ pc'[q] = "write" /\ op'[q] = "cancel" => target'[q] = "cancelled"
          /\ pc'[q] = "history" => Follows(b, seen[q])' /\ status'[b] = target'[q]
  OBVIOUS
<1> QED  BY <1>1 DEF Traced

\* And what is known of it before.
LEMMA AloneBefore ==
    ASSUME NEW b \in Ids, NEW r \in Requests, Once(b), Whole(b), Traced(b), Works(r, b)
    PROVE  /\ on[r] = b /\ \A q \in Requests : q # r /\ on[q] = b => pc[q] = "idle"
           /\ status[b] # "absent" => b \in travellers \/ pc[r] = "travellers"
           /\ status[b] \in Late \/ b \in payable => Full(b) \/ Charging(r, b)
           /\ op[r] = "capture" => b \in payable
           /\ pc[r] \in {"read", "write"} => b \in travellers
           /\ op[r] \notin {"confirm", "cancel"} /\ pc[r] \in {"read", "write", "history"} => Full(b)
           /\ \A i \in 2..Len(trail[b]) : trail[b][i][1] \in {trail[b][i - 1][2], "cancelled"}
           /\ status[b] \in {"absent", "draft"} => trail[b] = <<>>
           /\ status[b] \notin {"absent", "draft", "cancelled"} =>
                (trail[b] # <<>> /\ Last(b) = status[b]) \/ pc[r] = "history"
           /\ pc[r] = "insert" => trail[b] = <<>>
           /\ pc[r] = "write" /\ op[r] # "cancel" => Follows(b, seen[r])
           /\ pc[r] \in {"read", "history"} => op[r] # "cancel"
           /\ pc[r] = "write" /\ op[r] = "cancel" => target[r] = "cancelled"
           /\ pc[r] = "history" => Follows(b, seen[r]) /\ status[b] = target[r]
<1>1. on[r] = b /\ \A q \in Requests : q # r /\ on[q] = b => pc[q] = "idle"
  BY DEF Once, Works
<1>2. \A q \in Requests : Charging(q, b) => q = r
  BY <1>1 DEF Charging
<1>3. \A q \in Requests : on[q] = b /\ pc[q] \in {"travellers", "history"} => q = r
  BY <1>1
<1> QED  BY <1>1, <1>2, <1>3 DEF Whole, Traced, Works

LEMMA CallPath ==
    ASSUME TypeOK, LocalInv, NEW r \in Requests, NEW o \in Operations \cup {"create"},
           NEW c \in Ids, NEW h \in Headers, Call(r, o, c, h),
           NEW b \in Ids \ (cut' \cup overlapped'), Whole(b), Traced(b)
    PROVE  Whole(b)' /\ Traced(b)'
<1>1. /\ UNCHANGED <<status, travellers, payable, trail, charges, allocations, target, seen>>
      /\ pc[r] = "idle" /\ pc' = [pc EXCEPT ![r] = IF o = "create" THEN "insert" ELSE "find"]
      /\ op' = [op EXCEPT ![r] = o] /\ on' = [on EXCEPT ![r] = c]
      /\ o = "create" => status[c] = "absent"
      /\ o = "capture" => c \in payable
      /\ c = b => \A q \in Requests : on[q] = b => pc[q] = "idle"
  BY DEF Call, rowVars, chargeVars, WorkingOn
<1>2. \A q \in Requests : q # r => pc'[q] = pc[q] /\ on'[q] = on[q] /\ op'[q] = op[q]
  BY <1>1 DEF TypeOK
<1>3. on'[r] = c /\ op'[r] = o /\ pc'[r] = IF o = "create" THEN "insert" ELSE "find"
  BY <1>1 DEF TypeOK
<1>4. Full(b) => Full(b)'
  BY <1>1 DEF Full
<1>5. CASE c # b
  BY <1>1, <1>2, <1>3, <1>4, <1>5, QuietPath
<1>6. CASE c = b
  <2>1. (status[b] # "absent" => b \in travellers) /\ (status[b] \in Late \/ b \in payable => Full(b))
    BY <1>1, <1>6 DEF Whole, Charging
  <2>2. Whole(b)'
    BY <1>1, <1>2, <1>3, <1>4, <1>6, <2>1, AloneAfter
  <2>3. Last(b)' = Last(b)
    BY <1>1 DEF Last
  <2>4. /\ \A i \in 2..Len(trail[b]) : trail[b][i][1] \in {trail[b][i - 1][2], "cancelled"}
        /\ status[b] \in {"absent", "draft"} => trail[b] = <<>>
        /\ status[b] \notin {"absent", "draft", "cancelled"} => trail[b] # <<>> /\ Last(b) = status[b]
    BY <1>1, <1>6 DEF Traced
  <2>5. Traced(b)'
    BY <1>1, <1>2, <1>3, <1>6, <2>3, <2>4, AloneTraced
  <2> QED  BY <2>2, <2>5
<1> QED  BY <1>5, <1>6

\* A step of a handler at work on another booking.
LEMMA ElsewherePath ==
    ASSUME TypeOK, LocalInv, NEW r \in Requests, Handle(r),
           NEW b \in Ids, on[r] # b, Whole(b), Traced(b)
    PROVE  Whole(b)' /\ Traced(b)'
<1>1. /\ UNCHANGED <<on, op, payable>> /\ travellers \subseteq travellers'
      /\ \A q \in Requests : q # r =>
            pc'[q] = pc[q] /\ target'[q] = target[q] /\ seen'[q] = seen[q]
      /\ status'[b] = status[b] /\ trail'[b] = trail[b]
      /\ \A i \in 1..Lines : charges'[b][i] = charges[b][i] /\ allocations'[b][i] = allocations[b][i]
  <2>1. CASE InsertDraft(r) \/ InsertTravellers(r) \/ Find(r) \/ ReadStatus(r) \/ WriteStatus(r)
             \/ AddHistory(r)
    BY <2>1 DEF InsertDraft, InsertTravellers, Find, ReadStatus, WriteStatus, AddHistory, Goto,
                rowVars, chargeVars, handlerVars, TypeOK
  <2>2. CASE InsertLine(r) \/ InsertAllocation(r)
    <3>1. \A i \in 1..Lines : charges'[b][i] = charges[b][i] /\ allocations'[b][i] = allocations[b][i]
      BY <2>2, LineInserted, AllocationInserted
    <3>2. /\ UNCHANGED <<on, op, payable, travellers, status, trail, target, seen>>
          /\ \A q \in Requests : q # r => pc'[q] = pc[q]
      BY <2>2 DEF InsertLine, InsertAllocation, Goto, rowVars, handlerVars, TypeOK
    <3> QED  BY <3>1, <3>2
  <2>3. CASE Return(r) \/ Refuse(r) \/ Throw(r)
    BY <2>3 DEF Return, Refuse, Throw, rowVars, chargeVars, handlerVars, TypeOK
  <2> QED  BY <2>1, <2>2, <2>3 DEF Handle
<1>2. Full(b) => Full(b)'
  BY <1>1 DEF Full
<1> QED  BY <1>1, <1>2, QuietPath

\* A step of the handler at work on the booking that goes on.
Advances(r) ==
    \/ InsertDraft(r) \/ InsertTravellers(r) \/ Find(r) \/ ReadStatus(r) \/ WriteStatus(r)
    \/ AddHistory(r) \/ InsertLine(r) \/ InsertAllocation(r)

\* Nobody else is at work on it, before or after.
LEMMA GoesOn ==
    ASSUME TypeOK, LocalInv, NEW r \in Requests, Advances(r),
           NEW b \in Ids, on[r] = b, Once(b), Whole(b), Traced(b)
    PROVE  /\ Works(r, b) /\ UNCHANGED <<on, op, payable>>
           /\ \A q \in Requests : q # r /\ on'[q] = b => pc'[q] = "idle"
           /\ op[r] # "capture" \/ b \in payable
<1>1. Works(r, b) /\ UNCHANGED <<on, op, payable>> /\ \A q \in Requests : q # r => pc'[q] = pc[q]
  BY DEF Advances, InsertDraft, InsertTravellers, Find, ReadStatus, WriteStatus, AddHistory,
         InsertLine, InsertAllocation, Goto, rowVars, handlerVars, TypeOK, Works
<1>2. \A q \in Requests : q # r /\ on[q] = b => pc[q] = "idle"
  BY <1>1, AloneBefore
<1> QED  BY <1>1, <1>2, AloneBefore

LEMMA CreatePath ==
    ASSUME TypeOK, LocalInv, NEW r \in Requests, InsertDraft(r) \/ InsertTravellers(r),
           NEW b \in Ids, on[r] = b, Once(b), Whole(b), Traced(b)
    PROVE  Whole(b)' /\ Traced(b)'
<1>1. /\ Works(r, b) /\ UNCHANGED <<on, op, payable, trail, seen, target, charges, allocations>>
      /\ \A q \in Requests : q # r /\ on'[q] = b => pc'[q] = "idle"
      /\ on'[r] = b
  BY GoesOn DEF Advances, InsertDraft, InsertTravellers, chargeVars, handlerVars
<1>2. op[r] = "create"
  BY DEF LocalInv, InsertDraft, InsertTravellers, Goto
<1>3. \/ pc[r] = "insert" /\ pc'[r] = "travellers" /\ status'[b] = "draft"
      \/ pc[r] = "travellers" /\ pc'[r] = "done" /\ status'[b] = status[b] /\ b \in travellers'
  BY DEF InsertDraft, InsertTravellers, Goto, TypeOK
<1>4. Full(b)' = Full(b) /\ Last(b)' = Last(b)
  BY <1>1 DEF Full, Last
<1>5. /\ status[b] \in Late \/ b \in payable => Full(b)
      /\ \A i \in 2..Len(trail[b]) : trail[b][i][1] \in {trail[b][i - 1][2], "cancelled"}
      /\ status[b] \in {"absent", "draft"} => trail[b] = <<>>
      /\ status[b] \notin {"absent", "draft", "cancelled"} =>
           (trail[b] # <<>> /\ Last(b) = status[b]) \/ pc[r] = "history"
      /\ pc[r] = "insert" => trail[b] = <<>>
  BY <1>1, <1>2, AloneBefore DEF Charging
<1>6. "draft" \notin Late
  BY DEF Late, Early
<1>7. Whole(b)'
  BY <1>1, <1>2, <1>3, <1>4, <1>5, <1>6, AloneAfter
<1>8. Traced(b)'
  BY <1>1, <1>2, <1>3, <1>4, <1>5, AloneTraced
<1> QED  BY <1>7, <1>8

\* What is found is beyond a confirmation, or is confirmed now.
LEMMA FindPath ==
    ASSUME TypeOK, LocalInv, NEW r \in Requests, Find(r),
           NEW b \in Ids, on[r] = b, Once(b), Whole(b), Traced(b)
    PROVE  Whole(b)' /\ Traced(b)'
<1>1. /\ Works(r, b) /\ on'[r] = b
      /\ UNCHANGED <<on, op, payable, travellers, status, trail, seen, charges, allocations>>
      /\ \A q \in Requests : q # r /\ on'[q] = b => pc'[q] = "idle"
  BY GoesOn DEF Advances, Find, rowVars, chargeVars
<1>2. /\ pc[r] = "find" /\ pc'[r] = IF op[r] = "cancel" THEN "write" ELSE "read"
      /\ status[b] \in Allowed[op[r]] /\ op[r] \in Operations
      /\ target'[r] = Sets[op[r]]
  BY DEF Find, LocalInv, Goto, TypeOK
<1>3. Full(b)' = Full(b) /\ Last(b)' = Last(b)
  BY <1>1 DEF Full, Last
<1>4. status[b] # "absent" /\ (op[r] \in {"confirm", "cancel", "capture"} \/ status[b] \in Late)
  BY <1>2, OperationsAre DEF Allowed, Late, Statuses, Early
<1>5. Sets["cancel"] = "cancelled"
  BY DEF Sets
<1>6. /\ status[b] \in Late \/ b \in payable => Full(b)
      /\ b \in travellers /\ (op[r] = "capture" => b \in payable)
      /\ \A i \in 2..Len(trail[b]) : trail[b][i][1] \in {trail[b][i - 1][2], "cancelled"}
      /\ status[b] \in {"absent", "draft"} => trail[b] = <<>>
      /\ status[b] \notin {"absent", "draft", "cancelled"} => trail[b] # <<>> /\ Last(b) = status[b]
  BY <1>1, <1>2, <1>4, AloneBefore DEF Charging
<1>7. Whole(b)'
  BY <1>1, <1>2, <1>3, <1>4, <1>6, AloneAfter
<1>8. Traced(b)'
  BY <1>1, <1>2, <1>3, <1>5, <1>6, AloneTraced
<1> QED  BY <1>7, <1>8

\* The status read is the one the history leads to.
LEMMA ReadPath ==
    ASSUME TypeOK, LocalInv, NEW r \in Requests, ReadStatus(r),
           NEW b \in Ids, on[r] = b, Once(b), Whole(b), Traced(b)
    PROVE  Whole(b)' /\ Traced(b)'
<1>1. /\ Works(r, b) /\ on'[r] = b
      /\ UNCHANGED <<on, op, payable, travellers, status, trail, target, charges, allocations>>
      /\ \A q \in Requests : q # r /\ on'[q] = b => pc'[q] = "idle"
  BY GoesOn DEF Advances, ReadStatus, rowVars, chargeVars
<1>2. pc[r] = "read" /\ pc'[r] = "write" /\ seen'[r] = status[b] /\ op[r] # "cancel"
  BY <1>1, AloneBefore DEF ReadStatus, Goto, TypeOK
<1>3. Full(b)' = Full(b) /\ Last(b)' = Last(b)
  BY <1>1 DEF Full, Last
<1>4. /\ status[b] \in Late \/ b \in payable => Full(b)
      /\ b \in travellers /\ (op[r] = "capture" => b \in payable)
      /\ op[r] \notin {"confirm", "cancel"} => Full(b)
      /\ \A i \in 2..Len(trail[b]) : trail[b][i][1] \in {trail[b][i - 1][2], "cancelled"}
      /\ status[b] \in {"absent", "draft"} => trail[b] = <<>>
      /\ status[b] \notin {"absent", "draft", "cancelled"} => trail[b] # <<>> /\ Last(b) = status[b]
  BY <1>1, <1>2, AloneBefore DEF Charging
<1>5. Follows(b, seen[r])'
  BY <1>1, <1>2, <1>3, <1>4 DEF Follows
<1>6. Whole(b)'
  BY <1>1, <1>2, <1>3, <1>4, AloneAfter
<1>7. Traced(b)'
  BY <1>1, <1>2, <1>3, <1>4, <1>5, AloneTraced
<1> QED  BY <1>6, <1>7

\* A status is written, and a confirmation is about to insert charges.
LEMMA WritePath ==
    ASSUME TypeOK, LocalInv, NEW r \in Requests, WriteStatus(r),
           NEW b \in Ids, on[r] = b, Once(b), Whole(b), Traced(b)
    PROVE  Whole(b)' /\ Traced(b)'
<1>1. /\ Works(r, b) /\ on'[r] = b
      /\ UNCHANGED <<on, op, payable, travellers, seen, trail, target, charges, allocations>>
      /\ \A q \in Requests : q # r /\ on'[q] = b => pc'[q] = "idle"
  BY GoesOn DEF Advances, WriteStatus, chargeVars, handlerVars
<1>2. /\ pc[r] = "write" /\ pc'[r] = IF op[r] = "cancel" THEN "done" ELSE "history"
      /\ status'[b] = target[r] /\ target[r] \notin Early /\ op[r] \in Operations
  BY DEF WriteStatus, LocalInv, Goto, TypeOK
<1>3. Full(b)' = Full(b) /\ Last(b)' = Last(b)
  BY <1>1 DEF Full, Last
<1>4. \A s : Follows(b, s)' <=> Follows(b, s)
  BY <1>1, <1>3 DEF Follows
<1>5. /\ b \in payable => Full(b)
      /\ b \in travellers /\ (op[r] = "capture" => b \in payable)
      /\ op[r] \notin {"confirm", "cancel"} => Full(b)
      /\ \A i \in 2..Len(trail[b]) : trail[b][i][1] \in {trail[b][i - 1][2], "cancelled"}
      /\ op[r] # "cancel" => Follows(b, seen[r])
      /\ op[r] = "cancel" => target[r] = "cancelled"
  BY <1>1, <1>2, AloneBefore DEF Charging
<1>6. Follows(b, seen[r])' <=> Follows(b, seen[r])
  BY <1>1, <1>3 DEF Follows
<1>7. op[r] = "confirm" => Charging(r, b)'
  BY <1>1, <1>2 DEF Charging
<1>8. "cancelled" \notin Late /\ {"absent", "draft"} \subseteq Early
  BY DEF Late, Early
<1>9. Whole(b)'
  BY <1>1, <1>2, <1>3, <1>5, <1>7, <1>8, AloneAfter
<1>10. Traced(b)'
  BY <1>1, <1>2, <1>3, <1>5, <1>6, <1>8, AloneTraced
<1> QED  BY <1>9, <1>10

\* The history goes on from the status it led to.
LEMMA HistoryPath ==
    ASSUME TypeOK, LocalInv, NEW r \in Requests, AddHistory(r),
           NEW b \in Ids, on[r] = b, Once(b), Whole(b), Traced(b)
    PROVE  Whole(b)' /\ Traced(b)'
<1> DEFINE again == op[r] = "accept" /\ target[r] = "provider_accepted"
<1>1. /\ Works(r, b) /\ on'[r] = b
      /\ UNCHANGED <<on, op, payable, travellers, seen, status, charges, allocations>>
      /\ \A q \in Requests : q # r /\ on'[q] = b => pc'[q] = "idle"
  BY GoesOn DEF Advances, AddHistory, chargeVars
<1>2. /\ pc[r] = "history"
      /\ pc'[r] = CASE again -> "read" [] op[r] = "confirm" /\ Lines > 0 -> "line" [] OTHER -> "done"
      /\ trail'[b] = Append(trail[b], <<seen[r], target[r]>>)
      /\ trail[b] \in Seq(Statuses \X Statuses) /\ <<seen[r], target[r]>> \in Statuses \X Statuses
      /\ target[r] \notin Early
  BY <1>1 DEF AddHistory, LocalInv, Goto, TypeOK
<1>3. Full(b)' = Full(b) /\ (Lines = 0 => Full(b))
  BY <1>1 DEF Full
<1>4. /\ b \in travellers /\ (op[r] = "capture" => b \in payable)
      /\ op[r] \notin {"confirm", "cancel"} => Full(b)
      /\ \A i \in 2..Len(trail[b]) : trail[b][i][1] \in {trail[b][i - 1][2], "cancelled"}
      /\ Follows(b, seen[r]) /\ status[b] = target[r] /\ op[r] # "cancel"
  BY <1>1, <1>2, AloneBefore DEF Early
<1>5. Whole(b)'
  <2>1. op[r] = "confirm" /\ Lines > 0 => Charging(r, b)'
    BY <1>1, <1>2 DEF Charging
  <2>2. Full(b)' \/ Charging(r, b)'
    BY <1>3, <1>4, <2>1, BookingsAssumption
  <2> QED  BY <1>1, <1>2, <1>3, <1>4, <2>2, AloneAfter
<1>6. /\ trail'[b] # <<>> /\ Len(trail'[b]) = Len(trail[b]) + 1 /\ Len(trail[b]) \in Nat
      /\ \A i \in 1..Len(trail[b]) : trail'[b][i] = trail[b][i]
      /\ trail'[b][Len(trail[b]) + 1] = <<seen[r], target[r]>>
  BY <1>2
<1>7. Last(b)' = status'[b]
  BY <1>1, <1>4, <1>6 DEF Last
<1>8. ASSUME NEW i \in 2..Len(trail'[b])
      PROVE  trail'[b][i][1] \in {trail'[b][i - 1][2], "cancelled"}
  <2>1. CASE i = Len(trail[b]) + 1
    <3>1. trail[b] # <<>> /\ i - 1 = Len(trail[b]) /\ Len(trail[b]) \in 1..Len(trail[b])
      BY <1>6, <2>1
    <3> QED  BY <1>4, <1>6, <2>1, <3>1 DEF Follows, Last
  <2>2. CASE i # Len(trail[b]) + 1
    <3>1. i \in 2..Len(trail[b]) /\ i \in 1..Len(trail[b]) /\ i - 1 \in 1..Len(trail[b])
      BY <1>6, <1>8, <2>2
    <3> QED  BY <1>4, <1>6, <3>1
  <2> QED  BY <2>1, <2>2
<1>9. pc'[r] \in {"read", "line", "done"}
  BY <1>2
<1>10. status'[b] \notin {"absent", "draft"}
  BY <1>1, <1>2, <1>4 DEF Early
<1>11. Traced(b)'
  <2>1. (\A i \in 2..Len(trail[b]) : trail[b][i][1] \in {trail[b][i - 1][2], "cancelled"})'
    BY <1>8
  <2> QED  BY <1>1, <1>4, <1>6, <1>7, <1>9, <1>10, <2>1, AloneTraced
<1> QED  BY <1>5, <1>11

\* The last allocation completes the charges.
LEMMA InsertPath ==
    ASSUME TypeOK, TypeOK', LocalInv, ProgressInv', NEW r \in Requests,
           InsertLine(r) \/ InsertAllocation(r),
           NEW b \in Ids, on[r] = b, Once(b), Once(b)', Whole(b), Traced(b)
    PROVE  Whole(b)' /\ Traced(b)'
<1>1. /\ Works(r, b) /\ on'[r] = b
      /\ UNCHANGED <<on, op, payable, travellers, seen, target, status, trail>>
      /\ \A q \in Requests : q # r /\ on'[q] = b => pc'[q] = "idle"
  BY GoesOn DEF Advances, InsertLine, InsertAllocation, rowVars, handlerVars
<1>2. /\ pc[r] \in {"line", "allocation"} /\ pc'[r] \in {"line", "allocation", "done"}
      /\ op[r] = "confirm"
  BY DEF InsertLine, InsertAllocation, LocalInv, Goto, TypeOK
<1>3. Full(b)' \/ Charging(r, b)'
  <2>1. CASE pc'[r] = "done"
    <3>1. Charged(b)'
      BY <1>1, <1>2, <2>1 DEF ProgressInv
    <3>2. \A i \in 1..Lines : charges'[b][i] \in Nat /\ allocations'[b][i] \in Nat
      BY CountsAreNumbers DEF TypeOK
    <3>3. \A i \in 1..Lines : charges'[b][i] <= 1 /\ allocations'[b][i] <= 1
      BY DEF Once
    <3> QED  BY <3>1, <3>2, <3>3 DEF Charged, Full
  <2>2. CASE pc'[r] # "done"
    BY <1>1, <1>2, <2>2 DEF Charging
  <2> QED  BY <2>1, <2>2
<1>4. Last(b)' = Last(b)
  BY <1>1 DEF Last
<1>5. /\ status[b] # "absent" => b \in travellers
      /\ \A i \in 2..Len(trail[b]) : trail[b][i][1] \in {trail[b][i - 1][2], "cancelled"}
      /\ status[b] \in {"absent", "draft"} => trail[b] = <<>>
      /\ status[b] \notin {"absent", "draft", "cancelled"} => trail[b] # <<>> /\ Last(b) = status[b]
  BY <1>1, <1>2, AloneBefore
<1>6. Whole(b)'
  BY <1>1, <1>2, <1>3, <1>5, AloneAfter
<1>7. Traced(b)'
  BY <1>1, <1>2, <1>4, <1>5, AloneTraced
<1> QED  BY <1>6, <1>7

\* A request that ends owes the booking nothing, or is taken down.
LEMMA EndPath ==
    ASSUME TypeOK, StageInv, NEW r \in Requests,
           \/ Return(r) \/ Refuse(r) \/ Throw(r) \/ Middleware(r) \/ Evict(r),
           NEW b \in Ids \ cut', Whole(b), Traced(b)
    PROVE  Whole(b)' /\ Traced(b)'
<1>1. /\ UNCHANGED <<on, op, payable, travellers, seen, target, status, trail, charges, allocations>>
      /\ \A q \in Requests : q # r => pc'[q] = pc[q]
      /\ pc'[r] \in {pc[r], "idle"}
  BY DEF Return, Refuse, Throw, Middleware, Evict, TypeOK, rowVars, chargeVars, handlerVars
<1>2. on[r] = b /\ pc[r] \in {"travellers", "history", "line", "allocation"} => pc'[r] = pc[r]
  <2>1. CASE Return(r) \/ Refuse(r)
    BY <2>1 DEF Return, Refuse
  <2>2. CASE Throw(r) \/ Evict(r)
    BY <2>2 DEF Throw, Evict, CutAt
  <2>3. CASE Middleware(r)
    <3>1. stage[r] # "inside"
      BY <2>3 DEF Middleware, Wrap, GetCached, GetLock, PutLock, StoreAnswer, StoreFails,
                  ReleaseLock, Move
    <3> QED  BY <3>1 DEF StageInv
  <2> QED  BY <2>1, <2>2, <2>3
<1>3. Full(b) => Full(b)'
  BY <1>1 DEF Full
<1> QED  BY <1>1, <1>2, <1>3, QuietPath

\* A payment is opened for a booking that was confirmed.
LEMMA CheckoutPath ==
    ASSUME TypeOK, NEW c \in Ids, Checkout(c), NEW b \in Ids, Whole(b), Traced(b)
    PROVE  Whole(b)' /\ Traced(b)'
<1>1. /\ UNCHANGED <<on, op, pc, travellers, seen, target, status, trail, charges, allocations>>
      /\ payable' = payable \cup {c} /\ status[c] \in {"pending_payment", "confirmed"}
  BY DEF Checkout, chargeVars, handlerVars
<1>2. status[c] \in Late
  BY <1>1 DEF Late, Early, Statuses
<1>3. Full(b)' = Full(b)
  BY <1>1 DEF Full
<1>4. \A q \in Requests : Charging(q, b)' <=> Charging(q, b)
  BY <1>1 DEF Charging
<1>5. Whole(b)'
  BY <1>1, <1>2, <1>3, <1>4 DEF Whole
<1>6. Traced(b)'
  BY <1>1 DEF Traced, Follows, Last
<1> QED  BY <1>5, <1>6

LEMMA StillPath ==
    ASSUME UNCHANGED <<rowVars, chargeVars, pc, handlerVars>>, NEW b \in Ids, Whole(b), Traced(b)
    PROVE  Whole(b)' /\ Traced(b)'
<1> USE DEF rowVars, chargeVars, handlerVars
<1>1. Full(b) => Full(b)'
  BY DEF Full
<1> QED  BY <1>1, QuietPath

LEMMA PathsKept ==
    ASSUME Inv, Inv', StageInv, WholeInv, TracedInv, [Next]_vars
    PROVE  WholeInv' /\ TracedInv'
<1> USE DEF Inv
<1>1. cut \subseteq cut' /\ overlapped \subseteq overlapped'
  <2>1. ASSUME NEW r \in Requests, Handle(r) PROVE <1>1
    BY <2>1 DEF Handle, InsertDraft, InsertTravellers, Find, ReadStatus, WriteStatus, AddHistory,
       InsertLine, InsertAllocation, Return, Refuse, Throw, CutAt, Goto, histVars
  <2>2. ASSUME NEW r \in Requests, Middleware(r) \/ Evict(r) PROVE <1>1
    BY <2>2 DEF Middleware, Evict, CutAt, histVars
  <2>3. ASSUME NEW r \in Requests, NEW o, NEW b, NEW h, Call(r, o, b, h) PROVE <1>1
    BY <2>3 DEF Call
  <2>4. ASSUME \/ \E k \in Keys : Expire(k)
               \/ \E b \in Ids : Checkout(b)
        PROVE  <1>1
    BY <2>4 DEF Expire, Checkout, histVars
  <2>5. CASE UNCHANGED vars
    BY <2>5 DEF vars, histVars
  <2> QED  BY <2>1, <2>2, <2>3, <2>4, <2>5, Zenon DEF Next
<1> SUFFICES ASSUME NEW b \in Ids \ (cut' \cup overlapped') PROVE Whole(b)' /\ Traced(b)'
  BY DEF WholeInv, TracedInv
<1>2. Whole(b) /\ Traced(b) /\ Once(b) /\ Once(b)'
  BY <1>1 DEF WholeInv, TracedInv, OnceInv
<1>3. ASSUME NEW r \in Requests, NEW o \in Operations \cup {"create"}, NEW c \in Ids,
             NEW h \in Headers, Call(r, o, c, h)
      PROVE  Whole(b)' /\ Traced(b)'
  BY <1>2, <1>3, CallPath
<1>4. ASSUME NEW r \in Requests, Handle(r) PROVE Whole(b)' /\ Traced(b)'
  <2>1. CASE on[r] # b
    BY <1>2, <1>4, <2>1, ElsewherePath
  <2>2. CASE Return(r) \/ Refuse(r) \/ Throw(r)
    BY <1>2, <2>2, EndPath
  <2>3. CASE on[r] = b /\ Advances(r)
    BY <1>2, <2>3, CreatePath, FindPath, ReadPath, WritePath, HistoryPath, InsertPath DEF Advances
  <2> QED  BY <1>4, <2>1, <2>2, <2>3 DEF Handle, Advances
<1>5. ASSUME NEW r \in Requests, Middleware(r) \/ Evict(r) PROVE Whole(b)' /\ Traced(b)'
  BY <1>2, <1>5, EndPath
<1>6. ASSUME NEW k \in Keys, Expire(k) PROVE Whole(b)' /\ Traced(b)'
  <2>1. UNCHANGED <<rowVars, chargeVars, pc, handlerVars>>
    BY <1>6 DEF Expire
  <2> QED  BY <1>2, <2>1, StillPath
<1>7. ASSUME NEW c \in Ids, Checkout(c) PROVE Whole(b)' /\ Traced(b)'
  BY <1>2, <1>7, CheckoutPath
<1>8. CASE UNCHANGED vars
  <2>1. UNCHANGED <<rowVars, chargeVars, pc, handlerVars>>
    BY <1>8 DEF vars
  <2> QED  BY <1>2, <2>1, StillPath
<1> QED  BY <1>3, <1>4, <1>5, <1>6, <1>7, <1>8, Zenon DEF Next

\* No operation sets the status "quoted".
UnquotedInv == \A b \in Ids : status[b] # "quoted"

LEMMA UnquotedKept == ASSUME TypeOK, LocalInv, UnquotedInv, [Next]_vars PROVE UnquotedInv'
<1>1. ASSUME NEW r \in Requests, Handle(r) PROVE UnquotedInv'
  <2>1. CASE InsertDraft(r) \/ WriteStatus(r)
    BY <2>1 DEF InsertDraft, WriteStatus, Goto, TypeOK, LocalInv, UnquotedInv, Early
  <2>2. CASE ~(InsertDraft(r) \/ WriteStatus(r))
    <3>1. status' = status
      BY <1>1, <2>2 DEF Handle, InsertTravellers, Find, ReadStatus, AddHistory, InsertLine,
         InsertAllocation, Return, Refuse, Throw, rowVars
    <3> QED  BY <3>1 DEF UnquotedInv
  <2> QED  BY <2>1, <2>2
<1>2. ASSUME NEW r \in Requests, Middleware(r) \/ Evict(r) PROVE status' = status
  BY <1>2 DEF Middleware, Evict, rowVars
<1>3. ASSUME NEW r \in Requests, NEW o, NEW b, NEW h, Call(r, o, b, h) PROVE status' = status
  BY <1>3 DEF Call, rowVars
<1>4. ASSUME \/ \E k \in Keys : Expire(k)
             \/ \E b \in Ids : Checkout(b)
      PROVE  status' = status
  BY <1>4 DEF Expire, Checkout, rowVars
<1>5. CASE UNCHANGED vars
  BY <1>5 DEF vars, rowVars, UnquotedInv
<1>6. ASSUME status' = status PROVE UnquotedInv'
  BY <1>6 DEF UnquotedInv
<1> QED  BY <1>1, <1>2, <1>3, <1>4, <1>5, <1>6, Zenon DEF Next

PathInv == StageInv /\ UnquotedInv /\ WholeInv /\ TracedInv

LEMMA PathsInit == Init => PathInv
<1> SUFFICES ASSUME Init PROVE StageInv /\ UnquotedInv /\ WholeInv /\ TracedInv
  BY DEF PathInv
<1>1. StageInv
  BY DEF Init, StageInv
<1>2. UnquotedInv
  BY DEF Init, UnquotedInv
<1>3. WholeInv
  BY DEF Init, WholeInv, Whole, Late, Early
<1>4. TracedInv
  BY DEF Init, TracedInv, Traced
<1> QED  BY <1>1, <1>2, <1>3, <1>4

LEMMA PathInvariance == Spec => [](Inv /\ PathInv)
<1>1. Init => Inv /\ PathInv
  BY InitInv, PathsInit
<1>2. Inv /\ PathInv /\ [Next]_vars => (Inv /\ PathInv)'
  BY StepInv, StagesKept, UnquotedKept, PathsKept DEF Inv, PathInv
<1> QED  BY <1>1, <1>2, PTL DEF Spec

\* A booking nobody works on shows the last status of its history, which leads
\* there without a gap, or else is cancelled: updateStatus reads, writes and
\* records what it had read in three awaits, and cancelling leaves no history.
THEOREM HistoryIsTrue == Spec => []HistoryLeadsToStatus
<1>1. PathInv => HistoryLeadsToStatus
  BY DEF PathInv, TracedInv, Traced, HistoryLeadsToStatus, WorkingOn, Last
<1> QED  BY <1>1, PathInvariance, PTL

\* Beyond a draft, a booking has its travellers and its charges, unless a request
\* that worked on it was cut short (createDraft, applyBookingCharges).
THEOREM ConfirmedIsWhole == Spec => []ConfirmedIsComplete
<1>1. Inv /\ PathInv => ConfirmedIsComplete
  <2> SUFFICES ASSUME Inv, PathInv, NEW b \in Ids \ (cut \cup overlapped), WorkingOn(b) = {},
                      status[b] \notin {"absent", "draft", "cancelled"}
               PROVE  /\ b \in travellers
                      /\ \A i \in 1..Lines : charges[b][i] = 1 /\ allocations[b][i] = 1
    BY DEF ConfirmedIsComplete
  <2>1. \A r \in Requests : on[r] = b => pc[r] = "idle"
    BY DEF WorkingOn
  <2>2. Whole(b)
    BY DEF PathInv, WholeInv
  <2>3. b \in travellers /\ (status[b] \in Late => Full(b))
    BY <2>1, <2>2 DEF Whole, Charging
  <2>4. status[b] \in Late
    BY DEF Inv, PathInv, UnquotedInv, TypeOK, Late, Early
  <2> QED  BY <2>3, <2>4 DEF Full
<1> QED  BY <1>1, PathInvariance, PTL

=============================================================================
