----------------------------- MODULE Idempotency ----------------------------
(***************************************************************************)
(* The idempotency middleware (packages/auth/src/middleware/               *)
(* idempotency.middleware.ts): a lock and a cached answer in KV, which has *)
(* no compare-and-set, around a handler that another module specifies.     *)
(* Each await of a request is a step.                                      *)
(***************************************************************************)
EXTENDS Naturals, FiniteSets

CONSTANTS
    Requests,       \* slots for requests, each serves one request at a time
    Keys,           \* what cacheKey and lockKey are made of: path and header
    NoKey           \* of a request to a route without the middleware

ASSUME KeysAssumption == NoKey \notin Keys

VARIABLES
    stage,          \* where a request is in the middleware
    keyOf,          \* its key
    answered,       \* whether its handler answered with a 2xx
    cached,         \* keys with a cached answer
    locks,          \* keys with a lock
    raced,          \* history: keys whose lock two requests read before writing
    expired         \* history: keys whose lock expired

idemVars == <<stage, keyOf, answered, cached, locks, raced, expired>>

-----------------------------------------------------------------------------
Stages == {"outside", "cache", "lock", "put", "inside", "store", "release"}

\* Requests that run their handler under a key, or have yet to drop its lock.
Holders(k) == {r \in Requests : keyOf[r] = k /\ stage[r] \in {"inside", "store", "release"}}

\* Requests that have found no lock for a key and are about to write it.
Takers(k) == {r \in Requests : keyOf[r] = k /\ stage[r] = "put"}

Move(r, from, to) ==
    /\ stage[r] = from
    /\ stage' = [stage EXCEPT ![r] = to]

\* A request comes in, with a key or for a route that asks for none.
Enter(r, k) ==
    /\ Move(r, "outside", IF k = NoKey THEN "inside" ELSE "cache")
    /\ keyOf' = [keyOf EXCEPT ![r] = k]
    /\ UNCHANGED <<answered, cached, locks, raced, expired>>

-----------------------------------------------------------------------------
(* Variants: plausible bugs that no action uses. *)

\* The lock is not looked at.
GetLockAlways(r) ==
    /\ Move(r, "lock", "put")
    /\ UNCHANGED <<keyOf, answered, cached, locks, raced, expired>>

-----------------------------------------------------------------------------
\* A cached answer is replayed.
GetCached(r) ==
    /\ Move(r, "cache", IF keyOf[r] \in cached THEN "outside" ELSE "lock")
    /\ UNCHANGED <<keyOf, answered, cached, locks, raced, expired>>

\* A request that finds a lock is refused.
GetLock(r) ==
    /\ Move(r, "lock", IF keyOf[r] \in locks THEN "outside" ELSE "put")
    /\ UNCHANGED <<keyOf, answered, cached, locks, raced, expired>>

PutLock(r) ==
    /\ Move(r, "put", "inside")
    /\ locks' = locks \cup {keyOf[r]}
    /\ raced' = IF Takers(keyOf[r]) # {r} THEN raced \cup {keyOf[r]} ELSE raced
    /\ UNCHANGED <<keyOf, answered, cached, expired>>

\* next() has returned; an error of the handler is a response by then.
Leave(r, ok) ==
    /\ Move(r, "inside", IF keyOf[r] = NoKey THEN "outside"
                         ELSE IF ok THEN "store" ELSE "release")
    /\ answered' = [answered EXCEPT ![r] = ok]
    /\ UNCHANGED <<keyOf, cached, locks, raced, expired>>

StoreAnswer(r) ==
    /\ Move(r, "store", "release")
    /\ cached' = cached \cup {keyOf[r]}
    /\ UNCHANGED <<keyOf, answered, locks, raced, expired>>

\* KV fails: the finally block still runs.
StoreFails(r) ==
    /\ Move(r, "store", "release")
    /\ UNCHANGED <<keyOf, answered, cached, locks, raced, expired>>

\* Whoever's lock it is by now.
ReleaseLock(r) ==
    /\ Move(r, "release", "outside")
    /\ locks' = locks \ {keyOf[r]}
    /\ UNCHANGED <<keyOf, answered, cached, raced, expired>>

\* The worker is evicted, or KV fails where nothing catches it.
CutShort(r) ==
    /\ stage[r] # "outside"
    /\ stage' = [stage EXCEPT ![r] = "outside"]
    /\ UNCHANGED <<keyOf, answered, cached, locks, raced, expired>>

\* A lock lives for LOCK_TTL_SECONDS, whether its request has ended or not.
ExpireLock(k) ==
    /\ k \in locks
    /\ locks' = locks \ {k}
    /\ expired' = expired \cup {k}
    /\ UNCHANGED <<stage, keyOf, answered, cached, raced>>

\* A cached answer lives for ttlSeconds.
ExpireAnswer(k) ==
    /\ k \in cached
    /\ cached' = cached \ {k}
    /\ UNCHANGED <<stage, keyOf, answered, locks, raced, expired>>

-----------------------------------------------------------------------------
IdemInit ==
    /\ stage = [r \in Requests |-> "outside"]
    /\ keyOf = [r \in Requests |-> NoKey]
    /\ answered = [r \in Requests |-> FALSE]
    /\ cached = {} /\ locks = {} /\ raced = {} /\ expired = {}

Wrap(r) == GetCached(r) \/ GetLock(r) \/ PutLock(r)
           \/ StoreAnswer(r) \/ StoreFails(r) \/ ReleaseLock(r)

-----------------------------------------------------------------------------
IdemTypeOK ==
    /\ stage \in [Requests -> Stages]
    /\ keyOf \in [Requests -> Keys \cup {NoKey}]
    /\ answered \in [Requests -> BOOLEAN]
    /\ cached \subseteq Keys /\ locks \subseteq Keys
    /\ raced \subseteq Keys /\ expired \subseteq Keys

\* Two handlers run under one key at a time only if both their requests looked
\* for the lock before either wrote it, or a lock expired under its request.
\* A lock dropped by somebody else comes after one of these.
HandlerRunsAlone ==
    \A k \in Keys \ (raced \cup expired) :
        \A r, s \in Holders(k) : r = s
=============================================================================
