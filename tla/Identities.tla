----------------------------- MODULE Identities -----------------------------
(***************************************************************************)
(* What packages/identity keeps of its users beside their sessions: their  *)
(* phone numbers and the challenges that verify them                       *)
(* (identity-service.ts), and the recovery codes (mfa-service.ts) and      *)
(* trusted devices (trusted-device-service.ts) of one of them.             *)
(*                                                                         *)
(* Each await of a request is a step.  What a call creates is named by the *)
(* number of the call, as the code names it by a fresh id.  Email          *)
(* addresses are as phone numbers, but that no route asks for one to be    *)
(* verified.                                                               *)
(***************************************************************************)
EXTENDS Integers, Sequences, FiniteSets

CONSTANTS
    Users, Phones, Devices,
    Requests,       \* requests under way at once
    NoUser,
    Limit,          \* how many challenges verifyChallenge looks at: 5
    PerIssue,       \* recovery codes of one generation: 10
    MaxCalls,       \* bound: requests made
    MaxFaults       \* bound: requests cut short

ASSUME IdentitiesAssumption ==
    /\ NoUser \notin Users
    /\ Limit \in Nat \ {0} /\ PerIssue \in Nat \ {0}
    /\ MaxCalls \in Nat /\ MaxFaults \in Nat

VARIABLES
    holder,         \* phone_numbers.user_id
    marked,         \* phone_numbers with a verified_at
    identity,       \* numbers that have a user_identities row, of their holder
    verified,       \* user_identities with a verified_at
    challenges,     \* of each user, oldest first
    codes,          \* recovery_codes: "none", "unused" or "used"
    device,         \* trusted_devices.id, 0 for no row
    lapsed,         \* trusted_devices past their expires_at
    pc, arg,        \* the await a request is about to perform, and on what
    accepted,       \* history: secrets that were accepted
    again,          \* history: secrets that were accepted again
    raced,          \* history: secrets two requests had found at once
    shown,          \* history: the codes the user was shown last
    alone,          \* history: regenerations that met no other
    settled,        \* history: the last regeneration met no other
    lost,           \* history: requests whose device was removed meanwhile
    kept,           \* history: devices trusted, and neither revoked nor lapsed
    calls, faults

contactVars == <<holder, marked, identity, verified, challenges>>
codeVars == <<codes, shown, alone, settled>>
deviceVars == <<device, lapsed, lost, kept>>
secretVars == <<accepted, again, raced>>
vars == <<contactVars, codeVars, deviceVars, secretVars, pc, arg, calls, faults>>

-----------------------------------------------------------------------------
NoArg == <<>>

\* A request comes in and performs its first await.
Call == calls < MaxCalls /\ calls' = calls + 1 /\ UNCHANGED faults

Begin(r, step, on) ==
    /\ Call /\ pc[r] = "idle"
    /\ pc' = [pc EXCEPT ![r] = step]
    /\ arg' = [arg EXCEPT ![r] = on]

Goto(r, from, to) ==
    /\ pc[r] = from
    /\ pc' = [pc EXCEPT ![r] = to]
    /\ arg' = IF to = "idle" THEN [arg EXCEPT ![r] = NoArg] ELSE arg
    /\ UNCHANGED <<calls, faults>>

\* Calls of one await.
Once == Call /\ UNCHANGED <<secretVars, pc, arg>>

\* A request has found a secret unused, as others may have.
Find(r, step, secret) ==
    /\ Begin(r, step, secret)
    /\ raced' = IF \E s \in Requests : pc[s] = step /\ arg[s] = secret
                THEN raced \cup {secret} ELSE raced
    /\ UNCHANGED <<accepted, again>>

Accept(r) ==
    /\ accepted' = accepted \cup {arg[r]}
    /\ again' = IF arg[r] \in accepted THEN again \cup {arg[r]} ELSE again
    /\ UNCHANGED raced

-----------------------------------------------------------------------------
(* Phone numbers *)

\* One batch: the unique index of phone_numbers refuses a number anybody holds,
\* also one whose identity was removed.
AddPhone(u, p) ==
    /\ Once
    /\ holder[p] = NoUser
    /\ holder' = [holder EXCEPT ![p] = u]
    /\ identity' = identity \cup {p}
    /\ UNCHANGED <<marked, verified, challenges, codeVars, deviceVars>>

RemoveIdentity(p) ==
    /\ Once
    /\ p \in identity
    /\ identity' = identity \ {p} /\ verified' = verified \ {p}
    /\ UNCHANGED <<holder, marked, challenges, codeVars, deviceVars>>

SendVerification(u) ==
    /\ Once
    /\ challenges' = [challenges EXCEPT ![u] = Append(@, [used |-> FALSE, expired |-> FALSE])]
    /\ UNCHANGED <<holder, marked, identity, verified, codeVars, deviceVars>>

ExpireChallenge(u, i) ==
    /\ i \in DOMAIN challenges[u] /\ ~challenges[u][i].expired
    /\ challenges' = [challenges EXCEPT ![u][i].expired = TRUE]
    /\ UNCHANGED <<holder, marked, identity, verified, codeVars, deviceVars,
                   secretVars, pc, arg, calls, faults>>

Unused(u) == {i \in DOMAIN challenges[u] : ~challenges[u][i].used}

\* The challenges a code is compared with: the oldest few that are unused, the
\* expired ones, which nothing deletes, among them.
Candidates(u) == {i \in Unused(u) : Cardinality({j \in Unused(u) : j < i}) < Limit}

VerifyChallenge(r, u, i) ==
    /\ i \in Candidates(u) /\ ~challenges[u][i].expired
    /\ Find(r, "mark", <<"challenge", u, i>>)
    /\ UNCHANGED <<contactVars, codeVars, deviceVars>>

MarkUsed(r) ==
    /\ Goto(r, "mark", "identities")
    /\ challenges' = [challenges EXCEPT ![arg[r][2]][arg[r][3]].used = TRUE]
    /\ Accept(r)
    /\ UNCHANGED <<holder, marked, identity, verified, codeVars, deviceVars>>

\* The numbers of the user a request verifies (a variant first: of any user).
AllHeld(r) == {p \in Phones : holder[p] # NoUser}

OfUser(r) == {p \in Phones : holder[p] = arg[r][2]}

\* All of the user's identities are verified, whichever the code was sent to.
MarkIdentities(r) ==
    /\ Goto(r, "identities", "phones")
    /\ verified' = verified \cup (OfUser(r) \cap identity)
    /\ UNCHANGED <<holder, marked, identity, challenges, codeVars, deviceVars,
                   secretVars>>

MarkPhones(r) ==
    /\ Goto(r, "phones", "idle")
    /\ marked' = marked \cup OfUser(r)
    /\ UNCHANGED <<holder, identity, verified, challenges, codeVars, deviceVars,
                   secretVars>>

-----------------------------------------------------------------------------
(* Recovery codes *)

Generation(n) == {<<"code", n, i>> : i \in 1..PerIssue}
Codes == {<<"code", n, i>> : n \in 1..MaxCalls, i \in 1..PerIssue}

\* Nothing is deleted before codes are generated (a variant).
DeleteNone == codes
DeleteUnused == [c \in Codes |-> IF codes[c] = "unused" THEN "none" ELSE codes[c]]

Regenerating == {r \in Requests : pc[r] \in {"delete", "insert"}}

RegenerateRecoveryCodes(r) ==
    /\ Begin(r, "delete", <<"code", calls + 1, 1>>)
    /\ alone' = IF Regenerating = {} THEN {r} ELSE {}
    /\ settled' = FALSE
    /\ UNCHANGED <<contactVars, codes, shown, deviceVars, secretVars>>

Delete(r) ==
    /\ Goto(r, "delete", "insert")
    /\ codes' = DeleteUnused
    /\ UNCHANGED <<contactVars, shown, alone, settled, deviceVars, secretVars>>

InsertCode(r) ==
    /\ pc[r] = "insert" /\ arg[r][3] < PerIssue
    /\ codes' = [codes EXCEPT ![arg[r]] = "unused"]
    /\ arg' = [arg EXCEPT ![r][3] = @ + 1]
    /\ UNCHANGED <<contactVars, shown, alone, settled, deviceVars, secretVars, pc,
                   calls, faults>>

\* The last code is inserted, and all are returned.
InsertLastCode(r) ==
    /\ Goto(r, "insert", "idle") /\ arg[r][3] = PerIssue
    /\ codes' = [codes EXCEPT ![arg[r]] = "unused"]
    /\ shown' = Generation(arg[r][2])
    /\ settled' = (r \in alone) /\ alone' = alone \ {r}
    /\ UNCHANGED <<contactVars, deviceVars, secretVars>>

\* A variant: the codes are read whether they were used or not.
Known == {c \in Codes : codes[c] # "none"}
Redeemable == {c \in Codes : codes[c] = "unused"}

VerifyRecoveryCode(r, c) ==
    /\ c \in Redeemable
    /\ Find(r, "use", c)
    /\ UNCHANGED <<contactVars, codeVars, deviceVars>>

\* The update finds no row if the codes were deleted meanwhile.
UseCode(r) ==
    /\ Goto(r, "use", "idle")
    /\ codes' = [codes EXCEPT ![arg[r]] = IF @ = "none" THEN @ ELSE "used"]
    /\ Accept(r)
    /\ UNCHANGED <<contactVars, shown, alone, settled, deviceVars>>

-----------------------------------------------------------------------------
(* Trusted devices *)

Trust(r, d) ==
    /\ Begin(r, IF device[d] = 0 THEN "create" ELSE "update",
             <<"device", d, device[d], calls + 1>>)
    /\ lost' = lost \ {r}
    /\ UNCHANGED <<contactVars, codeVars, device, lapsed, kept, secretVars>>

\* The request answers that it trusts the device.
Answer(r, d) == kept' = IF r \in lost THEN kept ELSE kept \cup {d}

\* An update that renames a device and leaves its expiry alone (a variant).
StillLapsed(d, id) == lapsed
Renewed(d, id) == IF device[d] = id THEN lapsed \ {d} ELSE lapsed

UpdateDevice(r) ==
    LET d == arg[r][2] IN
    /\ Goto(r, "update", "idle")
    /\ lapsed' = Renewed(d, arg[r][3])
    /\ Answer(r, d)
    /\ UNCHANGED <<contactVars, codeVars, device, lost, secretVars>>

CreateDevice(r) ==
    LET d == arg[r][2] IN
    /\ Goto(r, "create", "idle")
    /\ device[d] = 0
    /\ device' = [device EXCEPT ![d] = arg[r][4]]
    /\ Answer(r, d)
    /\ UNCHANGED <<contactVars, codeVars, lapsed, lost, secretVars>>

\* The unique index refuses a device another request has created.
RefuseDevice(r) ==
    /\ Goto(r, "create", "idle")
    /\ device[arg[r][2]] # 0
    /\ UNCHANGED <<contactVars, codeVars, deviceVars, secretVars>>

RemoveDevices(ds) ==
    /\ device' = [d \in Devices |-> IF d \in ds THEN 0 ELSE device[d]]
    /\ lapsed' = lapsed \ ds
    /\ lost' = lost \cup {r \in Requests : pc[r] \in {"update", "create"} /\ arg[r][2] \in ds}
    /\ kept' = kept \ ds
    /\ UNCHANGED <<contactVars, codeVars>>

Rows == {d \in Devices : device[d] # 0}

Revoke(d) == Once /\ d \in Rows /\ RemoveDevices({d})

RevokeAll == Once /\ RemoveDevices(Rows)

LapseDevice(d) ==
    /\ d \in Rows \ lapsed
    /\ lapsed' = lapsed \cup {d}
    /\ kept' = kept \ {d}
    /\ UNCHANGED <<contactVars, codeVars, device, lost, secretVars, pc, arg, calls, faults>>

\* The cron job.
CleanupExpired ==
    /\ lapsed # {}
    /\ RemoveDevices(lapsed)
    /\ UNCHANGED <<secretVars, pc, arg, calls, faults>>

-----------------------------------------------------------------------------
\* An await throws, or the Worker is evicted.
Abort(r) ==
    /\ pc[r] # "idle" /\ faults < MaxFaults
    /\ faults' = faults + 1
    /\ pc' = [pc EXCEPT ![r] = "idle"] /\ arg' = [arg EXCEPT ![r] = NoArg]
    /\ alone' = alone \ {r}
    /\ UNCHANGED <<holder, marked, identity, verified, challenges, codes, shown, settled,
                   deviceVars, secretVars, calls>>

Init ==
    /\ holder = [p \in Phones |-> NoUser]
    /\ marked = {} /\ identity = {} /\ verified = {}
    /\ challenges = [u \in Users |-> <<>>]
    /\ codes = [c \in Codes |-> "none"]
    /\ device = [d \in Devices |-> 0] /\ lapsed = {}
    /\ pc = [r \in Requests |-> "idle"] /\ arg = [r \in Requests |-> NoArg]
    /\ accepted = {} /\ again = {} /\ raced = {}
    /\ shown = {} /\ alone = {} /\ settled = FALSE /\ lost = {} /\ kept = {}
    /\ calls = 0 /\ faults = 0

Contact(r) ==
    \/ \E u \in Users : \E i \in DOMAIN challenges[u] : VerifyChallenge(r, u, i)
    \/ MarkUsed(r) \/ MarkIdentities(r) \/ MarkPhones(r)

Recovery(r) ==
    \/ RegenerateRecoveryCodes(r) \/ Delete(r) \/ InsertCode(r) \/ InsertLastCode(r)
    \/ \E c \in Codes : VerifyRecoveryCode(r, c)
    \/ UseCode(r)

Device(r) ==
    \/ \E d \in Devices : Trust(r, d)
    \/ UpdateDevice(r) \/ CreateDevice(r) \/ RefuseDevice(r)

Next ==
    \/ \E r \in Requests : Contact(r) \/ Recovery(r) \/ Device(r) \/ Abort(r)
    \/ \E u \in Users : \/ \E p \in Phones : AddPhone(u, p)
                        \/ SendVerification(u)
                        \/ \E i \in DOMAIN challenges[u] : ExpireChallenge(u, i)
    \/ \E p \in Phones : RemoveIdentity(p)
    \/ \E d \in Devices : Revoke(d) \/ LapseDevice(d)
    \/ RevokeAll \/ CleanupExpired

Spec == Init /\ [][Next]_vars

-----------------------------------------------------------------------------
(* Type invariant *)

Secrets == {<<"challenge", u, i>> : u \in Users, i \in 1..MaxCalls} \cup Codes

\* Every row and local holds a value the code can put there, and the history
\* is of the numbers, secrets and devices there are.
TypeOK ==
    /\ holder \in [Phones -> Users \cup {NoUser}]
    /\ marked \subseteq Phones /\ verified \subseteq identity /\ identity \subseteq Phones
    /\ \A u \in Users : challenges[u] \in Seq([used : BOOLEAN, expired : BOOLEAN])
    /\ \A c \in Codes : codes[c] \in {"none", "unused", "used"}
    /\ device \in [Devices -> 0..MaxCalls] /\ lapsed \subseteq Rows
    /\ pc \in [Requests -> {"idle", "mark", "identities", "phones", "delete", "insert",
                            "use", "update", "create"}]
    /\ again \subseteq accepted /\ accepted \cup raced \subseteq Secrets
    /\ kept \subseteq Devices /\ lost \subseteq Requests
    /\ shown \subseteq Codes /\ alone \subseteq Requests /\ settled \in BOOLEAN
    /\ calls \in 0..MaxCalls /\ faults \in 0..MaxFaults

-----------------------------------------------------------------------------
(* Safety *)

\* A code, of a challenge or for recovery, is accepted a second time only when
\* two requests had both found it unused.
SecretsWorkOnce == again \subseteq raced

\* Whatever is verified is held by a user who has redeemed a challenge.
VerifiedByHolder ==
    \A p \in verified \cup marked :
        \E i \in DOMAIN challenges[holder[p]] : challenges[holder[p]][i].used

\* The recovery codes that still work are those the user was shown last, and
\* all of these that were not used; unless codes are being generated, or were
\* generated twice at once, or a generation was cut short.
ShownCodesWork ==
    settled => /\ Redeemable \subseteq shown
               /\ \A c \in shown : codes[c] = "unused" \/ c \in accepted

\* A device is trusted until it is revoked or its time is up, even if it had
\* lapsed before; unless its row was removed while it was being trusted again.
TrustHolds == kept \subseteq Rows \ lapsed
=============================================================================
