------------------------------ MODULE Accounts ------------------------------
(***************************************************************************)
(* AuthService (apps/api-edge/src/services/auth.service.ts) and the        *)
(* step-up challenges (packages/identity/src/step-up-service.ts), for the  *)
(* account of one email address, with its permissions.                     *)
(*                                                                         *)
(* Sessions, password resets, invites and step-up challenges are numbered  *)
(* as they are created.  Each is good for one use: a session for a         *)
(* refresh.  Each await of a request is a step.                            *)
(***************************************************************************)
EXTENDS Permissions, Sequences

CONSTANTS
    Customer,       \* the role a registration grants
    MaxCalls,       \* bound: requests made
    MaxFaults       \* bound: exceptions and evictions

ASSUME AccountsAssumption ==
    /\ Customer \in Roles
    /\ MaxCalls \in Nat /\ MaxFaults \in Nat

VARIABLES
    user,           \* users.is_active, "absent" before the row exists
    password,       \* how often the password was set
    profile,        \* whether profiles has the user
    credentials,    \* sessions, resets, invites and challenges
    pc, op,         \* the await a request is about to perform, its operation
    arg,            \* the credential it was called with, 0 for none
    proved,         \* the password its caller has shown to know
    overlapped,     \* history: credentials two requests used at once
    behind,         \* history: requests issuing a session when a reset ended
    escaped,        \* history: sessions a reset missed, and what came of them
    cut,            \* history: credentials whose use was cut short
    calls, faults   \* requests and faults so far

rowVars == <<user, password, profile, credentials>>
requestVars == <<pc, op, arg, proved>>
histVars == <<overlapped, behind, escaped, cut>>
countVars == <<calls, faults>>
vars == <<permVars, rowVars, requestVars, histVars, countVars>>

-----------------------------------------------------------------------------
\* The kind of credential an operation uses.
Takes == [ refresh |-> "session", logout |-> "session", confirmReset |-> "reset",
           acceptInvite |-> "invite", complete |-> "challenge" ]

\* The kind of credential an operation creates.
Makes == [ register |-> "session", login |-> "session", refresh |-> "session",
           acceptInvite |-> "session", requestReset |-> "reset",
           createInvite |-> "invite", createChallenge |-> "challenge" ]

Issuing == {o \in DOMAIN Makes : Makes[o] = "session"}
Operations == DOMAIN Takes \cup DOMAIN Makes \cup {"disable", "enable"}

\* The await each operation starts with.
First(o) == CASE o \in {"register", "login", "requestReset"} -> "find"
              [] o \in {"createInvite", "createChallenge"} -> "insert"
              [] o \in {"disable", "enable"} -> "write"
              [] o = "logout" -> "end"
              [] OTHER -> "lookup"

Steps == {"find", "insert", "write", "end", "lookup", "create", "profile", "role",
          "mark", "account", "revoke", "password", "revokeAll", "effect"}

Kinds == {"session", "reset", "invite", "challenge"}

OfKind(kind) == {i \in DOMAIN credentials : credentials[i].kind = kind}

Live == {i \in OfKind("session") : credentials[i].state = "open"}

\* The requests at work on one of some operations.
Busy(ops) == {r \in Requests : pc[r] # "idle" /\ op[r] \in ops}

Fault == /\ faults < MaxFaults
         /\ faults' = faults + 1

Move(r, from, to) ==
    /\ pc[r] = from
    /\ pc' = [pc EXCEPT ![r] = to]
    /\ UNCHANGED <<copy, at, loaded, crossed, op, arg, overlapped, cut, countVars>>

Goto(r, from, to) == Move(r, from, to) /\ UNCHANGED <<behind, escaped>>

Used(i) == credentials' = [credentials EXCEPT ![i].uses = @ + 1]
Spent(i) == credentials' = [credentials EXCEPT ![i].state = "used"]

-----------------------------------------------------------------------------
(* Variants: plausible bugs, one per property.  No action uses them.        *)

\* A credential is accepted whether it was used or not.
Acceptable(r) == credentials[arg[r]].state # "expired"

\* A reset leaves the sessions alone.
RevokeNone(r) ==
    /\ Move(r, "revokeAll", "idle")
    /\ behind' = behind \cup Busy(Issuing)
    /\ UNCHANGED <<granted, rowVars, proved, escaped>>

-----------------------------------------------------------------------------
(* Calls.  Who makes one, and the token shown for a credential, have been     *)
(* checked; a challenge is created from a session.                            *)

Call(r, o, i) ==
    /\ calls < MaxCalls /\ calls' = calls + 1
    /\ pc[r] = "idle" /\ at[r] = "away"
    /\ IF o \in DOMAIN Takes THEN i \in OfKind(Takes[o]) ELSE i = 0
    /\ o = "createChallenge" => OfKind("session") # {}
    /\ o \in {"disable", "enable"} => user # "absent"
    /\ pc' = [pc EXCEPT ![r] = First(o)]
    /\ op' = [op EXCEPT ![r] = o]
    /\ arg' = [arg EXCEPT ![r] = i]
    /\ overlapped' = IF \E s \in Busy({o}) : i # 0 /\ arg[s] = i
                     THEN overlapped \cup {i} ELSE overlapped
    /\ behind' = behind \ {r}
    /\ UNCHANGED <<permVars, rowVars, proved, escaped, cut, faults>>

\* A session's token opens every route until it expires, revoked or not.
Authorize(r) ==
    /\ calls < MaxCalls /\ calls' = calls + 1
    /\ pc[r] = "idle" /\ OfKind("session") # {}
    /\ Hydrate(r)
    /\ UNCHANGED <<rowVars, requestVars, histVars, faults>>

ChangeRoles(r) ==
    /\ calls < MaxCalls /\ calls' = calls + 1
    /\ pc[r] = "idle" /\ user # "absent"
    /\ \E how \in {"assign", "remove"} : Change(r, how)
    /\ UNCHANGED <<rowVars, requestVars, histVars, faults>>

-----------------------------------------------------------------------------
(* Reading *)

\* What register, login and requestPasswordReset go on with.
Served(o) == user \in CASE o = "register" -> {"absent"}
                        [] o = "login" -> {"active"}
                        [] OTHER -> {"active", "disabled"}

Find(r) ==
    /\ Goto(r, "find", IF ~Served(op[r]) THEN "idle"
                       ELSE IF op[r] = "register" THEN "create" ELSE "insert")
    /\ proved' = [proved EXCEPT ![r] = password]
    /\ UNCHANGED <<granted, rowVars>>

\* A credential is good that has not been used, or expired.
Good(r) == credentials[arg[r]].state = "open"

\* An expired session is revoked, any other that will not do is refused.
Lookup(r) ==
    /\ Goto(r, "lookup",
            CASE Good(r) /\ op[r] = "refresh" -> "account"
              [] Good(r) /\ op[r] = "confirmReset" -> "password"
              [] Good(r) /\ op[r] = "acceptInvite" -> "create"
              [] Good(r) /\ op[r] = "complete" -> "mark"
              [] ~Good(r) /\ op[r] = "refresh" /\ credentials[arg[r]].state = "expired" -> "end"
              [] OTHER -> "idle")
    /\ proved' = [proved EXCEPT ![r] = credentials[arg[r]].basis]
    /\ UNCHANGED <<granted, rowVars>>

\* refreshSession looks at the user; login has done so with the password.
FindAccount(r) ==
    /\ Goto(r, "account", IF user = "active" THEN "revoke" ELSE "idle")
    /\ UNCHANGED <<granted, rowVars, proved>>

\* A wrong password, or a wrong code for a challenge, is refused.
WrongSecret(r) ==
    /\ \/ pc[r] = "insert" /\ op[r] = "login"
       \/ pc[r] = "mark" /\ op[r] = "complete"
    /\ Goto(r, pc[r], "idle")
    /\ UNCHANGED <<granted, rowVars, proved>>

-----------------------------------------------------------------------------
(* Writing *)

\* register and acceptInvite; the index on the email admits one row.
CreateUser(r) ==
    /\ Goto(r, "create", IF user = "absent" THEN "profile" ELSE "idle")
    /\ user' = IF user = "absent" THEN "active" ELSE user
    /\ password' = IF user = "absent" THEN 1 ELSE password
    /\ proved' = [proved EXCEPT ![r] = 1]
    /\ IF user = "absent" /\ arg[r] # 0 THEN Used(arg[r]) ELSE UNCHANGED credentials
    /\ UNCHANGED <<granted, profile>>

CreateProfile(r) ==
    /\ Goto(r, "profile", IF op[r] = "register" THEN "role" ELSE "mark")
    /\ profile' = TRUE
    /\ UNCHANGED <<granted, user, password, credentials, proved>>

\* Only registration grants a role, and drops no copy: there is one if the user
\* has already logged in elsewhere.
GrantCustomer(r) ==
    /\ pc[r] = "role"
    /\ pc' = [pc EXCEPT ![r] = "insert"]
    /\ Grant(Customer)
    /\ UNCHANGED <<rowVars, op, arg, proved, histVars, countVars>>

\* A session, reset, invite or challenge is created; for a session, from another
\* one if it is refreshed.
Insert(r) ==
    /\ Move(r, "insert", "idle")
    /\ LET c == [kind |-> Makes[op[r]], state |-> "open", basis |-> proved[r], uses |-> 0]
           spent == IF op[r] = "refresh" THEN [credentials EXCEPT ![arg[r]].uses = @ + 1]
                                         ELSE credentials
       IN credentials' = Append(spent, c)
    /\ escaped' = IF op[r] \in Issuing /\ (r \in behind \/ arg[r] \in escaped)
                  THEN escaped \cup {Len(credentials) + 1} ELSE escaped
    /\ UNCHANGED <<granted, user, password, profile, proved, behind>>

\* refreshSession revokes the session before it issues the next.
Revoke(r) ==
    /\ Goto(r, "revoke", "insert")
    /\ Spent(arg[r])
    /\ UNCHANGED <<granted, user, password, profile, proved>>

\* logout, and a refresh that finds its session expired.
RevokeOnly(r) ==
    /\ Goto(r, "end", "idle")
    /\ Spent(arg[r])
    /\ UNCHANGED <<granted, user, password, profile, proved>>

\* confirmPasswordReset sets the password before it marks the reset used.
SetPassword(r) ==
    /\ Goto(r, "password", "mark")
    /\ password' = password + 1
    /\ Used(arg[r])
    /\ UNCHANGED <<granted, user, profile, proved>>

MarkUsed(r) ==
    /\ Goto(r, "mark", CASE op[r] = "confirmReset" -> "revokeAll"
                         [] op[r] = "acceptInvite" -> "insert"
                         [] OTHER -> "effect")
    /\ Spent(arg[r])
    /\ UNCHANGED <<granted, user, password, profile, proved>>

RevokeAll(r) ==
    /\ Move(r, "revokeAll", "idle")
    /\ credentials' = [i \in DOMAIN credentials |->
                          IF i \in OfKind("session")
                          THEN [credentials[i] EXCEPT !.state = "used"] ELSE credentials[i]]
    /\ behind' = behind \cup Busy(Issuing)
    /\ UNCHANGED <<granted, user, password, profile, proved, escaped>>

\* completeChallenge marks the challenge before it raises the session's assurance.
RaiseAssurance(r) ==
    /\ Goto(r, "effect", "idle")
    /\ Used(arg[r])
    /\ UNCHANGED <<granted, user, password, profile, proved>>

SetActive(r) ==
    /\ Goto(r, "write", "idle")
    /\ user' = IF op[r] = "disable" THEN "disabled" ELSE "active"
    /\ UNCHANGED <<granted, password, profile, credentials, proved>>

-----------------------------------------------------------------------------
(* Time and faults *)

Expire(i) ==
    /\ i \in DOMAIN credentials /\ credentials[i].state = "open"
    /\ credentials' = [credentials EXCEPT ![i].state = "expired"]
    /\ UNCHANGED <<permVars, user, password, profile, requestVars, histVars, countVars>>

ForgetCopy ==
    /\ ExpireCopy
    /\ UNCHANGED <<rowVars, requestVars, histVars, countVars>>

\* An await throws or the worker is evicted: what was written stays.
Abort(r) ==
    /\ pc[r] # "idle" /\ Fault
    /\ pc' = [pc EXCEPT ![r] = "idle"]
    /\ cut' = IF arg[r] # 0 /\ pc[r] # First(op[r]) THEN cut \cup {arg[r]} ELSE cut
    /\ LET missed == op[r] = "confirmReset" /\ pc[r] \in {"mark", "revokeAll"}
       IN /\ behind' = IF missed THEN behind \cup Busy(Issuing) ELSE behind
          /\ escaped' = IF missed THEN escaped \cup Live ELSE escaped
    /\ UNCHANGED <<permVars, rowVars, op, arg, proved, overlapped, calls>>

AbortPermissions(r) ==
    /\ Drop(r) /\ Fault
    /\ UNCHANGED <<rowVars, requestVars, histVars, calls>>

Permission(r) ==
    /\ PermStep(r)
    /\ UNCHANGED <<rowVars, requestVars, histVars, countVars>>

-----------------------------------------------------------------------------
Init ==
    /\ PermInit
    /\ user = "absent" /\ password = 0 /\ profile = FALSE
    /\ credentials = <<>>
    /\ pc = [r \in Requests |-> "idle"]
    /\ op = [r \in Requests |-> "login"]
    /\ arg = [r \in Requests |-> 0]
    /\ proved = [r \in Requests |-> 0]
    /\ overlapped = {} /\ cut = {}
    /\ behind = {} /\ escaped = {}
    /\ calls = 0 /\ faults = 0

Read(r) == Find(r) \/ Lookup(r) \/ FindAccount(r) \/ WrongSecret(r)

Write(r) ==
    \/ CreateUser(r) \/ CreateProfile(r) \/ GrantCustomer(r)
    \/ Insert(r) \/ Revoke(r) \/ RevokeOnly(r)
    \/ SetPassword(r) \/ MarkUsed(r) \/ RevokeAll(r)
    \/ RaiseAssurance(r) \/ SetActive(r)

Next ==
    \/ \E r \in Requests :
        \/ \E o \in Operations, i \in 0..Len(credentials) : Call(r, o, i)
        \/ Authorize(r) \/ ChangeRoles(r)
        \/ Read(r) \/ Write(r) \/ Permission(r)
        \/ Abort(r) \/ AbortPermissions(r)
    \/ \E i \in 1..Len(credentials) : Expire(i)
    \/ ForgetCopy

Spec == Init /\ [][Next]_vars

-----------------------------------------------------------------------------
TypeOK ==
    /\ PermTypeOK
    /\ user \in {"absent", "active", "disabled"}
    /\ password \in Nat /\ profile \in BOOLEAN
    /\ credentials \in Seq([kind : Kinds, state : {"open", "expired", "used"},
                            basis : Nat, uses : Nat])
    /\ pc \in [Requests -> Steps \cup {"idle"}]
    /\ op \in [Requests -> Operations]
    /\ arg \in [Requests -> Nat] /\ proved \in [Requests -> Nat]
    /\ overlapped \subseteq Nat /\ cut \subseteq Nat
    /\ behind \subseteq Requests /\ escaped \subseteq Nat
    /\ calls \in 0..MaxCalls /\ faults \in 0..MaxFaults

\* A session yields one next session, a challenge raises the assurance once, an
\* invite makes one account and a reset sets one password: unless two requests
\* used it at once, which the index on the email spares an invite; and a reset
\* cut short before it was marked used works again.
CredentialsWorkOnce ==
    \A i \in DOMAIN credentials :
        credentials[i].uses > 1 =>
            \/ i \in overlapped /\ credentials[i].kind # "invite"
            \/ i \in cut /\ credentials[i].kind = "reset"

\* After a password reset no session is left that was opened with an earlier
\* password, except one that was being issued when the reset revoked the others,
\* one that was open or being issued when a reset was cut short before it came to
\* revoke them, and what was refreshed from such a one.
ResetEndsOldSessions ==
    Busy({"confirmReset"}) = {} =>
        \A i \in Live : credentials[i].basis = password \/ i \in escaped
=============================================================================
