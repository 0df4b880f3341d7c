-------------------------- MODULE IdentitiesProofs --------------------------
(***************************************************************************)
(* What is verified was verified by its holder, a secret is accepted again *)
(* only if two requests found it at once, the recovery codes that work are *)
(* those shown last, and a trusted device stays trusted.                   *)
(***************************************************************************)
EXTENDS Identities, SequenceTheorems, TLAPS

Challenge(u, i) == <<"challenge", u, i>>
Code(n, i) == <<"code", n, i>>

\* The part of the type invariant the proofs need.
Typed ==
    /\ holder \in [Phones -> Users \cup {NoUser}]
    /\ marked \subseteq Phones /\ identity \subseteq Phones /\ verified \subseteq identity
    /\ challenges \in [Users -> Seq([used : BOOLEAN, expired : BOOLEAN])]
    /\ codes \in [Codes -> {"none", "unused", "used"}]
    /\ device \in [Devices -> Nat] /\ lapsed \subseteq Devices
    /\ pc \in [Requests -> {"idle", "mark", "identities", "phones", "delete", "insert",
                            "use", "update", "create"}]
    /\ DOMAIN arg = Requests
    /\ calls \in Nat
    /\ alone \subseteq Requests /\ settled \in BOOLEAN /\ lost \subseteq Requests
    /\ kept \subseteq Devices

\* What a request at work has in hand.
ArgInv ==
    \A r \in Requests :
        /\ pc[r] \in {"mark", "identities", "phones"} =>
             \E u \in Users : \E i \in DOMAIN challenges[u] : arg[r] = Challenge(u, i)
        /\ pc[r] = "use" => arg[r] \in Codes
        /\ pc[r] \in {"delete", "insert"} =>
             \E n \in 1..MaxCalls : \E i \in 1..PerIssue :
                 n <= calls /\ arg[r] = Code(n, i)
        /\ pc[r] = "delete" => arg[r][3] = 1
        /\ pc[r] \in {"update", "create"} =>
             \E d \in Devices : \E id \in Nat, n \in Nat \ {0} :
                 arg[r] = <<"device", d, id, n>>

-----------------------------------------------------------------------------
(* Phone numbers *)

\* Users who have redeemed a challenge.
Redeemers == {u \in Users : \E i \in DOMAIN challenges[u] : challenges[u][i].used}

HolderInv ==
    /\ \A p \in identity \cup marked : holder[p] \in Users
    /\ \A p \in verified \cup marked : holder[p] \in Redeemers
    /\ \A r \in Requests : pc[r] \in {"identities", "phones"} => arg[r][2] \in Redeemers

-----------------------------------------------------------------------------
(* Secrets *)

\* A code that no regeneration has inserted yet.
Unborn(c) ==
    \/ c[2] > calls
    \/ \E r \in Requests : /\ pc[r] \in {"delete", "insert"}
                           /\ arg[r][2] = c[2] /\ arg[r][3] <= c[3]

\* Generations differ; a code is not known before it is inserted; what was
\* accepted is used; and whoever holds a secret that others hold too, or have
\* used, is one of two that found it at once.
GenerationInv ==
    \A r, s \in Regenerating : arg[r][2] = arg[s][2] => r = s

UnbornInv ==
    \A c \in Codes : Unborn(c) =>
        /\ codes[c] # "unused" /\ c \notin accepted
        /\ \A r \in Requests : pc[r] = "use" => arg[r] # c

UsedInv ==
    /\ \A c \in Codes : c \in accepted => codes[c] # "unused"
    /\ \A u \in Users, i \in Nat : Challenge(u, i) \in accepted =>
         i \in DOMAIN challenges[u] /\ challenges[u][i].used

Holds(r) == pc[r] \in {"mark", "use"}

RaceInv ==
    /\ \A r \in Requests : Holds(r) /\ arg[r] \in accepted => arg[r] \in raced
    /\ \A r, s \in Requests :
         Holds(r) /\ Holds(s) /\ r # s /\ arg[r] = arg[s] => arg[r] \in raced
    /\ SecretsWorkOnce

SecretInv == GenerationInv /\ UnbornInv /\ UsedInv /\ RaceInv

-----------------------------------------------------------------------------
(* Recovery codes *)

\* The codes of a generation that were inserted so far, or used since, and no others.
Inserted(n, m) ==
    /\ \A c \in Redeemable : c[2] = n /\ c[3] < m
    /\ \A i \in 1..PerIssue : i < m =>
         codes[Code(n, i)] = "unused" \/ Code(n, i) \in accepted

\* The regeneration that met no other is the only one, and what works of the
\* codes is what it has inserted.
AloneInv ==
    /\ settled => Regenerating = {}
    /\ ShownCodesWork /\ shown \subseteq Codes
    /\ \A r \in alone : Regenerating = {r}
    /\ \A r \in alone : pc[r] = "insert" => Inserted(arg[r][2], arg[r][3])

-----------------------------------------------------------------------------
(* Devices *)

DeviceInv ==
    /\ lapsed \subseteq Rows
    /\ TrustHolds
    /\ \A r \in Requests : pc[r] = "update" =>
         /\ arg[r][3] # 0
         /\ r \in lost \/ device[arg[r][2]] = arg[r][3]

IInv == Typed /\ ArgInv /\ HolderInv /\ SecretInv /\ AloneInv /\ DeviceInv

-----------------------------------------------------------------------------
(* Types *)

\* A challenge that expires or is used remains one.
LEMMA MarkedRow ==
    ASSUME NEW s \in Seq([used : BOOLEAN, expired : BOOLEAN]), NEW i \in DOMAIN s
    PROVE  /\ [s EXCEPT ![i].expired = TRUE] \in Seq([used : BOOLEAN, expired : BOOLEAN])
           /\ [s EXCEPT ![i].used = TRUE] \in Seq([used : BOOLEAN, expired : BOOLEAN])
<1> DEFINE Row == [used : BOOLEAN, expired : BOOLEAN]
<1>0. s \in Seq(Row)
  OBVIOUS
<1>1. i \in 1..Len(s) /\ s[i] \in Row
  <2> HIDE DEF Row
  <2> QED
    BY <1>0, LenProperties, ElementOfSeq
<1>2. [s[i] EXCEPT !.expired = TRUE] \in Row /\ [s[i] EXCEPT !.used = TRUE] \in Row
  BY <1>1
<1>3. /\ [s EXCEPT ![i] = [s[i] EXCEPT !.expired = TRUE]] \in Seq(Row)
      /\ [s EXCEPT ![i] = [s[i] EXCEPT !.used = TRUE]] \in Seq(Row)
  <2> HIDE DEF Row
  <2> QED
    BY <1>0, <1>1, <1>2, ExceptSeq
<1> QED
  BY <1>3

\* Every step keeps the types.
LEMMA StepTyped ==
    ASSUME Typed, ArgInv, Next
    PROVE  Typed'
<1> USE IdentitiesAssumption DEF Typed, Once, Call, Begin, Goto, Find, Accept, NoArg,
        contactVars, codeVars, deviceVars, secretVars
<1>1. ASSUME NEW u \in Users, NEW p \in Phones, AddPhone(u, p) PROVE Typed'
  BY <1>1 DEF AddPhone
<1>2. ASSUME NEW p \in Phones, RemoveIdentity(p) PROVE Typed'
  BY <1>2 DEF RemoveIdentity
<1>3. ASSUME NEW u \in Users, SendVerification(u) PROVE Typed'
  BY <1>3 DEF SendVerification
<1>4. ASSUME NEW u \in Users, NEW i \in DOMAIN challenges[u], ExpireChallenge(u, i)
      PROVE  Typed'
  <2>1. challenges' = [challenges EXCEPT ![u] = [challenges[u] EXCEPT ![i].expired = TRUE]]
    BY <1>4 DEF ExpireChallenge
  <2>2. [challenges[u] EXCEPT ![i].expired = TRUE] \in Seq([used : BOOLEAN, expired : BOOLEAN])
    BY MarkedRow
  <2>3. challenges' \in [Users -> Seq([used : BOOLEAN, expired : BOOLEAN])]
    BY <2>1, <2>2
  <2> QED
    BY <1>4, <2>3 DEF ExpireChallenge
<1>5. ASSUME NEW r \in Requests, NEW u \in Users, NEW i \in DOMAIN challenges[u],
             VerifyChallenge(r, u, i)
      PROVE  Typed'
  BY <1>5 DEF VerifyChallenge
<1>6. ASSUME NEW r \in Requests, MarkUsed(r) PROVE Typed'
  <2>1. PICK u \in Users : \E i \in DOMAIN challenges[u] : arg[r] = Challenge(u, i)
    BY <1>6 DEF MarkUsed, ArgInv
  <2>2. PICK i \in DOMAIN challenges[u] : arg[r] = Challenge(u, i)
    BY <2>1
  <2>3. arg[r][2] = u /\ arg[r][3] = i
    BY <2>2 DEF Challenge
  <2>4. challenges' = [challenges EXCEPT ![u] = [challenges[u] EXCEPT ![i].used = TRUE]]
    BY <1>6, <2>3 DEF MarkUsed
  <2>5. [challenges[u] EXCEPT ![i].used = TRUE] \in Seq([used : BOOLEAN, expired : BOOLEAN])
    BY MarkedRow
  <2>6. challenges' \in [Users -> Seq([used : BOOLEAN, expired : BOOLEAN])]
    BY <2>4, <2>5
  <2> QED
    BY <1>6, <2>6 DEF MarkUsed
<1>7. ASSUME NEW r \in Requests, MarkIdentities(r) \/ MarkPhones(r) PROVE Typed'
  BY <1>7 DEF MarkIdentities, MarkPhones, OfUser
<1>8. ASSUME NEW r \in Requests, RegenerateRecoveryCodes(r) PROVE Typed'
  <2>1. alone' \subseteq Requests /\ settled' \in BOOLEAN
    BY <1>8, Zenon DEF RegenerateRecoveryCodes
  <2> QED
    BY <1>8, <2>1 DEF RegenerateRecoveryCodes
<1>9. ASSUME NEW r \in Requests, Delete(r) PROVE Typed'
  BY <1>9 DEF Delete, DeleteUnused
<1>10. ASSUME NEW r \in Requests, InsertCode(r) PROVE Typed'
  BY <1>10 DEF InsertCode
<1>11. ASSUME NEW r \in Requests, InsertLastCode(r) PROVE Typed'
  <2>1. (r \in alone) \in BOOLEAN
    OBVIOUS
  <2>2. settled' \in BOOLEAN
    BY <1>11, <2>1, Zenon DEF InsertLastCode
  <2> QED
    BY <1>11, <2>2 DEF InsertLastCode
<1>12. ASSUME NEW r \in Requests, NEW c \in Codes, VerifyRecoveryCode(r, c) PROVE Typed'
  BY <1>12 DEF VerifyRecoveryCode
<1>13. ASSUME NEW r \in Requests, UseCode(r) PROVE Typed'
  BY <1>13 DEF UseCode
<1>14. ASSUME NEW r \in Requests, NEW d \in Devices, Trust(r, d) PROVE Typed'
  BY <1>14 DEF Trust
<1>15. ASSUME NEW r \in Requests, UpdateDevice(r) PROVE Typed'
  BY <1>15 DEF UpdateDevice, Renewed, Answer, ArgInv
<1>16. ASSUME NEW r \in Requests, CreateDevice(r) PROVE Typed'
  BY <1>16 DEF CreateDevice, Answer, ArgInv
<1>17. ASSUME NEW r \in Requests, RefuseDevice(r) PROVE Typed'
  BY <1>17 DEF RefuseDevice
<1>18. ASSUME NEW ds \in SUBSET Devices, RemoveDevices(ds), UNCHANGED <<pc, arg>>,
              calls' \in Nat
       PROVE  Typed'
  BY <1>18 DEF RemoveDevices
<1>19. ASSUME NEW d \in Devices, Revoke(d) PROVE Typed'
  BY <1>18, <1>19 DEF Revoke
<1>20. ASSUME RevokeAll PROVE Typed'
  BY <1>18, <1>20 DEF RevokeAll, Rows
<1>21. ASSUME NEW d \in Devices, LapseDevice(d) PROVE Typed'
  BY <1>21 DEF LapseDevice
<1>22. ASSUME CleanupExpired PROVE Typed'
  BY <1>18, <1>22 DEF CleanupExpired
<1>23. ASSUME NEW r \in Requests, Abort(r) PROVE Typed'
  BY <1>23 DEF Abort
<1> HIDE DEF Typed, Once, Call, Begin, Goto, Find, Accept
<1> QED
  BY <1>1, <1>2, <1>3, <1>4, <1>5, <1>6, <1>7, <1>8, <1>9, <1>10, <1>11, <1>12, <1>13, <1>14,
     <1>15, <1>16, <1>17, <1>19, <1>20, <1>21, <1>22, <1>23, Zenon
  DEF Next, Contact, Recovery, Device

-----------------------------------------------------------------------------
(* What requests have in hand *)

\* Challenges are only added.
LEMMA ChallengesStay ==
    ASSUME Typed, ArgInv, Next, NEW u \in Users
    PROVE  /\ DOMAIN challenges[u] \subseteq DOMAIN challenges'[u]
           /\ \A i \in DOMAIN challenges[u] :
                challenges[u][i].used => challenges'[u][i].used
<1> DEFINE Goal == /\ DOMAIN challenges[u] \subseteq DOMAIN challenges'[u]
                   /\ \A i \in DOMAIN challenges[u] :
                        challenges[u][i].used => challenges'[u][i].used
<1>0. /\ challenges \in [Users -> Seq([used : BOOLEAN, expired : BOOLEAN])]
      /\ \A v \in Users : DOMAIN challenges[v] = 1..Len(challenges[v])
  BY DEF Typed
<1>1. ASSUME UNCHANGED challenges PROVE Goal
  BY <1>1
<1>2. ASSUME NEW v \in Users, SendVerification(v) PROVE Goal
  <2>1. /\ challenges[v] \in Seq([used : BOOLEAN, expired : BOOLEAN])
        /\ challenges[u] \in Seq([used : BOOLEAN, expired : BOOLEAN])
    BY <1>0
  <2>2. challenges'[u] = IF u = v
            THEN Append(challenges[u], [used |-> FALSE, expired |-> FALSE])
            ELSE challenges[u]
    BY <1>0, <1>2 DEF SendVerification
  <2> QED
    BY <2>1, <2>2, AppendProperties, LenProperties
<1>3. ASSUME NEW v \in Users, NEW i \in DOMAIN challenges[v], ExpireChallenge(v, i)
      PROVE  Goal
  BY <1>0, <1>3 DEF ExpireChallenge
<1>4. ASSUME NEW r \in Requests, MarkUsed(r) PROVE Goal
  <2>1. PICK v \in Users : \E i \in DOMAIN challenges[v] : arg[r] = Challenge(v, i)
    BY <1>4 DEF MarkUsed, Goto, ArgInv
  <2>2. PICK i \in DOMAIN challenges[v] : arg[r] = Challenge(v, i)
    BY <2>1
  <2>3. challenges' = [challenges EXCEPT ![v][i].used = TRUE]
    BY <1>4, <2>2 DEF MarkUsed, Challenge
  <2>4. \A j \in DOMAIN challenges[v] : challenges[v][j] \in [used : BOOLEAN, expired : BOOLEAN]
    BY <1>0, ElementOfSeq
  <2> QED
    BY <1>0, <2>3, <2>4
<1>5. ASSUME NEW r \in Requests, NEW v \in Users, NEW i \in DOMAIN challenges[v],
             VerifyChallenge(r, v, i)
      PROVE  Goal
  BY <1>1, <1>5 DEF VerifyChallenge, contactVars
<1>6. ASSUME NEW r \in Requests, MarkIdentities(r) \/ MarkPhones(r) PROVE Goal
  BY <1>1, <1>6 DEF MarkIdentities, MarkPhones
<1>7. ASSUME NEW r \in Requests, Recovery(r) PROVE Goal
  BY <1>1, <1>7 DEF Recovery, RegenerateRecoveryCodes, Delete, InsertCode, InsertLastCode,
                    VerifyRecoveryCode, UseCode, contactVars
<1>8. ASSUME NEW r \in Requests, Device(r) PROVE Goal
  BY <1>1, <1>8 DEF Device, Trust, UpdateDevice, CreateDevice, RefuseDevice, contactVars
<1>9. ASSUME NEW r \in Requests, Abort(r) PROVE Goal
  BY <1>1, <1>9 DEF Abort
<1>10. ASSUME NEW v \in Users, NEW p \in Phones, AddPhone(v, p) PROVE Goal
  BY <1>1, <1>10 DEF AddPhone
<1>11. ASSUME NEW p \in Phones, RemoveIdentity(p) PROVE Goal
  BY <1>1, <1>11 DEF RemoveIdentity
<1>12. ASSUME NEW d \in Devices, Revoke(d) \/ LapseDevice(d) PROVE Goal
  BY <1>1, <1>12 DEF Revoke, LapseDevice, RemoveDevices, contactVars
<1>13. ASSUME RevokeAll \/ CleanupExpired PROVE Goal
  BY <1>1, <1>13 DEF RevokeAll, CleanupExpired, RemoveDevices, contactVars
<1> HIDE DEF Goal
<1>14. Goal
  BY <1>2, <1>3, <1>4, <1>5, <1>6, <1>7, <1>8, <1>9, <1>10, <1>11, <1>12, <1>13, Zenon
  DEF Next, Contact
<1> QED
  BY <1>14 DEF Goal

\* The number of calls only grows.
LEMMA CallsGrow ==
    ASSUME Typed, Next
    PROVE  calls \in Nat /\ calls' \in Nat /\ calls' >= calls
<1>1. calls' = calls \/ calls' = calls + 1
  BY DEF Next, Contact, Recovery, Device, AddPhone, RemoveIdentity, SendVerification,
         ExpireChallenge, VerifyChallenge, MarkUsed, MarkIdentities, MarkPhones,
         RegenerateRecoveryCodes, Delete, InsertCode, InsertLastCode, VerifyRecoveryCode,
         UseCode, Trust, UpdateDevice, CreateDevice, RefuseDevice, RemoveDevices, Revoke,
         RevokeAll, LapseDevice, CleanupExpired, Abort, Once, Find, Begin, Call, Goto
<1> QED
  BY <1>1 DEF Typed

\* A step of one request leaves the others where they are.
OthersWait(r) == \A s \in Requests \ {r} : pc'[s] = pc[s] /\ arg'[s] = arg[s]

\* The first await of a request.
LEMMA BeginMoves ==
    ASSUME Typed, NEW r \in Requests, NEW step, NEW on, Begin(r, step, on)
    PROVE  /\ pc[r] = "idle" /\ pc'[r] = step /\ arg'[r] = on /\ OthersWait(r)
           /\ calls < MaxCalls /\ calls' = calls + 1
BY DEF Typed, Begin, OthersWait, Call

\* The next await of a request.
LEMMA GotoMoves ==
    ASSUME Typed, NEW r \in Requests, NEW from, NEW to, Goto(r, from, to)
    PROVE  /\ pc[r] = from /\ pc'[r] = to /\ (to # "idle" => arg'[r] = arg[r])
           /\ OthersWait(r) /\ calls' = calls
BY DEF Typed, Goto, OthersWait

\* Every step keeps what requests have in hand.
LEMMA StepArg ==
    ASSUME Typed, ArgInv, Next
    PROVE  ArgInv'
<1> DEFINE
      ArgOf(s) == /\ pc[s] \in {"mark", "identities", "phones"} =>
                       \E u \in Users : \E i \in DOMAIN challenges[u] : arg[s] = Challenge(u, i)
                  /\ pc[s] = "use" => arg[s] \in Codes
                  /\ pc[s] \in {"delete", "insert"} =>
                       \E n \in 1..MaxCalls : \E i \in 1..PerIssue :
                           n <= calls /\ arg[s] = Code(n, i)
                  /\ pc[s] = "delete" => arg[s][3] = 1
                  /\ pc[s] \in {"update", "create"} =>
                       \E d \in Devices : \E id \in Nat, n \in Nat \ {0} :
                           arg[s] = <<"device", d, id, n>>
<1>0. ArgInv = (\A s \in Requests : ArgOf(s)) /\ ArgInv' = (\A s \in Requests : ArgOf(s)')
  BY Zenon DEF ArgInv
<1>1. calls' \in Nat /\ calls \in Nat /\ calls' >= calls
  BY CallsGrow
<1>2. ASSUME NEW s \in Requests, arg'[s] = arg[s],
             \/ pc'[s] = pc[s]
             \/ {pc[s], pc'[s]} \subseteq {"mark", "identities", "phones"}
             \/ pc[s] = "delete" /\ pc'[s] = "insert"
      PROVE  ArgOf(s)'
  <2>1. ArgOf(s)
    BY <1>0
  <2>2. \A u \in Users : DOMAIN challenges[u] \subseteq DOMAIN challenges'[u]
    BY ChallengesStay
  <2>3. CASE pc'[s] \in {"mark", "identities", "phones"}
    BY <1>2, <2>1, <2>2, <2>3
  <2>4. CASE pc'[s] \in {"delete", "insert"}
    <3>1. PICK n \in 1..MaxCalls, i \in 1..PerIssue : n <= calls /\ arg[s] = Code(n, i)
      BY <1>2, <2>1, <2>4
    <3>2. n <= calls'
      BY <1>1, <3>1, IdentitiesAssumption
    <3>3. pc'[s] = "delete" => arg'[s][3] = 1
      BY <1>2, <2>1, <2>4
    <3> QED
      BY <1>2, <2>4, <3>1, <3>2, <3>3
  <2>5. CASE pc'[s] \notin {"mark", "identities", "phones", "delete", "insert"}
    BY <1>2, <2>1, <2>5
  <2> QED
    BY <2>3, <2>4, <2>5, Zenon
<1>3. ASSUME NEW s \in Requests, pc'[s] = "idle" PROVE ArgOf(s)'
  BY <1>3
<1>4. ASSUME NEW r \in Requests, ArgOf(r)', OthersWait(r) PROVE ArgInv'
  <2> HIDE DEF ArgOf
  <2>1. ASSUME NEW s \in Requests, s # r PROVE ArgOf(s)'
    BY <1>2, <1>4, <2>1 DEF OthersWait
  <2> QED
    BY <1>0, <1>4, <2>1, Zenon
<1>5. ASSUME UNCHANGED <<pc, arg>> PROVE ArgInv'
  <2>1. ASSUME NEW s \in Requests PROVE ArgOf(s)'
    <3> HIDE DEF ArgOf
    <3> QED
      BY <1>2, <1>5
  <2> HIDE DEF ArgOf
  <2> QED
    BY <1>0, <2>1, Zenon
<1>20. ASSUME NEW r \in Requests, NEW from, Goto(r, from, "idle") PROVE ArgInv'
  <2> HIDE DEF ArgOf
  <2> QED
    BY <1>3, GotoMoves, <1>4, <1>20
<1>21. ASSUME NEW r \in Requests, NEW u \in Users, NEW i \in DOMAIN challenges[u],
              VerifyChallenge(r, u, i)
       PROVE  ArgInv'
  <2>1. Begin(r, "mark", Challenge(u, i))
    BY <1>21 DEF VerifyChallenge, Find, Challenge
  <2>2. i \in DOMAIN challenges'[u]
    BY ChallengesStay
  <2>3. pc'[r] = "mark" /\ arg'[r] = Challenge(u, i) /\ OthersWait(r)
    BY BeginMoves, <2>1
  <2>4. ArgOf(r)'
    BY <2>2, <2>3
  <2> QED
    BY <1>4, <2>3, <2>4
<1>22. ASSUME NEW r \in Requests, MarkUsed(r) \/ MarkIdentities(r) PROVE ArgInv'
  <2>1. \/ Goto(r, "mark", "identities")
        \/ Goto(r, "identities", "phones")
    BY <1>22 DEF MarkUsed, MarkIdentities
  <2>2. /\ {pc[r], pc'[r]} \subseteq {"mark", "identities", "phones"}
        /\ arg'[r] = arg[r] /\ OthersWait(r)
    BY GotoMoves, <2>1
  <2> HIDE DEF ArgOf
  <2> QED
    BY <1>2, <1>4, <2>2
<1>23. ASSUME NEW r \in Requests, MarkPhones(r) PROVE ArgInv'
  BY <1>20, <1>23 DEF MarkPhones
<1>24. ASSUME NEW r \in Requests, RegenerateRecoveryCodes(r) PROVE ArgInv'
  <2>1. /\ Begin(r, "delete", Code(calls + 1, 1))
        /\ calls < MaxCalls /\ calls' = calls + 1
    BY <1>24 DEF RegenerateRecoveryCodes, Begin, Call, Code
  <2>2. pc'[r] = "delete" /\ arg'[r] = Code(calls + 1, 1) /\ OthersWait(r)
    BY BeginMoves, <2>1
  <2>3. calls + 1 \in 1..MaxCalls /\ calls + 1 <= calls' /\ 1 \in 1..PerIssue
    BY <1>1, <2>1, IdentitiesAssumption
  <2>4. arg'[r][3] = 1
    BY <2>2 DEF Code
  <2>5. ArgOf(r)'
    BY <2>2, <2>3, <2>4
  <2> QED
    BY <1>4, <2>2, <2>5
<1>25. ASSUME NEW r \in Requests, Delete(r) PROVE ArgInv'
  <2>1. Goto(r, "delete", "insert")
    BY <1>25 DEF Delete
  <2>2. pc[r] = "delete" /\ pc'[r] = "insert" /\ arg'[r] = arg[r] /\ OthersWait(r)
    BY GotoMoves, <2>1
  <2> HIDE DEF ArgOf
  <2> QED
    BY <1>2, <1>4, <2>2
<1>26. ASSUME NEW r \in Requests, InsertCode(r) PROVE ArgInv'
  <2>1. pc[r] = "insert" /\ arg[r][3] < PerIssue /\ UNCHANGED <<pc, calls>>
    BY <1>26 DEF InsertCode
  <2>2. PICK n \in 1..MaxCalls, i \in 1..PerIssue : n <= calls /\ arg[r] = Code(n, i)
    BY <1>0, <2>1
  <2>3. arg[r][3] = i /\ arg'[r] = [arg[r] EXCEPT ![3] = @ + 1] /\ OthersWait(r)
    BY <1>26, <2>2 DEF InsertCode, Code, Typed, OthersWait
  <2>4. arg'[r] = Code(n, i + 1) /\ i + 1 \in 1..PerIssue
    BY <2>1, <2>2, <2>3, IdentitiesAssumption DEF Code
  <2>5. ArgOf(r)'
    BY <2>1, <2>2, <2>4
  <2> QED
    BY <1>4, <2>3, <2>5
<1>27. ASSUME NEW r \in Requests, InsertLastCode(r) \/ UseCode(r) PROVE ArgInv'
  BY <1>20, <1>27 DEF InsertLastCode, UseCode
<1>28. ASSUME NEW r \in Requests, NEW c \in Codes, VerifyRecoveryCode(r, c) PROVE ArgInv'
  <2>1. Begin(r, "use", c)
    BY <1>28 DEF VerifyRecoveryCode, Find
  <2>2. pc'[r] = "use" /\ arg'[r] = c /\ OthersWait(r)
    BY BeginMoves, <2>1
  <2>3. ArgOf(r)'
    BY <2>2
  <2> QED
    BY <1>4, <2>2, <2>3
<1>29. ASSUME NEW r \in Requests, NEW d \in Devices, Trust(r, d) PROVE ArgInv'
  <2>1. Begin(r, IF device[d] = 0 THEN "create" ELSE "update",
              <<"device", d, device[d], calls + 1>>)
    BY <1>29 DEF Trust
  <2>2. /\ pc'[r] \in {"create", "update"} /\ OthersWait(r)
        /\ arg'[r] = <<"device", d, device[d], calls + 1>>
    BY BeginMoves, <2>1
  <2>3. device[d] \in Nat /\ calls + 1 \in Nat \ {0}
    BY <1>1 DEF Typed
  <2>4. ArgOf(r)'
    BY <2>2, <2>3
  <2> QED
    BY <1>4, <2>2, <2>4
<1>30. ASSUME NEW r \in Requests, UpdateDevice(r) \/ CreateDevice(r) \/ RefuseDevice(r)
       PROVE  ArgInv'
  BY <1>20, <1>30 DEF UpdateDevice, CreateDevice, RefuseDevice
<1>31. ASSUME NEW r \in Requests, Abort(r) PROVE ArgInv'
  <2>1. pc'[r] = "idle" /\ OthersWait(r)
    BY <1>31 DEF Abort, Typed, OthersWait
  <2> HIDE DEF ArgOf
  <2> QED
    BY <1>3, <1>4, <2>1
<1>32. ASSUME NEW u \in Users, NEW p \in Phones, AddPhone(u, p) PROVE ArgInv'
  BY <1>5, <1>32 DEF AddPhone, Once
<1>33. ASSUME NEW u \in Users, SendVerification(u) PROVE ArgInv'
  BY <1>5, <1>33 DEF SendVerification, Once
<1>34. ASSUME NEW u \in Users, NEW i \in DOMAIN challenges[u], ExpireChallenge(u, i)
       PROVE  ArgInv'
  BY <1>5, <1>34 DEF ExpireChallenge
<1>35. ASSUME NEW p \in Phones, RemoveIdentity(p) PROVE ArgInv'
  BY <1>5, <1>35 DEF RemoveIdentity, Once
<1>36. ASSUME NEW d \in Devices, Revoke(d) \/ LapseDevice(d) PROVE ArgInv'
  BY <1>5, <1>36 DEF Revoke, LapseDevice, Once
<1>37. ASSUME RevokeAll \/ CleanupExpired PROVE ArgInv'
  BY <1>5, <1>37 DEF RevokeAll, CleanupExpired, Once
<1> QED
  BY <1>21, <1>22, <1>23, <1>24, <1>25, <1>26, <1>27, <1>28, <1>29, <1>30, <1>31, <1>32,
     <1>33, <1>34, <1>35, <1>36, <1>37, Zenon
  DEF Next, Contact, Recovery, Device

-----------------------------------------------------------------------------
(* Phone numbers *)

\* The challenge a request accepts is marked as used.
LEMMA MarksUsed ==
    ASSUME Typed, ArgInv, NEW r \in Requests, MarkUsed(r)
    PROVE  \E u \in Users : \E i \in DOMAIN challenges[u] :
               arg[r] = Challenge(u, i) /\ i \in DOMAIN challenges'[u] /\ challenges'[u][i].used
<1>1. PICK u \in Users : \E i \in DOMAIN challenges[u] : arg[r] = Challenge(u, i)
  BY DEF MarkUsed, Goto, ArgInv
<1>2. PICK i \in DOMAIN challenges[u] : arg[r] = Challenge(u, i)
  BY <1>1
<1>3. challenges' = [challenges EXCEPT ![u][i].used = TRUE]
  BY <1>2 DEF MarkUsed, Challenge
<1>4. challenges[u] \in Seq([used : BOOLEAN, expired : BOOLEAN])
  BY DEF Typed
<1>5. challenges[u][i] \in [used : BOOLEAN, expired : BOOLEAN]
  BY <1>4, LenProperties, ElementOfSeq
<1>6. i \in DOMAIN challenges'[u] /\ challenges'[u][i].used
  BY <1>3, <1>5 DEF Typed
<1> QED
  BY <1>2, <1>6

\* Every step keeps what is verified with users who redeemed a challenge.
LEMMA StepHolder ==
    ASSUME Typed, ArgInv, HolderInv, Next
    PROVE  HolderInv'
<1> DEFINE After(s) == pc[s] \in {"identities", "phones"}
           Verified == verified \cup marked
<1>1. /\ \A p \in Phones : p \in Verified \cup identity => holder[p] \in Users
      /\ \A p \in Phones : p \in Verified => holder[p] \in Redeemers
      /\ \A s \in Requests : After(s) => arg[s][2] \in Redeemers
      /\ Verified \subseteq Phones /\ verified \subseteq identity /\ identity \subseteq Phones
  BY DEF HolderInv, Typed
<1>2. Redeemers \subseteq Redeemers' /\ Redeemers \subseteq Users
  BY ChallengesStay DEF Redeemers
<1>3. \A s \in Requests : pc[s] = "mark" \/ After(s) => arg[s][2] \in Users
  BY DEF ArgInv, Challenge
<1>4. ASSUME /\ Verified' \subseteq Phones /\ identity' \subseteq Phones
             /\ \A p \in Verified' \cup identity' : holder'[p] \in Users
             /\ \A p \in Verified' : holder'[p] \in Redeemers'
             /\ \A s \in Requests : After(s)' => arg'[s][2] \in Redeemers'
      PROVE  HolderInv'
  BY <1>4 DEF HolderInv
<1>5. ASSUME UNCHANGED <<holder, marked, identity, verified>>
      PROVE  /\ Verified' \subseteq Phones /\ identity' \subseteq Phones
             /\ \A p \in Verified' \cup identity' : holder'[p] \in Users
             /\ \A p \in Verified' : holder'[p] \in Redeemers'
  <2>1. Verified' = Verified /\ identity' = identity /\ holder' = holder
    BY <1>5
  <2>2. \A p \in Verified : holder[p] \in Redeemers'
    BY <1>1, <1>2
  <2> HIDE DEF Verified
  <2>3. \A p \in Verified' : holder'[p] \in Redeemers'
    BY <2>1, <2>2
  <2> QED
    BY <1>1, <2>1, <2>3
<1>6. ASSUME NEW s \in Requests, After(s), arg'[s] = arg[s] PROVE arg'[s][2] \in Redeemers'
  BY <1>1, <1>2, <1>3, <1>6 DEF Redeemers
<1>7. ASSUME NEW r \in Requests, OthersWait(r), ~After(r)' \/ arg'[r][2] \in Redeemers'
      PROVE  \A s \in Requests : After(s)' => arg'[s][2] \in Redeemers'
  BY <1>6, <1>7 DEF OthersWait
<1>8. ASSUME UNCHANGED <<pc, arg>>
      PROVE  \A s \in Requests : After(s)' => arg'[s][2] \in Redeemers'
  BY <1>6, <1>8
<1> HIDE DEF Verified
<1>11. ASSUME NEW r \in Requests, NEW u \in Users, NEW i \in DOMAIN challenges[u],
              VerifyChallenge(r, u, i)
       PROVE  HolderInv'
  <2>1. pc'[r] = "mark" /\ OthersWait(r)
    BY <1>11, BeginMoves DEF VerifyChallenge, Find
  <2>2. UNCHANGED <<holder, marked, identity, verified>>
    BY <1>11 DEF VerifyChallenge, contactVars
  <2> QED
    BY <1>4, <1>5, <1>7, <2>1, <2>2
<1>12. ASSUME NEW r \in Requests, MarkUsed(r) PROVE HolderInv'
  <2>1. PICK u \in Users : \E i \in DOMAIN challenges[u] :
            arg[r] = Challenge(u, i) /\ i \in DOMAIN challenges'[u] /\ challenges'[u][i].used
    BY <1>12, MarksUsed
  <2>3. pc'[r] = "identities" /\ arg'[r] = arg[r] /\ OthersWait(r)
    BY <1>12, GotoMoves DEF MarkUsed
  <2>8. arg'[r][2] \in Redeemers'
    BY <2>1, <2>3 DEF Redeemers, Challenge
  <2>9. UNCHANGED <<holder, marked, identity, verified>>
    BY <1>12 DEF MarkUsed
  <2> QED
    BY <1>4, <1>5, <1>7, <2>3, <2>8, <2>9
<1>13. ASSUME NEW r \in Requests, MarkIdentities(r) \/ MarkPhones(r) PROVE HolderInv'
  <2>1. After(r) /\ (After(r)' => arg'[r] = arg[r]) /\ OthersWait(r)
    BY <1>13, GotoMoves DEF MarkIdentities, MarkPhones
  <2>2. arg[r][2] \in Redeemers' /\ arg[r][2] \in Users
    BY <1>1, <1>2, <1>3, <2>1
  <2>3. /\ Verified' \subseteq Verified \cup OfUser(r)
        /\ UNCHANGED <<holder, identity>>
    BY <1>13 DEF MarkIdentities, MarkPhones, Verified
  <2>4. \A p \in OfUser(r) : p \in Phones /\ holder[p] = arg[r][2]
    BY DEF OfUser
  <2>5. /\ Verified' \subseteq Phones /\ identity' \subseteq Phones
        /\ \A p \in Verified' \cup identity' : holder'[p] \in Users
    BY <1>1, <2>2, <2>3, <2>4
  <2>6. \A p \in Verified' : holder[p] \in Redeemers'
    BY <1>1, <1>2, <2>2, <2>3, <2>4
  <2>7. \A p \in Verified' : holder'[p] \in Redeemers'
    BY <2>3, <2>6
  <2>8. \A s \in Requests : After(s)' => arg'[s][2] \in Redeemers'
    BY <1>6, <1>7, <2>1
  <2> QED
    BY <1>4, <2>5, <2>7, <2>8
<1>14. ASSUME NEW u \in Users, NEW p \in Phones, AddPhone(u, p) PROVE HolderInv'
  <2>1. /\ holder[p] = NoUser /\ holder' = [holder EXCEPT ![p] = u]
        /\ identity' = identity \cup {p} /\ UNCHANGED <<marked, verified, pc, arg>>
    BY <1>14 DEF AddPhone, Once
  <2>2. p \notin Verified
    BY <1>1, <2>1, IdentitiesAssumption
  <2>3. Verified' = Verified
    BY <2>1 DEF Verified
  <2>4. \A q \in Phones : holder'[q] = IF q = p THEN u ELSE holder[q]
    BY <2>1 DEF Typed
  <2>5. /\ Verified' \subseteq Phones /\ identity' \subseteq Phones
        /\ \A q \in Verified' \cup identity' : holder'[q] \in Users
    BY <1>1, <2>1, <2>3, <2>4
  <2>6. \A q \in Verified : holder'[q] = holder[q] /\ holder[q] \in Redeemers'
    BY <1>1, <1>2, <2>2, <2>4
  <2>7. \A q \in Verified' : holder'[q] \in Redeemers'
    BY <2>3, <2>6
  <2> QED
    BY <1>4, <1>8, <2>1, <2>5, <2>7
<1>15. ASSUME NEW p \in Phones, RemoveIdentity(p) PROVE HolderInv'
  <2>1. /\ identity' \subseteq identity /\ Verified' \subseteq Verified
        /\ UNCHANGED <<holder, pc, arg>>
    BY <1>15 DEF RemoveIdentity, Once, Verified
  <2>2. \A q \in Verified' : holder[q] \in Redeemers'
    BY <1>1, <1>2, <2>1
  <2>3. \A q \in Verified' : holder'[q] \in Redeemers'
    BY <2>1, <2>2
  <2> QED
    BY <1>1, <1>4, <1>8, <2>1, <2>3
<1>16. ASSUME UNCHANGED <<holder, marked, identity, verified, pc, arg>> PROVE HolderInv'
  BY <1>4, <1>5, <1>8, <1>16
<1>17. ASSUME NEW u \in Users, SendVerification(u) PROVE HolderInv'
  BY <1>16, <1>17 DEF SendVerification, Once
<1>18. ASSUME NEW u \in Users, NEW i \in DOMAIN challenges[u], ExpireChallenge(u, i)
       PROVE  HolderInv'
  BY <1>16, <1>18 DEF ExpireChallenge
<1>19. ASSUME NEW d \in Devices, Revoke(d) \/ LapseDevice(d) PROVE HolderInv'
  BY <1>16, <1>19 DEF Revoke, LapseDevice, RemoveDevices, Once, contactVars
<1>20. ASSUME RevokeAll \/ CleanupExpired PROVE HolderInv'
  BY <1>16, <1>20 DEF RevokeAll, CleanupExpired, RemoveDevices, Once, contactVars
<1>21. ASSUME NEW r \in Requests, OthersWait(r), ~After(r)',
              UNCHANGED <<holder, marked, identity, verified>>
       PROVE  HolderInv'
  BY <1>4, <1>5, <1>7, <1>21
<1>22. ASSUME NEW r \in Requests, RegenerateRecoveryCodes(r) PROVE HolderInv'
  BY <1>21, <1>22, BeginMoves DEF RegenerateRecoveryCodes, contactVars
<1>23. ASSUME NEW r \in Requests, Delete(r) \/ InsertLastCode(r) \/ UseCode(r) PROVE HolderInv'
  BY <1>21, <1>23, GotoMoves DEF Delete, InsertLastCode, UseCode, contactVars
<1>24. ASSUME NEW r \in Requests, InsertCode(r) PROVE HolderInv'
  BY <1>21, <1>24 DEF InsertCode, contactVars, OthersWait, Typed
<1>25. ASSUME NEW r \in Requests, NEW c \in Codes, VerifyRecoveryCode(r, c) PROVE HolderInv'
  BY <1>21, <1>25, BeginMoves DEF VerifyRecoveryCode, Find, contactVars
<1>26. ASSUME NEW r \in Requests, NEW d \in Devices, Trust(r, d) PROVE HolderInv'
  BY <1>21, <1>26, BeginMoves DEF Trust, contactVars
<1>27. ASSUME NEW r \in Requests, UpdateDevice(r) \/ CreateDevice(r) \/ RefuseDevice(r)
       PROVE  HolderInv'
  BY <1>21, <1>27, GotoMoves DEF UpdateDevice, CreateDevice, RefuseDevice, contactVars
<1>28. ASSUME NEW r \in Requests, Abort(r) PROVE HolderInv'
  BY <1>21, <1>28 DEF Abort, OthersWait, Typed
<1> QED
  BY <1>11, <1>12, <1>13, <1>14, <1>15, <1>17, <1>18, <1>19, <1>20, <1>22, <1>23, <1>24, <1>25,
     <1>26, <1>27, <1>28, Zenon
  DEF Next, Contact, Recovery, Device

-----------------------------------------------------------------------------
(* What the other steps leave alone *)

CodeStep(r) ==
    RegenerateRecoveryCodes(r) \/ Delete(r) \/ InsertCode(r) \/ InsertLastCode(r)

\* No regeneration begins, or goes on.
CodesRest ==
    /\ UNCHANGED <<shown, settled>> /\ alone' \subseteq alone
    /\ \A s \in Requests :
         pc'[s] \in {"delete", "insert"} => pc'[s] = pc[s] /\ arg'[s] = arg[s]
    /\ \A s \in alone' : pc'[s] = pc[s]

\* No secret is found or accepted.
SecretsRest ==
    /\ UNCHANGED secretVars
    /\ \A s \in Requests : Holds(s)' => pc'[s] = pc[s] /\ arg'[s] = arg[s]

SecretStep(r) ==
    \/ \E u \in Users : \E i \in DOMAIN challenges[u] : VerifyChallenge(r, u, i)
    \/ \E c \in Codes : VerifyRecoveryCode(r, c)
    \/ MarkUsed(r) \/ UseCode(r)

\* A step that is neither of a regeneration nor of a secret leaves both alone.
LEMMA OtherSteps ==
    ASSUME Typed, alone \subseteq Regenerating, Next
    PROVE  /\ (\E r \in Requests : CodeStep(r)) \/ CodesRest
           /\ (\E r \in Requests : SecretStep(r)) \/ SecretsRest
           /\ (\E r \in Requests : \/ Delete(r) \/ InsertCode(r)
                                   \/ InsertLastCode(r) \/ UseCode(r))
                \/ UNCHANGED codes
<1> DEFINE Goal == /\ (\E r \in Requests : CodeStep(r)) \/ CodesRest
                   /\ (\E r \in Requests : SecretStep(r)) \/ SecretsRest
                   /\ (\E r \in Requests : \/ Delete(r) \/ InsertCode(r)
                                           \/ InsertLastCode(r) \/ UseCode(r))
                        \/ UNCHANGED codes
<1>1. ASSUME UNCHANGED <<pc, arg, codeVars, secretVars>> PROVE Goal
  BY <1>1 DEF CodesRest, SecretsRest, Holds, codeVars
<1>2. ASSUME NEW r \in Requests, OthersWait(r), pc[r] \notin {"delete", "insert"},
             pc'[r] \notin {"delete", "insert"}, UNCHANGED <<shown, settled, alone>>
      PROVE  CodesRest
  BY <1>2 DEF CodesRest, OthersWait, Regenerating, Typed
<1>3. ASSUME NEW r \in Requests, OthersWait(r), pc'[r] \notin {"mark", "use"},
             UNCHANGED secretVars
      PROVE  SecretsRest
  BY <1>3 DEF SecretsRest, Holds, OthersWait
<1>4. ASSUME NEW r \in Requests, OthersWait(r), UNCHANGED <<codeVars, secretVars>>,
             {pc[r], pc'[r]} \cap {"delete", "insert"} = {}, pc'[r] \notin {"mark", "use"}
      PROVE  Goal
  BY <1>2, <1>3, <1>4 DEF codeVars
<1>5. ASSUME NEW r \in Requests, SecretStep(r) PROVE Goal
  <2>1. ASSUME NEW u \in Users, NEW i \in DOMAIN challenges[u], VerifyChallenge(r, u, i)
        PROVE  pc[r] = "idle" /\ pc'[r] = "mark" /\ OthersWait(r) /\ UNCHANGED codeVars
    BY <2>1, BeginMoves DEF VerifyChallenge, Find
  <2>2. ASSUME NEW c \in Codes, VerifyRecoveryCode(r, c)
        PROVE  pc[r] = "idle" /\ pc'[r] = "use" /\ OthersWait(r) /\ UNCHANGED codeVars
    BY <2>2, BeginMoves DEF VerifyRecoveryCode, Find
  <2>3. ASSUME MarkUsed(r)
        PROVE  pc[r] = "mark" /\ pc'[r] = "identities" /\ OthersWait(r) /\ UNCHANGED codeVars
    BY <2>3, GotoMoves DEF MarkUsed
  <2>4. ASSUME UseCode(r)
        PROVE  /\ pc[r] = "use" /\ pc'[r] = "idle" /\ OthersWait(r)
               /\ UNCHANGED <<shown, alone, settled>>
    BY <2>4, GotoMoves DEF UseCode
  <2>5. /\ {pc[r], pc'[r]} \cap {"delete", "insert"} = {} /\ OthersWait(r)
        /\ UNCHANGED <<shown, alone, settled>>
        /\ UseCode(r) \/ UNCHANGED codes
    BY <1>5, <2>1, <2>2, <2>3, <2>4 DEF SecretStep, codeVars
  <2> QED
    BY <1>2, <1>5, <2>5
<1>6. ASSUME NEW r \in Requests, CodeStep(r) PROVE Goal
  <2>1. CASE RegenerateRecoveryCodes(r)
    <3>1. pc'[r] = "delete" /\ OthersWait(r) /\ UNCHANGED <<codes, secretVars>>
      BY <2>1, BeginMoves DEF RegenerateRecoveryCodes
    <3> QED
      BY <1>3, <1>6, <3>1
  <2>2. CASE Delete(r) \/ InsertLastCode(r)
    <3>1. pc'[r] \in {"insert", "idle"} /\ OthersWait(r) /\ UNCHANGED secretVars
      BY <2>2, GotoMoves DEF Delete, InsertLastCode
    <3> QED
      BY <1>3, <1>6, <2>2, <3>1
  <2>3. CASE InsertCode(r)
    <3>1. pc'[r] = "insert" /\ OthersWait(r) /\ UNCHANGED secretVars
      BY <2>3 DEF InsertCode, OthersWait, Typed
    <3> QED
      BY <1>3, <1>6, <2>3, <3>1
  <2> HIDE DEF Goal
  <2> QED
    BY <1>6, <2>1, <2>2, <2>3 DEF CodeStep
<1> HIDE DEF Goal
<1>7. ASSUME NEW r \in Requests, MarkIdentities(r) \/ MarkPhones(r) PROVE Goal
  BY <1>4, <1>7, GotoMoves DEF MarkIdentities, MarkPhones
<1>8. ASSUME NEW r \in Requests, NEW d \in Devices, Trust(r, d) PROVE Goal
  BY <1>4, <1>8, BeginMoves DEF Trust
<1>9. ASSUME NEW r \in Requests, UpdateDevice(r) \/ CreateDevice(r) \/ RefuseDevice(r)
      PROVE  Goal
  BY <1>4, <1>9, GotoMoves DEF UpdateDevice, CreateDevice, RefuseDevice
<1>10. ASSUME NEW r \in Requests, Abort(r) PROVE Goal
  <2>1. /\ pc'[r] = "idle" /\ OthersWait(r) /\ alone' = alone \ {r}
        /\ UNCHANGED <<codes, shown, settled, secretVars>>
    BY <1>10 DEF Abort, OthersWait, Typed
  <2>2. CodesRest
    BY <2>1 DEF CodesRest, OthersWait, Typed
  <2> QED
    BY <1>3, <2>1, <2>2 DEF Goal
<1>11. ASSUME NEW u \in Users, NEW p \in Phones, AddPhone(u, p) PROVE Goal
  BY <1>1, <1>11 DEF AddPhone, Once
<1>12. ASSUME NEW u \in Users, SendVerification(u) PROVE Goal
  BY <1>1, <1>12 DEF SendVerification, Once
<1>13. ASSUME NEW u \in Users, NEW i \in DOMAIN challenges[u], ExpireChallenge(u, i)
       PROVE  Goal
  BY <1>1, <1>13 DEF ExpireChallenge
<1>14. ASSUME NEW p \in Phones, RemoveIdentity(p) PROVE Goal
  BY <1>1, <1>14 DEF RemoveIdentity, Once
<1>15. ASSUME NEW d \in Devices, Revoke(d) \/ LapseDevice(d) PROVE Goal
  BY <1>1, <1>15 DEF Revoke, LapseDevice, RemoveDevices, Once
<1>16. ASSUME RevokeAll \/ CleanupExpired PROVE Goal
  BY <1>1, <1>16 DEF RevokeAll, CleanupExpired, RemoveDevices, Once
<1>17. Goal
  BY <1>5, <1>6, <1>7, <1>8, <1>9, <1>10, <1>11, <1>12, <1>13, <1>14, <1>15, <1>16, Zenon
  DEF Next, Contact, Recovery, Device, SecretStep, CodeStep
<1> QED
  BY <1>17 DEF Goal

-----------------------------------------------------------------------------
(* Secrets *)

\* Codes are told apart by their generation and their place in it.
LEMMA CodeFacts ==
    /\ \A n \in 1..MaxCalls, i \in 1..PerIssue :
         Code(n, i) \in Codes /\ Code(n, i)[2] = n /\ Code(n, i)[3] = i
    /\ \A c \in Codes : c[2] \in 1..MaxCalls /\ c[3] \in 1..PerIssue /\ c = Code(c[2], c[3])
    /\ \A u, i : Challenge(u, i) \notin Codes
BY DEF Code, Codes, Challenge

\* A regeneration inserts codes of its generation.
LEMMA InHand ==
    ASSUME ArgInv, NEW r \in Regenerating
    PROVE  /\ arg[r] \in Codes /\ arg[r][2] \in 1..MaxCalls /\ arg[r][2] <= calls
           /\ arg[r][3] \in 1..PerIssue /\ arg[r] = Code(arg[r][2], arg[r][3])
BY CodeFacts DEF ArgInv, Regenerating

\* A regeneration takes the next generation.
LEMMA Regenerates ==
    ASSUME Typed, NEW r \in Requests, RegenerateRecoveryCodes(r)
    PROVE  /\ pc[r] = "idle" /\ pc'[r] = "delete" /\ arg'[r] = Code(calls + 1, 1)
           /\ calls + 1 \in 1..MaxCalls /\ calls' = calls + 1 /\ OthersWait(r)
<1>1. Begin(r, "delete", Code(calls + 1, 1))
  BY DEF RegenerateRecoveryCodes, Code
<1> QED
  BY <1>1, BeginMoves, IdentitiesAssumption DEF Typed

\* An insertion goes on to the next code.
LEMMA Inserts ==
    ASSUME Typed, ArgInv, NEW r \in Requests, InsertCode(r)
    PROVE  /\ pc[r] = "insert" /\ pc'[r] = "insert" /\ OthersWait(r)
           /\ arg[r][3] < PerIssue /\ arg'[r] = Code(arg[r][2], arg[r][3] + 1)
           /\ arg[r][3] + 1 \in 1..PerIssue
<1>1. pc[r] = "insert" /\ pc' = pc /\ arg[r][3] < PerIssue /\ r \in Regenerating
  BY DEF InsertCode, Regenerating
<1>2. arg' = [arg EXCEPT ![r] = [arg[r] EXCEPT ![3] = arg[r][3] + 1]]
  BY DEF InsertCode
<1>3. arg[r] = Code(arg[r][2], arg[r][3]) /\ arg[r][3] \in 1..PerIssue
  BY <1>1, InHand
<1>4. [arg[r] EXCEPT ![3] = arg[r][3] + 1] = Code(arg[r][2], arg[r][3] + 1)
  BY <1>3 DEF Code
<1> QED
  BY <1>1, <1>2, <1>3, <1>4, IdentitiesAssumption DEF Typed, OthersWait

\* No two regenerations are of one generation.
LEMMA StepGeneration ==
    ASSUME Typed, ArgInv, alone \subseteq Regenerating, GenerationInv, Next
    PROVE  GenerationInv'
<1>1. CASE CodesRest
  <2>1. \A s \in Regenerating' : s \in Regenerating /\ arg'[s] = arg[s]
    BY <1>1 DEF CodesRest, Regenerating
  <2> QED
    BY <2>1 DEF GenerationInv
<1>2. ASSUME NEW r \in Requests, Delete(r) \/ InsertLastCode(r) PROVE GenerationInv'
  <2>1. /\ r \in Regenerating /\ OthersWait(r)
        /\ pc'[r] = "idle" \/ arg'[r] = arg[r]
    BY <1>2, GotoMoves DEF Delete, InsertLastCode, Regenerating
  <2>2. \A s \in Regenerating' : s \in Regenerating /\ arg'[s] = arg[s]
    BY <2>1 DEF Regenerating, OthersWait
  <2> QED
    BY <2>2 DEF GenerationInv
<1>3. ASSUME NEW r \in Requests, InsertCode(r) PROVE GenerationInv'
  <2>1. r \in Regenerating /\ OthersWait(r) /\ arg'[r][2] = arg[r][2]
    BY <1>3, Inserts DEF Regenerating, Code
  <2>2. \A s \in Regenerating' : s \in Regenerating /\ arg'[s][2] = arg[s][2]
    BY <2>1 DEF Regenerating, OthersWait
  <2> QED
    BY <2>2 DEF GenerationInv
<1>4. ASSUME NEW r \in Requests, RegenerateRecoveryCodes(r) PROVE GenerationInv'
  <2>1. arg'[r][2] = calls + 1 /\ OthersWait(r)
    BY <1>4, Regenerates DEF Code
  <2>2. \A s \in Regenerating' \ {r} : s \in Regenerating /\ arg'[s] = arg[s]
    BY <2>1 DEF Regenerating, OthersWait
  <2>3. \A s \in Regenerating : arg[s][2] \in Nat /\ arg[s][2] <= calls /\ calls \in Nat
    BY InHand, IdentitiesAssumption DEF Typed
  <2>4. \A s \in Regenerating' \ {r} : arg'[s][2] # arg'[r][2]
    BY <2>1, <2>2, <2>3
  <2> QED
    BY <2>2, <2>4 DEF GenerationInv
<1> QED
  BY <1>1, <1>2, <1>3, <1>4, OtherSteps DEF CodeStep

\* A code once inserted, or known to a request, is never unborn again.
LEMMA BornStays ==
    ASSUME Typed, ArgInv, alone \subseteq Regenerating, Next, NEW c \in Codes, Unborn(c)'
    PROVE  Unborn(c)
<1> DEFINE Due(s) == pc[s] \in {"delete", "insert"} /\ arg[s][2] = c[2] /\ arg[s][3] <= c[3]
<1>0. c[2] \in Nat /\ c[3] \in Nat /\ calls \in Nat /\ calls' \in Nat /\ calls' >= calls
  BY CodeFacts, CallsGrow, IdentitiesAssumption
<1>1. CASE c[2] > calls'
  BY <1>0, <1>1 DEF Unborn
<1>2. ASSUME NEW s \in Requests, Due(s)' PROVE Unborn(c)
  <2>1. CASE CodesRest
    <3>1. Due(s)
      BY <1>2, <2>1 DEF CodesRest
    <3> QED
      BY <3>1 DEF Unborn
  <2>2. ASSUME NEW r \in Requests, OthersWait(r), r # s PROVE Unborn(c)
    <3>1. Due(s)
      BY <1>2, <2>2 DEF OthersWait
    <3> QED
      BY <3>1 DEF Unborn
  <2>3. CASE RegenerateRecoveryCodes(s)
    <3>1. c[2] = calls + 1
      BY <1>2, <2>3, Regenerates DEF Code
    <3> QED
      BY <1>0, <3>1 DEF Unborn
  <2>4. CASE InsertCode(s)
    <3>1. /\ pc[s] = "insert" /\ arg'[s] = Code(arg[s][2], arg[s][3] + 1) /\ s \in Regenerating
      BY <2>4, Inserts DEF Regenerating
    <3>2. arg[s][3] \in Nat /\ arg[s][2] = c[2] /\ arg[s][3] + 1 <= c[3]
      BY <1>2, <3>1, InHand DEF Code
    <3>3. Due(s)
      BY <1>0, <3>1, <3>2
    <3> QED
      BY <3>3 DEF Unborn
  <2>5. CASE Delete(s)
    <3>1. Due(s)
      BY <1>2, <2>5, GotoMoves DEF Delete
    <3> QED
      BY <3>1 DEF Unborn
  <2>6. CASE InsertLastCode(s)
    BY <1>2, <2>6, GotoMoves DEF InsertLastCode
  <2>7. ASSUME NEW r \in Requests, CodeStep(r) PROVE OthersWait(r)
    BY <2>7, Regenerates, Inserts, GotoMoves DEF CodeStep, Delete, InsertLastCode
  <2> QED
    BY <2>1, <2>2, <2>3, <2>4, <2>5, <2>6, <2>7, OtherSteps, Zenon DEF CodeStep
<1> QED
  BY <1>1, <1>2 DEF Unborn

\* What a regeneration inserts was unborn, and no longer is.
LEMMA InsertsUnborn ==
    ASSUME Typed, ArgInv, GenerationInv, NEW r \in Requests,
           InsertCode(r) \/ InsertLastCode(r), NEW c, c = arg[r]
    PROVE  /\ c \in Codes /\ Unborn(c) /\ ~Unborn(c)'
           /\ codes' = [codes EXCEPT ![c] = "unused"]
<1>1. /\ r \in Regenerating /\ OthersWait(r) /\ calls' = calls
      /\ codes' = [codes EXCEPT ![arg[r]] = "unused"]
      /\ pc'[r] = "idle" \/ arg'[r][3] = arg[r][3] + 1
  <2>1. CASE InsertCode(r)
    <3>1. calls' = calls /\ codes' = [codes EXCEPT ![arg[r]] = "unused"]
      BY <2>1 DEF InsertCode
    <3> QED
      BY <2>1, <3>1, Inserts DEF Regenerating, Code
  <2>2. CASE InsertLastCode(r)
    BY <2>2, GotoMoves DEF InsertLastCode, Regenerating
  <2> QED
    BY <2>1, <2>2
<1>2. /\ c \in Codes /\ c[2] \in Nat /\ c[2] <= calls /\ c[3] \in Nat /\ calls \in Nat
  BY <1>1, InHand, IdentitiesAssumption DEF Typed
<1>3. Unborn(c)
  BY <1>1, <1>2 DEF Unborn, Regenerating
<1>4. ASSUME NEW s \in Requests, pc'[s] \in {"delete", "insert"},
             arg'[s][2] = c[2], arg'[s][3] <= c[3]
      PROVE  FALSE
  <2>1. CASE s = r
    BY <1>1, <1>2, <1>4, <2>1
  <2>2. CASE s # r
    <3>1. s \in Regenerating /\ arg[s][2] = arg[r][2]
      BY <1>1, <1>4, <2>2 DEF OthersWait, Regenerating
    <3> QED
      BY <1>1, <2>2, <3>1 DEF GenerationInv
  <2> QED
    BY <2>1, <2>2
<1>5. ~(c[2] > calls')
  BY <1>1, <1>2
<1>6. ~Unborn(c)'
  BY <1>4, <1>5, Zenon DEF Unborn
<1> QED
  BY <1>1, <1>2, <1>3, <1>6

\* No step makes a code known before it is inserted.
LEMMA StepUnborn ==
    ASSUME Typed, ArgInv, alone \subseteq Regenerating, GenerationInv, UnbornInv, Next
    PROVE  UnbornInv'
<1> SUFFICES ASSUME NEW c \in Codes, Unborn(c)'
             PROVE  /\ codes'[c] # "unused" /\ c \notin accepted'
                    /\ \A r \in Requests : pc'[r] = "use" => arg'[r] # c
  BY DEF UnbornInv
<1>1. /\ codes[c] # "unused" /\ c \notin accepted
      /\ \A r \in Requests : pc[r] = "use" => arg[r] # c
  BY BornStays DEF UnbornInv
<1>2. codes'[c] # "unused"
  <2>1. ASSUME NEW r \in Requests, Delete(r) PROVE codes'[c] # "unused"
    BY <2>1 DEF Delete, DeleteUnused
  <2>2. ASSUME NEW r \in Requests, InsertCode(r) \/ InsertLastCode(r)
        PROVE  codes'[c] # "unused"
    <3>1. arg[r] # c /\ codes' = [codes EXCEPT ![arg[r]] = "unused"]
      BY <2>2, InsertsUnborn
    <3> QED
      BY <1>1, <3>1 DEF Typed
  <2>3. ASSUME NEW r \in Requests, UseCode(r) PROVE codes'[c] # "unused"
    BY <1>1, <2>3 DEF UseCode, Typed
  <2> QED
    BY <1>1, <2>1, <2>2, <2>3, OtherSteps
<1>3. c \notin accepted'
  <2>1. ASSUME NEW r \in Requests, MarkUsed(r) PROVE c \notin accepted'
    <3>1. arg[r] # c
      BY <2>1, MarksUsed, CodeFacts
    <3> QED
      BY <1>1, <2>1, <3>1 DEF MarkUsed, Accept
  <2>2. ASSUME NEW r \in Requests, UseCode(r) PROVE c \notin accepted'
    BY <1>1, <2>2 DEF UseCode, Accept, Goto
  <2>3. ASSUME NEW r \in Requests, NEW u \in Users, NEW i \in DOMAIN challenges[u],
               VerifyChallenge(r, u, i)
        PROVE  c \notin accepted'
    BY <1>1, <2>3 DEF VerifyChallenge, Find
  <2>4. ASSUME NEW r \in Requests, NEW d \in Codes, VerifyRecoveryCode(r, d)
        PROVE  c \notin accepted'
    BY <1>1, <2>4 DEF VerifyRecoveryCode, Find
  <2>5. CASE SecretsRest
    BY <1>1, <2>5 DEF SecretsRest, secretVars
  <2> QED
    BY <2>1, <2>2, <2>3, <2>4, <2>5, OtherSteps DEF SecretStep
<1>4. ASSUME NEW s \in Requests, pc'[s] = "use" PROVE arg'[s] # c
  <2>1. CASE SecretsRest
    BY <1>1, <1>4, <2>1 DEF SecretsRest, Holds
  <2>2. ASSUME NEW r \in Requests, NEW d \in Codes, VerifyRecoveryCode(r, d) PROVE arg'[s] # c
    <3>1. codes[d] = "unused" /\ arg'[r] = d /\ OthersWait(r)
      BY <2>2, BeginMoves DEF VerifyRecoveryCode, Find, Redeemable
    <3> QED
      BY <1>1, <1>4, <3>1 DEF OthersWait
  <2>3. ASSUME NEW r \in Requests, NEW u \in Users, NEW i \in DOMAIN challenges[u],
               VerifyChallenge(r, u, i)
        PROVE  arg'[s] # c
    <3>1. pc'[r] = "mark" /\ OthersWait(r)
      BY <2>3, BeginMoves DEF VerifyChallenge, Find
    <3> QED
      BY <1>1, <1>4, <3>1 DEF OthersWait
  <2>4. ASSUME NEW r \in Requests, MarkUsed(r) \/ UseCode(r) PROVE arg'[s] # c
    <3>1. pc'[r] # "use" /\ OthersWait(r)
      BY <2>4, GotoMoves DEF MarkUsed, UseCode
    <3> QED
      BY <1>1, <1>4, <3>1 DEF OthersWait
  <2> QED
    BY <2>1, <2>2, <2>3, <2>4, OtherSteps DEF SecretStep
<1> QED
  BY <1>2, <1>3, <1>4

\* What is accepted is used from then on.
LEMMA StepUsed ==
    ASSUME Typed, ArgInv, alone \subseteq Regenerating, GenerationInv, UnbornInv, UsedInv, Next
    PROVE  UsedInv'
<1>1. ASSUME NEW c \in Codes, c \in accepted' PROVE codes'[c] # "unused"
  <2>1. ASSUME c \in accepted PROVE codes'[c] # "unused"
    <3>1. codes[c] # "unused"
      BY <2>1 DEF UsedInv
    <3>2. ASSUME NEW r \in Requests, Delete(r) PROVE codes'[c] # "unused"
      BY <3>2 DEF Delete, DeleteUnused
    <3>3. ASSUME NEW r \in Requests, InsertCode(r) \/ InsertLastCode(r)
          PROVE  codes'[c] # "unused"
      <4>1. arg[r] # c /\ codes' = [codes EXCEPT ![arg[r]] = "unused"]
        BY <2>1, <3>3, InsertsUnborn DEF UnbornInv
      <4> QED
        BY <3>1, <4>1 DEF Typed
    <3>4. ASSUME NEW r \in Requests, UseCode(r) PROVE codes'[c] # "unused"
      BY <3>1, <3>4 DEF UseCode, Typed
    <3> QED
      BY <3>1, <3>2, <3>3, <3>4, OtherSteps
  <2>2. ASSUME NEW r \in Requests, UseCode(r), c \notin accepted PROVE codes'[c] # "unused"
    <3>1. c = arg[r] /\ codes' = [codes EXCEPT ![c] = IF @ = "none" THEN @ ELSE "used"]
      BY <1>1, <2>2 DEF UseCode, Accept
    <3> QED
      BY <3>1 DEF Typed
  <2>3. ASSUME NEW r \in Requests, MarkUsed(r) PROVE c \in accepted
    <3>1. arg[r] # c
      BY <2>3, MarksUsed, CodeFacts
    <3> QED
      BY <1>1, <2>3, <3>1 DEF MarkUsed, Accept
  <2>4. ASSUME NEW r \in Requests, NEW u \in Users, NEW i \in DOMAIN challenges[u],
               VerifyChallenge(r, u, i)
        PROVE  c \in accepted
    BY <1>1, <2>4 DEF VerifyChallenge, Find
  <2>5. ASSUME NEW r \in Requests, NEW d \in Codes, VerifyRecoveryCode(r, d)
        PROVE  c \in accepted
    BY <1>1, <2>5 DEF VerifyRecoveryCode, Find
  <2>6. CASE SecretsRest
    BY <1>1, <2>1, <2>6 DEF SecretsRest, secretVars
  <2> QED
    BY <2>1, <2>2, <2>3, <2>4, <2>5, <2>6, OtherSteps DEF SecretStep
<1>2. ASSUME NEW u \in Users, NEW i \in Nat, Challenge(u, i) \in accepted'
      PROVE  i \in DOMAIN challenges'[u] /\ challenges'[u][i].used
  <2>1. ASSUME Challenge(u, i) \in accepted
        PROVE  i \in DOMAIN challenges'[u] /\ challenges'[u][i].used
    BY <2>1, ChallengesStay DEF UsedInv
  <2>2. ASSUME NEW r \in Requests, MarkUsed(r), Challenge(u, i) \notin accepted
        PROVE  i \in DOMAIN challenges'[u] /\ challenges'[u][i].used
    <3>1. arg[r] = Challenge(u, i)
      BY <1>2, <2>2 DEF MarkUsed, Accept
    <3> QED
      BY <2>2, <3>1, MarksUsed DEF Challenge
  <2>3. ASSUME NEW r \in Requests, UseCode(r) PROVE Challenge(u, i) \in accepted
    <3>1. arg[r] \in Codes
      BY <2>3 DEF UseCode, Goto, ArgInv
    <3> QED
      BY <1>2, <2>3, <3>1, CodeFacts DEF UseCode, Accept
  <2>4. ASSUME NEW r \in Requests, NEW v \in Users, NEW j \in DOMAIN challenges[v],
               VerifyChallenge(r, v, j)
        PROVE  Challenge(u, i) \in accepted
    BY <1>2, <2>4 DEF VerifyChallenge, Find
  <2>5. ASSUME NEW r \in Requests, NEW d \in Codes, VerifyRecoveryCode(r, d)
        PROVE  Challenge(u, i) \in accepted
    BY <1>2, <2>5 DEF VerifyRecoveryCode, Find
  <2>6. CASE SecretsRest
    BY <1>2, <2>1, <2>6 DEF SecretsRest, secretVars
  <2> QED
    BY <2>1, <2>2, <2>3, <2>4, <2>5, <2>6, OtherSteps DEF SecretStep
<1> QED
  BY <1>1, <1>2 DEF UsedInv

\* A secret that two requests hold, or one holds after its use, was found by two at once.
LEMMA StepRace ==
    ASSUME Typed, ArgInv, alone \subseteq Regenerating, UsedInv, RaceInv, Next
    PROVE  RaceInv'
<1> DEFINE Hands(s) == Holds(s) /\ arg[s] \in accepted => arg[s] \in raced
           Both(s, t) == Holds(s) /\ Holds(t) /\ s # t /\ arg[s] = arg[t] => arg[s] \in raced
<1>1. /\ \A s \in Requests : Hands(s)
      /\ \A s, t \in Requests : Both(s, t)
      /\ again \subseteq raced
  BY DEF RaceInv, SecretsWorkOnce
<1>2. ASSUME /\ \A s \in Requests : Hands(s)'
             /\ \A s, t \in Requests : Both(s, t)'
             /\ again' \subseteq raced'
      PROVE  RaceInv'
  BY <1>2 DEF RaceInv, SecretsWorkOnce
<1>3. CASE SecretsRest
  <2>1. /\ accepted' = accepted /\ again' = again /\ raced' = raced
        /\ \A s \in Requests : Holds(s)' => Holds(s) /\ arg'[s] = arg[s]
    BY <1>3 DEF SecretsRest, secretVars, Holds
  <2> HIDE DEF Holds
  <2> QED
    BY <1>1, <1>2, <2>1
<1>4. ASSUME NEW r \in Requests, NEW step \in {"mark", "use"}, NEW secret,
             Find(r, step, secret), secret \notin accepted,
             \A s \in Requests : Holds(s) /\ arg[s] = secret => pc[s] = step
      PROVE  RaceInv'
  <2>1. /\ OthersWait(r) /\ arg'[r] = secret
        /\ accepted' = accepted /\ again' = again /\ raced \subseteq raced'
        /\ (\E s \in Requests : pc[s] = step /\ arg[s] = secret) => secret \in raced'
        /\ ~Holds(r)
    BY <1>4, BeginMoves DEF Find, Holds
  <2>2. \A s \in Requests \ {r} : (Holds(s)' => Holds(s)) /\ arg'[s] = arg[s]
    BY <2>1 DEF OthersWait, Holds
  <2>3. \A s \in Requests \ {r} : Holds(s) /\ arg[s] = secret => secret \in raced'
    BY <1>4, <2>1
  <2> HIDE DEF Holds
  <2>4. \A s \in Requests : Hands(s)'
    BY <1>1, <1>4, <2>1, <2>2
  <2>5. \A s, t \in Requests : Both(s, t)'
    BY <1>1, <2>1, <2>2, <2>3
  <2> QED
    BY <1>1, <1>2, <2>1, <2>4, <2>5
<1>5. ASSUME NEW r \in Requests, OthersWait(r), Holds(r), ~Holds(r)', Accept(r)
      PROVE  RaceInv'
  <2>1. /\ accepted' = accepted \cup {arg[r]} /\ raced' = raced
        /\ again' \subseteq again \cup (IF arg[r] \in accepted THEN {arg[r]} ELSE {})
    BY <1>5 DEF Accept
  <2>2. \A s \in Requests : Holds(s)' => s # r /\ Holds(s) /\ arg'[s] = arg[s]
    BY <1>5 DEF OthersWait, Holds
  <2> HIDE DEF Holds
  <2>3. \A s \in Requests : Hands(s)'
    BY <1>1, <1>5, <2>1, <2>2
  <2>4. \A s, t \in Requests : Both(s, t)'
    BY <1>1, <2>1, <2>2
  <2>5. again' \subseteq raced'
    BY <1>1, <1>5, <2>1
  <2> QED
    BY <1>2, <2>3, <2>4, <2>5
<1>6. ASSUME NEW r \in Requests, NEW u \in Users, NEW i \in DOMAIN challenges[u],
             VerifyChallenge(r, u, i)
      PROVE  RaceInv'
  <2>1. Find(r, "mark", Challenge(u, i)) /\ ~challenges[u][i].used
    BY <1>6 DEF VerifyChallenge, Candidates, Unused, Challenge
  <2>2. i \in Nat
    BY LenProperties DEF Typed
  <2>3. Challenge(u, i) \notin accepted
    BY <2>1, <2>2 DEF UsedInv
  <2>4. \A s \in Requests : pc[s] = "use" => arg[s] # Challenge(u, i)
    BY CodeFacts DEF ArgInv
  <2> QED
    BY <1>4, <2>1, <2>3, <2>4 DEF Holds
<1>7. ASSUME NEW r \in Requests, NEW c \in Codes, VerifyRecoveryCode(r, c) PROVE RaceInv'
  <2>1. Find(r, "use", c) /\ codes[c] = "unused"
    BY <1>7 DEF VerifyRecoveryCode, Redeemable
  <2>2. c \notin accepted
    BY <2>1 DEF UsedInv
  <2>3. \A s \in Requests : pc[s] = "mark" => arg[s] # c
    BY CodeFacts DEF ArgInv
  <2> QED
    BY <1>4, <2>1, <2>2, <2>3 DEF Holds
<1>8. ASSUME NEW r \in Requests, MarkUsed(r) \/ UseCode(r) PROVE RaceInv'
  <2>1. OthersWait(r) /\ Holds(r) /\ ~Holds(r)' /\ Accept(r)
    BY <1>8, GotoMoves DEF MarkUsed, UseCode, Holds
  <2> QED
    BY <1>5, <2>1
<1> QED
  BY <1>3, <1>6, <1>7, <1>8, OtherSteps DEF SecretStep

-----------------------------------------------------------------------------
(* Recovery codes *)

\* What was accepted stays accepted.
LEMMA AcceptedGrow ==
    ASSUME Typed, alone \subseteq Regenerating, Next
    PROVE  accepted \subseteq accepted'
<1>1. CASE SecretsRest
  BY <1>1 DEF SecretsRest, secretVars
<1>2. ASSUME NEW r \in Requests, SecretStep(r) PROVE accepted \subseteq accepted'
  BY <1>2 DEF SecretStep, VerifyChallenge, VerifyRecoveryCode, MarkUsed, UseCode, Find, Accept
<1> QED
  BY <1>1, <1>2, OtherSteps

\* One more is inserted.
LEMMA InsertsNext ==
    ASSUME Typed, NEW n \in 1..MaxCalls, NEW m \in 1..PerIssue, Inserted(n, m),
           codes' = [codes EXCEPT ![Code(n, m)] = "unused"], accepted' = accepted
    PROVE  Inserted(n, m + 1)'
<1>1. Code(n, m) \in Codes /\ Code(n, m)[2] = n /\ Code(n, m)[3] = m /\ m \in Nat
  BY CodeFacts, IdentitiesAssumption
<1>2. \A c \in Codes : codes'[c] = IF c = Code(n, m) THEN "unused" ELSE codes[c]
  BY <1>1 DEF Typed
<1>3. ASSUME NEW c \in Codes, codes'[c] = "unused" PROVE c[2] = n /\ c[3] < m + 1
  <2>1. CASE c = Code(n, m)
    BY <1>1, <2>1
  <2>2. CASE c # Code(n, m)
    <3>1. c \in Redeemable
      BY <1>2, <1>3, <2>2 DEF Redeemable
    <3>2. c[2] = n /\ c[3] < m /\ c[3] \in Nat
      BY <3>1, CodeFacts, IdentitiesAssumption DEF Inserted
    <3> QED
      BY <1>1, <3>2
  <2> QED
    BY <2>1, <2>2
<1>4. ASSUME NEW i \in 1..PerIssue, i < m + 1
      PROVE  codes'[Code(n, i)] = "unused" \/ Code(n, i) \in accepted
  <2>1. Code(n, i) \in Codes /\ i \in Nat
    BY CodeFacts, IdentitiesAssumption
  <2>2. CASE i = m
    BY <1>2, <2>1, <2>2
  <2>3. CASE i # m
    <3>1. i < m
      BY <1>1, <1>4, <2>1, <2>3
    <3>2. codes[Code(n, i)] = "unused" \/ Code(n, i) \in accepted
      BY <3>1 DEF Inserted
    <3> QED
      BY <1>2, <2>1, <3>2
  <2> QED
    BY <2>2, <2>3
<1> QED
  BY <1>3, <1>4 DEF Inserted, Redeemable

\* Every step keeps what a regeneration that met no other has inserted.
LEMMA StepAlone ==
    ASSUME Typed, ArgInv, AloneInv, Next
    PROVE  AloneInv'
<1>1. /\ settled => Regenerating = {} /\ Redeemable \subseteq shown
      /\ settled => \A c \in shown : codes[c] = "unused" \/ c \in accepted
      /\ shown \subseteq Codes
      /\ \A r \in alone : Regenerating = {r}
      /\ \A r \in alone : pc[r] = "insert" => Inserted(arg[r][2], arg[r][3])
      /\ alone \subseteq Regenerating /\ alone \subseteq Requests
  BY DEF AloneInv, Inserted, ShownCodesWork, Typed
<1>2. ASSUME /\ settled' => Regenerating' = {} /\ Redeemable' \subseteq shown'
             /\ settled' => \A c \in shown' : codes'[c] = "unused" \/ c \in accepted'
             /\ shown' \subseteq Codes
             /\ \A r \in alone' : Regenerating' = {r}
             /\ \A r \in alone' : pc'[r] = "insert" => Inserted(arg[r][2], arg[r][3])'
      PROVE  AloneInv'
  BY <1>2 DEF AloneInv, Inserted, ShownCodesWork
<1>3. ASSUME NEW r \in Requests, CodeStep(r)
      PROVE  OthersWait(r) /\ UNCHANGED secretVars
  BY <1>3, Regenerates, Inserts, GotoMoves
  DEF CodeStep, Delete, InsertLastCode, RegenerateRecoveryCodes, InsertCode
<1>4. ASSUME NEW r \in Regenerating PROVE ~settled /\ alone \subseteq {r}
  BY <1>1, <1>4
<1>5. CASE CodesRest /\ (UNCHANGED codes \/ \E r \in Requests : UseCode(r))
  <2>1. /\ UNCHANGED <<shown, settled>> /\ alone' \subseteq alone
        /\ Regenerating' \subseteq Regenerating
        /\ \A r \in alone' : r \in Regenerating' /\ pc'[r] = pc[r]
        /\ \A r \in alone' : pc'[r] = "insert" => arg'[r] = arg[r]
    <3>1. /\ alone' \subseteq alone
          /\ \A r \in Requests :
               pc'[r] \in {"delete", "insert"} => pc'[r] = pc[r] /\ arg'[r] = arg[r]
          /\ \A r \in alone' : pc'[r] = pc[r]
      BY <1>5 DEF CodesRest
    <3>2. \A r \in alone' : r \in Requests /\ pc[r] \in {"delete", "insert"}
      BY <1>1, <3>1 DEF Regenerating
    <3>3. UNCHANGED <<shown, settled>>
      BY <1>5 DEF CodesRest
    <3>4. \A r \in alone' : r \in Regenerating' /\ pc'[r] = pc[r]
      BY <3>1, <3>2 DEF Regenerating
    <3>5. Regenerating' \subseteq Regenerating
      BY <3>1 DEF Regenerating
    <3>6. \A r \in alone' : pc'[r] = "insert" => arg'[r] = arg[r]
      BY <3>1, <3>2
    <3> QED
      BY <3>1, <3>3, <3>4, <3>5, <3>6, Zenon
  <2>2. accepted \subseteq accepted'
    BY <1>1, AcceptedGrow
  <2>3. ASSUME NEW c \in Codes
        PROVE  /\ codes'[c] = "unused" => codes[c] = "unused"
               /\ codes[c] = "unused" \/ c \in accepted
                    => codes'[c] = "unused" \/ c \in accepted'
    <3>1. CASE UNCHANGED codes
      BY <2>2, <3>1
    <3>2. ASSUME NEW r \in Requests, UseCode(r)
          PROVE  /\ codes'[c] = "unused" => codes[c] = "unused"
                 /\ codes[c] = "unused" => codes'[c] = "unused" \/ c \in accepted'
      BY <3>2 DEF UseCode, Accept, Typed
    <3> QED
      BY <1>5, <2>2, <3>1, <3>2
  <2>4. Redeemable' \subseteq Redeemable
    BY <2>3 DEF Redeemable
  <2>5. settled' => \A c \in shown' : codes'[c] = "unused" \/ c \in accepted'
    BY <1>1, <2>1, <2>3
  <2>6. \A r \in alone' : Regenerating' = {r}
    BY <1>1, <2>1
  <2>7. ASSUME NEW r \in alone', pc'[r] = "insert" PROVE Inserted(arg[r][2], arg[r][3])'
    <3>1. r \in alone /\ pc[r] = "insert" /\ arg'[r] = arg[r] /\ r \in Regenerating
      BY <1>1, <2>1, <2>7
    <3>2. arg[r][2] \in 1..MaxCalls /\ Inserted(arg[r][2], arg[r][3])
      BY <1>1, <3>1, InHand
    <3>3. \A i \in 1..PerIssue : Code(arg[r][2], i) \in Codes
      BY <3>2, CodeFacts
    <3>4. /\ \A c \in Redeemable' : c[2] = arg[r][2] /\ c[3] < arg[r][3]
          /\ \A i \in 1..PerIssue : i < arg[r][3] =>
               codes'[Code(arg[r][2], i)] = "unused" \/ Code(arg[r][2], i) \in accepted'
      BY <2>3, <2>4, <3>2, <3>3 DEF Inserted
    <3> QED
      BY <3>1, <3>4 DEF Inserted, Code
  <2> QED
    BY <1>1, <1>2, <2>1, <2>4, <2>5, <2>6, <2>7
<1>6. ASSUME NEW r \in Requests, RegenerateRecoveryCodes(r) PROVE AloneInv'
  <2>1. /\ settled' = FALSE /\ UNCHANGED shown
        /\ alone' = IF Regenerating = {} THEN {r} ELSE {}
    BY <1>6 DEF RegenerateRecoveryCodes
  <2>2. pc'[r] = "delete" /\ OthersWait(r)
    BY <1>6, Regenerates
  <2>3. Regenerating = {} => Regenerating' = {r}
    BY <2>2 DEF Regenerating, OthersWait
  <2>4. \A s \in alone' : s = r /\ Regenerating' = {s} /\ pc'[s] # "insert"
    BY <2>1, <2>2, <2>3
  <2> QED
    BY <1>1, <1>2, <2>1, <2>4
<1>7. ASSUME NEW r \in Requests, Delete(r) PROVE AloneInv'
  <2>1. /\ r \in Regenerating /\ arg[r][3] = 1
        /\ pc'[r] = "insert" /\ arg'[r] = arg[r] /\ OthersWait(r)
        /\ codes' = DeleteUnused /\ UNCHANGED <<shown, alone, settled>>
    BY <1>7, GotoMoves DEF Delete, Regenerating, ArgInv
  <2>2. Regenerating' = Regenerating
    BY <2>1 DEF Regenerating, OthersWait
  <2>3. Redeemable' = {}
    BY <2>1 DEF Redeemable, DeleteUnused
  <2>4. \A i \in 1..PerIssue : ~(i < 1)
    BY IdentitiesAssumption
  <2>5. Inserted(arg[r][2], arg[r][3])'
    BY <2>1, <2>3, <2>4 DEF Inserted
  <2>6. ~settled' /\ alone' \subseteq {r}
    BY <1>4, <2>1
  <2>7. \A s \in alone' : Regenerating' = {s}
    BY <1>1, <2>1, <2>2
  <2>8. \A s \in alone' : Inserted(arg[s][2], arg[s][3])'
    BY <2>5, <2>6
  <2> QED
    BY <1>1, <1>2, <2>1, <2>6, <2>7, <2>8
<1>8. ASSUME NEW r \in Requests, InsertCode(r) PROVE AloneInv'
  <2>1. /\ r \in Regenerating /\ pc[r] = "insert" /\ pc'[r] = "insert" /\ OthersWait(r)
        /\ arg'[r] = Code(arg[r][2], arg[r][3] + 1)
    BY <1>8, Inserts DEF Regenerating
  <2>2. UNCHANGED <<shown, alone, settled>> /\ accepted' = accepted
        /\ codes' = [codes EXCEPT ![arg[r]] = "unused"]
    BY <1>8 DEF InsertCode, secretVars
  <2>3. Regenerating' = Regenerating
    BY <2>1 DEF Regenerating, OthersWait
  <2>4. /\ arg[r] = Code(arg[r][2], arg[r][3])
        /\ arg[r][2] \in 1..MaxCalls /\ arg[r][3] \in 1..PerIssue
    BY <2>1, InHand
  <2>5. ASSUME r \in alone PROVE Inserted(arg[r][2], arg[r][3])'
    <3> DEFINE n == arg[r][2]
               m == arg[r][3]
    <3>1. Inserted(n, m)
      BY <1>1, <2>1, <2>5
    <3>2. codes' = [codes EXCEPT ![Code(n, m)] = "unused"]
      BY <2>2, <2>4
    <3>3. \A x \in 1..MaxCalls, y \in 1..PerIssue :
            Inserted(x, y) /\ codes' = [codes EXCEPT ![Code(x, y)] = "unused"]
              => Inserted(x, y + 1)'
      BY <2>2, InsertsNext
    <3>4. PICK x \in 1..MaxCalls, y \in 1..PerIssue : x = n /\ y = m
      BY <2>4
    <3>5. Inserted(x, y + 1)'
      BY <3>1, <3>2, <3>3, <3>4
    <3>6. arg'[r][2] = x /\ arg'[r][3] = y + 1
      BY <2>1, <3>4 DEF Code
    <3> QED
      BY <3>5, <3>6 DEF Inserted
  <2>6. ~settled' /\ alone' \subseteq {r}
    BY <1>4, <2>1, <2>2
  <2>7. \A s \in alone' : Regenerating' = {s}
    BY <1>1, <2>2, <2>3
  <2>8. \A s \in alone' : Inserted(arg[s][2], arg[s][3])'
    BY <2>2, <2>5, <2>6
  <2> QED
    BY <1>1, <1>2, <2>2, <2>6, <2>7, <2>8
<1>9. ASSUME NEW r \in Requests, InsertLastCode(r) PROVE AloneInv'
  <2>1. r \in Regenerating /\ pc[r] = "insert" /\ pc'[r] = "idle" /\ OthersWait(r)
    BY <1>9, GotoMoves DEF InsertLastCode, Regenerating
  <2>2. /\ alone' = alone \ {r} /\ shown' = Generation(arg[r][2]) /\ accepted' = accepted
        /\ codes' = [codes EXCEPT ![arg[r]] = "unused"] /\ arg[r][3] = PerIssue
    BY <1>9 DEF InsertLastCode, secretVars
  <2>3. settled' => r \in alone
    BY <1>9, Zenon DEF InsertLastCode
  <2>4. alone' = {}
    BY <1>4, <2>1, <2>2
  <2>5. /\ arg[r] = Code(arg[r][2], arg[r][3]) /\ arg[r][2] \in 1..MaxCalls
        /\ PerIssue \in 1..PerIssue /\ PerIssue \in Nat
    BY <2>1, InHand, IdentitiesAssumption
  <2>6. Generation(arg[r][2]) = {Code(arg[r][2], i) : i \in 1..PerIssue}
    BY DEF Generation, Code
  <2>7. shown' \subseteq Codes
    BY <2>2, <2>5, <2>6, CodeFacts
  <2>8. ASSUME r \in alone
        PROVE  /\ Regenerating' = {} /\ Redeemable' \subseteq shown'
               /\ \A c \in shown' : codes'[c] = "unused" \/ c \in accepted'
    <3>1. Regenerating' = {}
      BY <1>1, <2>1, <2>8 DEF Regenerating, OthersWait
    <3>2. PICK n \in 1..MaxCalls : n = arg[r][2]
      BY <2>5
    <3>3. Inserted(n, PerIssue) /\ codes' = [codes EXCEPT ![Code(n, PerIssue)] = "unused"]
      BY <1>1, <2>1, <2>2, <2>5, <2>8, <3>2
    <3>4. Inserted(n, PerIssue + 1)'
      BY <2>2, <2>5, <3>3, InsertsNext
    <3>5. ASSUME NEW c \in Redeemable' PROVE c \in shown'
      <4>1. c \in Codes /\ c[2] = n
        BY <3>4, <3>5 DEF Inserted, Redeemable
      <4>2. c = Code(n, c[3]) /\ c[3] \in 1..PerIssue
        BY <4>1, CodeFacts
      <4> QED
        BY <2>2, <2>6, <3>2, <4>2
    <3>6. ASSUME NEW c \in shown' PROVE codes'[c] = "unused" \/ c \in accepted'
      <4>1. PICK i \in 1..PerIssue : c = Code(n, i)
        BY <2>2, <2>6, <3>2, <3>6
      <4>2. i < PerIssue + 1
        BY <2>5
      <4> QED
        BY <3>4, <4>1, <4>2 DEF Inserted
    <3> QED
      BY <3>1, <3>5, <3>6
  <2> QED
    BY <1>2, <2>3, <2>4, <2>7, <2>8
<1>10. \/ \E r \in Requests : CodeStep(r)
       \/ CodesRest /\ (UNCHANGED codes \/ \E r \in Requests : UseCode(r))
  <2>1. /\ (\E r \in Requests : CodeStep(r)) \/ CodesRest
        /\ (\E r \in Requests : CodeStep(r) \/ UseCode(r)) \/ UNCHANGED codes
    BY <1>1, OtherSteps DEF CodeStep
  <2> QED
    BY <2>1, Zenon
<1> QED
  BY <1>5, <1>6, <1>7, <1>8, <1>9, <1>10 DEF CodeStep

-----------------------------------------------------------------------------
(* Devices *)

\* Every step keeps the devices trusted that should be.
LEMMA StepDevice ==
    ASSUME Typed, ArgInv, DeviceInv, Next
    PROVE  DeviceInv'
<1> DEFINE Found(s) == pc[s] = "update" =>
             /\ arg[s][3] # 0
             /\ s \in lost \/ device[arg[s][2]] = arg[s][3]
<1>1. /\ lapsed \subseteq Rows /\ kept \subseteq Rows \ lapsed
      /\ \A s \in Requests : Found(s)
  BY DEF DeviceInv, TrustHolds
<1>2. ASSUME /\ lapsed' \subseteq Rows' /\ kept' \subseteq Rows' \ lapsed'
             /\ \A s \in Requests : Found(s)'
      PROVE  DeviceInv'
  BY <1>2 DEF DeviceInv, TrustHolds
<1>3. ASSUME UNCHANGED deviceVars,
             \A s \in Requests : pc'[s] = "update" => pc[s] = "update" /\ arg'[s] = arg[s]
      PROVE  DeviceInv'
  <2>1. /\ device' = device /\ lapsed' = lapsed /\ kept' = kept /\ lost' = lost
    BY <1>3 DEF deviceVars
  <2>2. \A s \in Requests : Found(s)'
    BY <1>1, <1>3, <2>1
  <2> QED
    BY <1>1, <1>2, <2>1, <2>2 DEF Rows
<1>4. ASSUME NEW r \in Requests, OthersWait(r), pc'[r] # "update", UNCHANGED deviceVars
      PROVE  DeviceInv'
  BY <1>3, <1>4 DEF OthersWait
<1>5. ASSUME NEW ds \in SUBSET Devices, RemoveDevices(ds), UNCHANGED <<pc, arg>>
      PROVE  DeviceInv'
  <2>1. /\ device' = [d \in Devices |-> IF d \in ds THEN 0 ELSE device[d]]
        /\ lapsed' = lapsed \ ds /\ kept' = kept \ ds
        /\ lost' = lost \cup {s \in Requests : /\ pc[s] \in {"update", "create"}
                                               /\ arg[s][2] \in ds}
    BY <1>5 DEF RemoveDevices
  <2>2. Rows' = Rows \ ds
    BY <2>1 DEF Rows
  <2>3. \A s \in Requests : pc[s] = "update" => arg[s][2] \in Devices
    BY DEF ArgInv
  <2>4. \A s \in Requests : Found(s)'
    BY <1>1, <1>5, <2>1, <2>3
  <2> QED
    BY <1>1, <1>2, <2>1, <2>2, <2>4
<1>11. ASSUME NEW r \in Requests, NEW d \in Devices, Trust(r, d) PROVE DeviceInv'
  <2>1. /\ pc'[r] = IF device[d] = 0 THEN "create" ELSE "update"
        /\ arg'[r] = <<"device", d, device[d], calls + 1>> /\ OthersWait(r)
        /\ lost' = lost \ {r} /\ UNCHANGED <<device, lapsed, kept>>
    BY <1>11, BeginMoves DEF Trust
  <2>2. \A s \in Requests : Found(s)'
    BY <1>1, <2>1 DEF OthersWait
  <2> QED
    BY <1>1, <1>2, <2>1, <2>2 DEF Rows
<1>12. ASSUME NEW r \in Requests, UpdateDevice(r) PROVE DeviceInv'
  <2>1. PICK d \in Devices : arg[r][2] = d
    BY <1>12 DEF UpdateDevice, Goto, ArgInv
  <2>2. /\ pc[r] = "update" /\ pc'[r] = "idle" /\ OthersWait(r)
        /\ lapsed' = Renewed(d, arg[r][3]) /\ UNCHANGED <<device, lost>>
        /\ kept' = IF r \in lost THEN kept ELSE kept \cup {d}
    BY <1>12, <2>1, GotoMoves DEF UpdateDevice, Answer
  <2>3. \A s \in Requests : Found(s)'
    BY <1>1, <2>2 DEF OthersWait
  <2>4. r \notin lost => d \in Rows /\ lapsed' = lapsed \ {d}
    BY <1>1, <2>1, <2>2 DEF Rows, Renewed
  <2>5. lapsed' \subseteq lapsed /\ Rows' = Rows
    BY <2>2 DEF Renewed, Rows
  <2> QED
    BY <1>1, <1>2, <2>2, <2>3, <2>4, <2>5
<1>13. ASSUME NEW r \in Requests, CreateDevice(r) PROVE DeviceInv'
  <2>1. PICK d \in Devices : arg[r][2] = d /\ arg[r][4] # 0
    BY <1>13 DEF CreateDevice, Goto, ArgInv
  <2>2. /\ pc'[r] = "idle" /\ OthersWait(r) /\ UNCHANGED <<lapsed, lost>>
        /\ device[d] = 0 /\ device' = [device EXCEPT ![d] = arg[r][4]]
        /\ kept' = IF r \in lost THEN kept ELSE kept \cup {d}
    BY <1>13, <2>1, GotoMoves DEF CreateDevice, Answer
  <2>3. \A s \in Requests : pc[s] = "update" => arg[s][2] \in Devices
    BY DEF ArgInv
  <2>4. \A s \in Requests : Found(s)'
    BY <1>1, <2>1, <2>2, <2>3 DEF OthersWait, Typed
  <2>5. Rows' = Rows \cup {d} /\ d \notin Rows
    BY <2>1, <2>2 DEF Rows, Typed
  <2> QED
    BY <1>1, <1>2, <2>2, <2>4, <2>5
<1>14. ASSUME NEW d \in Devices, LapseDevice(d) PROVE DeviceInv'
  <2>1. /\ d \in Rows /\ lapsed' = lapsed \cup {d} /\ kept' = kept \ {d}
        /\ UNCHANGED <<device, lost, pc, arg>>
    BY <1>14 DEF LapseDevice
  <2>2. \A s \in Requests : Found(s)'
    BY <1>1, <2>1
  <2> QED
    BY <1>1, <1>2, <2>1, <2>2 DEF Rows
<1>15. ASSUME NEW d \in Devices, Revoke(d) PROVE DeviceInv'
  BY <1>5, <1>15 DEF Revoke, Once
<1>16. ASSUME RevokeAll \/ CleanupExpired PROVE DeviceInv'
  BY <1>5, <1>16 DEF RevokeAll, CleanupExpired, Once, Rows, Typed
<1>17. ASSUME NEW r \in Requests, NEW u \in Users, NEW i \in DOMAIN challenges[u],
              VerifyChallenge(r, u, i)
       PROVE  DeviceInv'
  BY <1>4, <1>17, BeginMoves DEF VerifyChallenge, Find
<1>18. ASSUME NEW r \in Requests, MarkUsed(r) \/ MarkIdentities(r) \/ MarkPhones(r)
       PROVE  DeviceInv'
  BY <1>4, <1>18, GotoMoves DEF MarkUsed, MarkIdentities, MarkPhones
<1>19. ASSUME NEW r \in Requests, RegenerateRecoveryCodes(r) PROVE DeviceInv'
  BY <1>4, <1>19, Regenerates DEF RegenerateRecoveryCodes
<1>20. ASSUME NEW r \in Requests, Delete(r) \/ InsertLastCode(r) \/ UseCode(r) \/ RefuseDevice(r)
       PROVE  DeviceInv'
  BY <1>4, <1>20, GotoMoves DEF Delete, InsertLastCode, UseCode, RefuseDevice
<1>21. ASSUME NEW r \in Requests, InsertCode(r) PROVE DeviceInv'
  BY <1>4, <1>21, Inserts DEF InsertCode
<1>22. ASSUME NEW r \in Requests, NEW c \in Codes, VerifyRecoveryCode(r, c) PROVE DeviceInv'
  BY <1>4, <1>22, BeginMoves DEF VerifyRecoveryCode, Find
<1>23. ASSUME NEW r \in Requests, Abort(r) PROVE DeviceInv'
  BY <1>4, <1>23 DEF Abort, OthersWait, Typed
<1>24. ASSUME UNCHANGED <<deviceVars, pc, arg>> PROVE DeviceInv'
  BY <1>3, <1>24
<1>25. ASSUME NEW u \in Users, NEW p \in Phones, AddPhone(u, p) PROVE DeviceInv'
  BY <1>24, <1>25 DEF AddPhone, Once
<1>26. ASSUME NEW u \in Users, SendVerification(u) PROVE DeviceInv'
  BY <1>24, <1>26 DEF SendVerification, Once
<1>27. ASSUME NEW u \in Users, NEW i \in DOMAIN challenges[u], ExpireChallenge(u, i)
       PROVE  DeviceInv'
  BY <1>24, <1>27 DEF ExpireChallenge
<1>28. ASSUME NEW p \in Phones, RemoveIdentity(p) PROVE DeviceInv'
  BY <1>24, <1>28 DEF RemoveIdentity, Once
<1> QED
  BY <1>11, <1>12, <1>13, <1>14, <1>15, <1>16, <1>17, <1>18, <1>19, <1>20, <1>21, <1>22, <1>23,
     <1>25, <1>26, <1>27, <1>28, Zenon
  DEF Next, Contact, Recovery, Device

-----------------------------------------------------------------------------
(* The invariant *)

\* The invariant holds at first.
LEMMA InitInv == ASSUME Init PROVE IInv
<1>1. Typed
  <2>1. challenges \in [Users -> Seq([used : BOOLEAN, expired : BOOLEAN])]
    <3> DEFINE Row == [used : BOOLEAN, expired : BOOLEAN]
    <3>1. <<>> \in Seq(Row)
      <4> HIDE DEF Row
      <4> QED
        BY EmptySeq
    <3> QED
      BY <3>1 DEF Init
  <2> QED
    BY <2>1, IdentitiesAssumption DEF Init, Typed
<1>2. ArgInv
  BY DEF Init, ArgInv
<1>3. HolderInv
  BY DEF Init, HolderInv
<1>4. SecretInv
  BY DEF Init, SecretInv, GenerationInv, UnbornInv, UsedInv, RaceInv, SecretsWorkOnce, Holds,
         Regenerating
<1>5. AloneInv
  BY DEF Init, AloneInv, ShownCodesWork, Redeemable
<1>6. DeviceInv
  BY DEF Init, DeviceInv, TrustHolds, Rows
<1> QED
  BY <1>1, <1>2, <1>3, <1>4, <1>5, <1>6 DEF IInv

\* Every step keeps the invariant.
LEMMA StepInv == ASSUME IInv, [Next]_vars PROVE IInv'
<1>1. CASE Next
  <2>1. alone \subseteq Regenerating
    BY DEF IInv, AloneInv
  <2> QED
    BY <1>1, <2>1, StepTyped, StepArg, StepHolder, StepGeneration, StepUnborn, StepUsed, StepRace,
       StepAlone, StepDevice
    DEF IInv, SecretInv
<1>2. CASE UNCHANGED vars
  <2>1. UNCHANGED <<contactVars, codeVars, deviceVars, secretVars, pc, arg, calls, faults>>
    BY <1>2 DEF vars
  <2>2. Typed' /\ ArgInv'
    BY <2>1 DEF IInv, Typed, ArgInv, contactVars, codeVars, deviceVars
  <2>3. HolderInv' /\ DeviceInv'
    BY <2>1 DEF IInv, HolderInv, Redeemers, DeviceInv, TrustHolds, Rows, contactVars, deviceVars
  <2>4. SecretInv'
    BY <2>1 DEF IInv, SecretInv, GenerationInv, UnbornInv, Unborn, UsedInv, RaceInv, Holds,
                SecretsWorkOnce, Regenerating, contactVars, codeVars, secretVars
  <2>5. AloneInv'
    BY <2>1 DEF IInv, AloneInv, Inserted, ShownCodesWork, Redeemable, Regenerating, codeVars,
                secretVars
  <2> QED
    BY <2>2, <2>3, <2>4, <2>5 DEF IInv
<1> QED
  BY <1>1, <1>2

\* The invariant always holds.
LEMMA SpecInv == Spec => []IInv
BY InitInv, StepInv, PTL DEF Spec

\* A phone number or an identity is verified only if its holder has redeemed a
\* challenge, for any number of users, numbers and requests (verifyChallenge).
THEOREM VerifiedIsRedeemed == Spec => []VerifiedByHolder
<1>1. IInv => VerifiedByHolder
  BY DEF IInv, HolderInv, Redeemers, VerifiedByHolder
<1> QED
  BY <1>1, SpecInv, PTL

\* A challenge or a recovery code is accepted a second time only if two requests
\* had both found it unused (verifyChallenge, verifyRecoveryCode).
THEOREM SecretAcceptedOnce == Spec => []SecretsWorkOnce
<1>1. IInv => SecretsWorkOnce
  BY DEF IInv, SecretInv, RaceInv
<1> QED
  BY <1>1, SpecInv, PTL

\* After a regeneration that met no other, the codes that work are those it
\* showed, less the used ones (regenerateRecoveryCodes).
THEOREM CodesShownWork == Spec => []ShownCodesWork
<1>1. IInv => ShownCodesWork
  BY DEF IInv, AloneInv
<1> QED
  BY <1>1, SpecInv, PTL

\* A device stays trusted until it is revoked or lapses, whatever other requests
\* and the clean-up do meanwhile (trust, revoke, cleanupExpired).
THEOREM DeviceStaysTrusted == Spec => []TrustHolds
<1>1. IInv => TrustHolds
  BY DEF IInv, DeviceInv
<1> QED
  BY <1>1, SpecInv, PTL
=============================================================================
