--------------------------- MODULE AccountsProofs ---------------------------
(***************************************************************************)
(* Proofs about Accounts: the copy of the permissions it runs with, the    *)
(* credentials that work once, and the sessions a reset ends.              *)
(*                                                                         *)
(* A request reads the roles, and writes the copy awaits later.  While no  *)
(* change has crossed it, what it is about to write is what was granted.   *)
(*                                                                         *)
(* A credential used by one request at a time is used before it is closed, *)
(* or closed before it is used: in between, only its request is at work on *)
(* it, and if that is cut short the credential is closed, or taken down.   *)
(*                                                                         *)
(* Between resets, who is about to get a session has shown the password    *)
(* that holds, or was at it when a reset ended; and a reset that ends      *)
(* closes every session, or notes those it leaves.                         *)
(***************************************************************************)
EXTENDS Accounts, TLAPS

-----------------------------------------------------------------------------
\* While nothing crossed it and no change is pending, what is about to be
\* written as the copy is current too.
CopyInv ==
    ~crossed /\ (\A r \in Requests : at[r] # "drop") =>
        /\ copy \in {NoCopy, granted}
        /\ \A r \in Requests : at[r] = "fill" => loaded[r] = granted

PermInv == PermTypeOK /\ CopyInv

\* Every step leaves the permissions alone or is one of theirs.
LEMMA StepsOfPermissions ==
    ASSUME Next
    PROVE  \/ UNCHANGED permVars
           \/ \E r \in Requests : \/ Hydrate(r) \/ PermStep(r) \/ Drop(r)
                                  \/ \E how \in {"assign", "remove"} : Change(r, how)
           \/ Grant(Customer) \/ ExpireCopy
<1> USE DEF permVars
<1>1. ASSUME NEW r \in Requests, NEW o \in Operations, NEW i \in 0..Len(credentials), Call(r, o, i)
      PROVE  UNCHANGED permVars
  BY <1>1 DEF Call
<1>2. ASSUME NEW r \in Requests, Read(r) PROVE UNCHANGED permVars
  BY <1>2 DEF Read, Find, Lookup, FindAccount, WrongSecret, Goto, Move
<1>3. ASSUME NEW r \in Requests, Write(r) PROVE UNCHANGED permVars \/ Grant(Customer)
  BY <1>3 DEF Write, CreateUser, CreateProfile, GrantCustomer, Insert, Revoke, RevokeOnly,
              SetPassword, MarkUsed, RevokeAll, RaiseAssurance, SetActive, Goto, Move
<1>4. ASSUME NEW r \in Requests, Abort(r) PROVE UNCHANGED permVars
  BY <1>4 DEF Abort
<1>5. ASSUME NEW i \in 1..Len(credentials), Expire(i) PROVE UNCHANGED permVars
  BY <1>5 DEF Expire
<1> HIDE DEF permVars
<1>6. ASSUME NEW r \in Requests, Authorize(r) PROVE Hydrate(r)
  BY <1>6 DEF Authorize
<1>7. ASSUME NEW r \in Requests, ChangeRoles(r)
      PROVE  \E how \in {"assign", "remove"} : Change(r, how)
  BY <1>7 DEF ChangeRoles
<1>8. ASSUME NEW r \in Requests, Permission(r) \/ AbortPermissions(r)
      PROVE  PermStep(r) \/ Drop(r)
  BY <1>8 DEF Permission, AbortPermissions
<1>9. CASE ForgetCopy
  BY <1>9 DEF ForgetCopy
<1>10. ASSUME NEW r \in Requests,
              \/ \E o \in Operations, i \in 0..Len(credentials) : Call(r, o, i)
              \/ Read(r) \/ Abort(r)
       PROVE  UNCHANGED permVars
  BY <1>1, <1>2, <1>4, <1>10
<1>11. \/ \E r \in Requests :
             \/ \E o \in Operations, i \in 0..Len(credentials) : Call(r, o, i)
             \/ Authorize(r) \/ ChangeRoles(r)
             \/ Read(r) \/ Write(r) \/ Permission(r)
             \/ Abort(r) \/ AbortPermissions(r)
       \/ \E i \in 1..Len(credentials) : Expire(i)
       \/ ForgetCopy
  BY DEF Next
<1>12. CASE \E i \in 1..Len(credentials) : Expire(i)
  BY <1>5, <1>12
<1>13. CASE \E r \in Requests : Authorize(r) \/ ChangeRoles(r) \/ Permission(r)
                                  \/ AbortPermissions(r)
  BY <1>6, <1>7, <1>8, <1>13
<1>14. CASE \E r \in Requests : Write(r)
  BY <1>3, <1>14
<1>15. CASE \E r \in Requests :
               \/ \E o \in Operations, i \in 0..Len(credentials) : Call(r, o, i)
               \/ Read(r) \/ Abort(r)
  BY <1>10, <1>15
<1> QED  BY <1>9, <1>11, <1>12, <1>13, <1>14, <1>15, Zenon

\* No copy and no request at the start.
LEMMA PermInitInv == Init => PermInv
<1> SUFFICES ASSUME PermInit PROVE PermTypeOK /\ CopyInv
  BY DEF Init, PermInv
<1>1. PermTypeOK
  BY DEF PermInit, PermTypeOK, Hydrating, Changing
<1>2. CopyInv
  BY DEF PermInit, CopyInv
<1> QED  BY <1>1, <1>2

\* Each step of the permissions keeps the invariant.
LEMMA PermInvKept ==
    ASSUME PermInv, Next
    PROVE  PermInv'
<1> USE DEF PermInv
<1>1. CASE UNCHANGED permVars
  BY <1>1 DEF permVars, PermTypeOK, CopyInv
<1>2. ASSUME NEW r \in Requests,
             Hydrate(r) \/ GetCopy(r) \/ \E how \in {"assign", "remove"} : Change(r, how)
      PROVE  PermInv'
  <2>1. PermTypeOK'
    BY <1>2 DEF Hydrate, GetCopy, Change, Pass, PermTypeOK, Hydrating, Changing
  <2>2. /\ UNCHANGED <<granted, copy, crossed>>
        /\ \A q \in Requests : /\ at'[q] = "drop" <=> at[q] = "drop"
                               /\ at'[q] = "fill" => at[q] = "fill" /\ loaded'[q] = loaded[q]
    BY <1>2 DEF Hydrate, GetCopy, Change, Pass, PermTypeOK
  <2> QED  BY <2>1, <2>2 DEF CopyInv
<1>3. ASSUME NEW r \in Requests, SelectRoles(r) PROVE PermInv'
  <2>1. PermTypeOK'
    BY <1>3 DEF SelectRoles, Pass, PermTypeOK, Hydrating, Changing
  <2>2. /\ UNCHANGED <<granted, copy, crossed>>
        /\ \A q \in Requests :
              /\ at'[q] = "drop" <=> at[q] = "drop"
              /\ at'[q] = "fill" => loaded'[q] = granted \/ (at[q] = "fill" /\ loaded'[q] = loaded[q])
    BY <1>3 DEF SelectRoles, Pass, PermTypeOK
  <2> QED  BY <2>1, <2>2 DEF CopyInv
<1>4. ASSUME NEW r \in Requests, FillCopy(r) PROVE PermInv'
  <2>1. PermTypeOK'
    BY <1>4 DEF FillCopy, Pass, PermTypeOK, Hydrating, Changing
  <2>2. /\ UNCHANGED <<granted, loaded, crossed>> /\ at[r] = "fill" /\ copy' = loaded[r]
        /\ \A q \in Requests : /\ at'[q] = "drop" <=> at[q] = "drop"
                               /\ at'[q] = "fill" => at[q] = "fill"
    BY <1>4 DEF FillCopy, Pass, PermTypeOK
  <2> QED  BY <2>1, <2>2 DEF CopyInv
<1>5. ASSUME NEW r \in Requests, NEW role \in Roles, AssignRole(r, role) \/ RemoveRole(r, role)
      PROVE  PermInv'
  <2>1. PermTypeOK'
    BY <1>5 DEF AssignRole, RemoveRole, Pass, PermTypeOK, Hydrating, Changing
  <2>2. at'[r] = "drop"
    BY <1>5 DEF AssignRole, RemoveRole, Pass, PermTypeOK
  <2> QED  BY <2>1, <2>2 DEF CopyInv
<1>6. ASSUME NEW r \in Requests, DropCopy(r) PROVE PermInv'
  <2>1. PermTypeOK'
    BY <1>6 DEF DropCopy, Pass, PermTypeOK, Hydrating, Changing, Filling
  <2>2. copy' = NoCopy /\ \A q \in Requests : at'[q] = "fill" => at[q] = "fill"
    BY <1>6 DEF DropCopy, Pass, PermTypeOK
  <2>3. crossed' = Filling
    BY <1>6 DEF DropCopy
  <2>4. ~crossed' => \A q \in Requests : at'[q] # "fill"
    BY <2>2, <2>3, Zenon DEF Filling
  <2> QED  BY <2>1, <2>2, <2>4 DEF CopyInv
<1>7. ASSUME NEW r \in Requests, Drop(r) PROVE PermInv'
  <2>1. PermTypeOK'
    BY <1>7 DEF Drop, PermTypeOK
  <2>2. /\ UNCHANGED <<granted, copy, loaded>>
        /\ \A q \in Requests : /\ at'[q] = "fill" => at[q] = "fill"
                               /\ q # r => at'[q] = at[q]
        /\ at'[r] = "away"
    BY <1>7 DEF Drop, PermTypeOK
  <2>3. crossed' = (crossed \/ at[r] = "drop")
    BY <1>7 DEF Drop
  <2>4. ~crossed' => ~crossed /\ at[r] # "drop"
    BY <2>3, Zenon
  <2>5. ASSUME ~crossed', \A q \in Requests : at'[q] # "drop"
        PROVE  ~crossed /\ \A q \in Requests : at[q] # "drop"
    BY <2>2, <2>4, <2>5
  <2> QED  BY <2>1, <2>2, <2>5 DEF CopyInv
<1>8. CASE Grant(Customer)
  <2>1. PermTypeOK'
    BY <1>8, AccountsAssumption DEF Grant, PermTypeOK, Filling
  <2>2. UNCHANGED <<copy, at, loaded>>
    BY <1>8 DEF Grant
  <2>3. crossed' = (crossed \/ copy # NoCopy \/ Filling)
    BY <1>8 DEF Grant
  <2>4. ~crossed' => copy = NoCopy /\ \A q \in Requests : at[q] # "fill"
    BY <2>3, Zenon DEF Filling
  <2> QED  BY <2>1, <2>2, <2>4 DEF CopyInv
<1>9. CASE ExpireCopy
  <2>1. PermTypeOK'
    BY <1>9 DEF ExpireCopy, PermTypeOK, Filling
  <2>2. UNCHANGED <<granted, at, loaded>> /\ copy' = NoCopy
    BY <1>9 DEF ExpireCopy
  <2>3. crossed' = (crossed /\ Filling)
    BY <1>9 DEF ExpireCopy
  <2>4. ~crossed' => ~crossed \/ \A q \in Requests : at[q] # "fill"
    BY <2>3, Zenon DEF Filling
  <2> QED  BY <2>1, <2>2, <2>4 DEF CopyInv
<1> QED  BY <1>1, <1>2, <1>3, <1>4, <1>5, <1>6, <1>7, <1>8, <1>9, StepsOfPermissions DEF PermStep

\* What a step leaves alone stays as it was.
LEMMA PermInvStutters == ASSUME PermInv, UNCHANGED vars PROVE PermInv'
BY DEF PermInv, PermTypeOK, CopyInv, vars, permVars

\* What a user is let do is what the roles grant: a copy of the permissions
\* in KV is the granted ones, unless a request that had read the rows crossed
\* a change, a change was cut short before it dropped the copy, or a
\* registration granted a role (hydratePermissions, assignRole, removeRole).
THEOREM PermissionCopyCurrent == Spec => []CopyIsCurrent
<1>1. PermInv => CopyIsCurrent
  BY DEF PermInv, CopyInv, CopyIsCurrent
<1> QED  BY <1>1, PermInitInv, PermInvKept, PermInvStutters, PTL DEF Spec
-----------------------------------------------------------------------------
(* The types, and which await belongs to which operation *)

AwaitsOf == [
    register |-> {"find", "create", "profile", "role", "insert"},
    login |-> {"find", "insert"},
    requestReset |-> {"find", "insert"},
    createInvite |-> {"insert"},
    createChallenge |-> {"insert"},
    refresh |-> {"lookup", "account", "revoke", "end", "insert"},
    logout |-> {"end"},
    confirmReset |-> {"lookup", "password", "mark", "revokeAll"},
    acceptInvite |-> {"lookup", "create", "profile", "mark", "insert"},
    complete |-> {"lookup", "mark", "effect"},
    disable |-> {"write"},
    enable |-> {"write"} ]

States == {"open", "expired", "used"}
Credential == [kind : Kinds, state : States, basis : Nat, uses : Nat]

\* A request is at an await of its operation, and has the credential it takes.
CallInv ==
    \A r \in Requests : pc[r] # "idle" =>
        /\ pc[r] \in AwaitsOf[op[r]]
        /\ op[r] \in DOMAIN Takes =>
             arg[r] \in DOMAIN credentials /\ credentials[arg[r]].kind = Takes[op[r]]
        /\ op[r] \notin DOMAIN Takes => arg[r] = 0

TypeInv == PermInv /\ TypeOK /\ CallInv

Takers == {"refresh", "logout", "confirmReset", "acceptInvite", "complete"}

LEMMA OperationsAre ==
    /\ DOMAIN Takes = Takers
    /\ DOMAIN Makes = {"register", "login", "refresh", "acceptInvite", "requestReset",
                       "createInvite", "createChallenge"}
    /\ Operations = DOMAIN AwaitsOf
    /\ \A o \in DOMAIN Makes : Makes[o] \in Kinds
    /\ \A o \in Operations : First(o) \in AwaitsOf[o] /\ AwaitsOf[o] \subseteq Steps
  BY DEF Takes, Makes, Takers, Operations, AwaitsOf, First, Kinds, Steps

LEMMA IssuingAre == Issuing = {"register", "login", "refresh", "acceptInvite"}
  BY DEF Issuing, Makes

\* What becomes of a credential: it keeps its kind and its basis.
Becomes(i, state, uses) ==
    /\ i \in DOMAIN credentials'
    /\ credentials'[i].kind = credentials[i].kind
    /\ credentials'[i].basis = credentials[i].basis
    /\ credentials'[i].state = state
    /\ credentials'[i].uses = uses

Keeps(i) == Becomes(i, credentials[i].state, credentials[i].uses)

Credentials == credentials \in Seq(Credential)

LEMMA Elements == ASSUME Credentials PROVE \A j \in DOMAIN credentials : credentials[j] \in Credential
  BY DEF Credentials

\* Replacing one element of a sequence.
LEMMA Edited ==
    ASSUME NEW S, NEW s \in Seq(S), NEW i \in DOMAIN s, NEW c \in S
    PROVE  LET t == [s EXCEPT ![i] = c] IN
           /\ t \in Seq(S) /\ DOMAIN t = DOMAIN s /\ Len(t) = Len(s)
           /\ t[i] = c
           /\ \A j \in DOMAIN s : j # i => t[j] = s[j]
  OBVIOUS

LEMMA UsedIs ==
    ASSUME Credentials, NEW i \in DOMAIN credentials, Used(i)
    PROVE  /\ Credentials' /\ DOMAIN credentials' = DOMAIN credentials
           /\ Becomes(i, credentials[i].state, credentials[i].uses + 1)
           /\ \A j \in DOMAIN credentials : j # i => Keeps(j)
<1>1. \A j \in DOMAIN credentials : credentials[j] \in Credential
  BY Elements
<1>2. credentials' = [credentials EXCEPT ![i] = [credentials[i] EXCEPT !.uses = @ + 1]]
  BY DEF Used
<1>3. [credentials[i] EXCEPT !.uses = @ + 1] \in Credential
  BY <1>1 DEF Credential
<1>4. /\ Credentials' /\ DOMAIN credentials' = DOMAIN credentials
      /\ \A j \in DOMAIN credentials : j # i => credentials'[j] = credentials[j]
      /\ credentials'[i] = [credentials[i] EXCEPT !.uses = @ + 1]
  BY <1>2, <1>3, Edited DEF Credentials
<1> QED  BY <1>1, <1>4 DEF Credential, Becomes, Keeps

LEMMA SpentIs ==
    ASSUME Credentials, NEW i \in DOMAIN credentials, Spent(i)
    PROVE  /\ Credentials' /\ DOMAIN credentials' = DOMAIN credentials
           /\ Becomes(i, "used", credentials[i].uses)
           /\ \A j \in DOMAIN credentials : j # i => Keeps(j)
<1>1. \A j \in DOMAIN credentials : credentials[j] \in Credential
  BY Elements
<1>2. credentials' = [credentials EXCEPT ![i] = [credentials[i] EXCEPT !.state = "used"]]
  BY DEF Spent
<1>3. [credentials[i] EXCEPT !.state = "used"] \in Credential
  BY <1>1 DEF Credential, States
<1>4. /\ Credentials' /\ DOMAIN credentials' = DOMAIN credentials
      /\ \A j \in DOMAIN credentials : j # i => credentials'[j] = credentials[j]
      /\ credentials'[i] = [credentials[i] EXCEPT !.state = "used"]
  BY <1>2, <1>3, Edited DEF Credentials
<1> QED  BY <1>1, <1>4 DEF Credential, Becomes, Keeps

LEMMA ExpireIs ==
    ASSUME Credentials, NEW i, Expire(i)
    PROVE  /\ Credentials' /\ DOMAIN credentials' = DOMAIN credentials
           /\ i \in DOMAIN credentials /\ credentials[i].state = "open"
           /\ Becomes(i, "expired", credentials[i].uses)
           /\ \A j \in DOMAIN credentials : j # i => Keeps(j)
<1>1. \A j \in DOMAIN credentials : credentials[j] \in Credential
  BY Elements
<1>2. /\ i \in DOMAIN credentials /\ credentials[i].state = "open"
      /\ credentials' = [credentials EXCEPT ![i] = [credentials[i] EXCEPT !.state = "expired"]]
  BY DEF Expire
<1>3. [credentials[i] EXCEPT !.state = "expired"] \in Credential
  BY <1>1, <1>2 DEF Credential, States
<1>4. /\ Credentials' /\ DOMAIN credentials' = DOMAIN credentials
      /\ \A j \in DOMAIN credentials : j # i => credentials'[j] = credentials[j]
      /\ credentials'[i] = [credentials[i] EXCEPT !.state = "expired"]
  BY <1>2, <1>3, Edited DEF Credentials
<1> QED  BY <1>1, <1>2, <1>4 DEF Credential, Becomes, Keeps

\* All sessions are revoked.
LEMMA RevokeAllIs ==
    ASSUME Credentials, NEW r, RevokeAll(r)
    PROVE  /\ Credentials' /\ DOMAIN credentials' = DOMAIN credentials
           /\ \A j \in DOMAIN credentials :
                IF credentials[j].kind = "session"
                THEN Becomes(j, "used", credentials[j].uses) ELSE Keeps(j)
<1>1. \A j \in DOMAIN credentials : credentials[j] \in Credential
  BY Elements
<1> DEFINE next(j) == IF credentials[j].kind = "session"
                      THEN [credentials[j] EXCEPT !.state = "used"] ELSE credentials[j]
<1>2. credentials' = [j \in DOMAIN credentials |-> next(j)]
  BY DEF RevokeAll, OfKind
<1>3. \A j \in DOMAIN credentials : next(j) \in Credential
  BY <1>1 DEF Credential, States
<1>4. Credentials'
  <2>1. DOMAIN credentials = 1..Len(credentials) /\ Len(credentials) \in Nat
    BY DEF Credentials
  <2> HIDE DEF next
  <2> QED  BY <1>2, <1>3, <2>1 DEF Credentials
<1>5. DOMAIN credentials' = DOMAIN credentials
  BY <1>2
<1>6. \A j \in DOMAIN credentials : credentials'[j] = next(j)
  BY <1>2
<1>7. ASSUME NEW j \in DOMAIN credentials
      PROVE  IF credentials[j].kind = "session"
             THEN Becomes(j, "used", credentials[j].uses) ELSE Keeps(j)
  <2>1. credentials[j] \in Credential
    BY <1>1
  <2>2. CASE credentials[j].kind = "session"
    BY <1>5, <1>6, <2>1, <2>2 DEF Credential, Becomes
  <2>3. CASE credentials[j].kind # "session"
    BY <1>5, <1>6, <2>1, <2>3 DEF Keeps, Becomes
  <2> QED  BY <2>2, <2>3
<1> QED  BY <1>4, <1>5, <1>7

\* One is created, and if it is a session's successor that session has been used.
LEMMA InsertIs ==
    ASSUME TypeInv, NEW r \in Requests, Insert(r)
    PROVE  LET n == Len(credentials) + 1 IN
           /\ Credentials' /\ DOMAIN credentials' = DOMAIN credentials \cup {n}
           /\ n \notin DOMAIN credentials
           /\ credentials'[n].kind = Makes[op[r]] /\ credentials'[n].state = "open"
           /\ credentials'[n].basis = proved[r] /\ credentials'[n].uses = 0
           /\ \A j \in DOMAIN credentials :
                IF op[r] = "refresh" /\ j = arg[r]
                THEN Becomes(j, credentials[j].state, credentials[j].uses + 1) ELSE Keeps(j)
<1> DEFINE c == [kind |-> Makes[op[r]], state |-> "open", basis |-> proved[r], uses |-> 0]
           spent == IF op[r] = "refresh" THEN [credentials EXCEPT ![arg[r]].uses = @ + 1]
                                         ELSE credentials
<1>1. credentials' = Append(spent, c)
  BY DEF Insert
<1>2. /\ Credentials /\ \A j \in DOMAIN credentials : credentials[j] \in Credential
      /\ op[r] \in Operations /\ proved[r] \in Nat
  <2>1. Credentials
    BY DEF TypeInv, TypeOK, Credentials, Credential, States
  <2> QED  BY <2>1, Elements DEF TypeInv, TypeOK
<1>3. op[r] \in DOMAIN Makes
  <2>1. "insert" \in AwaitsOf[op[r]]
    BY DEF TypeInv, CallInv, Insert, Goto, Move
  <2>2. op[r] \in DOMAIN AwaitsOf
    BY <1>2, OperationsAre
  <2> QED  BY <2>1, <2>2, OperationsAre DEF AwaitsOf
<1>4. c \in Credential
  BY <1>2, <1>3, OperationsAre DEF Credential, States
<1>5. op[r] = "refresh" => arg[r] \in DOMAIN credentials
  BY OperationsAre DEF TypeInv, CallInv, Insert, Goto, Move, Takers
<1>6. /\ spent \in Seq(Credential) /\ DOMAIN spent = DOMAIN credentials
      /\ Len(spent) = Len(credentials)
      /\ \A j \in DOMAIN credentials :
           /\ spent[j].kind = credentials[j].kind /\ spent[j].basis = credentials[j].basis
           /\ spent[j].state = credentials[j].state
           /\ spent[j].uses = IF op[r] = "refresh" /\ j = arg[r]
                              THEN credentials[j].uses + 1 ELSE credentials[j].uses
  <2>1. CASE op[r] = "refresh"
    <3>1. spent = [credentials EXCEPT ![arg[r]] = [credentials[arg[r]] EXCEPT !.uses = @ + 1]]
      BY <2>1
    <3>2. [credentials[arg[r]] EXCEPT !.uses = @ + 1] \in Credential
      BY <1>2, <1>5, <2>1 DEF Credential
    <3>3. /\ spent \in Seq(Credential) /\ DOMAIN spent = DOMAIN credentials
          /\ Len(spent) = Len(credentials)
          /\ spent[arg[r]] = [credentials[arg[r]] EXCEPT !.uses = @ + 1]
          /\ \A j \in DOMAIN credentials : j # arg[r] => spent[j] = credentials[j]
      <4> HIDE DEF spent
      <4> QED  BY <1>2, <1>5, <2>1, <3>1, <3>2, Edited DEF Credentials
    <3> HIDE DEF spent
    <3> QED  BY <1>2, <1>5, <2>1, <3>3 DEF Credential
  <2>2. CASE op[r] # "refresh"
    BY <1>2, <2>2 DEF Credentials
  <2> QED  BY <2>1, <2>2
<1> HIDE DEF c, spent
<1>7. /\ Credentials' /\ DOMAIN credentials' = DOMAIN credentials \cup {Len(credentials) + 1}
      /\ Len(credentials) + 1 \notin DOMAIN credentials
      /\ credentials'[Len(credentials) + 1] = c
      /\ \A j \in DOMAIN credentials : credentials'[j] = spent[j]
  BY <1>1, <1>2, <1>4, <1>6 DEF Credentials
<1> QED  BY <1>6, <1>7 DEF c, Becomes, Keeps

-----------------------------------------------------------------------------
(* The types hold, and each await belongs to its operation *)

\* Credentials are added and changed, none gets another kind.
Grown ==
    /\ Credentials'
    /\ \A j \in DOMAIN credentials :
         j \in DOMAIN credentials' /\ credentials'[j].kind = credentials[j].kind

LEMMA CredentialsTyped ==
    ASSUME TypeInv
    PROVE  Credentials /\ (UNCHANGED credentials => Grown)
  BY DEF TypeInv, TypeOK, Credentials, Credential, States, Grown

\* A request goes on to another await, or has ended.
Moves(r, to) ==
    /\ pc[r] # "idle"
    /\ pc' = [pc EXCEPT ![r] = to]
    /\ UNCHANGED <<op, arg, overlapped>>

LEMMA MoveTypes ==
    ASSUME TypeInv, PermInv', Grown, NEW r \in Requests,
           NEW to \in AwaitsOf[op[r]] \cup {"idle"}, Moves(r, to),
           cut' \subseteq Nat, behind' \subseteq Requests, escaped' \subseteq Nat,
           calls' \in 0..MaxCalls, faults' \in 0..MaxFaults,
           proved' \in [Requests -> Nat],
           user' \in {"absent", "active", "disabled"}, password' \in Nat, profile' \in BOOLEAN
    PROVE  TypeInv'
<1> USE DEF Moves
<1>1. op[r] \in Operations
  BY DEF TypeInv, TypeOK
<1>2. to \in Steps \cup {"idle"}
  BY <1>1, OperationsAre
<1>3. TypeOK'
  <2>1. pc' \in [Requests -> Steps \cup {"idle"}]
    BY <1>2 DEF TypeInv, TypeOK
  <2>2. credentials' \in Seq([kind : Kinds, state : {"open", "expired", "used"},
                              basis : Nat, uses : Nat])
    BY DEF Grown, Credentials, Credential, States
  <2> QED  BY <2>1, <2>2 DEF TypeInv, TypeOK, PermInv
<1>4. ASSUME NEW q \in Requests, pc'[q] # "idle"
      PROVE  /\ pc'[q] \in AwaitsOf[op'[q]]
             /\ op'[q] \in DOMAIN Takes =>
                  arg'[q] \in DOMAIN credentials' /\ credentials'[arg'[q]].kind = Takes[op'[q]]
             /\ op'[q] \notin DOMAIN Takes => arg'[q] = 0
  <2>1. pc[q] # "idle" /\ pc'[q] \in AwaitsOf[op[q]]
    BY <1>4 DEF TypeInv, TypeOK, CallInv
  <2> QED  BY <2>1 DEF TypeInv, CallInv, Grown
<1> QED  BY <1>3, <1>4 DEF TypeInv, CallInv

\* A step in which the requests stand still.
LEMMA StillTypes ==
    ASSUME TypeInv, PermInv', Grown, UNCHANGED <<user, password, profile, requestVars, histVars>>,
           calls' \in 0..MaxCalls, faults' \in 0..MaxFaults
    PROVE  TypeInv'
<1> USE DEF requestVars, histVars
<1>1. credentials' \in Seq([kind : Kinds, state : {"open", "expired", "used"},
                            basis : Nat, uses : Nat])
  BY DEF Grown, Credentials, Credential, States
<1>2. TypeOK'
  BY <1>1 DEF TypeInv, TypeOK, PermInv
<1>3. CallInv'
  BY DEF TypeInv, CallInv, Grown
<1> QED  BY <1>2, <1>3 DEF TypeInv

\* A call comes in.
LEMMA CallTypes ==
    ASSUME TypeInv, PermInv', NEW r \in Requests, NEW o \in Operations,
           NEW i \in 0..Len(credentials), Call(r, o, i)
    PROVE  TypeInv'
<1> USE DEF rowVars
<1>1. First(o) \in AwaitsOf[o] /\ AwaitsOf[o] \subseteq Steps
  BY OperationsAre
<1>2. /\ pc' = [pc EXCEPT ![r] = First(o)] /\ op' = [op EXCEPT ![r] = o]
      /\ arg' = [arg EXCEPT ![r] = i] /\ UNCHANGED <<rowVars, proved, escaped, cut, faults>>
      /\ calls' = calls + 1 /\ calls < MaxCalls
  BY DEF Call
<1>3. i \in Nat
  BY DEF TypeInv, TypeOK
<1>4. /\ o \in DOMAIN Takes => i \in DOMAIN credentials /\ credentials[i].kind = Takes[o]
      /\ o \notin DOMAIN Takes => i = 0
  BY DEF Call, OfKind
<1>5. overlapped' \subseteq Nat /\ behind' \subseteq Requests
  <2>1. overlapped' = overlapped \cup {i} \/ overlapped' = overlapped
    BY DEF Call
  <2>2. behind' = behind \ {r}
    BY DEF Call
  <2> QED  BY <1>3, <2>1, <2>2 DEF TypeInv, TypeOK
<1>6. pc' \in [Requests -> Steps \cup {"idle"}] /\ calls' \in 0..MaxCalls
  BY <1>1, <1>2, AccountsAssumption DEF TypeInv, TypeOK
<1>7. TypeOK'
  BY <1>2, <1>3, <1>5, <1>6 DEF TypeInv, TypeOK, PermInv
<1>8. CallInv'
  BY <1>1, <1>2, <1>4 DEF TypeInv, TypeOK, CallInv
<1> QED  BY <1>7, <1>8 DEF TypeInv

\* Where a request that goes on may go.
LEMMA PlacesAre ==
    ASSUME TypeInv, NEW r \in Requests, pc[r] # "idle"
    PROVE  /\ op[r] \in Operations
           /\ pc[r] \in AwaitsOf[op[r]]
           /\ pc[r] \in {"revoke", "end", "password", "revokeAll", "effect", "account"}
                => op[r] \in DOMAIN Takes
           /\ pc[r] = "mark" => op[r] \in {"confirmReset", "acceptInvite", "complete"}
           /\ pc[r] = "find" => op[r] \in {"register", "login", "requestReset"}
           /\ pc[r] = "lookup" => op[r] \in {"refresh", "confirmReset", "acceptInvite", "complete"}
           /\ pc[r] \in {"create", "profile"} => op[r] \in {"register", "acceptInvite"}
           /\ pc[r] \in {"account", "revoke"} => op[r] = "refresh"
           /\ pc[r] \in {"password", "revokeAll"} => op[r] = "confirmReset"
           /\ pc[r] = "end" => op[r] \in {"refresh", "logout"}
           /\ pc[r] = "role" => op[r] = "register"
           /\ pc[r] = "effect" => op[r] = "complete"
           /\ pc[r] = "insert" => op[r] \in DOMAIN Makes
           /\ op[r] \in Takers => arg[r] \in DOMAIN credentials
                                  /\ credentials[arg[r]].kind = Takes[op[r]]
           /\ op[r] \notin Takers => arg[r] = 0
<1>1. op[r] \in Operations /\ pc[r] \in AwaitsOf[op[r]]
  BY DEF TypeInv, TypeOK, CallInv
<1>2. op[r] \in DOMAIN AwaitsOf
  BY <1>1, OperationsAre
<1>3. /\ op[r] \in Takers => arg[r] \in DOMAIN credentials
                             /\ credentials[arg[r]].kind = Takes[op[r]]
      /\ op[r] \notin Takers => arg[r] = 0
  BY OperationsAre DEF TypeInv, CallInv
<1> QED  BY <1>1, <1>2, <1>3, OperationsAre DEF AwaitsOf, Takers

\* What a reset leaves behind are requests and sessions.
LEMMA HistoryTypes ==
    ASSUME TypeInv, NEW r \in Requests, Read(r) \/ Write(r) \/ Abort(r)
    PROVE  behind' \subseteq Requests /\ escaped' \subseteq Nat
<1>1. behind \subseteq Requests /\ escaped \subseteq Nat /\ Busy(Issuing) \subseteq Requests
  BY DEF TypeInv, TypeOK, Busy
<1>2. Live \subseteq Nat /\ Len(credentials) + 1 \in Nat
  BY CredentialsTyped DEF Live, OfKind, Credentials
<1>3. /\ behind' = behind \/ behind' = behind \cup Busy(Issuing)
      /\ \/ escaped' = escaped \/ escaped' = escaped \cup Live
         \/ escaped' = escaped \cup {Len(credentials) + 1}
  <2>1. CASE Read(r)
    BY <2>1 DEF Read, Find, Lookup, FindAccount, WrongSecret, Goto
  <2>2. CASE Write(r)
    BY <2>2 DEF Write, CreateUser, CreateProfile, GrantCustomer, Insert, Revoke, RevokeOnly,
                SetPassword, MarkUsed, RevokeAll, RaiseAssurance, SetActive, Goto, histVars
  <2>3. CASE Abort(r)
    BY <2>3 DEF Abort
  <2> QED  BY <2>1, <2>2, <2>3
<1> QED  BY <1>1, <1>2, <1>3

LEMMA ReadTypes ==
    ASSUME TypeInv, PermInv', NEW r \in Requests, Read(r)
    PROVE  TypeInv'
<1> USE DEF rowVars, histVars, countVars, Goto, Move, Moves
<1>1. Credentials /\ \A j \in DOMAIN credentials : credentials[j] \in Credential
  BY CredentialsTyped, Elements
<1>2. TypeOK /\ (UNCHANGED credentials => Grown)
  BY CredentialsTyped DEF TypeInv
<1>3. CASE Find(r)
  <2>1. pc[r] = "find"
    BY <1>3 DEF Find
  <2>2. op[r] \in {"register", "login", "requestReset"}
    BY <2>1, PlacesAre
  <2>3. proved' \in [Requests -> Nat] /\ UNCHANGED credentials
    BY <1>2, <1>3 DEF Find, TypeOK
  <2>4. PICK to \in AwaitsOf[op[r]] \cup {"idle"} : Moves(r, to)
    <3> DEFINE to == IF ~Served(op[r]) THEN "idle"
                     ELSE IF op[r] = "register" THEN "create" ELSE "insert"
    <3>1. to \in AwaitsOf[op[r]] \cup {"idle"}
      BY <2>2 DEF AwaitsOf
    <3>2. Moves(r, to)
      BY <1>3, <2>1 DEF Find
    <3> QED  BY <3>1, <3>2
  <2> QED  BY <1>2, <1>3, <2>3, <2>4, HistoryTypes, MoveTypes DEF Find, TypeOK
<1>4. CASE Lookup(r)
  <2>1. pc[r] = "lookup"
    BY <1>4 DEF Lookup
  <2>2. op[r] \in {"refresh", "confirmReset", "acceptInvite", "complete"}
        /\ arg[r] \in DOMAIN credentials
    BY <2>1, PlacesAre DEF Takers
  <2>3. proved' \in [Requests -> Nat] /\ UNCHANGED credentials
    BY <1>1, <1>2, <1>4, <2>2 DEF Lookup, TypeOK, Credential
  <2>4. PICK to \in AwaitsOf[op[r]] \cup {"idle"} : Moves(r, to)
    <3> DEFINE to == CASE Good(r) /\ op[r] = "refresh" -> "account"
              [] Good(r) /\ op[r] = "confirmReset" -> "password"
              [] Good(r) /\ op[r] = "acceptInvite" -> "create"
              [] Good(r) /\ op[r] = "complete" -> "mark"
              [] ~Good(r) /\ op[r] = "refresh" /\ credentials[arg[r]].state = "expired" -> "end"
              [] OTHER -> "idle"
    <3>1. to \in AwaitsOf[op[r]] \cup {"idle"}
      BY <2>2 DEF AwaitsOf
    <3>2. Moves(r, to)
      BY <1>4, <2>1 DEF Lookup
    <3> QED  BY <3>1, <3>2
  <2> QED  BY <1>2, <1>4, <2>3, <2>4, HistoryTypes, MoveTypes DEF Lookup, TypeOK
<1>5. CASE FindAccount(r)
  <2>1. op[r] = "refresh" /\ pc[r] = "account"
    BY <1>5, PlacesAre DEF FindAccount
  <2>2. PICK to \in AwaitsOf[op[r]] \cup {"idle"} : Moves(r, to)
    <3> DEFINE to == IF user = "active" THEN "revoke" ELSE "idle"
    <3>1. to \in AwaitsOf[op[r]] \cup {"idle"}
      BY <2>1 DEF AwaitsOf
    <3>2. Moves(r, to)
      BY <1>5, <2>1 DEF FindAccount
    <3> QED  BY <3>1, <3>2
  <2> QED  BY <1>2, <1>5, <2>2, HistoryTypes, MoveTypes DEF FindAccount, TypeOK
<1>6. CASE WrongSecret(r)
  <2>1. Moves(r, "idle")
    BY <1>6 DEF WrongSecret
  <2> QED  BY <1>2, <1>6, <2>1, HistoryTypes, MoveTypes DEF WrongSecret, TypeOK
<1> QED  BY <1>3, <1>4, <1>5, <1>6 DEF Read

LEMMA WriteTypes ==
    ASSUME TypeInv, PermInv', NEW r \in Requests, Write(r)
    PROVE  TypeInv'
<1> USE DEF rowVars, histVars, countVars, Goto, Move, Moves
<1>1. Credentials /\ \A j \in DOMAIN credentials : credentials[j] \in Credential
  BY CredentialsTyped, Elements
<1>2. TypeOK /\ (UNCHANGED credentials => Grown)
  BY CredentialsTyped DEF TypeInv
<1>3. CASE CreateUser(r)
  <2> DEFINE to == IF user = "absent" THEN "profile" ELSE "idle"
  <2>1. op[r] \in {"register", "acceptInvite"} /\ pc[r] = "create"
        /\ (arg[r] # 0 => arg[r] \in DOMAIN credentials)
    BY <1>3, PlacesAre DEF CreateUser, Takers
  <2>2. to \in AwaitsOf[op[r]] \cup {"idle"}
    BY <2>1 DEF AwaitsOf
  <2>3. Moves(r, to)
    BY <1>3, <2>1 DEF CreateUser
  <2>4. proved' \in [Requests -> Nat] /\ password' \in Nat
        /\ user' \in {"absent", "active", "disabled"}
    BY <1>2, <1>3 DEF CreateUser, TypeOK
  <2>5. Grown
    BY <1>1, <1>2, <1>3, <2>1, UsedIs DEF CreateUser, Grown, Becomes, Keeps
  <2> HIDE DEF to
  <2> QED  BY <1>2, <1>3, <2>2, <2>3, <2>4, <2>5, HistoryTypes, MoveTypes DEF CreateUser, TypeOK
<1>4. CASE CreateProfile(r)
  <2> DEFINE to == IF op[r] = "register" THEN "role" ELSE "mark"
  <2>1. op[r] \in {"register", "acceptInvite"} /\ pc[r] = "profile"
    BY <1>4, PlacesAre DEF CreateProfile
  <2>2. to \in AwaitsOf[op[r]] \cup {"idle"}
    BY <2>1 DEF AwaitsOf
  <2>3. Moves(r, to)
    BY <1>4, <2>1 DEF CreateProfile
  <2> HIDE DEF to
  <2> QED  BY <1>2, <1>4, <2>2, <2>3, HistoryTypes, MoveTypes DEF CreateProfile, TypeOK
<1>5. CASE GrantCustomer(r)
  <2>1. op[r] = "register" /\ pc[r] = "role"
    BY <1>5, PlacesAre DEF GrantCustomer
  <2>2. "insert" \in AwaitsOf[op[r]] \cup {"idle"} /\ Moves(r, "insert")
    BY <1>5, <2>1 DEF AwaitsOf, GrantCustomer
  <2> QED  BY <1>2, <1>5, <2>2, HistoryTypes, MoveTypes DEF GrantCustomer, TypeOK
<1>6. CASE Insert(r)
  <2>1. Moves(r, "idle")
    BY <1>6 DEF Insert
  <2>2. Grown
    BY <1>6, InsertIs DEF Grown, Becomes, Keeps
  <2> QED  BY <1>2, <1>6, <2>1, <2>2, HistoryTypes, MoveTypes DEF Insert, TypeOK
<1>7. CASE Revoke(r)
  <2>1. op[r] = "refresh" /\ pc[r] = "revoke" /\ arg[r] \in DOMAIN credentials
    BY <1>7, PlacesAre DEF Revoke, Takers
  <2>2. "insert" \in AwaitsOf[op[r]] \cup {"idle"} /\ Moves(r, "insert")
    BY <1>7, <2>1 DEF AwaitsOf, Revoke
  <2>3. Grown
    BY <1>1, <1>7, <2>1, SpentIs DEF Revoke, Grown, Becomes, Keeps
  <2> QED  BY <1>2, <1>7, <2>2, <2>3, HistoryTypes, MoveTypes DEF Revoke, TypeOK
<1>8. CASE RevokeOnly(r)
  <2>1. arg[r] \in DOMAIN credentials /\ Moves(r, "idle")
    BY <1>8, PlacesAre DEF RevokeOnly, Takers
  <2>2. Grown
    BY <1>1, <1>8, <2>1, SpentIs DEF RevokeOnly, Grown, Becomes, Keeps
  <2> QED  BY <1>2, <1>8, <2>1, <2>2, HistoryTypes, MoveTypes DEF RevokeOnly, TypeOK
<1>9. CASE SetPassword(r)
  <2>1. op[r] = "confirmReset" /\ pc[r] = "password" /\ arg[r] \in DOMAIN credentials
    BY <1>9, PlacesAre DEF SetPassword, Takers
  <2>2. "mark" \in AwaitsOf[op[r]] \cup {"idle"} /\ Moves(r, "mark")
    BY <1>9, <2>1 DEF AwaitsOf, SetPassword
  <2>3. Grown
    BY <1>1, <1>9, <2>1, UsedIs DEF SetPassword, Grown, Becomes, Keeps
  <2>4. password' \in Nat
    BY <1>2, <1>9 DEF SetPassword, TypeOK
  <2> QED  BY <1>2, <1>9, <2>2, <2>3, <2>4, HistoryTypes, MoveTypes DEF SetPassword, TypeOK
<1>10. CASE MarkUsed(r)
  <2> DEFINE to == CASE op[r] = "confirmReset" -> "revokeAll"
                     [] op[r] = "acceptInvite" -> "insert"
                     [] OTHER -> "effect"
  <2>1. op[r] \in {"confirmReset", "acceptInvite", "complete"} /\ pc[r] = "mark"
        /\ arg[r] \in DOMAIN credentials
    BY <1>10, PlacesAre DEF MarkUsed, Takers
  <2>2. to \in AwaitsOf[op[r]] \cup {"idle"}
    BY <2>1 DEF AwaitsOf
  <2>3. Moves(r, to)
    BY <1>10, <2>1 DEF MarkUsed
  <2>4. Grown
    BY <1>1, <1>10, <2>1, SpentIs DEF MarkUsed, Grown, Becomes, Keeps
  <2> HIDE DEF to
  <2> QED  BY <1>2, <1>10, <2>2, <2>3, <2>4, HistoryTypes, MoveTypes DEF MarkUsed, TypeOK
<1>11. CASE RevokeAll(r)
  <2>1. Moves(r, "idle")
    BY <1>11 DEF RevokeAll
  <2>2. Grown
    BY <1>1, <1>11, RevokeAllIs DEF Grown, Becomes, Keeps
  <2> QED  BY <1>2, <1>11, <2>1, <2>2, HistoryTypes, MoveTypes DEF RevokeAll, TypeOK
<1>12. CASE RaiseAssurance(r)
  <2>1. arg[r] \in DOMAIN credentials /\ Moves(r, "idle")
    BY <1>12, PlacesAre DEF RaiseAssurance, Takers
  <2>2. Grown
    BY <1>1, <1>12, <2>1, UsedIs DEF RaiseAssurance, Grown, Becomes, Keeps
  <2> QED  BY <1>2, <1>12, <2>1, <2>2, HistoryTypes, MoveTypes DEF RaiseAssurance, TypeOK
<1>13. CASE SetActive(r)
  <2>1. Moves(r, "idle") /\ user' \in {"absent", "active", "disabled"}
    BY <1>13 DEF SetActive
  <2> QED  BY <1>2, <1>13, <2>1, HistoryTypes, MoveTypes DEF SetActive, TypeOK
<1> QED  BY <1>3, <1>4, <1>5, <1>6, <1>7, <1>8, <1>9, <1>10, <1>11, <1>12, <1>13 DEF Write

LEMMA AbortTypes ==
    ASSUME TypeInv, PermInv', NEW r \in Requests, Abort(r)
    PROVE  TypeInv'
<1>1. TypeOK /\ Grown
  BY CredentialsTyped DEF TypeInv, Abort, rowVars
<1>2. Moves(r, "idle")
  BY DEF Abort, Moves
<1>3. cut' \subseteq Nat /\ faults' \in 0..MaxFaults
  <2>1. arg[r] \in Nat /\ cut \subseteq Nat /\ faults \in 0..MaxFaults
    BY <1>1 DEF TypeOK
  <2>2. cut' \in {cut, cut \cup {arg[r]}} /\ faults < MaxFaults /\ faults' = faults + 1
    BY DEF Abort, Fault
  <2> QED  BY <2>1, <2>2, AccountsAssumption
<1>4. UNCHANGED <<user, password, profile, proved, calls>>
  BY DEF Abort, rowVars
<1>5. /\ proved' \in [Requests -> Nat] /\ password' \in Nat /\ profile' \in BOOLEAN
      /\ user' \in {"absent", "active", "disabled"} /\ calls' \in 0..MaxCalls
  BY <1>1, <1>4 DEF TypeOK
<1>6. "idle" \in AwaitsOf[op[r]] \cup {"idle"}
  OBVIOUS
<1> QED  BY <1>1, <1>2, <1>3, <1>5, <1>6, HistoryTypes, MoveTypes

\* Steps that leave the account and its requests alone.
Aside(r) == Authorize(r) \/ ChangeRoles(r) \/ Permission(r) \/ AbortPermissions(r)

LEMMA AsideIs ==
    ASSUME TypeInv, NEW r \in Requests, Aside(r)
    PROVE  /\ UNCHANGED <<rowVars, requestVars, histVars>>
           /\ calls' \in 0..MaxCalls /\ faults' \in 0..MaxFaults
<1>1. calls \in 0..MaxCalls /\ faults \in 0..MaxFaults
  BY DEF TypeInv, TypeOK
<1> QED
  BY <1>1, AccountsAssumption DEF Aside, Authorize, ChangeRoles, Permission, AbortPermissions,
                                  Fault, countVars

\* Every step is one of these.
LEMMA StepsAre ==
    ASSUME Next
    PROVE  \/ \E r \in Requests : \E o \in Operations, i \in 0..Len(credentials) : Call(r, o, i)
           \/ \E r \in Requests : Read(r)
           \/ \E r \in Requests : Write(r)
           \/ \E r \in Requests : Abort(r)
           \/ \E r \in Requests : Aside(r)
           \/ \E i \in 1..Len(credentials) : Expire(i)
           \/ ForgetCopy
  BY Zenon DEF Next, Aside

LEMMA TypesKept ==
    ASSUME TypeInv, [Next]_vars
    PROVE  TypeInv'
<1>1. PermInv'
  BY PermInvKept, PermInvStutters DEF TypeInv
<1>2. TypeOK /\ Credentials /\ (UNCHANGED credentials => Grown)
  BY CredentialsTyped DEF TypeInv
<1>3. ASSUME NEW r \in Requests, NEW o \in Operations, NEW i \in 0..Len(credentials), Call(r, o, i)
      PROVE  TypeInv'
  BY <1>1, <1>3, CallTypes
<1>4. ASSUME NEW r \in Requests, Read(r) \/ Write(r) \/ Abort(r) PROVE TypeInv'
  BY <1>1, <1>4, ReadTypes, WriteTypes, AbortTypes
<1>5. ASSUME NEW r \in Requests, Aside(r) PROVE TypeInv'
  <2>1. UNCHANGED <<rowVars, requestVars, histVars>>
        /\ calls' \in 0..MaxCalls /\ faults' \in 0..MaxFaults
    BY <1>5, AsideIs
  <2> QED  BY <1>1, <1>2, <2>1, StillTypes DEF rowVars
<1>6. ASSUME NEW i \in 1..Len(credentials), Expire(i) PROVE TypeInv'
  <2>1. Grown
    BY <1>2, <1>6, ExpireIs DEF Grown, Becomes, Keeps
  <2> QED  BY <1>1, <1>2, <1>6, <2>1, StillTypes DEF Expire, countVars, TypeOK
<1>7. CASE ForgetCopy
  BY <1>1, <1>2, <1>7, StillTypes DEF ForgetCopy, rowVars, countVars, TypeOK
<1>8. CASE UNCHANGED vars
  <2>1. UNCHANGED <<rowVars, requestVars, histVars, countVars>>
    BY <1>8 DEF vars
  <2> QED  BY <1>1, <1>2, <2>1, StillTypes DEF rowVars, countVars, TypeOK
<1> QED  BY <1>3, <1>4, <1>5, <1>6, <1>7, <1>8, StepsAre

LEMMA TypesInit == Init => TypeInv
<1> SUFFICES ASSUME Init PROVE TypeInv
  OBVIOUS
<1>1. PermInv
  BY PermInitInv
<1>2. TypeOK
  <2>1. "login" \in Operations
    BY OperationsAre DEF AwaitsOf
  <2>2. credentials \in Seq([kind : Kinds, state : {"open", "expired", "used"},
                             basis : Nat, uses : Nat])
    BY DEF Init
  <2>3. /\ pc \in [Requests -> Steps \cup {"idle"}] /\ op \in [Requests -> Operations]
        /\ arg \in [Requests -> Nat] /\ proved \in [Requests -> Nat]
    BY <2>1 DEF Init
  <2>4. /\ user \in {"absent", "active", "disabled"} /\ password \in Nat /\ profile \in BOOLEAN
    BY DEF Init
  <2>5. /\ overlapped \subseteq Nat /\ cut \subseteq Nat
        /\ behind \subseteq Requests /\ escaped \subseteq Nat
        /\ calls \in 0..MaxCalls /\ faults \in 0..MaxFaults
    BY AccountsAssumption DEF Init
  <2> QED  BY <1>1, <2>2, <2>3, <2>4, <2>5 DEF TypeOK, PermInv
<1>3. CallInv
  BY DEF Init, CallInv
<1> QED  BY <1>1, <1>2, <1>3 DEF TypeInv

-----------------------------------------------------------------------------
(* A credential works once *)

At(r, o, where, i) == op[r] = o /\ pc[r] \in where /\ arg[r] = i

\* What a request is about to do with the credential has not been done.
Unspent(r, i) ==
    \/ At(r, "refresh", {"account", "revoke", "insert"}, i)
    \/ At(r, "confirmReset", {"password"}, i)
    \/ At(r, "complete", {"mark", "effect"}, i)

\* A request that has revoked the session, or marked the challenge used.
Closed(r, i) == At(r, "refresh", {"insert"}, i) \/ At(r, "complete", {"effect"}, i)

\* A reset that set the password and is not yet marked used.
Marking(i) == \E r \in Requests : At(r, "confirmReset", {"mark"}, i)

\* No two requests do the same with the credential at once.
Apart(i) == \A q, r \in Requests :
    pc[q] # "idle" /\ pc[r] # "idle" /\ op[q] = op[r] /\ arg[q] = i /\ arg[r] = i => q = r

\* The credential was used at most once, and while it is open, not at all.
Sound(i) ==
    /\ credentials[i].uses <= 1
    /\ credentials[i].state = "open" => credentials[i].uses = 0 \/ Marking(i)
    /\ \A r \in Requests : /\ Unspent(r, i) => credentials[i].uses = 0
                           /\ Closed(r, i) => credentials[i].state # "open"

Exempt(i) ==
    \/ credentials[i].kind = "invite"
    \/ credentials[i].kind = "reset" /\ i \in cut

\* An invite makes the account that all later ones find.
InviteOnce(i) ==
    credentials[i].kind = "invite" =>
        credentials[i].uses = 0 \/ (credentials[i].uses = 1 /\ user # "absent")

Once(i) ==
    /\ InviteOnce(i)
    /\ i \notin overlapped => Apart(i) /\ (~Exempt(i) => Sound(i))

OnceInv == \A i \in DOMAIN credentials : Once(i)

\* The other requests stay where they are.
LEMMA Elsewhere ==
    ASSUME TypeInv, NEW r \in Requests, NEW to, Moves(r, to)
    PROVE  /\ \A q \in Requests : q # r => pc'[q] = pc[q]
           /\ pc'[r] = to
           /\ op' = op /\ arg' = arg /\ overlapped' = overlapped
  BY DEF TypeInv, TypeOK, Moves

LEMMA ApartKept ==
    ASSUME TypeInv, NEW r \in Requests, NEW to, Moves(r, to), NEW i, Apart(i)
    PROVE  Apart(i)'
<1>1. \A q \in Requests : pc'[q] # "idle" => pc[q] # "idle"
  BY Elsewhere DEF Moves
<1> QED  BY <1>1, Elsewhere DEF Apart

\* A step that uses no credential: it may close one, or end a request.
LEMMA QuietOnce ==
    ASSUME TypeInv, NEW r \in Requests, NEW to, Moves(r, to),
           NEW i \in DOMAIN credentials, Once(i),
           At(r, "confirmReset", {"mark"}, i) => i \in cut',
           Unspent(r, i)' => Unspent(r, i), Closed(r, i)' => Closed(r, i),
           cut \subseteq cut', user' = "absent" => user = "absent",
           credentials'[i].kind = credentials[i].kind,
           credentials'[i].uses = credentials[i].uses,
           credentials'[i].state = "open" => credentials[i].state = "open"
    PROVE  Once(i)'
<1>1. \A q \in Requests : q # r => pc'[q] = pc[q]
  BY Elsewhere
<1>2. op' = op /\ arg' = arg /\ overlapped' = overlapped
  BY Elsewhere
<1>3. InviteOnce(i)'
  BY DEF Once, InviteOnce
<1>4. ASSUME i \notin overlapped' PROVE Apart(i)'
  BY <1>2, <1>4, ApartKept DEF Once
<1>5. ASSUME i \notin overlapped', ~Exempt(i)' PROVE Sound(i)'
  <2>1. Sound(i)
    BY <1>2, <1>5 DEF Once, Exempt
  <2>2. ASSUME Marking(i) PROVE Marking(i)'
    <3>1. PICK q \in Requests : At(q, "confirmReset", {"mark"}, i)
      BY <2>2 DEF Marking
    <3>2. credentials[i].kind = "reset"
      <4>1. pc[q] # "idle" /\ op[q] = "confirmReset" /\ arg[q] = i
        BY <3>1 DEF At
      <4> QED  BY <4>1, PlacesAre DEF Takes, Takers
    <3>3. q # r
      BY <1>5, <3>1, <3>2 DEF Exempt
    <3> QED  BY <1>1, <1>2, <3>1, <3>3 DEF Marking, At
  <2>3. \A q \in Requests : /\ Unspent(q, i)' => Unspent(q, i)
                            /\ Closed(q, i)' => Closed(q, i)
    BY <1>1, <1>2 DEF Unspent, Closed, At
  <2> QED  BY <2>1, <2>2, <2>3 DEF Sound
<1> QED  BY <1>3, <1>4, <1>5 DEF Once

\* A step of a request that has another credential, or none.
LEMMA OthersOnce ==
    ASSUME TypeInv, NEW r \in Requests, NEW to, Moves(r, to),
           NEW i \in DOMAIN credentials, Once(i), arg[r] # i,
           cut \subseteq cut', user' = "absent" => user = "absent",
           credentials'[i].kind = credentials[i].kind,
           credentials'[i].uses = credentials[i].uses,
           credentials'[i].state = "open" => credentials[i].state = "open"
    PROVE  Once(i)'
<1>1. arg'[r] # i
  BY Elsewhere
<1> QED  BY <1>1, QuietOnce DEF At, Unspent, Closed

\* A step of the request that has it.
LEMMA OwnOnce ==
    ASSUME TypeInv, NEW r \in Requests, NEW to, Moves(r, to),
           NEW i \in DOMAIN credentials, Once(i), InviteOnce(i)', cut \subseteq cut',
           credentials'[i].kind = credentials[i].kind,
           Apart(i) /\ Sound(i) /\ ~Exempt(i)' => Sound(i)'
    PROVE  Once(i)'
<1>1. overlapped' = overlapped
  BY Elsewhere
<1>2. ASSUME i \notin overlapped
      PROVE  Apart(i) /\ (~Exempt(i)' => Sound(i))
  BY <1>1, <1>2 DEF Once, Exempt
<1> QED  BY <1>1, <1>2, ApartKept DEF Once

\* Of those who have the credential, the others are at work on something else.
LEMMA Alone ==
    ASSUME TypeInv, NEW r \in Requests, pc[r] # "idle", op[r] \in Takers,
           NEW i, i = arg[r], Apart(i)
    PROVE  \A q \in Requests :
              pc[q] # "idle" /\ q # r /\ op[q] \in Takers /\ arg[q] = i =>
                 op[q] # op[r] /\ {op[q], op[r]} = {"refresh", "logout"}
<1>1. ASSUME NEW q \in Requests, pc[q] # "idle", q # r, op[q] \in Takers, arg[q] = i
      PROVE  op[q] # op[r] /\ {op[q], op[r]} = {"refresh", "logout"}
  <2>1. op[q] # op[r]
    BY <1>1 DEF Apart
  <2>2. Takes[op[q]] = Takes[op[r]]
    BY <1>1, PlacesAre
  <2> QED  BY <1>1, <2>1, <2>2 DEF Takes, Takers
<1> QED  BY <1>1

\* No other request takes part in what is sound of the credential: only r may
\* have it open before it, be marking it, or have closed it.
LEMMA OnlyOne ==
    ASSUME TypeInv, NEW r \in Requests, pc[r] # "idle", op[r] \in Takers \ {"logout"},
           NEW i, i = arg[r], Apart(i),
           NEW to, Moves(r, to)
    PROVE  /\ \A q \in Requests : q # r => ~Unspent(q, i) /\ ~Closed(q, i)
           /\ \A q \in Requests : q # r => ~Unspent(q, i)' /\ ~Closed(q, i)'
           /\ Marking(i) <=> op[r] = "confirmReset" /\ pc[r] = "mark"
           /\ Marking(i)' <=> op[r] = "confirmReset" /\ to = "mark"
<1>1. \A q \in Requests :
         pc[q] # "idle" /\ q # r /\ op[q] \in Takers /\ arg[q] = i => op[q] = "logout"
  BY Alone DEF Takers
<1>2. \A q \in Requests : q # r => pc'[q] = pc[q]
  BY Elsewhere
<1>3. op' = op /\ arg' = arg /\ pc'[r] = to
  BY Elsewhere
<1>4. \A q \in Requests : q # r => ~Unspent(q, i) /\ ~Closed(q, i)
  BY <1>1 DEF Unspent, Closed, At, Takers
<1>5. \A q \in Requests : q # r => ~Unspent(q, i)' /\ ~Closed(q, i)'
  BY <1>1, <1>2, <1>3 DEF Unspent, Closed, At, Takers
<1>6. Marking(i) <=> op[r] = "confirmReset" /\ pc[r] = "mark"
  BY <1>1 DEF Marking, At, Takers
<1>7. Marking(i)' <=> op[r] = "confirmReset" /\ to = "mark"
  BY <1>1, <1>2, <1>3 DEF Marking, At, Takers
<1> QED  BY <1>4, <1>5, <1>6, <1>7

\* What is to be shown of the credential when its request goes on.
LEMMA SoundAfter ==
    ASSUME TypeInv, NEW r \in Requests, pc[r] # "idle", op[r] \in Takers \ {"logout"},
           NEW i, i = arg[r], Apart(i), NEW to, Moves(r, to),
           credentials'[i].uses <= 1,
           credentials'[i].state = "open" =>
              credentials'[i].uses = 0 \/ (op[r] = "confirmReset" /\ to = "mark"),
           op[r] = "refresh" /\ to \in {"account", "revoke", "insert"} => credentials'[i].uses = 0,
           op[r] = "confirmReset" /\ to = "password" => credentials'[i].uses = 0,
           op[r] = "complete" /\ to \in {"mark", "effect"} => credentials'[i].uses = 0,
           op[r] = "refresh" /\ to = "insert" => credentials'[i].state # "open",
           op[r] = "complete" /\ to = "effect" => credentials'[i].state # "open"
    PROVE  Sound(i)'
<1>1. op' = op /\ arg' = arg /\ pc'[r] = to
  BY Elsewhere
<1>2. /\ \A q \in Requests : q # r => ~Unspent(q, i)' /\ ~Closed(q, i)'
      /\ Marking(i)' <=> op[r] = "confirmReset" /\ to = "mark"
  BY OnlyOne
<1>3. Unspent(r, i)' => credentials'[i].uses = 0
  BY <1>1 DEF Unspent, At
<1>4. Closed(r, i)' => credentials'[i].state # "open"
  BY <1>1 DEF Closed, At
<1> QED  BY <1>2, <1>3, <1>4 DEF Sound

LEMMA ReadOnce ==
    ASSUME TypeInv, NEW r \in Requests, Read(r), NEW i \in DOMAIN credentials, Once(i)
    PROVE  Once(i)'
<1> USE DEF rowVars, histVars, countVars, Goto, Move
<1>1. credentials[i] \in Credential /\ i # 0
  BY CredentialsTyped, Elements DEF Credentials
<1>2. UNCHANGED <<credentials, user, cut>>
  BY DEF Read, Find, Lookup, FindAccount, WrongSecret
<1>3. PICK to : Moves(r, to)
  BY DEF Read, Find, Lookup, FindAccount, WrongSecret, Moves
<1>4. op' = op /\ arg' = arg /\ pc'[r] = to
  BY <1>3, Elsewhere
<1>5. CASE Find(r)
  <2>1. arg[r] = 0
    BY <1>5, PlacesAre DEF Find, Takers
  <2> QED  BY <1>1, <1>2, <1>3, <2>1, OthersOnce
<1>6. CASE FindAccount(r)
  <2>1. op[r] = "refresh" /\ pc[r] = "account"
    BY <1>6, PlacesAre DEF FindAccount
  <2>2. to \in {"revoke", "idle"}
    BY <1>4, <1>6 DEF FindAccount, TypeInv, TypeOK
  <2> QED  BY <1>2, <1>3, <1>4, <2>1, <2>2, QuietOnce DEF Unspent, Closed, At
<1>7. CASE WrongSecret(r)
  <2>1. pc'[r] = "idle" /\ (pc[r] = "mark" => op[r] = "complete")
    BY <1>7 DEF WrongSecret, TypeInv, TypeOK
  <2> QED  BY <1>2, <1>3, <2>1, QuietOnce DEF Unspent, Closed, At
<1>8. CASE Lookup(r) /\ i # arg[r]
  BY <1>2, <1>3, <1>8, OthersOnce
<1>9. CASE Lookup(r) /\ i = arg[r]
  <2>1. pc[r] = "lookup" /\ op[r] \in Takers \ {"logout"}
    BY <1>9, PlacesAre DEF Lookup, Takers
  <2>2. \/ Good(r) /\ to \in {"account", "password", "create", "mark"}
        \/ to \in {"end", "idle"}
    BY <1>4, <1>9 DEF Lookup, TypeInv, TypeOK
  <2>3. op[r] = "confirmReset" => to \in {"password", "idle"}
    BY <1>4, <1>9 DEF Lookup, TypeInv, TypeOK
  <2>4. InviteOnce(i)'
    BY <1>2 DEF Once, InviteOnce
  <2>5. ASSUME Apart(i), Sound(i) PROVE Sound(i)'
    <3>1. ~Marking(i)
      BY <1>3, <1>9, <2>1, <2>5, OnlyOne
    <3>2. credentials[i].uses <= 1 /\ (credentials[i].state = "open" => credentials[i].uses = 0)
      BY <2>5, <3>1 DEF Sound
    <3> QED  BY <1>1, <1>2, <1>3, <1>9, <2>1, <2>2, <2>3, <2>5, <3>2, SoundAfter DEF Good
  <2> QED  BY <1>2, <1>3, <2>4, <2>5, OwnOnce
<1> QED  BY <1>5, <1>6, <1>7, <1>8, <1>9 DEF Read

\* Steps that write rows, but use no credential.
LEMMA WriteAsideOnce ==
    ASSUME TypeInv, NEW r \in Requests, NEW i \in DOMAIN credentials, Once(i),
           CreateProfile(r) \/ GrantCustomer(r) \/ SetActive(r) \/ RevokeOnly(r) \/ RevokeAll(r)
    PROVE  Once(i)'
<1> USE DEF rowVars, histVars, countVars, Goto, Move
<1>1. Credentials
  BY CredentialsTyped
<1>2. cut' = cut /\ (user' = "absent" => user = "absent")
  BY DEF CreateProfile, GrantCustomer, SetActive, RevokeOnly, RevokeAll
<1>3. PICK to : Moves(r, to)
  BY DEF CreateProfile, GrantCustomer, SetActive, RevokeOnly, RevokeAll, Moves
<1>4. op' = op /\ arg' = arg /\ pc'[r] = to
  BY <1>3, Elsewhere
<1>5. pc[r] # "mark"
  BY DEF CreateProfile, GrantCustomer, SetActive, RevokeOnly, RevokeAll
<1>6. to \in {"role", "insert", "idle"} \/ (to = "mark" /\ op[r] = "acceptInvite")
  <2>1. CASE CreateProfile(r)
    BY <1>4, <2>1, PlacesAre DEF CreateProfile, TypeInv, TypeOK
  <2>2. CASE GrantCustomer(r) \/ SetActive(r) \/ RevokeOnly(r) \/ RevokeAll(r)
    BY <1>4, <2>2 DEF GrantCustomer, SetActive, RevokeOnly, RevokeAll, TypeInv, TypeOK
  <2> QED  BY <2>1, <2>2
<1>7. to = "insert" => op[r] = "register"
  <2>1. CASE GrantCustomer(r)
    BY <2>1, PlacesAre DEF GrantCustomer
  <2>2. CASE CreateProfile(r) \/ SetActive(r) \/ RevokeOnly(r) \/ RevokeAll(r)
    BY <1>4, <2>2 DEF CreateProfile, SetActive, RevokeOnly, RevokeAll, TypeInv, TypeOK
  <2> QED  BY <2>1, <2>2
<1>8. /\ credentials'[i].kind = credentials[i].kind
      /\ credentials'[i].uses = credentials[i].uses
      /\ credentials'[i].state = "open" => credentials[i].state = "open"
  <2>1. CASE CreateProfile(r) \/ GrantCustomer(r) \/ SetActive(r)
    BY <2>1 DEF CreateProfile, GrantCustomer, SetActive
  <2>2. CASE RevokeOnly(r)
    <3>1. arg[r] \in DOMAIN credentials
      BY <2>2, PlacesAre DEF RevokeOnly, Takers
    <3> QED  BY <1>1, <2>2, <3>1, SpentIs DEF RevokeOnly, Becomes, Keeps
  <2>3. CASE RevokeAll(r)
    BY <1>1, <2>3, RevokeAllIs DEF Becomes, Keeps
  <2> QED  BY <2>1, <2>2, <2>3
<1>9. ~At(r, "confirmReset", {"mark"}, i) /\ ~Unspent(r, i)' /\ ~Closed(r, i)'
  BY <1>4, <1>5, <1>6, <1>7 DEF At, Unspent, Closed
<1> QED  BY <1>2, <1>3, <1>8, <1>9, QuietOnce

\* One step of a request uses its credential or closes it, and leaves the others.
LEMMA UseOnce ==
    ASSUME TypeInv, NEW r \in Requests, NEW i \in DOMAIN credentials, Once(i),
           CreateUser(r) \/ Revoke(r) \/ SetPassword(r) \/ MarkUsed(r) \/ RaiseAssurance(r)
    PROVE  Once(i)'
<1> USE DEF rowVars, histVars, countVars, Goto, Move
<1>1. Credentials /\ credentials[i] \in Credential /\ i # 0
  BY CredentialsTyped, Elements DEF Credentials
<1>2. cut' = cut /\ (user' = "absent" => user = "absent")
  BY DEF CreateUser, Revoke, SetPassword, MarkUsed, RaiseAssurance
<1>3. PICK to : Moves(r, to)
  BY DEF CreateUser, Revoke, SetPassword, MarkUsed, RaiseAssurance, Moves
<1>4. op' = op /\ arg' = arg /\ pc'[r] = to
  BY <1>3, Elsewhere
<1>5. \/ UNCHANGED credentials
      \/ arg[r] \in DOMAIN credentials /\ (Used(arg[r]) \/ Spent(arg[r]))
  <2>1. CASE CreateUser(r)
    BY <2>1, PlacesAre DEF CreateUser
  <2>2. CASE Revoke(r) \/ SetPassword(r) \/ MarkUsed(r) \/ RaiseAssurance(r)
    BY <2>2, PlacesAre DEF Revoke, SetPassword, MarkUsed, RaiseAssurance, Takers
  <2> QED  BY <2>1, <2>2
<1>6. CASE i # arg[r]
  <2>1. /\ credentials'[i].kind = credentials[i].kind
        /\ credentials'[i].uses = credentials[i].uses
        /\ credentials'[i].state = credentials[i].state
    BY <1>1, <1>5, <1>6, UsedIs, SpentIs DEF Becomes, Keeps
  <2> QED  BY <1>2, <1>3, <1>6, <2>1, OthersOnce
<1>7. CASE i = arg[r] /\ CreateUser(r)
  <2>1. to \in {"profile", "idle"} /\ pc[r] = "create" /\ op[r] = "acceptInvite"
    BY <1>1, <1>4, <1>7, PlacesAre DEF CreateUser, TypeInv, TypeOK, Takers
  <2>2. CASE user # "absent"
    BY <1>2, <1>3, <1>4, <1>7, <2>1, <2>2, QuietOnce DEF CreateUser, At, Unspent, Closed
  <2>3. CASE user = "absent"
    <3>1. /\ credentials'[i].kind = credentials[i].kind
          /\ credentials'[i].uses = credentials[i].uses + 1 /\ user' = "active"
      BY <1>1, <1>7, <2>3, UsedIs DEF CreateUser, Becomes
    <3>2. credentials[i].kind = "invite"
      BY <1>7, <2>1, PlacesAre DEF Takes, Takers
    <3>3. InviteOnce(i)'
      BY <1>1, <2>3, <3>1, <3>2 DEF Once, InviteOnce, Credential
    <3>4. Exempt(i)'
      BY <3>1, <3>2 DEF Exempt
    <3> QED  BY <1>2, <1>3, <3>1, <3>3, <3>4, OwnOnce
  <2> QED  BY <2>2, <2>3
<1>8. CASE i = arg[r] /\ (Revoke(r) \/ SetPassword(r) \/ MarkUsed(r) \/ RaiseAssurance(r))
  <2>1. pc[r] \in {"revoke", "password", "mark", "effect"}
        /\ op[r] \in {"refresh", "confirmReset", "acceptInvite", "complete"}
    BY <1>8, PlacesAre DEF Revoke, SetPassword, MarkUsed, RaiseAssurance
  <2>2. credentials'[i].kind = credentials[i].kind /\ credentials[i].kind = Takes[op[r]]
    BY <1>1, <1>5, <1>8, <2>1, UsedIs, SpentIs, PlacesAre DEF Becomes, Takers
  <2>3. CASE MarkUsed(r) /\ op[r] = "acceptInvite"
    <3>1. to = "insert" /\ credentials'[i].uses = credentials[i].uses
          /\ credentials'[i].state # "open"
      BY <1>1, <1>4, <1>8, <2>3, SpentIs DEF MarkUsed, Becomes, TypeInv, TypeOK
    <3> QED  BY <1>2, <1>3, <1>4, <2>2, <2>3, <3>1, QuietOnce DEF At, Unspent, Closed
  <2>4. CASE ~(MarkUsed(r) /\ op[r] = "acceptInvite")
    <3>1. op[r] \in {"refresh", "confirmReset", "complete"}
      BY <1>8, <2>4, PlacesAre DEF Revoke, SetPassword, MarkUsed, RaiseAssurance
    <3>2. InviteOnce(i)'
      BY <2>2, <3>1 DEF InviteOnce, Takes
    <3>3. ASSUME Apart(i), Sound(i) PROVE Sound(i)'
      <4>1. /\ op[r] \in Takers \ {"logout"} /\ pc[r] # "idle"
            /\ credentials[i].uses <= 1 /\ (Unspent(r, i) => credentials[i].uses = 0)
            /\ Closed(r, i) => credentials[i].state # "open"
        BY <2>1, <3>1, <3>3 DEF Takers, Sound
      <4>2. CASE Revoke(r)
        <5>1. to = "insert" /\ op[r] = "refresh" /\ Unspent(r, i)
          BY <1>4, <1>8, <4>2, PlacesAre DEF Revoke, TypeInv, TypeOK, Unspent, At
        <5>2. credentials'[i].uses = credentials[i].uses /\ credentials'[i].state = "used"
          BY <1>1, <1>8, <4>2, SpentIs DEF Revoke, Becomes
        <5> QED  BY <1>3, <1>8, <3>3, <4>1, <5>1, <5>2, SoundAfter
      <4>3. CASE SetPassword(r)
        <5>1. to = "mark" /\ op[r] = "confirmReset" /\ Unspent(r, i)
          BY <1>4, <1>8, <4>3, PlacesAre DEF SetPassword, TypeInv, TypeOK, Unspent, At
        <5>2. credentials'[i].uses = credentials[i].uses + 1
          BY <1>1, <1>8, <4>3, UsedIs DEF SetPassword, Becomes
        <5> QED  BY <1>3, <1>8, <3>3, <4>1, <5>1, <5>2, SoundAfter
      <4>4. CASE MarkUsed(r)
        <5>1. \/ op[r] = "confirmReset" /\ to = "revokeAll"
              \/ op[r] = "complete" /\ to = "effect" /\ Unspent(r, i)
          BY <1>4, <1>8, <2>4, <3>1, <4>4, PlacesAre DEF MarkUsed, TypeInv, TypeOK, Unspent, At
        <5>2. credentials'[i].uses = credentials[i].uses /\ credentials'[i].state = "used"
          BY <1>1, <1>8, <4>4, SpentIs DEF MarkUsed, Becomes
        <5> QED  BY <1>3, <1>8, <3>3, <4>1, <5>1, <5>2, SoundAfter
      <4>5. CASE RaiseAssurance(r)
        <5>1. to = "idle" /\ op[r] = "complete" /\ Unspent(r, i) /\ Closed(r, i)
          BY <1>4, <1>8, <4>5, PlacesAre DEF RaiseAssurance, TypeInv, TypeOK, Unspent, Closed, At
        <5>2. credentials'[i].uses = credentials[i].uses + 1
              /\ credentials'[i].state = credentials[i].state
          BY <1>1, <1>8, <4>5, UsedIs DEF RaiseAssurance, Becomes
        <5> QED  BY <1>3, <1>8, <3>3, <4>1, <5>1, <5>2, SoundAfter
      <4> QED  BY <1>8, <4>2, <4>3, <4>4, <4>5
    <3> QED  BY <1>2, <1>3, <2>2, <3>2, <3>3, OwnOnce
  <2> QED  BY <2>3, <2>4
<1> QED  BY <1>6, <1>7, <1>8

\* What is new has not been used, and a refreshed session was revoked before.
LEMMA InsertOnce ==
    ASSUME TypeInv, OnceInv, NEW r \in Requests, Insert(r)
    PROVE  OnceInv'
<1> USE DEF rowVars, histVars, countVars, Goto, Move
<1> DEFINE n == Len(credentials) + 1
<1>1. Credentials /\ \A j \in DOMAIN credentials : credentials[j] \in Credential
  BY CredentialsTyped, Elements
<1>2. /\ cut' = cut /\ user' = user /\ Moves(r, "idle") /\ pc[r] = "insert"
      /\ op' = op /\ arg' = arg /\ pc'[r] = "idle"
  BY Elsewhere DEF Insert, Moves, TypeInv, TypeOK
<1>3. /\ DOMAIN credentials' = DOMAIN credentials \cup {n} /\ n \notin DOMAIN credentials
      /\ credentials'[n].uses = 0
      /\ \A j \in DOMAIN credentials :
           IF op[r] = "refresh" /\ j = arg[r]
           THEN Becomes(j, credentials[j].state, credentials[j].uses + 1) ELSE Keeps(j)
  BY InsertIs
<1>4. n # 0
  BY <1>1 DEF Credentials
<1>5. ASSUME NEW i \in DOMAIN credentials, ~(op[r] = "refresh" /\ i = arg[r]) PROVE Once(i)'
  <2>1. Keeps(i) /\ Once(i)
    BY <1>3, <1>5 DEF OnceInv
  <2> QED  BY <1>2, <2>1, QuietOnce DEF Keeps, Becomes, At, Unspent, Closed
<1>6. ASSUME NEW i \in DOMAIN credentials, op[r] = "refresh", i = arg[r] PROVE Once(i)'
  <2>1. Becomes(i, credentials[i].state, credentials[i].uses + 1) /\ Once(i)
    BY <1>3, <1>6 DEF OnceInv
  <2>2. credentials[i].kind = "session"
    BY <1>2, <1>6, PlacesAre DEF Takes, Takers
  <2>3. InviteOnce(i)'
    BY <2>1, <2>2 DEF InviteOnce, Becomes
  <2>4. ASSUME Apart(i), Sound(i) PROVE Sound(i)'
    <3>1. Unspent(r, i) /\ Closed(r, i)
      BY <1>2, <1>6 DEF Unspent, Closed, At
    <3>2. credentials[i].uses = 0 /\ credentials[i].state # "open"
      BY <2>4, <3>1 DEF Sound
    <3> QED  BY <1>2, <1>6, <2>1, <2>4, <3>2, SoundAfter DEF Becomes, Takers
  <2> QED  BY <1>2, <2>1, <2>3, <2>4, OwnOnce DEF Becomes
<1>7. ASSUME NEW i \in DOMAIN credentials', i \notin DOMAIN credentials PROVE Once(i)'
  <2>1. i # 0 /\ credentials'[i].uses = 0
    BY <1>3, <1>4, <1>7
  <2>2. \A q \in Requests : pc'[q] # "idle" => arg'[q] # i
    <3>1. \A q \in Requests : pc'[q] # "idle" => pc[q] # "idle"
      BY <1>2, Elsewhere
    <3> QED  BY <1>2, <1>7, <2>1, <3>1, PlacesAre
  <2>3. \A q \in Requests : ~Unspent(q, i)' /\ ~Closed(q, i)'
    BY <2>2 DEF Unspent, Closed, At
  <2>4. Apart(i)'
    BY <2>2 DEF Apart
  <2>5. Sound(i)' /\ InviteOnce(i)'
    BY <2>1, <2>3 DEF Sound, InviteOnce
  <2> QED  BY <2>4, <2>5 DEF Once
<1> QED  BY <1>5, <1>6, <1>7 DEF OnceInv

\* A call that finds another at work on its credential is taken down.
LEMMA CallOnce ==
    ASSUME TypeInv, NEW r \in Requests, NEW o \in Operations, NEW k \in 0..Len(credentials),
           Call(r, o, k), NEW i \in DOMAIN credentials, Once(i)
    PROVE  Once(i)'
<1>1. /\ pc' = [pc EXCEPT ![r] = First(o)] /\ op' = [op EXCEPT ![r] = o]
      /\ arg' = [arg EXCEPT ![r] = k] /\ pc[r] = "idle"
      /\ overlapped' = IF \E s \in Busy({o}) : k # 0 /\ arg[s] = k
                       THEN overlapped \cup {k} ELSE overlapped
      /\ UNCHANGED <<credentials, user, cut>>
  BY DEF Call, rowVars
<1>2. /\ pc'[r] = First(o) /\ op'[r] = o /\ arg'[r] = k
      /\ \A q \in Requests : q # r => pc'[q] = pc[q] /\ op'[q] = op[q] /\ arg'[q] = arg[q]
  BY <1>1 DEF TypeInv, TypeOK
<1>3. InviteOnce(i)'
  BY <1>1 DEF Once, InviteOnce
<1>4. ASSUME i \notin overlapped' PROVE Apart(i)'
  <2>1. i \notin overlapped /\ i # 0
    BY <1>1, <1>4, CredentialsTyped DEF Credentials
  <2>2. k = i => \A s \in Requests : pc[s] # "idle" /\ op[s] = o => arg[s] # i
    BY <1>1, <1>4, <2>1 DEF Busy
  <2> QED  BY <1>1, <1>2, <2>1, <2>2 DEF Once, Apart
<1>5. ASSUME i \notin overlapped', ~Exempt(i)' PROVE Sound(i)'
  <2>1. Sound(i)
    <3>1. i \notin overlapped /\ ~Exempt(i)
      BY <1>1, <1>5 DEF Exempt
    <3> QED  BY <3>1 DEF Once
  <2>2. Marking(i) => Marking(i)'
    BY <1>1, <1>2 DEF Marking, At
  <2>3. \A q \in Requests : /\ Unspent(q, i)' => Unspent(q, i)
                            /\ Closed(q, i)' => Closed(q, i)
    BY <1>2 DEF Unspent, Closed, At, First
  <2> QED  BY <1>1, <2>1, <2>2, <2>3 DEF Sound
<1> QED  BY <1>3, <1>4, <1>5 DEF Once

\* A request cut short at the mark has its credential taken down.
LEMMA AbortOnce ==
    ASSUME TypeInv, NEW r \in Requests, Abort(r), NEW i \in DOMAIN credentials, Once(i)
    PROVE  Once(i)'
<1>1. Moves(r, "idle") /\ UNCHANGED <<credentials, user>>
      /\ cut' = IF arg[r] # 0 /\ pc[r] # First(op[r]) THEN cut \cup {arg[r]} ELSE cut
  BY DEF Abort, Moves, rowVars
<1>2. ~Unspent(r, i)' /\ ~Closed(r, i)'
  <2>1. pc'[r] = "idle"
    BY <1>1, Elsewhere
  <2> QED  BY <2>1 DEF Unspent, Closed, At
<1>3. ASSUME At(r, "confirmReset", {"mark"}, i) PROVE i \in cut'
  <2>1. First(op[r]) = "lookup" /\ pc[r] = "mark" /\ arg[r] = i
    BY <1>3 DEF At, First
  <2>2. i # 0
    BY CredentialsTyped DEF Credentials
  <2> QED  BY <1>1, <2>1, <2>2
<1>4. cut \subseteq cut'
  BY <1>1
<1> QED  BY <1>1, <1>2, <1>3, <1>4, QuietOnce

\* A step in which the requests stand still may close a credential.
LEMMA StillOnce ==
    ASSUME NEW i \in DOMAIN credentials, Once(i),
           UNCHANGED <<user, requestVars, histVars>>,
           credentials'[i].kind = credentials[i].kind,
           credentials'[i].uses = credentials[i].uses,
           credentials'[i].state = "open" => credentials[i].state = "open"
    PROVE  Once(i)'
<1> USE DEF requestVars, histVars
<1>1. InviteOnce(i)' /\ (Exempt(i) => Exempt(i)')
  BY DEF Once, InviteOnce, Exempt
<1>2. Apart(i) => Apart(i)'
  BY DEF Apart
<1>3. Sound(i) => Sound(i)'
  BY DEF Sound, Marking, Unspent, Closed, At
<1> QED  BY <1>1, <1>2, <1>3 DEF Once

LEMMA OnceKept ==
    ASSUME TypeInv, OnceInv, [Next]_vars
    PROVE  OnceInv'
<1>1. ASSUME NEW r \in Requests, NEW o \in Operations, NEW k \in 0..Len(credentials), Call(r, o, k)
      PROVE  OnceInv'
  <2>1. UNCHANGED credentials
    BY <1>1 DEF Call, rowVars
  <2> QED  BY <1>1, <2>1, CallOnce DEF OnceInv
<1>2. ASSUME NEW r \in Requests, Read(r) \/ Abort(r) PROVE OnceInv'
  <2>1. UNCHANGED credentials
    BY <1>2 DEF Read, Find, Lookup, FindAccount, WrongSecret, Abort, rowVars
  <2> QED  BY <1>2, <2>1, ReadOnce, AbortOnce DEF OnceInv
<1>3. ASSUME NEW r \in Requests, Write(r) PROVE OnceInv'
  <2>1. CASE Insert(r)
    BY <2>1, InsertOnce
  <2>2. CASE ~Insert(r)
    <3>1. DOMAIN credentials' = DOMAIN credentials
      <4>1. Credentials
        BY CredentialsTyped
      <4>2. pc[r] \in {"revoke", "end", "password", "mark", "effect"}
              => arg[r] \in DOMAIN credentials
        BY PlacesAre DEF Takers
      <4>3. \/ UNCHANGED credentials \/ RevokeAll(r)
            \/ arg[r] \in DOMAIN credentials /\ (Used(arg[r]) \/ Spent(arg[r]))
        <5>1. CASE CreateUser(r)
          BY <5>1, PlacesAre DEF CreateUser, Goto, Move
        <5>2. CASE ~CreateUser(r)
          BY <1>3, <2>2, <4>2, <5>2 DEF Write, CreateProfile, GrantCustomer, Revoke, RevokeOnly,
                SetPassword, MarkUsed, RevokeAll, RaiseAssurance, SetActive, Goto, Move, rowVars
        <5> QED  BY <5>1, <5>2
      <4> QED  BY <4>1, <4>3, UsedIs, SpentIs, RevokeAllIs
    <3> QED  BY <1>3, <2>2, <3>1, UseOnce, WriteAsideOnce DEF Write, OnceInv
  <2> QED  BY <2>1, <2>2
<1>4. ASSUME NEW k \in 1..Len(credentials), Expire(k) PROVE OnceInv'
  <2>1. Credentials
    BY CredentialsTyped
  <2>2. /\ DOMAIN credentials' = DOMAIN credentials
        /\ Becomes(k, "expired", credentials[k].uses)
        /\ \A j \in DOMAIN credentials : j # k => Keeps(j)
    BY <1>4, <2>1, ExpireIs
  <2>3. UNCHANGED <<user, requestVars, histVars>>
    BY <1>4 DEF Expire
  <2> QED  BY <2>2, <2>3, StillOnce DEF OnceInv, Becomes, Keeps
<1>5. ASSUME UNCHANGED <<rowVars, requestVars, histVars>> PROVE OnceInv'
  BY <1>5, StillOnce DEF rowVars, OnceInv
<1>6. ASSUME NEW r \in Requests, Aside(r) PROVE OnceInv'
  BY <1>5, <1>6, AsideIs
<1>7. CASE ForgetCopy
  BY <1>5, <1>7 DEF ForgetCopy
<1>8. CASE UNCHANGED vars
  BY <1>5, <1>8 DEF vars
<1> QED  BY <1>1, <1>2, <1>3, <1>4, <1>6, <1>7, <1>8, StepsAre

-----------------------------------------------------------------------------
(* A reset ends the sessions opened with an earlier password *)

Resetting == \E r \in Requests : op[r] = "confirmReset" /\ pc[r] \in {"mark", "revokeAll"}

\* Where a request has shown that its caller knows the password.
Proven == {"profile", "role", "account", "revoke", "insert", "mark"}

\* There is no session, and none about to be issued, without an account.
AbsentInv ==
    user = "absent" =>
        /\ OfKind("session") = {}
        /\ \A r \in Requests : op[r] \in Issuing => pc[r] \notin Proven

\* A session that was opened with the password that holds, or is noted.
LiveCurrent == \A i \in Live : credentials[i].basis = password \/ i \in escaped

Noted(r) == r \in behind \/ arg[r] \in escaped

ProvenCurrent == \A r \in Requests :
    op[r] \in Issuing /\ pc[r] \in Proven => proved[r] = password \/ Noted(r)

CurrentInv == ~Resetting => LiveCurrent /\ ProvenCurrent

SessionsInv == AbsentInv /\ CurrentInv

LEMMA MovesAbsent ==
    ASSUME TypeInv, AbsentInv, NEW r \in Requests, NEW to, Moves(r, to),
           user' = "absent" =>
              /\ user = "absent" /\ OfKind("session")' = OfKind("session")
              /\ op[r] \in Issuing /\ to \in Proven => pc[r] \in Proven
    PROVE  AbsentInv'
  BY Elsewhere DEF AbsentInv

\* A step that leaves the password as it is, of a request that does not end a
\* reset, and issues a session only with the password.
LEMMA MovesCurrent ==
    ASSUME TypeInv, CurrentInv, NEW r \in Requests, NEW to, Moves(r, to),
           password' = password, behind' = behind, escaped \subseteq escaped',
           \A q \in Requests : q # r => proved'[q] = proved[q],
           \A i \in Live' : \/ i \in Live /\ credentials'[i].basis = credentials[i].basis
                            \/ ~Resetting => credentials'[i].basis = password \/ i \in escaped',
           op[r] = "confirmReset" /\ pc[r] \in {"mark", "revokeAll"} => to \in {"mark", "revokeAll"},
           ~Resetting /\ op[r] \in Issuing /\ to \in Proven => proved'[r] = password \/ Noted(r)
    PROVE  CurrentInv'
<1>1. /\ \A q \in Requests : q # r => pc'[q] = pc[q]
      /\ pc'[r] = to /\ op' = op /\ arg' = arg
  BY Elsewhere
<1> SUFFICES ASSUME ~Resetting' PROVE LiveCurrent' /\ ProvenCurrent'
  BY DEF CurrentInv
<1>2. ~Resetting
  BY <1>1 DEF Resetting
<1>3. LiveCurrent /\ ProvenCurrent
  BY <1>2 DEF CurrentInv
<1>4. LiveCurrent'
  BY <1>2, <1>3 DEF LiveCurrent
<1>5. ProvenCurrent'
  BY <1>1, <1>2, <1>3 DEF ProvenCurrent, Noted
<1> QED  BY <1>4, <1>5

LEMMA CallSessions ==
    ASSUME TypeInv, TypeInv', SessionsInv, NEW r \in Requests, NEW o \in Operations,
           NEW i \in 0..Len(credentials), Call(r, o, i)
    PROVE  SessionsInv'
<1>1. /\ pc' = [pc EXCEPT ![r] = First(o)] /\ op' = [op EXCEPT ![r] = o] /\ pc[r] = "idle"
      /\ arg' = [arg EXCEPT ![r] = i] /\ behind' = behind \ {r}
      /\ UNCHANGED <<rowVars, proved, escaped>>
  BY DEF Call
<1>2. /\ pc'[r] = First(o) /\ op'[r] = o
      /\ \A q \in Requests : q # r => pc'[q] = pc[q] /\ op'[q] = op[q] /\ arg'[q] = arg[q]
  BY <1>1 DEF TypeInv, TypeOK
<1>3. (o \in Issuing => First(o) \in {"find", "lookup"}) /\ First("confirmReset") = "lookup"
  BY IssuingAre DEF First
<1>4. AbsentInv'
  BY <1>1, <1>2, <1>3 DEF SessionsInv, AbsentInv, rowVars, OfKind, Proven
<1>5. CurrentInv'
  <2>1. Resetting' <=> Resetting
    BY <1>1, <1>2, <1>3 DEF Resetting
  <2>2. ProvenCurrent => ProvenCurrent'
    BY <1>1, <1>2, <1>3 DEF ProvenCurrent, Noted, Proven, rowVars
  <2>3. LiveCurrent => LiveCurrent'
    BY <1>1 DEF LiveCurrent, Live, OfKind, rowVars
  <2> QED  BY <2>1, <2>2, <2>3 DEF SessionsInv, CurrentInv
<1> QED  BY <1>4, <1>5 DEF SessionsInv

LEMMA ReadSessions ==
    ASSUME TypeInv, TypeInv', SessionsInv, NEW r \in Requests, Read(r)
    PROVE  SessionsInv'
<1> USE DEF rowVars, histVars, countVars, Goto, Move
<1>1. UNCHANGED <<credentials, user, password, behind, escaped>>
  BY DEF Read, Find, Lookup, FindAccount, WrongSecret
<1>2. PICK to : Moves(r, to)
  BY DEF Read, Find, Lookup, FindAccount, WrongSecret, Moves
<1>3. op' = op /\ arg' = arg /\ pc'[r] = to
  BY <1>2, Elsewhere
<1>4. \A q \in Requests : q # r => proved'[q] = proved[q]
  BY DEF Read, Find, Lookup, FindAccount, WrongSecret, TypeInv, TypeOK
<1>5. \A i \in Live' : i \in Live /\ credentials'[i].basis = credentials[i].basis
  BY <1>1 DEF Live, OfKind
<1>6. pc[r] = "mark" => op[r] = "complete"
  BY DEF Read, Find, Lookup, FindAccount, WrongSecret
<1>7. pc[r] # "revokeAll"
  BY DEF Read, Find, Lookup, FindAccount, WrongSecret
<1>8. CASE Find(r)
  <2>1. proved'[r] = password
    BY <1>8 DEF Find, TypeInv, TypeOK
  <2>2. op[r] \in {"register", "login", "requestReset"}
    BY <1>8, PlacesAre DEF Find
  <2>3. to \in Proven => op[r] # "register" /\ user # "absent"
    BY <1>3, <1>8, <2>2 DEF Find, Served, Proven, TypeInv, TypeOK
  <2>4. AbsentInv'
    BY <1>1, <1>2, <2>3, MovesAbsent DEF SessionsInv, OfKind
  <2> QED  BY <1>1, <1>2, <1>4, <1>5, <1>6, <1>7, <2>1, <2>4, MovesCurrent DEF SessionsInv
<1>9. CASE FindAccount(r) \/ WrongSecret(r)
  <2>1. to \in Proven => pc[r] \in Proven
    BY <1>3, <1>9 DEF FindAccount, WrongSecret, Proven, TypeInv, TypeOK
  <2>2. proved' = proved
    BY <1>9 DEF FindAccount, WrongSecret
  <2>3. AbsentInv'
    BY <1>1, <1>2, <2>1, MovesAbsent DEF SessionsInv, OfKind
  <2>4. ~Resetting /\ op[r] \in Issuing /\ to \in Proven => proved'[r] = password \/ Noted(r)
    BY <2>1, <2>2 DEF SessionsInv, CurrentInv, ProvenCurrent
  <2> QED  BY <1>1, <1>2, <1>4, <1>5, <1>6, <1>7, <2>3, <2>4, MovesCurrent DEF SessionsInv
<1>10. CASE Lookup(r)
  <2>1. /\ pc[r] = "lookup" /\ op[r] \in {"refresh", "confirmReset", "acceptInvite", "complete"}
        /\ arg[r] \in DOMAIN credentials /\ credentials[arg[r]].kind = Takes[op[r]]
    BY <1>10, PlacesAre DEF Lookup, Takers
  <2>2. proved'[r] = credentials[arg[r]].basis
    BY <1>10 DEF Lookup, TypeInv, TypeOK
  <2>3. op[r] \in Issuing /\ to \in Proven => op[r] = "refresh" /\ Good(r)
    BY <1>3, <1>10, <2>1, IssuingAre DEF Lookup, Proven, TypeInv, TypeOK
  <2>4. op[r] = "refresh" /\ Good(r) => arg[r] \in Live
    BY <2>1 DEF Live, OfKind, Good, Takes
  <2>5. op[r] \in Issuing /\ to \in Proven => user # "absent"
    BY <2>3, <2>4 DEF SessionsInv, AbsentInv, Live
  <2>6. AbsentInv'
    BY <1>1, <1>2, <2>5, MovesAbsent DEF SessionsInv, OfKind
  <2>7. ~Resetting /\ op[r] \in Issuing /\ to \in Proven => proved'[r] = password \/ Noted(r)
    BY <2>2, <2>3, <2>4 DEF SessionsInv, CurrentInv, LiveCurrent, Noted
  <2> QED  BY <1>1, <1>2, <1>4, <1>5, <1>6, <1>7, <2>6, <2>7, MovesCurrent DEF SessionsInv
<1> QED  BY <1>8, <1>9, <1>10 DEF Read

\* Steps of a request that issue no session and set no password.
LEMMA WriteAsideSessions ==
    ASSUME TypeInv, TypeInv', SessionsInv, NEW r \in Requests,
           \/ CreateProfile(r) \/ GrantCustomer(r) \/ SetActive(r)
           \/ Revoke(r) \/ RevokeOnly(r) \/ MarkUsed(r) \/ RaiseAssurance(r)
    PROVE  SessionsInv'
<1> USE DEF rowVars, histVars, countVars, Goto, Move
<1>1. Credentials /\ UNCHANGED <<password, behind, escaped, proved>> /\ (user' = "absent" => user = "absent")
  BY CredentialsTyped DEF CreateProfile, GrantCustomer, SetActive, Revoke, RevokeOnly, MarkUsed,
                          RaiseAssurance
<1>2. PICK to : Moves(r, to)
  BY DEF CreateProfile, GrantCustomer, SetActive, Revoke, RevokeOnly, MarkUsed,
         RaiseAssurance, Moves
<1>3. op' = op /\ arg' = arg /\ pc'[r] = to
  BY <1>2, Elsewhere
<1>4. \/ UNCHANGED credentials
      \/ arg[r] \in DOMAIN credentials /\ (Used(arg[r]) \/ Spent(arg[r]))
  BY PlacesAre DEF CreateProfile, GrantCustomer, SetActive, Revoke, RevokeOnly, MarkUsed,
                   RaiseAssurance, Takers
<1>5. /\ DOMAIN credentials' = DOMAIN credentials
      /\ \A j \in DOMAIN credentials :
           /\ credentials'[j].kind = credentials[j].kind
           /\ credentials'[j].basis = credentials[j].basis
           /\ credentials'[j].state \in {credentials[j].state, "used"}
  BY <1>1, <1>4, UsedIs, SpentIs DEF Becomes, Keeps
<1>6. OfKind("session")' = OfKind("session")
  BY <1>5 DEF OfKind
<1>7. \A i \in Live' : i \in Live /\ credentials'[i].basis = credentials[i].basis
  BY <1>5 DEF Live, OfKind
<1>8. op[r] \in Issuing /\ to \in Proven => pc[r] \in Proven
  BY <1>3 DEF CreateProfile, GrantCustomer, SetActive, Revoke, RevokeOnly, MarkUsed,
                   RaiseAssurance, Proven, TypeInv, TypeOK
<1>9. op[r] = "confirmReset" /\ pc[r] \in {"mark", "revokeAll"} => to = "revokeAll"
  <2>1. CASE MarkUsed(r)
    BY <1>3, <2>1 DEF MarkUsed, TypeInv, TypeOK
  <2>2. CASE ~MarkUsed(r)
    BY <2>2 DEF CreateProfile, GrantCustomer, SetActive, Revoke, RevokeOnly, RaiseAssurance
  <2> QED  BY <2>1, <2>2
<1>10. AbsentInv'
  BY <1>1, <1>2, <1>6, <1>8, MovesAbsent DEF SessionsInv
<1>11. ~Resetting /\ op[r] \in Issuing /\ to \in Proven => proved'[r] = password \/ Noted(r)
  BY <1>1, <1>8 DEF SessionsInv, CurrentInv, ProvenCurrent
<1>12. CurrentInv'
  BY <1>1, <1>2, <1>7, <1>9, <1>11, MovesCurrent DEF SessionsInv
<1> QED  BY <1>2, <1>10, <1>12 DEF SessionsInv

\* The account is created with its first password, before any session.
LEMMA CreateUserSessions ==
    ASSUME TypeInv, TypeInv', SessionsInv, NEW r \in Requests, CreateUser(r)
    PROVE  SessionsInv'
<1> USE DEF rowVars, histVars, countVars, Goto, Move
<1>1. PICK to : Moves(r, to)
  BY DEF CreateUser, Moves
<1>2. /\ \A q \in Requests : q # r => pc'[q] = pc[q]
      /\ op' = op /\ arg' = arg /\ pc'[r] = to /\ behind' = behind /\ escaped' = escaped
  BY <1>1, Elsewhere DEF CreateUser, Moves
<1>3. /\ pc[r] = "create" /\ to = IF user = "absent" THEN "profile" ELSE "idle"
      /\ \A q \in Requests : q # r => proved'[q] = proved[q]
      /\ proved'[r] = 1
  BY <1>2 DEF CreateUser, TypeInv, TypeOK
<1>4. CASE user # "absent"
  <2>1. UNCHANGED <<user, password, credentials>> /\ Grown
    BY <1>4, CredentialsTyped DEF CreateUser
  <2>2. AbsentInv'
    BY <1>1, <1>4, <2>1, MovesAbsent DEF SessionsInv
  <2>3. \A i \in Live' : i \in Live /\ credentials'[i].basis = credentials[i].basis
    BY <2>1 DEF Live, OfKind
  <2>4. to \notin Proven
    BY <1>3, <1>4 DEF Proven
  <2>5. CurrentInv'
    BY <1>1, <1>2, <1>3, <2>1, <2>3, <2>4, MovesCurrent DEF SessionsInv
  <2> QED  BY <1>1, <2>2, <2>5 DEF SessionsInv
<1>5. CASE user = "absent"
  <2>1. user' = "active" /\ password' = 1
    BY <1>5 DEF CreateUser
  <2>2. UNCHANGED credentials \/ (arg[r] \in DOMAIN credentials /\ Used(arg[r]))
    BY <1>3, PlacesAre DEF CreateUser
  <2>3. OfKind("session")' = {}
    <3>1. /\ DOMAIN credentials' = DOMAIN credentials
          /\ \A j \in DOMAIN credentials : credentials'[j].kind = credentials[j].kind
      BY <2>2, CredentialsTyped, UsedIs DEF Becomes, Keeps
    <3>2. OfKind("session") = {}
      BY <1>5 DEF SessionsInv, AbsentInv
    <3> QED  BY <3>1, <3>2 DEF OfKind
  <2>4. LiveCurrent'
    BY <2>3 DEF LiveCurrent, Live
  <2>5. ProvenCurrent'
    BY <1>2, <1>3, <1>5, <2>1 DEF SessionsInv, AbsentInv, ProvenCurrent
  <2>6. AbsentInv' /\ CurrentInv'
    BY <2>1, <2>4, <2>5 DEF AbsentInv, CurrentInv
  <2> QED  BY <1>1, <2>6 DEF SessionsInv
<1> QED  BY <1>4, <1>5

\* A session is issued to who has shown to know the password.
LEMMA InsertSessions ==
    ASSUME TypeInv, TypeInv', SessionsInv, NEW r \in Requests, Insert(r)
    PROVE  SessionsInv'
<1> USE DEF rowVars, histVars, countVars, Goto, Move
<1> DEFINE n == Len(credentials) + 1
<1>1. Moves(r, "idle") /\ UNCHANGED <<user, password, behind, proved>> /\ pc[r] = "insert"
  BY DEF Insert, Moves
<1>2. /\ Credentials' /\ DOMAIN credentials' = DOMAIN credentials \cup {n}
      /\ n \notin DOMAIN credentials
      /\ credentials'[n].kind = Makes[op[r]] /\ credentials'[n].basis = proved[r]
      /\ \A j \in DOMAIN credentials : /\ credentials'[j].kind = credentials[j].kind
                                       /\ credentials'[j].basis = credentials[j].basis
                                       /\ credentials'[j].state = credentials[j].state
  BY InsertIs DEF Becomes, Keeps
<1>3. escaped \subseteq escaped' /\ (op[r] \in Issuing /\ Noted(r) => n \in escaped')
  BY DEF Insert, Noted
<1> HIDE DEF n
<1>4. op[r] \in DOMAIN Makes
  BY <1>1, PlacesAre
<1>5. CASE op[r] \in Issuing
  <2>1. user # "absent"
    BY <1>1, <1>5 DEF SessionsInv, AbsentInv, Proven
  <2>2. AbsentInv'
    BY <1>1, <2>1 DEF AbsentInv
  <2>3. \A i \in Live' : \/ i \in Live /\ credentials'[i].basis = credentials[i].basis
                         \/ ~Resetting => credentials'[i].basis = password \/ i \in escaped'
    BY <1>1, <1>2, <1>3, <1>5 DEF Live, OfKind, SessionsInv, CurrentInv, ProvenCurrent, Proven
  <2>4. CurrentInv'
    BY <1>1, <1>3, <2>3, MovesCurrent DEF SessionsInv, Proven
  <2> QED  BY <1>1, <2>2, <2>4 DEF SessionsInv
<1>6. CASE op[r] \notin Issuing
  <2>1. Makes[op[r]] # "session"
    BY <1>4, <1>6 DEF Issuing
  <2>2. OfKind("session")' = OfKind("session")
    BY <1>2, <2>1 DEF OfKind
  <2>3. \A i \in Live' : i \in Live /\ credentials'[i].basis = credentials[i].basis
    BY <1>2, <2>1 DEF Live, OfKind
  <2>4. AbsentInv'
    BY <1>1, <1>6, <2>2, MovesAbsent DEF SessionsInv
  <2>5. CurrentInv'
    BY <1>1, <1>3, <1>6, <2>3, MovesCurrent DEF SessionsInv
  <2> QED  BY <1>1, <2>4, <2>5 DEF SessionsInv
<1> QED  BY <1>5, <1>6

\* The reset has to revoke the sessions yet.
LEMMA SetPasswordSessions ==
    ASSUME TypeInv, SessionsInv, NEW r \in Requests, SetPassword(r)
    PROVE  SessionsInv'
<1> USE DEF rowVars, histVars, countVars, Goto, Move
<1>1. Moves(r, "mark") /\ UNCHANGED user /\ pc[r] = "password" /\ op[r] = "confirmReset"
  BY PlacesAre DEF SetPassword, Moves
<1>2. op' = op /\ pc'[r] = "mark"
  BY <1>1, Elsewhere
<1>3. arg[r] \in DOMAIN credentials /\ Used(arg[r])
  BY <1>1, PlacesAre DEF SetPassword, Takers
<1>4. OfKind("session")' = OfKind("session")
  BY <1>3, CredentialsTyped, UsedIs DEF OfKind, Becomes, Keeps
<1>5. AbsentInv'
  BY <1>1, <1>4, IssuingAre, MovesAbsent DEF SessionsInv
<1>6. Resetting'
  BY <1>1, <1>2 DEF Resetting
<1> QED  BY <1>5, <1>6 DEF SessionsInv, CurrentInv

\* Who was at work on a session when its reset ended is noted.
LEMMA BusyNoted ==
    ASSUME TypeInv, NEW r \in Requests, Moves(r, "idle"),
           behind' = behind \cup Busy(Issuing)
    PROVE  ProvenCurrent'
<1>1. op' = op /\ pc'[r] = "idle" /\ \A q \in Requests : q # r => pc'[q] = pc[q]
  BY Elsewhere
<1>2. \A q \in Requests : op'[q] \in Issuing /\ pc'[q] \in Proven => q \in Busy(Issuing)
  BY <1>1 DEF Busy, Proven
<1> QED  BY <1>2 DEF ProvenCurrent, Noted

\* No session is left.
LEMMA RevokeAllSessions ==
    ASSUME TypeInv, SessionsInv, NEW r \in Requests, RevokeAll(r)
    PROVE  SessionsInv'
<1>1. Moves(r, "idle") /\ UNCHANGED user /\ behind' = behind \cup Busy(Issuing)
  BY DEF RevokeAll, Moves, Move
<1>2. /\ DOMAIN credentials' = DOMAIN credentials
      /\ \A j \in DOMAIN credentials : credentials'[j].kind = credentials[j].kind
      /\ \A j \in DOMAIN credentials :
           credentials[j].kind = "session" => credentials'[j].state = "used"
  BY CredentialsTyped, RevokeAllIs DEF Becomes, Keeps
<1>3. OfKind("session")' = OfKind("session") /\ Live' = {}
  BY <1>2 DEF OfKind, Live
<1>4. AbsentInv'
  BY <1>1, <1>3, MovesAbsent DEF SessionsInv, Proven
<1>5. LiveCurrent' /\ ProvenCurrent'
  BY <1>1, <1>3, BusyNoted DEF LiveCurrent
<1> QED  BY <1>4, <1>5 DEF SessionsInv, CurrentInv

\* What a reset that is cut short leaves open is noted.
LEMMA AbortSessions ==
    ASSUME TypeInv, SessionsInv, NEW r \in Requests, Abort(r)
    PROVE  SessionsInv'
<1> DEFINE missed == op[r] = "confirmReset" /\ pc[r] \in {"mark", "revokeAll"}
<1>1. /\ Moves(r, "idle") /\ UNCHANGED <<credentials, user, password, proved>>
      /\ behind' = IF missed THEN behind \cup Busy(Issuing) ELSE behind
      /\ escaped' = IF missed THEN escaped \cup Live ELSE escaped
  BY DEF Abort, Moves, rowVars
<1>2. AbsentInv'
  BY <1>1, MovesAbsent DEF SessionsInv, Proven, OfKind
<1>3. Live' = Live
  BY <1>1 DEF Live, OfKind
<1>4. CASE missed
  <2>1. LiveCurrent'
    BY <1>1, <1>3, <1>4 DEF LiveCurrent
  <2> QED  BY <1>1, <1>2, <1>4, <2>1, BusyNoted DEF SessionsInv, CurrentInv
<1>5. CASE ~missed
  BY <1>1, <1>2, <1>3, <1>5, MovesCurrent DEF SessionsInv, Proven
<1> QED  BY <1>4, <1>5

LEMMA StillSessions ==
    ASSUME TypeInv, SessionsInv, UNCHANGED <<user, password, requestVars, histVars>>,
           DOMAIN credentials' = DOMAIN credentials,
           \A j \in DOMAIN credentials :
             /\ credentials'[j].kind = credentials[j].kind
             /\ credentials'[j].basis = credentials[j].basis
             /\ credentials'[j].state = "open" => credentials[j].state = "open"
    PROVE  SessionsInv'
<1> USE DEF requestVars, histVars
<1>1. \A kind : OfKind(kind)' = OfKind(kind)
  BY DEF OfKind
<1>2. AbsentInv'
  BY <1>1 DEF SessionsInv, AbsentInv
<1>3. (LiveCurrent => LiveCurrent') /\ (ProvenCurrent => ProvenCurrent')
  <2>1. Live' \subseteq Live /\ \A j \in Live : credentials'[j].basis = credentials[j].basis
    BY DEF Live, OfKind
  <2>2. LiveCurrent => LiveCurrent'
    BY <2>1 DEF LiveCurrent
  <2>3. ProvenCurrent => ProvenCurrent'
    BY DEF ProvenCurrent, Noted
  <2> QED  BY <2>2, <2>3
<1>4. Resetting' <=> Resetting
  BY DEF Resetting
<1> QED  BY <1>2, <1>3, <1>4 DEF SessionsInv, CurrentInv

LEMMA SessionsKept ==
    ASSUME TypeInv, TypeInv', SessionsInv, [Next]_vars
    PROVE  SessionsInv'
<1>1. ASSUME NEW r \in Requests, NEW o \in Operations, NEW k \in 0..Len(credentials), Call(r, o, k)
      PROVE  SessionsInv'
  BY <1>1, CallSessions
<1>2. ASSUME NEW r \in Requests, Read(r) \/ Write(r) \/ Abort(r) PROVE SessionsInv'
  BY <1>2, ReadSessions, WriteAsideSessions, CreateUserSessions, InsertSessions,
     SetPasswordSessions, RevokeAllSessions, AbortSessions DEF Write
<1>3. ASSUME NEW k \in 1..Len(credentials), Expire(k) PROVE SessionsInv'
  <2>1. /\ DOMAIN credentials' = DOMAIN credentials
        /\ Becomes(k, "expired", credentials[k].uses)
        /\ \A j \in DOMAIN credentials : j # k => Keeps(j)
    BY <1>3, CredentialsTyped, ExpireIs
  <2>2. UNCHANGED <<user, password, requestVars, histVars>>
    BY <1>3 DEF Expire
  <2>3. \A j \in DOMAIN credentials :
          /\ credentials'[j].kind = credentials[j].kind
          /\ credentials'[j].basis = credentials[j].basis
          /\ credentials'[j].state = "open" => credentials[j].state = "open"
    BY <2>1 DEF Becomes, Keeps
  <2> QED  BY <2>1, <2>2, <2>3, StillSessions
<1>4. ASSUME UNCHANGED <<rowVars, requestVars, histVars>> PROVE SessionsInv'
  BY <1>4, StillSessions DEF rowVars
<1>5. ASSUME NEW r \in Requests, Aside(r) PROVE SessionsInv'
  BY <1>4, <1>5, AsideIs
<1>6. CASE ForgetCopy
  BY <1>4, <1>6 DEF ForgetCopy
<1>7. CASE UNCHANGED vars
  BY <1>4, <1>7 DEF vars
<1> QED  BY <1>1, <1>2, <1>3, <1>5, <1>6, <1>7, StepsAre

-----------------------------------------------------------------------------
(* The theorems *)

\* The account, its credentials and its requests have their types, each request
\* at an await of its operation, with a credential of the kind it takes.
THEOREM AccountsTyped == Spec => [](TypeOK /\ CallInv)
<1>1. TypeInv => TypeOK /\ CallInv
  BY DEF TypeInv
<1> QED  BY <1>1, TypesInit, TypesKept, PTL DEF Spec

\* A session yields one next session, a challenge raises the assurance once, an
\* invite makes one account and a reset sets one password: unless two requests
\* used it at once, which the index on the email spares an invite; and a reset
\* cut short before it was marked used works again (refreshSession, acceptInvite,
\* confirmPasswordReset, completeChallenge).
THEOREM EachCredentialOnce == Spec => []CredentialsWorkOnce
<1>1. Init => TypeInv /\ OnceInv
  BY TypesInit DEF Init, OnceInv
<1>2. TypeInv /\ OnceInv /\ [Next]_vars => (TypeInv /\ OnceInv)'
  BY TypesKept, OnceKept
<1>3. TypeInv /\ OnceInv => CredentialsWorkOnce
  <2> SUFFICES ASSUME TypeInv, OnceInv, NEW i \in DOMAIN credentials, credentials[i].uses > 1
               PROVE  \/ i \in overlapped /\ credentials[i].kind # "invite"
                      \/ i \in cut /\ credentials[i].kind = "reset"
    BY DEF CredentialsWorkOnce
  <2>1. credentials[i].uses \in Nat
    BY CredentialsTyped, Elements DEF Credential
  <2>2. credentials[i].kind # "invite"
    BY <2>1 DEF OnceInv, Once, InviteOnce
  <2> QED  BY <2>1, <2>2 DEF OnceInv, Once, Exempt, Sound
<1> QED  BY <1>1, <1>2, <1>3, PTL DEF Spec

\* After a password reset no session is left that was opened with an earlier
\* password, except one that was being issued when the reset revoked the others,
\* one that was open or being issued when a reset was cut short before it came to
\* revoke them, and what was refreshed from such a one (confirmPasswordReset).
THEOREM OldSessionsEnd == Spec => []ResetEndsOldSessions
<1>1. Init => TypeInv /\ SessionsInv
  <2> SUFFICES ASSUME Init PROVE SessionsInv
    BY TypesInit
  <2>1. Live = {} /\ OfKind("session") = {}
    BY DEF Init, Live, OfKind
  <2>2. \A r \in Requests : pc[r] \notin Proven
    BY DEF Init, Proven
  <2> QED  BY <2>1, <2>2 DEF SessionsInv, AbsentInv, CurrentInv, LiveCurrent, ProvenCurrent
<1>2. TypeInv /\ SessionsInv /\ [Next]_vars => (TypeInv /\ SessionsInv)'
  BY TypesKept, SessionsKept
<1>3. SessionsInv => ResetEndsOldSessions
  BY DEF SessionsInv, CurrentInv, Resetting, Busy, LiveCurrent, ResetEndsOldSessions
<1> QED  BY <1>1, <1>2, <1>3, PTL DEF Spec

=============================================================================
