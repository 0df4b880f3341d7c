----------------------------- MODULE Permissions ----------------------------
(***************************************************************************)
(* The permissions of one user: rows of user_roles, the copy of what they  *)
(* grant under perms:<user> in KV, the middleware that reads and fills it  *)
(* (packages/auth/src/middleware/permissions.middleware.ts) and the        *)
(* administration that changes the rows and drops the copy                 *)
(* (apps/api-edge/src/services/admin.service.ts).  What a role grants does *)
(* not change here.                                                        *)
(***************************************************************************)
EXTENDS Naturals, FiniteSets

CONSTANTS
    Requests,       \* slots for requests
    Roles,
    NoCopy          \* KV holds no copy

ASSUME PermissionsAssumption == \A some \in SUBSET Roles : NoCopy # some

VARIABLES
    granted,        \* roles of the active rows of user_roles
    copy,           \* perms:<user>
    at,             \* where a request is in the middleware or in a change
    loaded,         \* session.roles of a request, once hydrated
    crossed         \* history: the copy was dropped while a hydration had yet to
                    \* write it, or not dropped at all, and has not been since

permVars == <<granted, copy, at, loaded, crossed>>

-----------------------------------------------------------------------------
Hydrating == {"get", "select", "fill"}
Changing == {"assign", "remove", "drop"}

Pass(r, from, to) ==
    /\ at[r] = from
    /\ at' = [at EXCEPT ![r] = to]

\* Whether a hydration has read the rows and not yet written the copy.
Filling == \E r \in Requests : at[r] = "fill"

-----------------------------------------------------------------------------
(* Variants: plausible bugs that no action uses. *)

\* The copy is not dropped.
DropNothing(r) ==
    /\ Pass(r, "drop", "away")
    /\ UNCHANGED <<granted, copy, loaded, crossed>>

-----------------------------------------------------------------------------
(* hydratePermissions *)

Hydrate(r) ==
    /\ Pass(r, "away", "get")
    /\ UNCHANGED <<granted, copy, loaded, crossed>>

GetCopy(r) ==
    /\ Pass(r, "get", IF copy = NoCopy THEN "select" ELSE "away")
    /\ loaded' = IF copy = NoCopy THEN loaded ELSE [loaded EXCEPT ![r] = copy]
    /\ UNCHANGED <<granted, copy, crossed>>

SelectRoles(r) ==
    /\ Pass(r, "select", "fill")
    /\ loaded' = [loaded EXCEPT ![r] = granted]
    /\ UNCHANGED <<granted, copy, crossed>>

FillCopy(r) ==
    /\ Pass(r, "fill", "away")
    /\ copy' = loaded[r]
    /\ UNCHANGED <<granted, loaded, crossed>>

-----------------------------------------------------------------------------
(* assignRole and removeRole: the rows, then the copy *)

Change(r, how) ==
    /\ Pass(r, "away", how)
    /\ UNCHANGED <<granted, copy, loaded, crossed>>

AssignRole(r, role) ==
    /\ Pass(r, "assign", "drop")
    /\ granted' = granted \cup {role}
    /\ UNCHANGED <<copy, loaded, crossed>>

RemoveRole(r, role) ==
    /\ Pass(r, "remove", "drop")
    /\ granted' = granted \ {role}
    /\ UNCHANGED <<copy, loaded, crossed>>

\* A role is granted by somebody who does not know of the copy.
Grant(role) ==
    /\ granted' = granted \cup {role}
    /\ crossed' = (crossed \/ copy # NoCopy \/ Filling)
    /\ UNCHANGED <<copy, at, loaded>>

DropCopy(r) ==
    /\ Pass(r, "drop", "away")
    /\ copy' = NoCopy
    /\ crossed' = Filling
    /\ UNCHANGED <<granted, loaded>>

\* The copy lives for five minutes.
ExpireCopy ==
    /\ copy # NoCopy
    /\ copy' = NoCopy
    /\ crossed' = (crossed /\ Filling)
    /\ UNCHANGED <<granted, at, loaded>>

\* A request ends at an await: a change that is cut short leaves the copy.
Drop(r) ==
    /\ at[r] # "away"
    /\ at' = [at EXCEPT ![r] = "away"]
    /\ crossed' = (crossed \/ at[r] = "drop")
    /\ UNCHANGED <<granted, copy, loaded>>

PermInit ==
    /\ granted = {} /\ copy = NoCopy
    /\ at = [r \in Requests |-> "away"]
    /\ loaded = [r \in Requests |-> {}]
    /\ crossed = FALSE

PermStep(r) ==
    \/ GetCopy(r) \/ SelectRoles(r) \/ FillCopy(r) \/ DropCopy(r)
    \/ \E role \in Roles : AssignRole(r, role) \/ RemoveRole(r, role)

-----------------------------------------------------------------------------
PermTypeOK ==
    /\ granted \subseteq Roles
    /\ copy = NoCopy \/ copy \subseteq Roles
    /\ at \in [Requests -> {"away"} \cup Hydrating \cup Changing]
    /\ loaded \in [Requests -> SUBSET Roles]
    /\ crossed \in BOOLEAN

\* The copy in KV is what the rows grant, once whoever changed them has dropped
\* it: except that a hydration may have read them before, and write it after, that
\* a change may be cut short in between, and that a registration drops nothing;
\* then until the copy is dropped or expires.
CopyIsCurrent ==
    ~crossed /\ (\A r \in Requests : at[r] # "drop") => copy \in {NoCopy, granted}
=============================================================================
