------------------------------ MODULE Candidates -----------------------------
(***************************************************************************)
(* What an approval request takes over from the policy engine: the steps   *)
(* of the template that compileWorkflow keeps, and the users that          *)
(* createCandidateResolver finds for each of them                          *)
(* (packages/policy-engine/src/compiler.ts and candidates.ts).             *)
(*                                                                         *)
(* The rows are as the creation of the request finds them.  Weights choose *)
(* among the candidates only and are left out.                             *)
(***************************************************************************)
EXTENDS Naturals, FiniteSets

CONSTANTS
    Users,
    UserRoles,      \* rows of user_roles: [user, role, provider, active]
    Grants,         \* role_permissions: pairs <<role, permission>>
    OrgUnits,       \* org_units: pairs <<unit, provider>>
    NoProvider,     \* a null provider_id
    Scope,          \* providerScope of the action, NoProvider for none
    Steps,          \* step_order of the template's rows in approval_workflow_steps
    Inactive,       \* sets of steps that may be inactive when a request is created
    Rules           \* Rules[s]: candidate rules [type, value] of step s

RuleTypes == {"role", "capability", "org_unit", "expression"}

ASSUME CandidatesAssumption ==
    /\ IsFiniteSet(Users) /\ IsFiniteSet(Steps)
    /\ Steps \subseteq Nat \ {0} /\ Inactive \subseteq SUBSET Steps
    /\ \A row \in UserRoles : row.user \in Users /\ row.active \in BOOLEAN
    /\ \A s \in Steps : \A rule \in Rules[s] : rule.type \in RuleTypes

\* compileWorkflow: an inactive step leaves a gap in the orders, or no first one.
Compiled(off) == Steps \ off

\* Only a rule on a role looks at the scope of the action.  A row counts
\* whether or not it is active, and an expression finds nobody.
Matches(row, rule) ==
    \/ /\ rule.type = "role" /\ row.role = rule.value
       /\ Scope = NoProvider \/ row.provider = Scope
    \/ /\ rule.type = "capability"
       /\ <<row.role, rule.value>> \in Grants
    \/ /\ rule.type = "org_unit" /\ row.provider # NoProvider
       /\ <<rule.value, row.provider>> \in OrgUnits

\* resolve, without the users that the caller excludes.
Resolve(s, excluded) ==
    {row.user : row \in {r \in UserRoles : \E rule \in Rules[s] : Matches(r, rule)}}
        \ excluded
=============================================================================
