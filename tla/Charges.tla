-------------------------------- MODULE Charges -------------------------------
(***************************************************************************)
(* The charges engine (packages/charges/src): the order                    *)
(* dependency-resolver.ts puts the applicable charges in, the amounts      *)
(* engine.ts computes in that order, and what refunds of the booking give  *)
(* back of each amount.                                                    *)
(*                                                                         *)
(* A calculation is synchronous; a step here is one iteration of one of    *)
(* its loops.  Which rule and which assignment a charge has in the context *)
(* are inputs, chosen when the engine looks them up.                       *)
(***************************************************************************)
EXTENDS Integers, Sequences, FiniteSets, FiniteSetsExt, Functions

CONSTANTS
    Defs,           \* the loaded charge definitions: enabled, of the scope
    Priority,       \* calcPriority of each
    NoCharge,       \* baseOf of a charge that has none
    Amounts,        \* what a context amount (subtotal, payout ...) may be
    Rules,          \* [rate, fixed, min, max, inclusive] of the rules there are
    Whole,          \* a rate or a ratio of one: 10000 in the code
    Behavior,       \* refundBehavior of each definition
    Ratios,         \* the shares of the booking a refund may be for
    MaxDeps,        \* bound: dependencies between the definitions
    MaxRefunds      \* bound: refunds of the booking

Kinds == {"after", "base_of", "exclusive"}

Behaviors == {"proportional", "before_service", "before_payout", "none"}

ASSUME ChargesAssumption ==
    /\ IsFiniteSet(Defs) /\ NoCharge \notin Defs
    /\ Priority \in [Defs -> Nat]
    /\ Amounts \subseteq Nat /\ Whole \in Nat \ {0} /\ Ratios \subseteq 1..Whole
    /\ \A r \in Rules : {r.rate, r.fixed, r.min, r.max} \subseteq Nat
    /\ Behavior \in [Defs -> Behaviors]
    /\ MaxDeps \in Nat /\ MaxRefunds \in Nat

VARIABLES
    applicable,     \* the definitions in force on the day of the calculation
    deps,           \* charge_dependencies of the loaded definitions
    stage,          \* the loop the calculation is in
    degree,         \* inDegree
    ready,          \* the queue of Kahn's algorithm
    order,          \* orderedIds
    baseOf,         \* the charge each charge takes as its base
    at,             \* the place in the order of the charge to price next
    computed,       \* computedAmounts
    lines,          \* [base, amount] of each charge that got a line
    refunds,        \* the shares of the booking refunded so far
    refunded        \* what these refunds gave back of each line

inputVars == <<applicable, deps>>
orderVars == <<degree, ready, order, baseOf>>
priceVars == <<at, computed, lines>>
refundVars == <<refunds, refunded>>
chargeVars == <<inputVars, stage, orderVars, priceVars, refundVars>>

-----------------------------------------------------------------------------
(* The dependencies *)

Dependencies == [dependent : Defs, on : Defs, kind : Kinds]

\* Of two charges that exclude each other the one that runs later goes.
Loser(x) == IF Priority[x.dependent] >= Priority[x.on] THEN x.dependent ELSE x.on

excluded == {Loser(x) : x \in {y \in deps : /\ y.kind = "exclusive"
                                            /\ {y.dependent, y.on} \subseteq applicable}}

Active == applicable \ excluded

Orderings == {x \in deps : /\ x.kind # "exclusive"
                           /\ {x.dependent, x.on} \cap excluded = {}}

\* A variant of the next definition: base_of does not order the charges.
EdgesAfter == {x \in Orderings : x.on \in Active /\ x.kind = "after"}

\* The code looks up the charge depended on and not the dependent.
Edges == {x \in Orderings : x.on \in Active}

Indegree(d) == Cardinality({x \in Edges : x.dependent = d})

Neighbours(d) == {x.dependent : x \in {y \in Edges : y.on = d}}

Bases(d) == {x.on : x \in {y \in Orderings : y.kind = "base_of" /\ y.dependent = d}}

-----------------------------------------------------------------------------
(* Amounts *)

\* A variant of the next definition: always in the customer's favour.
RoundedUp(n, m) == (n + m - 1) \div m

\* Math.round(n / m)
Rounded(n, m) == (2 * n + m) \div (2 * m)

\* applyRule: a fixed amount or a rate of the base, which an inclusive tax
\* already contains; then the floor and the ceiling.
Amount(base, r) ==
    LET of == IF r.inclusive THEN Whole + r.rate ELSE Whole
        a == r.fixed + Rounded(base * r.rate, of)
    IN  Min({Max({a, r.min}), r.max})

-----------------------------------------------------------------------------
ChargesInit ==
    /\ applicable \in SUBSET Defs /\ deps = {}
    /\ stage = "configure"
    /\ degree = [d \in Defs |-> 0] /\ ready = {} /\ order = <<>>
    /\ baseOf = [d \in Defs |-> NoCharge]
    /\ at = 1
    /\ computed = <<>> /\ lines = <<>>
    /\ refunds = <<>> /\ refunded = [d \in Defs |-> 0]

\* createDependency: one row for a pair, and no other check.
AddDependency(x) ==
    /\ stage = "configure" /\ Cardinality(deps) < MaxDeps
    /\ \A y \in deps : <<y.dependent, y.on>> # <<x.dependent, x.on>>
    /\ deps' = deps \cup {x}
    /\ UNCHANGED <<applicable, stage, orderVars, priceVars, refundVars>>

\* The loops before the sort.  Of several base_of rows the last one counts.
Resolve ==
    /\ stage = "configure" /\ stage' = "order"
    /\ degree' = [d \in Defs |-> Indegree(d)]
    /\ ready' = {d \in Active : Indegree(d) = 0}
    /\ baseOf' \in {f \in [Defs -> Defs \cup {NoCharge}] :
                       \A d \in Defs : IF Bases(d) = {} THEN f[d] = NoCharge
                                                        ELSE f[d] \in Bases(d)}
    /\ UNCHANGED <<inputVars, order, priceVars, refundVars>>

\* queue.sort reads the priority of each of two charges or more.
Sortable == Cardinality(ready) > 1 => ready \subseteq applicable

First(d) ==
    /\ d \in ready
    /\ Cardinality(ready) > 1 => \A e \in ready : Priority[d] <= Priority[e]

\* A variant of the next action: a neighbour is ready as soon as it is met.
PickEager(d) ==
    /\ stage = "order" /\ Sortable /\ First(d)
    /\ order' = Append(order, d)
    /\ degree' = [e \in Defs |-> IF e \in Neighbours(d) THEN 0 ELSE degree[e]]
    /\ ready' = (ready \ {d}) \cup {e \in Neighbours(d) : degree[e] > 0}
    /\ UNCHANGED <<inputVars, stage, baseOf, priceVars, refundVars>>

Pick(d) ==
    /\ stage = "order" /\ Sortable /\ First(d)
    /\ order' = Append(order, d)
    /\ degree' = [e \in Defs |-> IF e \in Neighbours(d) THEN degree[e] - 1 ELSE degree[e]]
    /\ ready' = (ready \ {d}) \cup {e \in Neighbours(d) : degree[e] = 1}
    /\ UNCHANGED <<inputVars, stage, baseOf, priceVars, refundVars>>

SortFails ==
    /\ stage = "order" /\ ~Sortable
    /\ stage' = "threw"
    /\ UNCHANGED <<inputVars, orderVars, priceVars, refundVars>>

\* The places in the order of charges in force.
Kept == {i \in DOMAIN order : order[i] \in applicable}

\* The count is all that is compared.  Ids that name no applicable charge are
\* dropped from the order.
Finish ==
    /\ stage = "order" /\ ready = {}
    /\ IF Len(order) = Cardinality(Active)
       THEN /\ stage' = "price"
            /\ \E place \in [1..Cardinality(Kept) -> Kept] :
                  /\ \A i, j \in DOMAIN place : i < j => place[i] < place[j]
                  /\ order' = [i \in DOMAIN place |-> order[place[i]]]
       ELSE /\ stage' = "threw"
            /\ UNCHANGED order
    /\ UNCHANGED <<inputVars, degree, ready, baseOf, priceVars, refundVars>>

-----------------------------------------------------------------------------
Price(d) ==
    /\ stage = "price" /\ at <= Len(order) /\ d = order[at]
    /\ at' = at + 1
    /\ UNCHANGED <<inputVars, stage, orderVars, refundVars>>

\* The best assignment waives the charge.
Waive(d) ==
    /\ Price(d)
    /\ computed' = [e \in DOMAIN computed \cup {d} |-> IF e = d THEN 0 ELSE computed[e]]
    /\ UNCHANGED lines

\* No rule set matches the context, or no rule of the set is in force.
Skip(d) ==
    /\ Price(d)
    /\ UNCHANGED <<computed, lines>>

BaseAmounts(d) ==
    CASE baseOf[d] = NoCharge -> Amounts
      [] baseOf[d] \in DOMAIN computed -> {computed[baseOf[d]]}
      [] OTHER -> {0}

Charge(d, r) ==
    /\ Price(d)
    /\ \E b \in BaseAmounts(d) :
          /\ computed' = [e \in DOMAIN computed \cup {d} |->
                             IF e = d THEN Amount(b, r) ELSE computed[e]]
          /\ lines' = [e \in DOMAIN lines \cup {d} |->
                          IF e = d THEN [base |-> b, amount |-> Amount(b, r)]
                                   ELSE lines[e]]

EndPricing ==
    /\ stage = "price" /\ at > Len(order)
    /\ stage' = "priced"
    /\ UNCHANGED <<inputVars, orderVars, priceVars, refundVars>>

-----------------------------------------------------------------------------
(* applyRefundCharges: each refund starts from the original lines *)

Refundable(d, beforeService, beforePayout) ==
    \/ Behavior[d] = "proportional"
    \/ Behavior[d] = "before_service" /\ beforeService
    \/ Behavior[d] = "before_payout" /\ beforePayout

Refunded == FoldFunction(+, 0, refunds)

Refund(share, beforeService, beforePayout) ==
    /\ stage = "priced"
    /\ Len(refunds) < MaxRefunds /\ Refunded + share <= Whole
    /\ refunds' = Append(refunds, share)
    /\ refunded' = [d \in Defs |->
                       IF d \in DOMAIN lines /\ Refundable(d, beforeService, beforePayout)
                       THEN refunded[d] + Rounded(lines[d].amount * share, Whole)
                       ELSE refunded[d]]
    /\ UNCHANGED <<inputVars, stage, orderVars, priceVars>>

-----------------------------------------------------------------------------
ChargesNext ==
    \/ \E x \in Dependencies : AddDependency(x)
    \/ Resolve \/ SortFails \/ Finish \/ EndPricing
    \/ \E d \in Defs :
          \/ Pick(d) \/ Waive(d) \/ Skip(d)
          \/ \E r \in Rules : Charge(d, r)
    \/ \E share \in Ratios, s, p \in BOOLEAN : Refund(share, s, p)

ChargesSpec == ChargesInit /\ [][ChargesNext]_chargeVars

-----------------------------------------------------------------------------
(* Properties *)

\* A set of charges each of which has to wait for another of the set.
Cyclic == \E S \in (SUBSET Active) \ {{}} :
             \A d \in S : \E x \in Edges : x.dependent = d /\ x.on \in S

\* A dependent that is loaded and not in force holds a place in the graph.
Foreign == \E x \in Edges : x.dependent \notin applicable

Before(d, e) == \E i, j \in DOMAIN order : i < j /\ order[i] = d /\ order[j] = e

\* resolveCalculationOrder (dependency-resolver.ts:36-119): when every
\* dependent is in force, pricing throws only on a circular dependency, and
\* otherwise prices each charge once, after all the charges it depends on,
\* in whatever order the queue holds charges of the same priority.
OrderedUnlessCyclic ==
    ~Foreign =>
        /\ stage = "threw" => Cyclic
        /\ stage \in {"price", "priced"} =>
              /\ {order[i] : i \in DOMAIN order} = Active
              /\ Len(order) = Cardinality(Active)
              /\ \A x \in Edges : Before(x.on, x.dependent)

\* The base of a line (engine.ts:335-342): a charge based on another one is
\* priced on the amount that one was given, waived or not, and so after it.
BasedOnComputed ==
    \A d \in DOMAIN lines :
        baseOf[d] \in DOMAIN computed => lines[d].base = computed[baseOf[d]]

\* allocateRefundCharges (engine.ts:494-565) rounds each refund's share of
\* the original charge: refunds of no more than the booking give back no more
\* than the charge and half a unit for each of them.
RefundsStayWithinRounding ==
    \A d \in DOMAIN lines : 2 * (refunded[d] - lines[d].amount) <= Len(refunds)
=============================================================================
