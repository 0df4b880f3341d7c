----------------------------- MODULE MCApprovals ----------------------------
(* A small instance of Approvals for TLC: two steps in force, the second   *)
(* one with a quorum of two, and a candidate who may delegate to the       *)
(* requester.  The candidate's role at p, which step 1 asks for, has been  *)
(* removed; step 2 asks for a permission his role at q gives.              *)
EXTENDS Approvals, TLC

CONSTANTS req, u1, d1, d2, d3

Row(u, role, provider, active) ==
    [user |-> u, role |-> role, provider |-> provider, active |-> active]

MCUserRoles == {Row(req, "finance", "p", TRUE), Row(u1, "finance", "p", FALSE),
                Row(u1, "manager", "q", TRUE)}
MCGrants == {<<"finance", "refund">>, <<"manager", "refund">>}
MCOrgUnits == {<<"coast", "p">>}
Rule(type, value) == [type |-> type, value |-> value]
MCRules == (1 :> {Rule("role", "finance")})
              @@ (2 :> {Rule("capability", "refund"), Rule("expression", "any")})
              @@ (3 :> {Rule("org_unit", "coast")})
MCModes == (1 :> "any") @@ (2 :> "random") @@ (3 :> "all")
MCQuorum == (1 :> 0) @@ (2 :> 2) @@ (3 :> 0)
MCEscalateTo == (1 :> 2) @@ (2 :> 1) @@ (3 :> 0)
MCDeputies == {<<u1, req>>}

Alike == Permutations(Calls)
=============================================================================
