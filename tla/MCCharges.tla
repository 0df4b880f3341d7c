------------------------------- MODULE MCCharges ------------------------------
EXTENDS Charges, TLC

\* A commission, a tax on it and a fee.
CONSTANTS commission, vat, fee

MCPriority == (commission :> 1) @@ (vat :> 2) @@ (fee :> 2)
MCBehavior == (commission :> "before_payout") @@ (vat :> "proportional")
                 @@ (fee :> "before_service")
Share == [rate |-> 1, fixed |-> 0, min |-> 0, max |-> 9, inclusive |-> FALSE]
MCRules == {[Share EXCEPT !.inclusive = TRUE, !.min = 1],
            [Share EXCEPT !.rate = 0, !.fixed = 9, !.max = 3]}
=============================================================================
