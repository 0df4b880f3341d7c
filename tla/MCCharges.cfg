SPECIFICATION ChargesSpec
CONSTANTS
    commission = commission
    vat = vat
    fee = fee
    Defs = {commission, vat, fee}
    NoCharge = NoCharge
    Priority <- MCPriority
    Behavior <- MCBehavior
    Rules <- MCRules
    Amounts = {5}
    Whole = 3
    Ratios = {1, 3}
    MaxDeps = 3
    MaxRefunds = 3
INVARIANTS
    OrderedUnlessCyclic
    BasedOnComputed
    RefundsStayWithinRounding
CHECK_DEADLOCK FALSE
