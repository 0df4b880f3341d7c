SPECIFICATION Spec
CONSTANTS
    r1 = r1
    r2 = r2
    a1 = a1
    a2 = a2
    Asks = {r1, r2}
    Approvals = {a1, a2}
    Paid = 2
    Threshold = 1
    MaxPosts = 2
    MaxFaults = 2
SYMMETRY Alike
INVARIANTS
    RefundedTwiceOnlyInDoubt
    RefundedInFull
    StatusShowsTotal
CHECK_DEADLOCK FALSE
