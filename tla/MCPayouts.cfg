SPECIFICATION Spec
CONSTANTS
    b1 = b1
    b2 = b2
    k1 = k1
    k2 = k2
    d2 = d2
    d1 = d1
    h1 = h1
    Bookings = {b1, b2}
    Keys = {k1}
    Threshold = 1
    Runs = {d1, d2}
    Dispatches = {d1, d2}
    Retries = {d1, d2}
    Approvals = {d1, d2}
    Hooks = {h1}
    MaxPosts = 2
    MaxFaults = 2
INVARIANTS
    SentTwiceOnlyInDoubt
    SucceededOnlyIfSent
    SentIsLinked
SYMMETRY Alike
CHECK_DEADLOCK FALSE
