SPECIFICATION Spec
CONSTANTS
    h1 = h1
    h2 = h2
    h3 = h3
    N = 2
    Hooks = {h1, h2, h3}
    MaxAborts = 1
SYMMETRY Callbacks
INVARIANTS
    PaidInFullUnlessEarly
    LastCallbackSettles
    PostedTwiceOnlyOnOverlap
CHECK_DEADLOCK FALSE
