SPECIFICATION Spec
CONSTANTS
    b1 = b1
    r1 = r1
    r2 = r2
    k1 = k1
    NoKey = NoKey
    NoBooking = NoBooking
    Ids = {b1}
    Headers = {k1}
    Keys <- MCKeys
    Requests = {r1, r2}
    Lines = 2
    MaxCalls = 4
    MaxFaults = 2
SYMMETRY Slots
INVARIANTS
    HandlerRunsAlone
    ChargedTwiceOnlyOnOverlap
    HistoryLeadsToStatus
    ConfirmedIsComplete
CHECK_DEADLOCK FALSE
