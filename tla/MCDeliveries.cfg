SPECIFICATION DeliveriesSpec
CONSTANTS
    x1 = x1
    w1 = w1
    w2 = w2
    Deliveries = {x1}
    Workers = {w1, w2}
    MaxRetries = 2
    MaxFaults = 3
INVARIANTS
    ReceivedTwiceOnlyIfTakenAgain
PROPERTIES
    SentIsPosted
CHECK_DEADLOCK FALSE
