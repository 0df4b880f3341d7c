SPECIFICATION Spec
CONSTANTS
    r1 = r1
    r2 = r2
    Customer = Customer
    NoCopy = NoCopy
    Roles = {Customer}
    Requests = {r1, r2}
    MaxCalls = 4
    MaxFaults = 1
SYMMETRY Slots
INVARIANTS
    CredentialsWorkOnce
    ResetEndsOldSessions
    CopyIsCurrent
CHECK_DEADLOCK FALSE
