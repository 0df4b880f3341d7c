SPECIFICATION PolledSpec
CONSTANTS
    b1 = b1
    p1 = p1
    p2 = p2
    x1 = x1
    c1 = c1
    c2 = c2
    h1 = h1
    h2 = h2
    g1 = g1
    d1 = d1
    None = None
    Bookings = {b1}
    Payments = {p1}
    BookingOf <- OnePayment
    Strays = {}
    Checkouts = {c1}
    Hooks = {h1, h2}
    Pages = {g1}
    Desk = {}
    Recycled = {g1, h1}
    MaxAborts = 1
PROPERTIES
    NeverContradicted
    ProcessingIsSettled
    CollectedIsRecorded
CHECK_DEADLOCK FALSE
