SPECIFICATION Spec
CONSTANTS
    b1 = b1
    p1 = p1
    p2 = p2
    x1 = x1
    c1 = c1
    c2 = c2
    h1 = h1
    h2 = h2
    g1 = g1
    d1 = d1
    None = None
    Bookings = {b1}
    Payments = {p1, p2}
    BookingOf <- OneBooking
    Strays = {x1}
    Checkouts = {c1, c2}
    Hooks = {h1, h2}
    Pages = {}
    Desk = {d1}
    Recycled = {}
    MaxAborts = 1
SYMMETRY Twins
INVARIANTS
    AckedSuccessIsRecorded
    ChargedTwiceOnlyOnOverlap
PROPERTIES
    CollectionsSpec
CHECK_DEADLOCK FALSE
