\* Two requests at once beside payments captured and refunded late.
CONSTANTS
    Locations = {l1, l2}
    Returns = {r1, r2}
    Calls = {c1, c2}
    MaxRequests = 12
    MaxPayments = 1
SPECIFICATION Spec
SYMMETRY Symmetry
INVARIANTS
    NoStageSkipped
PROPERTIES
    ClosedStaysClosed
CHECK_DEADLOCK FALSE
