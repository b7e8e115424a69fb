\* Two disputes of one order, two requests at once, beside the expiry job,
\* administrators and a refund of the payment.
CONSTANTS
    Disputes = {d1, d2}
    Calls = {c1, c2}
    EvidenceLimit = 1
    MaxRequests = 5
SPECIFICATION Spec
SYMMETRY Symmetry
INVARIANTS
    DisputedAwaitsVerdict
    MoneyMovedByVerdict
    AppealFollowsVerdict
PROPERTY ClosedStaysClosed
CHECK_DEADLOCK FALSE
