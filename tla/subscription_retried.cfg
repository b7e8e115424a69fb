\* A declined subscription payment is retried and then paid.
CONSTANTS
    Payments = {p1, p2}
    Calls = {c1}
    Kinds = {"SUBSCRIPTION"}
    GenericKinds = {}
    EventIds = {FALSE}
    Price = 2
    MaxDeclines = 1
    MaxFailures = 0
SPECIFICATION Spec
INVARIANT NoStrandedSubscription
CHECK_DEADLOCK FALSE
