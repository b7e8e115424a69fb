\* Every kind of payment, two of them, through payments/verify, beside the
\* webhook, retries, refunds and cancellation.
CONSTANTS
    Payments = {p1, p2}
    Calls = {c1, c2}
    Kinds = {"SUBSCRIPTION", "CREDIT_PACK_PURCHASE", "ORDER_PAYMENT"}
    GenericKinds = {"SUBSCRIPTION", "CREDIT_PACK_PURCHASE", "ORDER_PAYMENT"}
    EventIds = {FALSE}
    Price = 1
    MaxDeclines = 1
    MaxFailures = 0
SPECIFICATION Spec
SYMMETRY Symmetry
INVARIANT EffectsMeanMoney
 
CHECK_DEADLOCK FALSE
