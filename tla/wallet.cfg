\* Every operation, with one call at a time or two that overlap.
CONSTANTS
    Entries = {e1, e2, e3, e4}
    Redemptions = {r1}
    Keys = {k1}
    Calls = {c1, c2}
    Amounts = {1, 2}
SPECIFICATION Spec
SYMMETRY Symmetry
INVARIANTS
    AvailableIsLedgerSum
    BalancesAgree
    DebitedIffApproved
CHECK_DEADLOCK FALSE
