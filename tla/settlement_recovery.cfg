\* A step of the settlement fails; the jobs, another call and what people
\* do run beside it.
CONSTANTS
    Settlements = {s1}
    Payouts = {t1, t2}
    Calls = {c1, c2}
    Operations = {"refund", "DISPUTED", "confirm", "failPayout"}
    MaxTransfers = 2
    MaxErrors = 1
    MaxLost = 0
SPECIFICATION FairSpec
PROPERTY SettlementPaidOut
CHECK_DEADLOCK FALSE
