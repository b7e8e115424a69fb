\* Every operation but confirm and failPayout, one call at a time, with an
\* error and an interruption.
CONSTANTS
    Settlements = {s1, s2}
    Payouts = {t1, t2}
    Calls = {c1}
    Operations = {"create", "process", "fail", "retry", "reopen", "refund",
                  "transfer",
                  "DISPUTED", "FROZEN", "HELD", "REFUNDED"}
    MaxTransfers = 4
    MaxErrors = 1
    MaxLost = 1
SPECIFICATION Spec
SYMMETRY Symmetry
INVARIANTS
    
    OnePayoutPerSettlement
    RefundedNotHeld
    RepeatedOnlyAfterInterruption
PROPERTY RefundedNeverSettled
CHECK_DEADLOCK FALSE
