\* Two claimants and two referred, each person able to come twice at once.
CONSTANTS
    Users = {u1, u2}
    Emails = {e1, e2}
    Claims = {m1, m2, m3}
    Usages = {r1, r2}
    Calls = {c1, c2}
    Budgets = {2, 3}
    Reward = 2
    MaxClaims = 2
    PerUserLimit = 1
    MaxUsage = 1
    MaxRequests = 5
SPECIFICATION Spec
SYMMETRY Symmetry
INVARIANTS
    PaidMeansCredited
    CountersAddUp
    CampaignLimitsHold
    ReferralLimitHolds
CHECK_DEADLOCK FALSE
