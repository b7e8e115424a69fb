\* A company that does everything and one of its PAN that takes the free plan;
\* a year of two days, a grace period of two.
CONSTANTS
    Companies = {k1, k2}
    Managed = {k1}
    Calls = {c1}
    Year = 2
    TrialDays = 1
    FreeDays = 1
    GraceDays = 2
    AdminGraceDays = 1
SPECIFICATION FairSpec
 
PROPERTIES
    JobsEndOnlyWhatIsOver
    LapseEndsService
    GraceEnds
CHECK_DEADLOCK FALSE
