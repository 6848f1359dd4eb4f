SPECIFICATION FairSpec
CONSTANTS
    Task = {t1, t2, t3}
    Configured = 2
    MaxRetryAfter = 2
    DelayFloor = 1
    BackoffBase = 1
    Baselines = {1}
    RecoveryWindow = 1
    MinSamples = 1
    HistoryLimit = 4
    MaxFetches = 4
INVARIANTS
    WaitersHaveAReleaser
    ReportIsTrue
PROPERTIES
    StartsKeepTheirDistance
    WaitersAreServed
