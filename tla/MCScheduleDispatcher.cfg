SPECIFICATION ScheduleSpec
CONSTANTS
    Replicas = {r1, r2}
    Nobody = Nobody
    Period = 2
    RetryAfter = 1
    MaxTime = 4
    MaxTroubles = 1
CHECK_DEADLOCK FALSE
INVARIANTS OneScanPerRun OneScanAtATime
PROPERTIES SkipReachesTheNextRun DueRunIsDecided
