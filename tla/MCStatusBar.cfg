SPECIFICATION FairSpec
CONSTANTS
    MaxDone = 2
    MaxClock = 2
    MaxTicks = 2
    MaxFetches = 2
    MaxCrashes = 1
    MaxFaults = 1
INVARIANT
    UptimeNeverAhead
PROPERTY
    MetricsConverge
CHECK_DEADLOCK FALSE
