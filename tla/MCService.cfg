SPECIFICATION FairSpec
CONSTANTS
    Submits = {"s1", "s2"}
    Crashes = {"c1", "c2"}
    Recoveries = {"r1"}
    Batch <- OneBatch
    Key <- OneKey
    QueueLimit = 0
    MaxErrors = 1
    None = None
INVARIANTS
    OneScheduler
    AcceptedOnce
    AcceptedIsKnown
PROPERTY
    RequestsReturn
CHECK_DEADLOCK FALSE
