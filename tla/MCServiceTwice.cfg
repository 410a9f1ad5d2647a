SPECIFICATION Spec
CONSTANTS
    Submits = {"s1"}
    Crashes = {"c1"}
    Recoveries = {"r1", "r2"}
    Batch <- OneBatch
    Key <- OneKey
    QueueLimit = 0
    MaxErrors = 0
    None = None
INVARIANT
    OneScheduler
CHECK_DEADLOCK FALSE
