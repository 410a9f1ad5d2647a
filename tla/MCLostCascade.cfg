SPECIFICATION RecoverySpec
CONSTANTS
    w1 = w1
    w2 = w2
    NoTask = NoTask
    Tasks <- ChainTasks
    Dependencies <- ChainDeps
    Priority <- ChainPriority
    MaxRetries <- ChainRetries
    FirstRetry <- ChainFirstRetry
    FailPayload = {1}
    Batches <- ChainBatches
    Workers = {w1, w2}
    MaxWalErrors = 0
    MaxCrashes = 1
INVARIANT
    CascadeSurvives
CHECK_DEADLOCK FALSE
