SPECIFICATION RecoverySpec
CONSTANTS
    w1 = w1
    w2 = w2
    NoTask = NoTask
    Tasks <- OverlapTasks
    Dependencies <- OverlapDeps
    Priority <- OverlapPriority
    MaxRetries <- OverlapRetries
    FirstRetry <- OverlapFirstRetry
    FailPayload = {}
    Batches <- OverlapBatches
    Workers = {w1, w2}
    MaxWalErrors = 0
    MaxCrashes = 1
INVARIANT
    AcceptedSurvives
CHECK_DEADLOCK FALSE
