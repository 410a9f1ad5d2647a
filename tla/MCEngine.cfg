SPECIFICATION FairSpec
CONSTANTS
    w1 = w1
    w2 = w2
    NoTask = NoTask
    Tasks <- GraphTasks
    Dependencies <- GraphDeps
    Priority <- GraphPriority
    MaxRetries <- GraphRetries
    FirstRetry <- GraphFirstRetry
    FailPayload = {3, 5}
    Batches <- GraphBatches
    Workers = {w1, w2}
    MaxWalErrors = 2
INVARIANTS
    IInv
    DepsRespected
    HeldNotCancelled
    NoLostTask
    FailureIsCaused
    CascadeClosed
    LogCoversState
PROPERTIES
    ImplementsLifecycle
    EveryTaskSettles
CHECK_DEADLOCK FALSE
