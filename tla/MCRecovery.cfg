SPECIFICATION RecoveryFairSpec
CONSTANTS
    w1 = w1
    w2 = w2
    NoTask = NoTask
    Tasks <- DiamondTasks
    Dependencies <- DiamondDeps
    Priority <- DiamondPriority
    MaxRetries <- DiamondRetries
    FirstRetry <- DiamondFirstRetry
    FailPayload = {2}
    Batches <- DiamondBatches
    Workers = {w1, w2}
    MaxWalErrors = 0
    MaxCrashes = 2
INVARIANTS
    CompletedSurvives
    FailedSurvives
    BudgetSurvives
    NoRerunOfCompleted
    NothingForgotten
    MetricsMatchInEveryLife
PROPERTIES
    RecoverableTasksComplete
    CrashReturns
CHECK_DEADLOCK FALSE
