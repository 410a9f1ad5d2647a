SPECIFICATION Spec
CONSTANTS
    w1 = w1
    w2 = w2
    Tasks = {"a", "b"}
    Slots = {w1, w2}
    Workers = {w1, w2}
    None = None
    MaxRetries <- SmallBudgets
    FirstRetry <- FirstRetries
    MaxCrashes = 1
    MaxFaults = 1
    MaxStream = 2
SYMMETRY PanelsSymmetry
INVARIANTS
    ExecutingIsReal
    CountsAreReal
    TimersAreBackoffs
    FailuresShownFinal
CHECK_DEADLOCK FALSE
