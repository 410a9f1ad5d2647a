SPECIFICATION Spec
CONSTANTS
    Templates <- AllTemplates
    MaxNodes = 9
    MaxEdits = 3
    MaxSubmits = 2
INVARIANTS
    CanvasWellFormed
    ValidationIsExact
CHECK_DEADLOCK FALSE
