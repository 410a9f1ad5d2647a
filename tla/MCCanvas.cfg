SPECIFICATION Spec
CONSTANTS
    f1 = f1
    u1 = u1
    u2 = u2
    Names <- MCNames
    Edges <- MCEdges
    Submits = {u1, u2}
    Fetches = {f1}
    MaxSubmits = 2
    MaxRetries = 1
    MaxWire = 2
    MaxUpsets = 1
SYMMETRY CanvasSymmetry
INVARIANTS
    OutcomesAreReal
    CanvasAgrees
    ReadyIsReal
CHECK_DEADLOCK FALSE
