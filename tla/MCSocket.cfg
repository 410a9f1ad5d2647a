SPECIFICATION FairSpec
CONSTANTS
    NoSocket = NoSocket
    Sockets = {s1, s2}
    Panels = {"canvas", "stream"}
    Kinds = {"task"}
    MaxSent = 3
    MaxRuns = 2
    MaxFaults = 2
INVARIANT
    SInv
PROPERTIES
    ImplementsFeed
    Reconnects
    EventsArrive
CHECK_DEADLOCK FALSE
