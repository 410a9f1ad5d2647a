SPECIFICATION FairSpec
CONSTANTS
    Calls = {c1, c2}
    Polls = {p1}
    Clicks = {"crash", "recover", "submit", "demo"}
    MaxClicks = 2
    MaxFaults = 2
INVARIANTS
    NothingStuck
    ControlsMatchLabel
PROPERTIES
    StatusConverges
    ControlsReturn
CHECK_DEADLOCK FALSE
