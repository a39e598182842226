SPECIFICATION Spec
CONSTANTS
    Runs = {h1, h2}
    MaxTabSwitches = 1
    MaxFocusLoss = 2
    MaxSessions = 2
    MaxMounts = 2
    MaxRecorded = 2
    MaxOnTheWay = 1
    MaxFaults = 1
SYMMETRY RunSymmetry
INVARIANTS WatchedToTheLimit LogIsOwn
CHECK_DEADLOCK FALSE
