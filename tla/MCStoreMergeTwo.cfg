\* Two branches merged one after the other; the bounds stop the system.
SPECIFICATION AloneSpec
CONSTANTS
    x = x
    y = y
    Names = {x, y}
    Interval = 9
    MaxEntries = 6
    MaxBranch = 2
    MaxLives = 1
    ForkCkpts = 2
    MaxCheckpoints = 0
    MaxFaults = 0
    MaxLosses = 0
    MaxIncrements = 2
    MaxMerges = 2
    MaxStrays = 0
    MaxReleased = 0
PROPERTIES
    MergeKeepsStates
SYMMETRY NameSymmetry
CHECK_DEADLOCK FALSE
