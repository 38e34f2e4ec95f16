\* A checkpoint, a branch, and a crash; the bounds stop the system.
SPECIFICATION AloneSpec
CONSTANTS
    x = x
    y = y
    Names = {x}
    Interval = 2
    MaxEntries = 4
    MaxBranch = 1
    MaxLives = 2
    ForkCkpts = 1
    MaxCheckpoints = 1
    MaxFaults = 0
    MaxLosses = 0
    MaxIncrements = 0
    MaxMerges = 0
    MaxStrays = 0
    MaxReleased = 0
INVARIANTS
    ViewsTrue
CHECK_DEADLOCK FALSE
