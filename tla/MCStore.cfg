\* Two instances of the store, described in MCDurableStore; the bounds stop the system.
SPECIFICATION ComposedSpec
CONSTANTS
    x = x
    y = y
    Names = {x}
    Interval = 2
    MaxEntries = 4
    MaxBranch = 1
    MaxLives = 3
    ForkCkpts = 0
    MaxCheckpoints = 2
    MaxFaults = 1
    MaxLosses = 1
    MaxIncrements = 1
    MaxMerges = 0
    MaxStrays = 1
    MaxReleased = 2
INVARIANTS
    ViewsSurvive
    CountsMeanPrefixes
    AlwaysOpens
    GenesisReplayIsWhole
SYMMETRY NameSymmetry
CHECK_DEADLOCK FALSE
