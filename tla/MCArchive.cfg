SPECIFICATION FairSpec
CONSTANTS
    Window = 1
    MaxSegment = 3
    MaxTime = 2
    MaxFaults = 2
    MaxRots = 1
    MaxRestarts = 1
CHECK_DEADLOCK FALSE
INVARIANTS
    TypeOK
    Recoverable
    DrillsAgree
PROPERTIES
    EventuallyReleased
