\* Up to two crashes, key changes and I/O errors, in any order and mixture; the
\* bounds stop the system.
SPECIFICATION Spec
CONSTANTS
    SegmentCells = 3
    MaxBatch = 2
    MaxId = 5
    MaxSegment = 3
    MaxTroubles = 2
INVARIANTS
    TypeOK
    NothingLost
    OrderKept
    AlwaysReopens
PROPERTIES
    ImplementsDurableLog
CHECK_DEADLOCK FALSE
