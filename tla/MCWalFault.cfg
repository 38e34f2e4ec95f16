\* One crash, key change or I/O error.
SPECIFICATION Spec
CONSTANTS
    SegmentCells = 3
    MaxBatch = 2
    MaxId = 4
    MaxSegment = 3
    MaxTroubles = 1
INVARIANTS
    AckedSurvives
CHECK_DEADLOCK FALSE
