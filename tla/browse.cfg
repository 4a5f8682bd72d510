SPECIFICATION Spec
CONSTANTS
    w1 = w1
    w2 = w2
    w3 = w3
    MaxInt = 127
    MaxRecords = 3
    PageSize = 1
    Writers <- ThreeWriters
    LastMoment = 2
SYMMETRY WriterSymmetry
INVARIANTS
    BInv
    WalkInv
    OverlookedOnlyForDepartures
    TotalExplained
PROPERTY RecordsMoveUp
\* the client reaches the last page and every writer is done
CHECK_DEADLOCK FALSE
