SPECIFICATION ConnSpec
CONSTANT
    N = 3
INVARIANTS
    NoOrphan
PROPERTIES
    CloseBeforeCut
    ClosesEnd
    CancelEnds
