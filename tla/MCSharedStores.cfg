SPECIFICATION SharedSpec
CONSTANTS
    Procs = {p1, p2}
    IDs = {s1, s2}
SYMMETRY Symmetry
INVARIANTS
    SyncCovers
    RetransferOnlyIfRaced
