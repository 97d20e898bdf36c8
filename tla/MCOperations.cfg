SPECIFICATION Spec
CONSTANTS
    Locations = {A, B}
    Passphrases = {"p", "q"}
    IDs = {s1, s2}
    MaxJobs = 2
SYMMETRY Symmetry
INVARIANTS
    ClosedBeforeWhatItNeeds
    NothingLeaks
    SuccessIsTotal
    NoRetransfer
