SPECIFICATION FreshSpec
CONSTANTS
    Locations = {A}
    Passphrases = {"p"}
    IDs = {s1}
    MaxJobs = 2
INVARIANT
    CreatedStoreOpens
