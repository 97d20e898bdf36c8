SPECIFICATION MCSpec
CONSTANTS
    maxRecentPaths = 2
    Word = 4
    Events <- AllEvents
    MaxEvents = 5
    MaxReads = 2
INVARIANTS
    RecentPathsMatchHistory
    LivePathsShown
    FoldMatchesHistory
    ReadoutRuns
