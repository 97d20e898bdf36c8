SPECIFICATION FairSpec
CONSTANTS
    maxRecentPaths = 2
    Word = 4
    Ops = {"restore", "backup", "check", "inventory", "prune"}
    Events <- RestoreEvents
    BusCap = 1
    MaxEvents = 2
    MaxTicks = 1
    MaxMessages = 1
    MaxSignals = 2
INVARIANTS
    TypeOK
    NoFalseSuccess
    ExitMeansAnswered
PROPERTIES
    RefinesReplyStream
    Answered
    SignalEndsRun
