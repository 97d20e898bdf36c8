SPECIFICATION RunSpec
CONSTANTS
    maxRecentPaths = 2
    Word = 4
    Ops = {"inventory"}
    Events = {}
    BusCap = 1
    MaxEvents = 0
    MaxTicks = 1
    MaxMessages = 4
    MaxSignals = 1
    MaxEntries = 3
INVARIANTS
    StreamIsPrefix
    SuccessIsComplete
    EncodeErrorWins
    DriverImportsWhole
PROPERTIES
    ImplementsMain
    RunAnswered
