SPECIFICATION RecordsSpec
CONSTANTS
    MaxLength = 8
    MaxCalls = 3
    MaxMessages = 3
    MaxCrashes = 2
    Sizes = {"short", "long"}
    Workers = {w1, w2}
    NoText = NoText
    Requests <- MCRequests
    LogEntries = {"log"}
    Edits <- MCEdits
    StartsWith <- MCStartsWith
    FactCap = 2
    HistoryCap = 2
    TokenLimit = 2
    NewlinesKept = 2
    MaxPromoted = 1
    MaxClock = 2
    MaxToolCalls = 2
    MaxLogs = 1
    MaxMishaps = 1
SYMMETRY WorkerSymmetry
INVARIANTS
    StoreSafe
    WindowSafe
    MemorySafe
PROPERTIES
    RestartIsPrefix
CHECK_DEADLOCK FALSE
