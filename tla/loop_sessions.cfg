SPECIFICATION Spec
CONSTANTS
    Keys = {k1, k2}
    Kinds = {"chat", "stop", "new", "command", "empty"}
    MaxRequests = 2
    MaxTurns = 2
    MaxCalls = 2
    Outcomes = {"error", "answer", "blank", "calls", "talk"}
    MemoryWindow = 4
    Stops = {}
SYMMETRY KeySymmetry
INVARIANTS
    TypeOK
    RequestsSafe
    TranscriptSafe
PROPERTIES
    ImplementsFlow
