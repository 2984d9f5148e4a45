SPECIFICATION Spec
CONSTANTS
    Keys = {k1}
    Kinds = {"chat", "skill"}
    MaxRequests = 2
    MaxTurns = 2
    MaxCalls = 1
    Outcomes = {"answer", "calls"}
    MemoryWindow = 100
    Stops = {}
PROPERTIES
    ImplementsFlow
