SPECIFICATION FairSpec
CONSTANTS
    Keys = {k1}
    Kinds = {"chat", "job", "skill", "exit"}
    MaxRequests = 2
    MaxTurns = 2
    MaxCalls = 1
    Outcomes = {"error", "answer", "blank", "calls"}
    MemoryWindow = 100
    Stops = {"signal", "cleanup"}
INVARIANTS
    JobLeavesNoTrace
PROPERTIES
    RecordsStay
    EveryRequestAnswered
    StopHonoured
