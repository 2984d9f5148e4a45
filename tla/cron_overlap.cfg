SPECIFICATION CronSpec
CONSTANTS
    Names = {"a", "b"}
    Schedules = {"once"}
    Horizon = 3
    MaxCalls = 2
INVARIANTS
    NewJobsKept
