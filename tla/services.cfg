SPECIFICATION ServicesSpec
CONSTANTS
    Workers = {w1, w2}
    Async = {a}
    Timed = {t}
    Untimed = {u}
    Calls = {c1, c2, c3}
    Names = {"a", "b"}
    Schedules = {"once", "every", "bad"}
    Horizon = 3
    MaxCalls = 2
INVARIANTS
    ExecutorSafe
    LlmSafe
    JobsKept
    WalkSafe
PROPERTIES
    ExecutorLive
    EveryCallAnswered
    DueJobsFire
