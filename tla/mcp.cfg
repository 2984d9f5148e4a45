SPECIFICATION FairSpec
CONSTANTS
    Runs <- MCRuns
    Kinds = {"stdio", "websocket", "sse", "streamable_http"}
    MaxAttempts = 5
    MaxCrashes = 1
    MaxMishaps = 1
INVARIANTS AnswerIsOwn CallsSafe NoUseAfterClose
PROPERTY EveryRunEnds
