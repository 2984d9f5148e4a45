SPECIFICATION SubFairSpec
CONSTANTS
    Spawners = {s1}
    MaxSpawns = 2
    Limit = 2
    MaxSends = 2
    DrainAttempts = 1
INVARIANTS
    SubagentsSafe
PROPERTIES
    SubagentEnds
