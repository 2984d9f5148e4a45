SPECIFICATION FairSpec
CONSTANTS
    Producers = {p1, p2}
    Blocking = {out}
    Polling = {poll}
    InitialCapacity = 2
    MaxSends = 3
    Garbage = Garbage
INVARIANTS
    TypeOK
    FifoInv
    NoLostWakeup
    OwnedOnce
PROPERTIES
    ImplementsFifo
    QueueLive
