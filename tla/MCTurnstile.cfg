CONSTANTS
    w1 = w1
    w2 = w2
    w3 = w3
    Thread <- MCThread
    MaxTickets = 7
SPECIFICATION FairSpec
INVARIANTS
    IInv
    MutualExclusion
    ContendedExact
    NoLostWakeup
PROPERTIES
    ImplementsFifoLock
    EveryTurnComes
CHECK_DEADLOCK FALSE
