SPECIFICATION EndingSpec
CONSTANTS
    p1 = p1
    p2 = p2
    Null = Null
    Procs = {p1, p2}
    MayMiss = {p1, p2}
    MayNotStart = {p1, p2}
    MaxChunks = 2
    MaxInterrupts = 1
    MaxSets = 1
INVARIANTS
    NothingIsLost
    EveryReadIsAnswered
    FatalOnlyOfStart
PROPERTY
    SetReturns
\* The number of sets is bounded.
CHECK_DEADLOCK FALSE
