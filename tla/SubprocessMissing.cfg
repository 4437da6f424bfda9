SPECIFICATION Spec
CONSTANTS
    p1 = p1
    p2 = p2
    Null = Null
    Procs = {p1, p2}
    MayMiss = {p1, p2}
    MayNotStart = {p1, p2}
    MaxChunks = 1
    MaxInterrupts = 0
    MaxSets = 1
INVARIANT MissingIsNormal
\* The number of sets is bounded.
CHECK_DEADLOCK FALSE
