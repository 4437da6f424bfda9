SPECIFICATION BackSpec
CONSTANTS
    d1 = d1
    d2 = d2
    d3 = d3
    d4 = d4
    Dirs <- MCDirs4
    StartDir = d1
INVARIANTS
    NoDuplicates
    KnowsWhereItIs
PROPERTIES
    OnlyForwardAtNewestForgets
    ForwardUndoesBack
    BackReachesOldest
\* The shell ends: by exit, or by the out-of-range read.
CHECK_DEADLOCK FALSE
