SPECIFICATION DirectorySpec
CONSTANTS
    d1 = d1
    d2 = d2
    d3 = d3
    d4 = d4
    Dirs <- MCDirs3
    StartDir = d1
CHECK_DEADLOCK FALSE
INVARIANT IndexInRange
