SPECIFICATION Spec
CONSTANTS
    s1 = s1
    s2 = s2
    s3 = s3
    Shells = {s1, s2, s3}
    Commands <- MCCommands
    Newline <- MCNewline
    Nul <- MCNul
    BlockSize = 4
    MaxSaved = 2
    MaxCommands = 3
SYMMETRY Symmetric
INVARIANTS
    NothingInvented
PROPERTIES
    LoadsWhatWasSaved
    FailsOnlyTorn
\* Every shell ends.
CHECK_DEADLOCK FALSE
