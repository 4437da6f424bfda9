SPECIFICATION Spec
CONSTANTS
    Shell = Shell
    Other = Other
    Child = Child
    One = One
    Two = Two
    Missing = Missing
    Prefix = Prefix
    Newline = Newline
    Words <- MCWords
    BranchWord = BranchWord
    CommitWord = CommitWord
    Threads = {Shell, Other}
    Images <- MCImages
    Repositories <- MCRepositories
INVARIANTS
    DiesOnlyRaced
    FreesWhatItGot
PROPERTY
    PromptTellsRepository
\* The shell ends.
CHECK_DEADLOCK FALSE
