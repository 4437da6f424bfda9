SPECIFICATION Spec
CONSTANTS
    Blank = Blank
    Output = Output
    Lines <- MCLines
    Sizes <- MCSizes
INVARIANTS
    ShowsLine
    DiesOnlyOfLongLines
PROPERTIES
    NothingLeftOver
    TextAboveStays
\* The shell may end.
CHECK_DEADLOCK FALSE
