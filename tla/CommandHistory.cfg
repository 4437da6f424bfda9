SPECIFICATION Spec
CONSTANTS
    Lines <- MCLines
    HistoryFiles <- MCHistoryFiles
    MaxCommands = 5
INVARIANT
    SearchFindsNearest
PROPERTY
    SearchCyclesThroughMatches
\* Without a command nothing moves, and the list is bounded.
CHECK_DEADLOCK FALSE
