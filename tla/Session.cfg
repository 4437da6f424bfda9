SPECIFICATION Spec
CONSTANTS
    Blank <- MCBlank
    Quote <- MCQuote
    Backslash <- MCBackslash
    Chars <- MCChars
    Typed <- MCTyped
    Newline <- MCNewline
    Message <- MCMessage
    Exit <- MCExit
    Clipboards <- MCClipboards
    Recalled <- MCRecalled
    Candidates = {}
    Answers = {}
    Garbage <- MCGarbage
    MaxLine = 1
    Lines <- MCLines
    HistoryFiles <- MCHistoryFiles
    MaxCommands = 2
    d1 = d1
    d2 = d2
    Dirs = {d1, d2}
    StartDir = d1
    Nowhere = Nowhere
PROPERTIES
    ComponentsImplemented
    WhatIsShownRuns
    UpRecallsWhatRan
    AltRightTakesBack
    MaintainsCommand
\* The shell ends.
CHECK_DEADLOCK FALSE
