SPECIFICATION TabSpec
CONSTANTS
    Blank <- MCBlank
    Quote <- MCQuote
    Backslash <- MCBackslash
    Newline <- MCNewline
    Typed <- MCTyped
    Chars <- MCChars
    Message <- MCMessage
    Exit <- MCExit
    Clipboards <- MCClipboards
    Recalled <- MCRecalled
    Candidates <- MCCandidates
    Answers <- MCAnswers
    Garbage <- MCGarbage
    MaxLine = 3
INVARIANTS
    CursorInLine
    CompletionStands
    MessageIsNotText
    ScreenAgrees
PROPERTIES
    PasteIsConfirmed
    TabGoesRound
\* The shell may end: by the access violation in RedrawConsole.
CHECK_DEADLOCK FALSE
