SPECIFICATION Spec
CONSTANTS
    Blank <- MCBlank
    Quote <- MCQuote
    Backslash <- MCBackslash
    Chars <- MCChars
    MaxLine = 6
    Candidates <- MCCandidates
    Slash <- MCSlash
    Dash <- MCDash
    Git <- MCGit
    Checkout <- MCCheckout
    Ninja <- MCNinja
    InDirectory <- MCInDirectory
    SetCommand <- MCSet
    DirectoryCommands <- MCDirectoryCommands
    Porcelain <- MCPorcelain
    CheckoutArgs <- MCCheckoutArgs
    Refs <- MCRefs
    Targets <- MCTargets
    Variables <- MCVariables
    Builtins <- MCBuiltins
    Programs <- MCPrograms
    Entries <- MCEntries
    Folded <- MCFolded
    Beginnings <- MCBeginnings
INVARIANTS
    WordCountAgrees
    CursorWord
    QuotedWordComesBack
    InsertedWordStands
    CompletesTheArgument
\* The line is bounded.
CHECK_DEADLOCK FALSE
