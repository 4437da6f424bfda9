----------------------------- MODULE MCSession -----------------------------
(***************************************************************************)
(* Lines of one character: "x", which is also what Ctrl-D puts there (it   *)
(* stands for "exit"), or the newline of the clipboard.  "?" stands for    *)
(* the message.                                                            *)
(***************************************************************************)
EXTENDS Session

CONSTANTS d1, d2

MCBlank == " "
MCQuote == "\""
MCBackslash == "\\"
MCNewline == "\n"

MCExit == <<"x">>
MCTyped == {"x"}
MCMessage == <<"?">>
MCChars == {MCBlank, MCQuote, MCBackslash, MCNewline, "x", "?"}
MCGarbage == {7}
MCClipboards == {<<MCNewline>>}
MCLines == {<<>>, <<"x">>, <<MCNewline>>}
MCRecalled == MCLines \ {<<>>}
MCHistoryFiles == {<<>>}

=============================================================================
