---------------------------- MODULE MCLineEditor ----------------------------
(***************************************************************************)
(* Lines over a letter and the blank, with a backslash in a recalled       *)
(* command; "?" stands for the message about the newline "\n" in the       *)
(* clipboard and "x" for "exit".                                           *)
(***************************************************************************)
EXTENDS LineEditor

MCBlank == " "
MCQuote == "\""
MCBackslash == "\\"
MCNewline == "\n"

MCTyped == {"a", MCBlank}
MCChars == MCTyped \cup {MCBackslash, MCQuote, MCNewline, "?", "x"}
MCMessage == <<"?">>
MCExit == <<"x">>
MCGarbage == {7}

MCClipboards == {<<"a">>, <<MCNewline>>}
MCRecalled == {<<"a", MCBlank>>, <<"a", MCBackslash, "a">>}

MCCandidates == {<<"a">>, <<"a", "a">>, <<MCBlank>>}

\* Two candidates, one that has to be quoted, one that a blank follows, none.
MCAnswers == {[results |-> <<<<"a">>, <<"a", "a">>>>, space |-> FALSE],
              [results |-> <<<<MCBlank>>>>, space |-> FALSE],
              [results |-> <<<<"a">>>>, space |-> TRUE],
              [results |-> <<>>, space |-> TRUE]}

=============================================================================
