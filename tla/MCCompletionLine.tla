-------------------------- MODULE MCCompletionLine --------------------------
(***************************************************************************)
(* The three characters the rules are about and one that they are not,     *)
(* typed after nothing and after the beginnings of commands that have      *)
(* completers of their own.  A command's name is one letter.               *)
(***************************************************************************)
EXTENDS Completers

MCBlank == " "
MCQuote == "\""
MCBackslash == "\\"
MCSlash == "/"
MCDash == "-"

MCChars == {MCBlank, MCQuote, MCBackslash, "a"}

MCCandidates == BoundedSeq(MCChars, 2)

MCGit == <<"g">>
MCCheckout == <<"c">>
MCNinja == <<"n">>
MCInDirectory == <<"-", "c">>
MCSet == <<"s">>
MCDirectoryCommands == {<<"d">>}

MCBeginnings ==
    {<<>>, <<"g", " ">>, <<"g", " ", "c", " ">>, <<"g", " ", "c", " ", "-">>,
     <<"n", " ">>, <<"n", " ", "-", "c", " ">>, <<"s", " ">>, <<"d", " ">>}

MCPorcelain == {MCCheckout, <<"a", "d">>}
MCCheckoutArgs == {<<"-", "-", "o">>}
MCRefs == {<<"a", "/", "r">>, <<"a">>}
MCTargets == {<<"a", "t">>}
MCVariables == {<<"A", "v">>, <<"v">>}
MCBuiltins == {MCSet, <<"d">>}
MCPrograms == {[name |-> <<"a">>, extension |-> <<"a", "e">>],
               [name |-> MCGit, extension |-> <<"e">>]}
MCEntries == {[directory |-> <<>>, name |-> <<"A">>, isDirectory |-> TRUE],
              [directory |-> <<>>, name |-> <<"a", " ", "b">>, isDirectory |-> FALSE],
              [directory |-> <<"A", "\\">>, name |-> <<"a", "b">>, isDirectory |-> FALSE],
              [directory |-> <<"\\">>, name |-> <<"a">>, isDirectory |-> TRUE]}

MCLetters == MCChars \cup {"/", "-", "A", "b", "c", "d", "e", "g", "n", "o", "r", "s", "t", "v"}
MCFolded == [c \in MCLetters |-> IF c = "A" THEN "a" ELSE c]

=============================================================================
