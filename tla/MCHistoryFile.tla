---------------------------- MODULE MCHistoryFile ----------------------------
(***************************************************************************)
(* Three shells, two of which may overlap before the third reads what they *)
(* left; a command of two characters and one with a newline.            *)
(***************************************************************************)
EXTENDS HistoryFile

CONSTANTS s1, s2, s3

MCCommands == {<<"a", "b">>, <<"c", "\n", "d">>}
MCNewline == "\n"
MCNul == "nul"

Symmetric == Permutations(Shells)

=============================================================================
