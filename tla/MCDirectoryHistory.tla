------------------------- MODULE MCDirectoryHistory -------------------------
(***************************************************************************)
(* Small instances of DirectoryHistory for TLC.                            *)
(***************************************************************************)
EXTENDS DirectoryHistory

CONSTANTS d1, d2, d3, d4

MCDirs3 == {d1, d2, d3}
MCDirs4 == {d1, d2, d3, d4}

=============================================================================
