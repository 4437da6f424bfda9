-------------------------- MODULE MCCommandHistory --------------------------
(***************************************************************************)
(* Commands over two characters, two of which share a prefix, and history  *)
(* files of up to two lines.                                               *)
(***************************************************************************)
EXTENDS CommandHistory

MCLines == {<<>>, <<"a">>, <<"b">>, <<"a", "b">>}

MCHistoryFiles == BoundedSeq(MCLines, 2)

=============================================================================
