------------------------------ MODULE MCScreen ------------------------------
(***************************************************************************)
(* A console of four or six cells, and lines of up to five characters      *)
(* (which, behind a prompt and with the cursor at their end, is more than  *)
(* it holds) in two colours: no two characters of a line are equal, and so *)
(* none is taken for its neighbour.                                        *)
(***************************************************************************)
EXTENDS Screen

MCFirst == <<"a", "b", "c", "d", "e">>
MCSecond == <<"A", "B", "C">>
MCLines == {SubSeq(MCFirst, 1, n) : n \in 0 .. 5} \cup {MCSecond}

MCSizes == {[width |-> 2, height |-> 2], [width |-> 3, height |-> 2]}

=============================================================================
