---------------------------- MODULE MCSubprocess ----------------------------
(***************************************************************************)
(* One or two commands in a set.                                           *)
(***************************************************************************)
EXTENDS Subprocess

CONSTANTS p1, p2

=============================================================================
