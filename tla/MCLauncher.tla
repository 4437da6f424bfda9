----------------------------- MODULE MCLauncher -----------------------------
(***************************************************************************)
(* Two copies of one launcher and a later version with another library,    *)
(* but the same injector.                                                  *)
(***************************************************************************)
EXTENDS Launcher, TLC

CONSTANTS l1, l2, l3, t1, t2, same, old, new

MCLaunchers == {l1, l2, l3}
MCContent == [l \in MCLaunchers |->
                 [f \in FileNames |-> CASE f = Injector -> same
                                        [] l = l3 -> new
                                        [] OTHER -> old]]
MCStamp == [l \in MCLaunchers |-> IF l = l3 THEN t2 ELSE t1]

Symmetric == Permutations({l1, l2})

=============================================================================
