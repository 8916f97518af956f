----------------------------- MODULE MCNutTimer -----------------------------
(* Small instances of NutTimer.                                              *)
EXTENDS NutTimer

CONSTANTS t1, t2, t3

ThreeTimers == {t1, t2, t3}
Symmetry == Permutations(ThreeTimers)

=============================================================================
