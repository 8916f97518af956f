---------------------------- MODULE MCNutKernel -----------------------------
(* Small instances of NutKernel: the idle thread and application threads.   *)
EXTENDS NutKernel

CONSTANTS idle, main, a, b

TwoApps == {idle, main, a}
ThreeApps == {idle, main, a, b}
TwoLevels == {32, 64}
OneLevel == {64}

\* The application threads other than main are interchangeable.
Symmetry == Permutations({a, b})

=============================================================================
