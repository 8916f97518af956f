----------------------------- MODULE MCNutHeap ------------------------------
(* Small instances of NutHeap, with the sizes of the AVR.                    *)
EXTENDS NutHeap
\* Two regions that touch, added from the upper to the lower, and one apart.
ThreeRegions == <<Node(32, 24), Node(8, 24), Node(60, 16)>>
=============================================================================
