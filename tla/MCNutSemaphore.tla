--------------------------- MODULE MCNutSemaphore ---------------------------
(* Small instances of NutSemaphore.                                          *)
EXTENDS NutSemaphore

CONSTANTS t1, t2, t3

ThreeThreads == {t1, t2, t3}

=============================================================================
