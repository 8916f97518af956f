----------------------------- MODULE MCNutMutex -----------------------------
(* Small instances of NutMutex.                                              *)
EXTENDS NutMutex

CONSTANTS t1, t2, t3, t4

FourThreads == {t1, t2, t3, t4}

=============================================================================
