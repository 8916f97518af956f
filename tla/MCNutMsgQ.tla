----------------------------- MODULE MCNutMsgQ ------------------------------
(* Small instances of NutMsgQ.                                               *)
EXTENDS NutMsgQ, TLC

CONSTANTS q1, q2, c1, c2

OneQueue == {q1}
OneReceiver == {c1}
Alone == c1 :> q1

=============================================================================
