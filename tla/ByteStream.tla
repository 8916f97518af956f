----------------------------- MODULE ByteStream -----------------------------
(***************************************************************************)
(* What a stream socket promises the thread that reads from it: the bytes  *)
(* of the peer in order, each once, and the end of the stream only after   *)
(* the last one (net/tcpsock.c, NutTcpReceive, NutTcpCloseSocket).          *)
(***************************************************************************)
EXTENDS Naturals, Sequences

CONSTANT Bytes                   \* the peer sends the bytes 1..Bytes

VARIABLES got,                   \* what the reader has been given
          status                 \* "open", "ended", "broken" or "closed"

vars == <<got, status>>

Init == got = <<>> /\ status = "open"

\* A call hands over one or more of the bytes that come next.
Deliver == /\ status = "open"
           /\ \E n \in 1 .. Bytes - Len(got) :
                got' = got \o [i \in 1 .. n |-> Len(got) + i]
           /\ UNCHANGED status

\* The end of the stream is reported: nothing is missing.
End == /\ status = "open" /\ Len(got) = Bytes
       /\ status' = "ended"
       /\ UNCHANGED got

\* The connection breaks, at any time.
Break == /\ status = "open"
         /\ status' = "broken"
         /\ UNCHANGED got

Close == /\ status # "closed"
         /\ status' = "closed"
         /\ UNCHANGED got

Next == Deliver \/ End \/ Break \/ Close

Spec == Init /\ [][Next]_vars
=============================================================================
