----------------------------- MODULE MsgChannel -----------------------------
(***************************************************************************)
(* What a Nut/OS message queue promises (os/msg.c): a bounded first-in     *)
(* first-out channel.  A receiver gets each message that was accepted, in  *)
(* the order of acceptance, once.                                          *)
(***************************************************************************)
EXTENDS Integers, Sequences

CONSTANTS Queues, Receivers, Messages, NoMsg, Capacity

VARIABLES contents,  \* contents[q]: accepted and not yet received
          got        \* got[c]: the message a receiver was given last

cvars == <<contents, got>>

Init ==
    /\ contents = [q \in Queues |-> <<>>]
    /\ got = [c \in Receivers |-> NoMsg]

\* A message is accepted by each queue of Q that has room for it.
Accept(Q, m) ==
    /\ contents' = [q \in Queues |->
           IF q \in Q /\ Len(contents[q]) < Capacity THEN Append(contents[q], m)
           ELSE contents[q]]
    /\ UNCHANGED got

Receive(q, c) ==
    /\ contents[q] # <<>>
    /\ got' = [got EXCEPT ![c] = Head(contents[q])]
    /\ contents' = [contents EXCEPT ![q] = Tail(@)]

Flush(q) ==
    /\ contents' = [contents EXCEPT ![q] = <<>>]
    /\ UNCHANGED got

Next ==
    \/ \E Q \in SUBSET Queues, m \in Messages : Accept(Q, m)
    \/ \E q \in Queues, c \in Receivers : Receive(q, c)
    \/ \E q \in Queues : Flush(q)

Spec == Init /\ [][Next]_cvars

=============================================================================
