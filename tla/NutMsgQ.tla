------------------------------ MODULE NutMsgQ -------------------------------
(***************************************************************************)
(* The message queues of Nut/OS (os/msg.c): a ring of messages and an      *)
(* event queue mq_wait that is signaled or wakes a receiver when a message *)
(* is put in, and again when one is taken out and another is left.         *)
(*                                                                         *)
(* Receivers are threads, cooperatively scheduled: between NutEventWait's  *)
(* return (pc "take") and the run of the thread any other thread may run.  *)
(* A post comes from any thread or from a timer callback and does not      *)
(* yield; NutMsgQSend is a post followed by a yield.                       *)
(***************************************************************************)
EXTENDS Integers, Sequences, FiniteSets

CONSTANTS Queues,     \* the list nutMsgQue
          Receivers,  \* threads that call NutMsgQGetMessage ...
          Serves,     \* ... on the queue Serves[c]
          Messages, NoMsg,
          Size        \* slots of the ring, mq_mask + 1

ASSUME MsgQAssumption ==
    /\ Serves \in [Receivers -> Queues]
    /\ NoMsg \notin Messages \cup Receivers
    /\ Size \in {2, 4, 8, 16, 32, 64}
    /\ IsFiniteSet(Queues)

VARIABLES
    mq_read, mq_write,  \* positions in the ring
    mq_que,             \* the ring
    waiting, signaled,  \* the event queue mq_wait
    pc,                 \* "app", "waiting" or "take"
    got,                \* the message a receiver was given last
    ret, missed         \* the result of the last NutMsgQBroadcast, and
                        \* whether a queue was full (history)

vars == <<mq_read, mq_write, mq_que, waiting, signaled, pc, got, ret, missed>>

Init ==
    /\ mq_read = [q \in Queues |-> 0]
    /\ mq_write = [q \in Queues |-> 0]
    /\ mq_que = [q \in Queues |-> [i \in 0 .. (Size - 1) |-> NoMsg]]
    /\ waiting = [q \in Queues |-> {}]
    /\ signaled = [q \in Queues |-> FALSE]
    /\ pc = [c \in Receivers |-> "app"]
    /\ got = [c \in Receivers |-> NoMsg]
    /\ ret = 0
    /\ missed = FALSE

Masked(i) == i % Size

\* Mutant: the slot that tells full from empty is used as well.
IsFull_NoSpare(q) == FALSE

IsFull(q) == Masked(mq_write[q] + 1) = mq_read[q]
IsEmpty(q) == mq_read[q] = mq_write[q]

\* NutEventPostAsync on mq_wait of every queue in Q.
PostAsync(Q) ==
    \E w \in [Queues -> Receivers \cup {NoMsg}] :
        /\ \A q \in Queues :
               IF q \in Q /\ waiting[q] # {} THEN w[q] \in waiting[q] ELSE w[q] = NoMsg
        /\ waiting' = [q \in Queues |-> waiting[q] \ {w[q]}]
        /\ signaled' = [q \in Queues |-> signaled[q] \/ (q \in Q /\ waiting[q] = {})]
        /\ pc' = [c \in Receivers |->
                     IF \E q \in Queues : w[q] = c THEN "take" ELSE pc[c]]

\* The message goes into the ring of every queue in Q that is not full.
Put(Q, m) ==
    LET R == {q \in Q : ~IsFull(q)}
    IN  /\ mq_que' = [q \in Queues |->
               IF q \in R THEN [mq_que[q] EXCEPT ![mq_write[q]] = m] ELSE mq_que[q]]
        /\ mq_write' = [q \in Queues |->
               IF q \in R THEN Masked(mq_write[q] + 1) ELSE mq_write[q]]
        /\ PostAsync(R)
        /\ UNCHANGED <<mq_read, got>>

\* NutMsgQPost and NutMsgQSend.
MsgQPost(q, m) ==
    /\ ~IsFull(q)
    /\ Put({q}, m)
    /\ UNCHANGED <<ret, missed>>

\* NutMsgQBroadcast: ret -= NutMsgQPost(...), which is -1 for a full queue.
MsgQBroadcast(m) ==
    /\ Put(Queues, m)
    /\ ret' = Cardinality({q \in Queues : IsFull(q)})
    /\ missed' = (\E q \in Queues : IsFull(q))

\* NutMsgQGetMessage up to the end of NutEventWait: a latched event is taken
\* and the thread yields, otherwise it waits.
GetMessage(c) ==
    LET q == Serves[c]
    IN  /\ pc[c] = "app"
        /\ signaled' = [signaled EXCEPT ![q] = FALSE]
        /\ IF signaled[q]
           THEN pc' = [pc EXCEPT ![c] = "take"] /\ UNCHANGED waiting
           ELSE /\ pc' = [pc EXCEPT ![c] = "waiting"]
                /\ waiting' = [waiting EXCEPT ![q] = @ \cup {c}]
        /\ UNCHANGED <<mq_read, mq_write, mq_que, got, ret, missed>>

\* NutEventWait has timed out: the receiver leaves the queue with no message.
GetTimeout(c) ==
    /\ pc[c] = "waiting"
    /\ c \in waiting[Serves[c]]
    /\ waiting' = [waiting EXCEPT ![Serves[c]] = @ \ {c}]
    /\ pc' = [pc EXCEPT ![c] = "app"]
    /\ UNCHANGED <<mq_read, mq_write, mq_que, signaled, got, ret, missed>>

\* Mutants: no event is posted for the messages that are left ...
TakeMessage_NoRepost(c) ==
    LET q == Serves[c]
    IN  /\ pc[c] = "take"
        /\ got' = [got EXCEPT ![c] = mq_que[q][mq_read[q]]]
        /\ mq_read' = [mq_read EXCEPT ![q] = Masked(@ + 1)]
        /\ pc' = [pc EXCEPT ![c] = "app"]
        /\ UNCHANGED <<mq_write, mq_que, waiting, signaled, ret, missed>>

\* ... or one is posted although none is left.
TakeMessage_AlwaysReposts(c) ==
    LET q == Serves[c]
    IN  /\ pc[c] = "take"
        /\ got' = [got EXCEPT ![c] = mq_que[q][mq_read[q]]]
        /\ mq_read' = [mq_read EXCEPT ![q] = Masked(@ + 1)]
        /\ signaled' = [signaled EXCEPT ![q] = TRUE]
        /\ pc' = [pc EXCEPT ![c] = "app"]
        /\ UNCHANGED <<mq_write, mq_que, waiting, ret, missed>>

\* The rest of NutMsgQGetMessage: the slot at mq_read is taken, and another
\* event is posted if more messages are left.
TakeMessage(c) ==
    LET q    == Serves[c]
        next == Masked(mq_read[q] + 1)
        more == next # mq_write[q]
    IN  /\ pc[c] = "take"
        /\ got' = [got EXCEPT ![c] = mq_que[q][mq_read[q]]]
        /\ mq_read' = [mq_read EXCEPT ![q] = next]
        /\ IF more /\ waiting[q] # {}
           THEN \E w \in waiting[q] :
                   /\ waiting' = [waiting EXCEPT ![q] = @ \ {w}]
                   /\ pc' = [pc EXCEPT ![c] = "app", ![w] = "take"]
                   /\ UNCHANGED signaled
           ELSE /\ signaled' = [signaled EXCEPT ![q] = @ \/ more]
                /\ pc' = [pc EXCEPT ![c] = "app"]
                /\ UNCHANGED waiting
        /\ UNCHANGED <<mq_write, mq_que, ret, missed>>

\* NutMsgQFlush: the ring is emptied and mq_wait reset, with whoever is in it.
\* "You want to flush only when you are not waiting on it" (os/msg.c): it is
\* called by the only receiver of a queue.
MsgQFlush(c) ==
    LET q == Serves[c]
    IN  /\ pc[c] = "app" /\ \A d \in Receivers \ {c} : Serves[d] # q
        /\ mq_read' = [mq_read EXCEPT ![q] = mq_write[q]]
        /\ waiting' = [waiting EXCEPT ![q] = {}]
        /\ signaled' = [signaled EXCEPT ![q] = FALSE]
        /\ UNCHANGED <<mq_write, mq_que, pc, got, ret, missed>>

Next ==
    \/ \E q \in Queues, m \in Messages : MsgQPost(q, m)
    \/ \E m \in Messages : MsgQBroadcast(m)
    \/ \E c \in Receivers :
           GetMessage(c) \/ GetTimeout(c) \/ TakeMessage(c) \/ MsgQFlush(c)

Spec == Init /\ [][Next]_vars

-----------------------------------------------------------------------------
TypeOK ==
    /\ mq_read \in [Queues -> 0 .. (Size - 1)]
    /\ mq_write \in [Queues -> 0 .. (Size - 1)]
    /\ mq_que \in [Queues -> [0 .. (Size - 1) -> Messages \cup {NoMsg}]]
    /\ waiting \in [Queues -> SUBSET Receivers]
    /\ signaled \in [Queues -> BOOLEAN]
    /\ pc \in [Receivers -> {"app", "waiting", "take"}]
    /\ got \in [Receivers -> Messages \cup {NoMsg}]
    /\ ret \in Int /\ missed \in BOOLEAN

\* ASSERT(que->mq_read != que->mq_write) in NutMsgQGetMessage: the event a
\* receiver was given still stands for a message when it gets to run.
EventStandsForMessage ==
    \A c \in Receivers : pc[c] = "take" => ~IsEmpty(Serves[c])

\* "0 if sent to all ques, < 0 if one or more ques were full" (os/msg.c,
\* NutMsgQBroadcast).
BroadcastReportsFull == missed => ret < 0

Used(q) == (mq_write[q] - mq_read[q]) % Size

\* The messages of each queue, from mq_read on.
Stored == [q \in Queues |-> [i \in 1 .. Used(q) |-> mq_que[q][Masked(mq_read[q] + i - 1)]]]

Channel == INSTANCE MsgChannel WITH Capacity <- Size - 1, contents <- Stored

\* The ring, its wrapping positions and the events implement the channel.
ImplementsChannel == Channel!Spec

-----------------------------------------------------------------------------
\* A receiver goes on asking for messages and gets the CPU when it is ready.
FairSpec ==
    Spec /\ \A c \in Receivers : WF_vars(TakeMessage(c)) /\ WF_vars(GetMessage(c))

\* A message in the ring is received or flushed: the ring moves on.
MailMovesOn ==
    \A q \in Queues : \A i \in 0 .. (Size - 1) :
        (~IsEmpty(q) /\ mq_read[q] = i) ~> (IsEmpty(q) \/ mq_read[q] # i)

=============================================================================
