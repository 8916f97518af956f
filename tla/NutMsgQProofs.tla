--------------------------- MODULE NutMsgQProofs ----------------------------
(***************************************************************************)
(* For rings of any size and any number of queues, each with one receiver: *)
(* the event a receiver was given stands for a message when it gets to run *)
(* (the ASSERT of os/msg.c), and the ring with its wrapping positions is a *)
(* first-in first-out channel.                                             *)
(*                                                                         *)
(* That an event stands for a message is not inductive.  An event may be   *)
(* latched while the receiver is on its way to take a message; then there  *)
(* have to be two, so that one is left for the event (Promised).           *)
(***************************************************************************)
EXTENDS NutMsgQ, ListLemmas

\* Each queue has one receiver at most.
OneEach == \A c, d \in Receivers : Serves[c] = Serves[d] => c = d

\* Next slot of the ring, and one message at least behind the first.
After(i) == IF i + 1 = Size THEN 0 ELSE i + 1

\* An event that is latched or under way is covered by a message of its own.
Promised ==
    /\ \A q \in Queues : signaled[q] => ~IsEmpty(q)
    /\ \A c \in Receivers :
           pc[c] = "take" /\ signaled[Serves[c]]
               => After(mq_read[Serves[c]]) # mq_write[Serves[c]]

WaitersServe ==
    \A q \in Queues : \A c \in waiting[q] : Serves[c] = q /\ pc[c] = "waiting"

MsgInv == TypeOK /\ EventStandsForMessage /\ Promised /\ WaitersServe

-----------------------------------------------------------------------------
(* The ring                                                                *)

LEMMA SizeIs == Size \in Nat /\ Size > 1
  BY MsgQAssumption

\* The mask wraps a position at the end of the ring.
LEMMA Wrap ==
    ASSUME NEW x \in 0 .. (2 * Size - 1)
    PROVE  Masked(x) = IF x < Size THEN x ELSE x - Size
  <1>1. PICK S \in Nat \ {0} : S = Size
    BY SizeIs
  <1>2. CASE x < S
    BY <1>1, <1>2, ModSmall DEF Masked
  <1>3. CASE ~(x < S)
    <2>1. PICK r \in 0 .. (S - 1), k \in Int : r = x - S /\ k = 1
      BY <1>1, <1>3
    <2>2. (k * S + r) % S = r
      BY ModUnique
    <2>3. k * S + r = x
      BY <2>1, <1>1
    <2> QED
      BY <1>1, <1>3, <2>1, <2>2, <2>3 DEF Masked
  <1> QED
    BY <1>2, <1>3

\* The messages between two positions.
Count(r, w) == IF r <= w THEN w - r ELSE w - r + Size
Slot(r, i) == IF r + i - 1 < Size THEN r + i - 1 ELSE r + i - 1 - Size
Between(que, r, w) == [i \in 1 .. Count(r, w) |-> que[Slot(r, i)]]

LEMMA Distance ==
    ASSUME NEW r \in 0 .. (Size - 1), NEW w \in 0 .. (Size - 1)
    PROVE  (w - r) % Size = Count(r, w)
  <1>1. PICK S \in Nat \ {0} : S = Size
    BY SizeIs
  <1>2. PICK d \in Int : d = w - r
    BY <1>1
  <1>3. d \in 0 .. (S - 1) \/ d \in (-(S - 1)) .. (-1)
    BY <1>1, <1>2
  <1>4. d % S = IF d >= 0 THEN d ELSE d + S
    <2>1. /\ \A y \in 0 .. (S - 1) : y % S = y
          /\ \A y \in (-(S - 1)) .. (-1) : y % S = y + S
      BY ModSmall
    <2>2. CASE d \in 0 .. (S - 1)
      <3>1. d % S = d
        BY <2>1, <2>2, Zenon
      <3> QED
        BY <2>2, <3>1
    <2>3. CASE d \in (-(S - 1)) .. (-1)
      <3>1. d % S = d + S
        BY <2>1, <2>3, Zenon
      <3> QED
        BY <1>1, <2>3, <3>1
    <2> QED
      BY <1>3, <2>2, <2>3
  <1> QED
    BY <1>1, <1>2, <1>4 DEF Count

\* What a queue stores, in terms of its positions.
LEMMA StoredIs ==
    ASSUME TypeOK
    PROVE  Stored = [q \in Queues |-> Between(mq_que[q], mq_read[q], mq_write[q])]
  <1> SUFFICES ASSUME NEW q \in Queues
               PROVE  [i \in 1 .. Used(q) |-> mq_que[q][Masked(mq_read[q] + i - 1)]]
                        = Between(mq_que[q], mq_read[q], mq_write[q])
    BY Zenon DEF Stored
  <1>1. PICK r \in 0 .. (Size - 1), w \in 0 .. (Size - 1) : r = mq_read[q] /\ w = mq_write[q]
    BY DEF TypeOK
  <1>2. Used(q) = Count(r, w)
    BY <1>1, Distance DEF Used
  <1>3. ASSUME NEW i \in 1 .. Count(r, w)
        PROVE  Masked(r + i - 1) = Slot(r, i)
    <2>1. PICK x \in 0 .. (2 * Size - 1) : x = r + i - 1
      BY SizeIs DEF Count
    <2>2. Masked(x) = IF x < Size THEN x ELSE x - Size
      BY <2>1, Wrap
    <2>3. i \in Int
      BY SizeIs DEF Count
    <2> QED
      BY <2>1, <2>2, <2>3, SizeIs DEF Slot
  <1> QED
    BY <1>1, <1>2, <1>3 DEF Between

\* How many messages the ring has.
LEMMA CountIs ==
    ASSUME NEW r \in 0 .. (Size - 1), NEW w \in 0 .. (Size - 1)
    PROVE  /\ Count(r, w) \in 0 .. (Size - 1)
           /\ Count(r, w) = 0 <=> r = w
           /\ After(w) = r <=> Count(r, w) = Size - 1
           /\ After(r) \in 0 .. (Size - 1)
           /\ Masked(r + 1) = After(r)
  BY SizeIs, Wrap DEF Count, After

\* Rings of messages of M.
Rings(M) == [0 .. (Size - 1) -> M]

LEMMA BetweenIs ==
    ASSUME NEW que, NEW M, que \in Rings(M),
           NEW r \in 0 .. (Size - 1), NEW w \in 0 .. (Size - 1)
    PROVE  /\ Between(que, r, w) \in Seq(M)
           /\ Len(Between(que, r, w)) = Count(r, w)
           /\ r = w <=> Between(que, r, w) = <<>>
  <1>1. Count(r, w) \in Nat /\ Count(r, w) < Size
    BY SizeIs DEF Count
  <1>2. \A i \in 1 .. Count(r, w) :
            que[Slot(r, i)] \in M
    <2> SUFFICES ASSUME NEW i \in 1 .. Count(r, w)
                 PROVE  Slot(r, i) \in 0 .. (Size - 1)
      BY DEF Rings
    <2> QED
      BY <1>1, SizeIs DEF Slot, Count
  <1>3. Between(que, r, w) \in Seq(M) /\ Len(Between(que, r, w)) = Count(r, w)
    BY <1>1, <1>2, IsASeq DEF Between
  <1>4. r = w => Between(que, r, w) = <<>>
    BY <1>3, CountIs
  <1> QED
    BY <1>3, <1>4, CountIs
\* A message put in at the end of the ring is the last one, the message at
\* its start the first one; a message that is taken leaves the others.
LEMMA RingTakesIn ==
    ASSUME NEW que, NEW M, que \in Rings(M), NEW m \in M,
           NEW r \in 0 .. (Size - 1), NEW w \in 0 .. (Size - 1), After(w) # r
    PROVE  Between([que EXCEPT ![w] = m], r, After(w)) = Append(Between(que, r, w), m)
  <1>1. PICK next \in Rings(M) : next = [que EXCEPT ![w] = m]
    <2>1. [que EXCEPT ![w] = m] \in Rings(M)
      BY DEF Rings
    <2> QED
      BY <2>1, Zenon
  <1>2. PICK n \in Nat : n = Count(r, w) /\ n < Size - 1
    <2>1. Count(r, w) \in Nat /\ Count(r, w) < Size - 1
      BY SizeIs DEF Count, After
    <2> QED
      BY <2>1
  <1>3. After(w) \in 0 .. (Size - 1) /\ Count(r, After(w)) = n + 1
    BY <1>2, SizeIs DEF Count, After
  <1>4. /\ Between(que, r, w) \in Seq(M) /\ Len(Between(que, r, w)) = n
        /\ Between(next, r, After(w)) \in Seq(M) /\ Len(Between(next, r, After(w))) = n + 1
    <2>1. Between(que, r, w) \in Seq(M) /\ Len(Between(que, r, w)) = n
      BY <1>2, BetweenIs
    <2>2. PICK last \in 0 .. (Size - 1) : last = After(w)
      BY <1>3
    <2>3. Between(next, r, last) \in Seq(M) /\ Len(Between(next, r, last)) = Count(r, last)
      BY <1>1, BetweenIs
    <2> QED
      BY <1>3, <2>1, <2>2, <2>3
  <1>5. \A i \in 1 .. n : Slot(r, i) \in 0 .. (Size - 1) /\ Slot(r, i) # w
    BY <1>2, SizeIs DEF Slot, Count
  <1>6. Slot(r, n + 1) = w
    BY <1>2, SizeIs DEF Slot, Count
  <1>7. \A i \in 1 .. n : Between(next, r, After(w))[i] = Between(que, r, w)[i]
    <2> SUFFICES ASSUME NEW i \in 1 .. n
                 PROVE  Between(next, r, After(w))[i] = Between(que, r, w)[i]
      OBVIOUS
    <2>1. next[Slot(r, i)] = que[Slot(r, i)]
      BY <1>1, <1>5 DEF Rings
    <2> QED
      BY <1>2, <1>3, <2>1 DEF Between
  <1>8. Between(next, r, After(w))[n + 1] = m
    <2>1. next[Slot(r, n + 1)] = m
      BY <1>1, <1>6 DEF Rings
    <2> QED
      BY <1>2, <1>3, <2>1 DEF Between
  <1>9. PICK s \in Seq(M), t \in Seq(M) :
            /\ s = Between(que, r, w) /\ t = Between(next, r, After(w))
            /\ Len(s) = n /\ Len(t) = n + 1
            /\ \A i \in 1 .. n : t[i] = s[i]
            /\ t[n + 1] = m
    BY <1>4, <1>7, <1>8
  <1>10. t = Append(s, m)
    BY <1>9, <1>2, SeqEqual, AppendProperties
  <1> QED
    BY <1>1, <1>9, <1>10

LEMMA RingGivesOut ==
    ASSUME NEW que, NEW M, que \in Rings(M),
           NEW r \in 0 .. (Size - 1), NEW w \in 0 .. (Size - 1), r # w
    PROVE  /\ Head(Between(que, r, w)) = que[r]
           /\ Between(que, After(r), w) = Tail(Between(que, r, w))
  <1>1. PICK n \in Nat : n = Count(r, w) /\ n > 0
    <2>1. Count(r, w) \in Nat /\ Count(r, w) > 0
      BY SizeIs DEF Count
    <2> QED
      BY <2>1
  <1>2. After(r) \in 0 .. (Size - 1) /\ Count(After(r), w) = n - 1
    BY <1>1, SizeIs DEF Count, After
  <1>3. PICK s \in Seq(M), t \in Seq(M) :
            /\ s = Between(que, r, w) /\ t = Between(que, After(r), w)
            /\ Len(s) = n /\ Len(t) = n - 1
    BY <1>1, <1>2, BetweenIs
  <1>4. Slot(r, 1) = r /\ \A i \in 1 .. (n - 1) : Slot(After(r), i) = Slot(r, i + 1)
    BY <1>1, SizeIs DEF Slot, After, Count
  <1>5. s[1] = que[r]
    BY <1>1, <1>3, <1>4 DEF Between
  <1>6. \A i \in 1 .. (n - 1) : t[i] = s[i + 1]
    <2> SUFFICES ASSUME NEW i \in 1 .. (n - 1) PROVE t[i] = s[i + 1]
      OBVIOUS
    <2>1. t[i] = que[Slot(After(r), i)]
      BY <1>2, <1>3 DEF Between
    <2>2. i + 1 \in 1 .. Count(r, w) /\ s[i + 1] = que[Slot(r, i + 1)]
      BY <1>1, <1>3 DEF Between
    <2> QED
      BY <1>4, <2>1, <2>2
  <1>7. t = Tail(s)
    <2>1. s # <<>>
      BY <1>1, <1>3
    <2>2. /\ Tail(s) \in Seq(M) /\ Len(Tail(s)) = n - 1
          /\ \A i \in 1 .. Len(Tail(s)) : Tail(s)[i] = s[i + 1]
      BY <1>3, <2>1, HeadTailProperties
    <2> QED
      BY <1>3, <1>6, <2>2, SeqEqual
  <1> QED
    BY <1>3, <1>5, <1>7

StoredShown == Stored = [q \in Queues |-> Between(mq_que[q], mq_read[q], mq_write[q])]

LEMMA StoredNext == TypeOK' => StoredShown'
  <1>1. TypeOK => StoredShown
    BY StoredIs DEF StoredShown
  <1> QED
    BY <1>1, PTL

-----------------------------------------------------------------------------
(* The steps                                                               *)

Refines == MsgInv' /\ [Channel!Next]_(Channel!cvars)

\* The initial state.
LEMMA MsgInit == Init => MsgInv /\ Channel!Init
  <1> SUFFICES ASSUME Init PROVE MsgInv /\ Channel!Init
    OBVIOUS
  <1>1. TypeOK
    <2>1. 0 \in 0 .. (Size - 1)
      BY SizeIs
    <2>2. signaled \in [Queues -> BOOLEAN] /\ missed \in BOOLEAN
      BY Zenon DEF Init
    <2> QED
      BY <2>1, <2>2 DEF Init, TypeOK
  <1>2. EventStandsForMessage /\ Promised /\ WaitersServe
    BY DEF Init, EventStandsForMessage, Promised, WaitersServe
  <1>3. Stored = [q \in Queues |-> <<>>]
    <2>1. \A q \in Queues : /\ mq_que[q] \in Rings(Messages \cup {NoMsg})
                            /\ mq_read[q] \in 0 .. (Size - 1) /\ mq_write[q] \in 0 .. (Size - 1)
                            /\ mq_read[q] = mq_write[q]
      BY <1>1 DEF Init, TypeOK, Rings
    <2>2. \A q \in Queues : Between(mq_que[q], mq_read[q], mq_write[q]) = <<>>
      BY <2>1, BetweenIs
    <2> QED
      BY <1>1, <2>2, StoredIs
  <1> QED
    BY <1>1, <1>2, <1>3 DEF Init, MsgInv, Channel!Init

\* A queue has room exactly if it stores fewer than Size - 1 messages.
LEMMA RoomIs ==
    ASSUME TypeOK, NEW q \in Queues
    PROVE  /\ IsFull(q) <=> After(mq_write[q]) = mq_read[q]
           /\ IsFull(q) <=> ~(Len(Stored[q]) < Size - 1)
           /\ IsEmpty(q) <=> Stored[q] = <<>>
           /\ Masked(mq_write[q] + 1) = After(mq_write[q])
           /\ Masked(mq_read[q] + 1) = After(mq_read[q])
  <1>1. PICK r \in 0 .. (Size - 1), w \in 0 .. (Size - 1) : r = mq_read[q] /\ w = mq_write[q]
    BY DEF TypeOK
  <1>2. mq_que[q] \in Rings(Messages \cup {NoMsg})
    BY DEF TypeOK, Rings
  <1>3. Stored[q] = Between(mq_que[q], r, w)
    BY <1>1, StoredIs
  <1>4. Len(Stored[q]) = Count(r, w) /\ (r = w <=> Stored[q] = <<>>)
    BY <1>2, <1>3, BetweenIs
  <1>5. Masked(w + 1) = After(w) /\ Masked(r + 1) = After(r)
    BY CountIs
  <1>6. After(w) = r <=> ~(Count(r, w) < Size - 1)
    BY SizeIs DEF Count, After
  <1> QED
    BY <1>1, <1>4, <1>5, <1>6 DEF IsFull, IsEmpty

\* A message goes into every queue of Q that has room: the events posted with
\* it are covered, also by what was there before.
LEMMA PutKeeps ==
    ASSUME MsgInv, NEW Q \in SUBSET Queues, NEW m \in Messages, Put(Q, m),
           ret' \in Int, missed' \in BOOLEAN
    PROVE  Refines
  <1> DEFINE R == {q \in Q : ~IsFull(q)}
  <1>1. TypeOK /\ EventStandsForMessage /\ Promised /\ WaitersServe
    BY DEF MsgInv
  <1>2. PICK w \in [Queues -> Receivers \cup {NoMsg}] :
          /\ \A q \in Queues :
                 IF q \in R /\ waiting[q] # {} THEN w[q] \in waiting[q] ELSE w[q] = NoMsg
          /\ waiting' = [q \in Queues |-> waiting[q] \ {w[q]}]
          /\ signaled' = [q \in Queues |-> signaled[q] \/ (q \in R /\ waiting[q] = {})]
          /\ pc' = [c \in Receivers |->
                       IF \E q \in Queues : w[q] = c THEN "take" ELSE pc[c]]
    BY DEF Put, PostAsync
  <1>3. /\ mq_que' = [q \in Queues |->
               IF q \in R THEN [mq_que[q] EXCEPT ![mq_write[q]] = m] ELSE mq_que[q]]
        /\ mq_write' = [q \in Queues |->
               IF q \in R THEN Masked(mq_write[q] + 1) ELSE mq_write[q]]
        /\ UNCHANGED <<mq_read, got>>
    BY DEF Put
  <1>4. R \in SUBSET Queues /\ \A q \in R : After(mq_write[q]) # mq_read[q]
    BY <1>1, RoomIs
  <1> HIDE DEF R
  <1>5. mq_write' = [q \in Queues |-> IF q \in R THEN After(mq_write[q]) ELSE mq_write[q]]
    BY <1>1, <1>3, <1>4, RoomIs
  <1>6. \A q \in Queues : /\ mq_read[q] \in 0 .. (Size - 1) /\ mq_write[q] \in 0 .. (Size - 1)
                          /\ After(mq_write[q]) \in 0 .. (Size - 1)
    BY <1>1, CountIs DEF TypeOK
  <1>7. \A q \in Queues : mq_que[q] \in Rings(Messages \cup {NoMsg})
    BY <1>1 DEF TypeOK, Rings
  <1>8. TypeOK'
    <2>1. mq_write' \in [Queues -> 0 .. (Size - 1)] /\ mq_read' \in [Queues -> 0 .. (Size - 1)]
      BY <1>1, <1>3, <1>5, <1>6 DEF TypeOK
    <2>2. mq_que' \in [Queues -> [0 .. (Size - 1) -> Messages \cup {NoMsg}]]
      BY <1>3, <1>6, <1>7 DEF Rings
    <2>3. waiting' \in [Queues -> SUBSET Receivers]
      BY <1>1, <1>2 DEF TypeOK
    <2>4. signaled' \in [Queues -> BOOLEAN]
      BY <1>1, <1>2, Zenon DEF TypeOK
    <2>5. pc' \in [Receivers -> {"app", "waiting", "take"}]
      BY <1>1, <1>2 DEF TypeOK
    <2>6. got' \in [Receivers -> Messages \cup {NoMsg}]
      BY <1>1, <1>3 DEF TypeOK
    <2> QED
      BY <2>1, <2>2, <2>3, <2>4, <2>5, <2>6 DEF TypeOK
  \* who was woken
  <1>9. \A q \in Queues, c \in Receivers :
            w[q] = c => q \in R /\ waiting[q] # {} /\ c \in waiting[q] /\ Serves[c] = q
    BY <1>1, <1>2, MsgQAssumption DEF WaitersServe
  <1>10. \A c \in Receivers : Serves[c] \in Queues
    BY MsgQAssumption
  \* no queue is emptied, and one that was not empty has two messages now
  <1>11. \A q \in R : /\ mq_read'[q] # mq_write'[q]
                      /\ mq_read[q] # mq_write[q] => After(mq_read'[q]) # mq_write'[q]
    <2> SUFFICES ASSUME NEW q \in R
                 PROVE  /\ mq_read[q] # After(mq_write[q])
                        /\ mq_read[q] # mq_write[q] => After(mq_read[q]) # After(mq_write[q])
      BY <1>3, <1>4, <1>5
    <2>1. mq_read[q] \in 0 .. (Size - 1) /\ mq_write[q] \in 0 .. (Size - 1)
      BY <1>4, <1>6
    <2> QED
      BY <1>4, <2>1, SizeIs DEF After
  <1>12. \A q \in Queues \ R : mq_read'[q] = mq_read[q] /\ mq_write'[q] = mq_write[q]
    BY <1>3, <1>5
  <1>13. EventStandsForMessage'
    <2> SUFFICES ASSUME NEW c \in Receivers, pc'[c] = "take"
                 PROVE  mq_read'[Serves[c]] # mq_write'[Serves[c]]
      BY DEF EventStandsForMessage, IsEmpty
    <2>1. CASE Serves[c] \in R
      BY <2>1, <1>11
    <2>2. CASE Serves[c] \notin R
      <3>1. pc[c] = "take"
        BY <1>2, <1>9, <2>2
      <3> QED
        BY <1>1, <1>10, <1>12, <2>2, <3>1 DEF EventStandsForMessage, IsEmpty
    <2> QED
      BY <2>1, <2>2
  <1>14. Promised'
    <2>1. ASSUME NEW q \in Queues, signaled'[q]
          PROVE  mq_read'[q] # mq_write'[q]
      BY <1>1, <1>2, <1>11, <1>12, <2>1 DEF Promised, IsEmpty
    <2>2. ASSUME NEW c \in Receivers, pc'[c] = "take", signaled'[Serves[c]]
          PROVE  After(mq_read'[Serves[c]]) # mq_write'[Serves[c]]
      <3>1. CASE Serves[c] \in R
        <4>1. mq_read[Serves[c]] # mq_write[Serves[c]]
          <5>1. CASE pc[c] = "take"
            BY <1>1, <5>1 DEF EventStandsForMessage, IsEmpty
          <5>2. CASE pc[c] # "take"
            <6>1. waiting[Serves[c]] # {}
              BY <1>2, <1>9, <2>2, <5>2
            <6>2. signaled[Serves[c]]
              BY <1>2, <1>10, <2>2, <6>1
            <6> QED
              BY <1>1, <1>10, <6>2 DEF Promised, IsEmpty
          <5> QED
            BY <5>1, <5>2
        <4> QED
          BY <1>11, <3>1, <4>1
      <3>2. CASE Serves[c] \notin R
        <4>1. pc[c] = "take"
          BY <1>2, <1>9, <2>2, <3>2
        <4>2. signaled[Serves[c]]
          BY <1>2, <1>10, <2>2, <3>2, Zenon
        <4> QED
          BY <1>1, <1>10, <1>12, <3>2, <4>1, <4>2 DEF Promised
      <3> QED
        BY <3>1, <3>2
    <2> QED
      BY <2>1, <2>2 DEF Promised, IsEmpty
  <1>15. WaitersServe'
    <2> SUFFICES ASSUME NEW q \in Queues, NEW c \in waiting'[q]
                 PROVE  Serves[c] = q /\ pc'[c] = "waiting"
      BY DEF WaitersServe
    <2>1. c \in waiting[q] /\ c # w[q] /\ c \in Receivers
      BY <1>1, <1>2 DEF TypeOK
    <2>2. Serves[c] = q /\ pc[c] = "waiting"
      BY <1>1, <2>1 DEF WaitersServe
    <2>3. ~\E p \in Queues : w[p] = c
      BY <1>9, <2>1, <2>2
    <2> QED
      BY <1>2, <2>1, <2>2, <2>3
  <1>16. Channel!Accept(Q, m)
    <2>1. StoredShown /\ StoredShown'
      BY <1>1, <1>8, StoredIs, StoredNext DEF StoredShown
    <2>2. \A q \in Queues : q \in R <=> q \in Q /\ Len(Stored[q]) < Size - 1
      BY <1>1, RoomIs DEF R
    <2>3. ASSUME NEW q \in Queues
          PROVE  Stored'[q] = IF q \in R THEN Append(Stored[q], m) ELSE Stored[q]
      <3>1. Stored'[q] = Between(mq_que'[q], mq_read[q], mq_write'[q])
        BY <1>3, <2>1 DEF StoredShown
      <3>2. Stored[q] = Between(mq_que[q], mq_read[q], mq_write[q])
        BY <2>1 DEF StoredShown
      <3>3. CASE q \in R
        <4>1. /\ mq_que'[q] = [mq_que[q] EXCEPT ![mq_write[q]] = m]
              /\ mq_write'[q] = After(mq_write[q])
          BY <1>3, <1>5, <3>3
        <4>2. Between([mq_que[q] EXCEPT ![mq_write[q]] = m], mq_read[q], After(mq_write[q]))
                = Append(Between(mq_que[q], mq_read[q], mq_write[q]), m)
          <5>1. m \in Messages \cup {NoMsg} /\ After(mq_write[q]) # mq_read[q]
            BY <1>4, <3>3
          <5>2. PICK que \in Rings(Messages \cup {NoMsg}), r \in 0 .. (Size - 1), v \in 0 .. (Size - 1) :
                  que = mq_que[q] /\ r = mq_read[q] /\ v = mq_write[q]
            BY <1>6, <1>7
          <5>3. Between([que EXCEPT ![v] = m], r, After(v)) = Append(Between(que, r, v), m)
            BY <5>1, <5>2, RingTakesIn
          <5> QED
            BY <5>2, <5>3
        <4> QED
          BY <3>1, <3>2, <3>3, <4>1, <4>2
      <3>4. CASE q \notin R
        <4>1. mq_que'[q] = mq_que[q] /\ mq_write'[q] = mq_write[q]
          BY <1>3, <1>5, <3>4
        <4> QED
          BY <3>1, <3>2, <3>4, <4>1
      <3> QED
        BY <3>3, <3>4
    <2>4. Stored' = [q \in Queues |-> Stored'[q]]
      BY <2>1, Zenon DEF StoredShown
    <2>5. Stored' = [q \in Queues |->
              IF q \in Q /\ Len(Stored[q]) < Size - 1 THEN Append(Stored[q], m) ELSE Stored[q]]
      BY <2>2, <2>3, <2>4
    <2> QED
      BY <1>3, <2>5 DEF Channel!Accept
  <1> QED
    BY <1>1, <1>8, <1>13, <1>14, <1>15, <1>16 DEF Refines, MsgInv, Channel!Next

\* A step that leaves the rings alone is none of the channel.
LEMMA RingsAlone ==
    ASSUME UNCHANGED <<mq_read, mq_write, mq_que, got>>
    PROVE  UNCHANGED Channel!cvars
  BY DEF Stored, Used, Masked, Channel!cvars

\* A receiver takes the latched event, or waits.
LEMMA GetKeeps ==
    ASSUME MsgInv, NEW c \in Receivers, GetMessage(c)
    PROVE  Refines
  <1>1. TypeOK /\ EventStandsForMessage /\ Promised /\ WaitersServe
    BY DEF MsgInv
  <1>2. PICK q \in Queues : q = Serves[c]
    BY MsgQAssumption
  <1>3. /\ signaled' = [signaled EXCEPT ![q] = FALSE]
        /\ UNCHANGED <<mq_read, mq_write, mq_que, got, ret, missed>>
    BY <1>2 DEF GetMessage
  <1>4. \/ pc' = [pc EXCEPT ![c] = "take"] /\ UNCHANGED waiting /\ signaled[q]
        \/ pc' = [pc EXCEPT ![c] = "waiting"] /\ waiting' = [waiting EXCEPT ![q] = @ \cup {c}]
    BY <1>2, Zenon DEF GetMessage
  <1>5. TypeOK'
    <2>1. signaled' \in [Queues -> BOOLEAN]
      BY <1>1, <1>3, Zenon DEF TypeOK
    <2>2. waiting' \in [Queues -> SUBSET Receivers]
      <3>1. waiting \in [Queues -> SUBSET Receivers] /\ {c} \subseteq Receivers
        BY <1>1 DEF TypeOK
      <3>2. [waiting EXCEPT ![q] = @ \cup {c}] \in [Queues -> SUBSET Receivers]
        BY <3>1
      <3> QED
        BY <1>4, <3>1, <3>2
    <2>3. pc' \in [Receivers -> {"app", "waiting", "take"}]
      BY <1>1, <1>4 DEF TypeOK
    <2> QED
      BY <1>1, <1>3, <2>1, <2>2, <2>3 DEF TypeOK
  <1>6. EventStandsForMessage'
    BY <1>1, <1>2, <1>3, <1>4 DEF TypeOK, EventStandsForMessage, Promised, IsEmpty
  <1>7. Promised'
    <2>1. ASSUME NEW p \in Queues, signaled'[p] PROVE p # q /\ signaled[p]
      BY <1>1, <1>3, <2>1, Zenon DEF TypeOK
    <2>2. ASSUME NEW d \in Receivers, pc'[d] = "take", d # c PROVE pc[d] = "take"
      BY <1>1, <1>4, <2>2 DEF TypeOK
    <2>3. \A d \in Receivers : Serves[d] \in Queues
      BY MsgQAssumption
    <2> QED
      BY <1>1, <1>2, <1>3, <2>1, <2>2, <2>3 DEF Promised, IsEmpty
  <1>8. WaitersServe'
    <2> SUFFICES ASSUME NEW p \in Queues, NEW d \in waiting'[p]
                 PROVE  Serves[d] = p /\ pc'[d] = "waiting"
      BY DEF WaitersServe
    <2>1. pc[c] = "app" /\ \A o \in Queues : \A e \in waiting[o] : e # c /\ e \in Receivers
      BY <1>1 DEF WaitersServe, GetMessage, TypeOK
    <2>2. CASE d \in waiting[p]
      BY <1>1, <1>4, <2>1, <2>2 DEF WaitersServe, TypeOK
    <2>3. CASE d \notin waiting[p]
      <3>1. waiting' = [waiting EXCEPT ![q] = @ \cup {c}] /\ pc' = [pc EXCEPT ![c] = "waiting"]
        BY <1>4, <2>3
      <3>2. p = q /\ d = c
        BY <1>1, <2>3, <3>1 DEF TypeOK
      <3> QED
        BY <1>1, <1>2, <3>1, <3>2 DEF TypeOK
    <2> QED
      BY <2>2, <2>3
  <1> QED
    BY <1>3, <1>5, <1>6, <1>7, <1>8, RingsAlone DEF Refines, MsgInv

LEMMA TimeoutKeeps ==
    ASSUME MsgInv, NEW c \in Receivers, GetTimeout(c)
    PROVE  Refines
  <1>1. TypeOK /\ EventStandsForMessage /\ Promised /\ WaitersServe
    BY DEF MsgInv
  <1>2. PICK q \in Queues : q = Serves[c]
    BY MsgQAssumption
  <1>3. /\ waiting' = [waiting EXCEPT ![q] = @ \ {c}] /\ pc' = [pc EXCEPT ![c] = "app"]
        /\ UNCHANGED <<mq_read, mq_write, mq_que, signaled, got, ret, missed>>
    BY <1>2 DEF GetTimeout
  <1>4. TypeOK'
    <2>1. /\ waiting' \in [Queues -> SUBSET Receivers]
          /\ pc' \in [Receivers -> {"app", "waiting", "take"}]
      BY <1>1, <1>3 DEF TypeOK
    <2> QED
      BY <1>1, <1>3, <2>1 DEF TypeOK
  <1>5. EventStandsForMessage' /\ Promised'
    <2>1. \A d \in Receivers : pc'[d] = "take" => pc[d] = "take"
      BY <1>1, <1>3 DEF TypeOK
    <2> QED
      BY <1>1, <1>3, <2>1 DEF EventStandsForMessage, Promised, IsEmpty
  <1>6. WaitersServe'
    <2> SUFFICES ASSUME NEW p \in Queues, NEW d \in waiting'[p]
                 PROVE  Serves[d] = p /\ pc'[d] = "waiting"
      BY DEF WaitersServe
    <2>1. d \in waiting[p] /\ (p = q => d # c) /\ d \in Receivers
      BY <1>1, <1>3 DEF TypeOK
    <2>2. Serves[d] = p /\ pc[d] = "waiting"
      BY <1>1, <2>1 DEF WaitersServe
    <2>3. d # c
      BY <1>2, <2>1, <2>2
    <2> QED
      BY <1>1, <1>3, <2>1, <2>2, <2>3 DEF TypeOK
  <1> QED
    BY <1>3, <1>4, <1>5, <1>6, RingsAlone DEF Refines, MsgInv

\* The receiver of a queue takes a message: nobody else waits for the queue
\* or is about to take from it.
LEMMA TakeKeeps ==
    ASSUME MsgInv, OneEach, NEW c \in Receivers, TakeMessage(c)
    PROVE  Refines
  <1>1. TypeOK /\ EventStandsForMessage /\ Promised /\ WaitersServe
    BY DEF MsgInv
  <1>2. PICK q \in Queues : q = Serves[c]
    BY MsgQAssumption
  <1>3. PICK r \in 0 .. (Size - 1), w \in 0 .. (Size - 1) : r = mq_read[q] /\ w = mq_write[q]
    BY <1>1 DEF TypeOK
  <1>4. pc[c] = "take" /\ r # w /\ Masked(r + 1) = After(r) /\ After(r) \in 0 .. (Size - 1)
    BY <1>1, <1>2, <1>3, CountIs DEF TakeMessage, EventStandsForMessage, IsEmpty
  <1>5. waiting[q] = {}
    <2>1. \A d \in waiting[q] : d \in Receivers /\ Serves[d] = Serves[c] /\ pc[d] = "waiting"
      BY <1>1, <1>2 DEF WaitersServe, TypeOK
    <2>2. \A d \in waiting[q] : d = c
      BY <2>1 DEF OneEach
    <2> QED
      BY <1>4, <2>1, <2>2
  <1>6. /\ got' = [got EXCEPT ![c] = mq_que[q][r]]
        /\ mq_read' = [mq_read EXCEPT ![q] = After(r)]
        /\ pc' = [pc EXCEPT ![c] = "app"]
        /\ UNCHANGED <<waiting, mq_write, mq_que, ret, missed>>
    BY <1>2, <1>3, <1>4, <1>5 DEF TakeMessage
  <1>7. signaled' = [signaled EXCEPT ![q] = signaled[q] \/ After(r) # w]
    BY <1>2, <1>3, <1>4, <1>5, Zenon DEF TakeMessage
  <1>8. TypeOK'
    <2>1. signaled' \in [Queues -> BOOLEAN]
      BY <1>1, <1>7, Zenon DEF TypeOK
    <2>2. mq_read' \in [Queues -> 0 .. (Size - 1)] /\ pc' \in [Receivers -> {"app", "waiting", "take"}]
      BY <1>1, <1>4, <1>6 DEF TypeOK
    <2>3. got' \in [Receivers -> Messages \cup {NoMsg}]
      <3>1. mq_que \in [Queues -> [0 .. (Size - 1) -> Messages \cup {NoMsg}]]
        BY <1>1 DEF TypeOK
      <3>2. q \in Queues /\ r \in 0 .. (Size - 1)
        BY <1>1, <1>3
      <3>3. mq_que[q][r] \in Messages \cup {NoMsg}
        BY <3>1, <3>2, Zenon
      <3> QED
        BY <1>1, <1>6, <3>3 DEF TypeOK
    <2> QED
      BY <1>1, <1>6, <2>1, <2>2, <2>3 DEF TypeOK
  <1>9. ASSUME NEW d \in Receivers, pc'[d] = "take"
        PROVE  pc[d] = "take" /\ Serves[d] # q /\ Serves[d] \in Queues
    <2>1. d # c /\ pc[d] = "take"
      BY <1>1, <1>6, <1>9 DEF TypeOK
    <2>2. Serves[d] # Serves[c]
      BY <2>1 DEF OneEach
    <2> QED
      BY <1>2, <2>1, <2>2, MsgQAssumption
  <1>10. ASSUME NEW p \in Queues, p # q
         PROVE  mq_read'[p] = mq_read[p] /\ mq_write'[p] = mq_write[p] /\ signaled'[p] = signaled[p]
    <2>1. signaled'[p] = signaled[p]
      BY <1>1, <1>7, <1>10, Zenon DEF TypeOK
    <2> QED
      BY <1>1, <1>6, <1>10, <2>1 DEF TypeOK
  <1>11. EventStandsForMessage'
    BY <1>1, <1>9, <1>10 DEF EventStandsForMessage, IsEmpty
  <1>12. Promised'
    <2>1. signaled'[q] => mq_read'[q] # mq_write'[q]
      <3>1. signaled[q] => After(r) # w
        BY <1>1, <1>2, <1>3, <1>4 DEF Promised
      <3>2. signaled'[q] => After(r) # w
        BY <1>1, <1>7, <3>1, Zenon DEF TypeOK
      <3> QED
        BY <1>1, <1>3, <1>6, <3>2 DEF TypeOK
    <2>2. ASSUME NEW p \in Queues, signaled'[p] PROVE mq_read'[p] # mq_write'[p]
      BY <1>1, <1>10, <2>1, <2>2 DEF Promised, IsEmpty
    <2>3. ASSUME NEW d \in Receivers, pc'[d] = "take", signaled'[Serves[d]]
          PROVE  After(mq_read'[Serves[d]]) # mq_write'[Serves[d]]
      BY <1>1, <1>9, <1>10, <2>3 DEF Promised
    <2> QED
      BY <2>2, <2>3 DEF Promised, IsEmpty
  <1>13. WaitersServe'
    <2> SUFFICES ASSUME NEW p \in Queues, NEW d \in waiting[p]
                 PROVE  Serves[d] = p /\ pc'[d] = "waiting"
      BY <1>6 DEF WaitersServe
    <2>1. Serves[d] = p /\ pc[d] = "waiting" /\ d \in Receivers
      BY <1>1 DEF WaitersServe, TypeOK
    <2> QED
      BY <1>1, <1>4, <1>6, <2>1 DEF TypeOK
  <1>14. Channel!Receive(q, c)
    <2>1. StoredShown /\ StoredShown'
      BY <1>1, <1>8, StoredIs, StoredNext DEF StoredShown
    <2>2. PICK que \in Rings(Messages \cup {NoMsg}) : que = mq_que[q]
      BY <1>1 DEF TypeOK, Rings
    <2>3. /\ Head(Between(que, r, w)) = que[r]
          /\ Between(que, After(r), w) = Tail(Between(que, r, w))
      BY <1>4, RingGivesOut
    <2>4. Stored[q] = Between(que, r, w) /\ Stored'[q] = Between(que, After(r), w)
      BY <1>1, <1>3, <1>6, <2>1, <2>2 DEF StoredShown, TypeOK
    <2>5. ASSUME NEW p \in Queues, p # q PROVE Stored'[p] = Stored[p]
      <3>1. mq_read'[p] = mq_read[p] /\ mq_write'[p] = mq_write[p] /\ mq_que'[p] = mq_que[p]
        BY <1>6, <1>10, <2>5
      <3> QED
        BY <2>1, <3>1 DEF StoredShown
    <2>6. Stored = [p \in Queues |-> Stored[p]] /\ Stored' = [p \in Queues |-> Stored'[p]]
      BY <2>1, Zenon DEF StoredShown
    <2>7. Stored' = [Stored EXCEPT ![q] = Tail(@)]
      BY <2>3, <2>4, <2>5, <2>6
    <2>8. got' = [got EXCEPT ![c] = Head(Stored[q])]
      BY <1>6, <2>2, <2>3, <2>4
    <2>9. Stored[q] # <<>>
      BY <1>1, <1>3, <1>4, RoomIs DEF IsEmpty
    <2> QED
      BY <2>7, <2>8, <2>9 DEF Channel!Receive
  <1> QED
    BY <1>8, <1>11, <1>12, <1>13, <1>14 DEF Refines, MsgInv, Channel!Next

\* The receiver of a queue empties it.
LEMMA FlushKeeps ==
    ASSUME MsgInv, NEW c \in Receivers, MsgQFlush(c)
    PROVE  Refines
  <1>1. TypeOK /\ EventStandsForMessage /\ Promised /\ WaitersServe
    BY DEF MsgInv
  <1>2. PICK q \in Queues : q = Serves[c]
    BY MsgQAssumption
  <1>3. /\ pc[c] = "app" /\ \A d \in Receivers \ {c} : Serves[d] # q
        /\ mq_read' = [mq_read EXCEPT ![q] = mq_write[q]]
        /\ waiting' = [waiting EXCEPT ![q] = {}]
        /\ signaled' = [signaled EXCEPT ![q] = FALSE]
        /\ UNCHANGED <<mq_write, mq_que, pc, got, ret, missed>>
    BY <1>2, Zenon DEF MsgQFlush
  <1>4. TypeOK'
    <2>1. signaled' \in [Queues -> BOOLEAN]
      BY <1>1, <1>3, Zenon DEF TypeOK
    <2>2. /\ mq_read' \in [Queues -> 0 .. (Size - 1)]
          /\ waiting' \in [Queues -> SUBSET Receivers]
      BY <1>1, <1>3 DEF TypeOK
    <2> QED
      BY <1>1, <1>3, <2>1, <2>2 DEF TypeOK
  <1>5. \A d \in Receivers : pc[d] = "take" => Serves[d] # q /\ Serves[d] \in Queues
    BY <1>3, MsgQAssumption
  <1>6. ASSUME NEW p \in Queues, p # q
        PROVE  mq_read'[p] = mq_read[p] /\ signaled'[p] = signaled[p]
    <2>1. signaled'[p] = signaled[p]
      BY <1>1, <1>3, <1>6, Zenon DEF TypeOK
    <2> QED
      BY <1>1, <1>3, <1>6, <2>1 DEF TypeOK
  <1>7. ~signaled'[q]
    BY <1>1, <1>3, Zenon DEF TypeOK
  <1>8. EventStandsForMessage' /\ Promised'
    BY <1>1, <1>3, <1>5, <1>6, <1>7 DEF EventStandsForMessage, Promised, IsEmpty
  <1>9. WaitersServe'
    BY <1>1, <1>3 DEF WaitersServe, TypeOK
  <1>10. Channel!Flush(q)
    <2>1. StoredShown /\ StoredShown'
      BY <1>1, <1>4, StoredIs, StoredNext DEF StoredShown
    <2>2. Stored'[q] = <<>>
      <3>1. mq_read'[q] = mq_write'[q]
        BY <1>1, <1>3 DEF TypeOK
      <3>2. PICK que \in Rings(Messages \cup {NoMsg}), w \in 0 .. (Size - 1) :
              que = mq_que'[q] /\ w = mq_write'[q]
        BY <1>1, <1>3 DEF TypeOK, Rings
      <3>3. Between(que, w, w) = <<>>
        BY BetweenIs
      <3> QED
        BY <2>1, <3>1, <3>2, <3>3 DEF StoredShown
    <2>3. ASSUME NEW p \in Queues, p # q PROVE Stored'[p] = Stored[p]
      BY <1>3, <1>6, <2>1, <2>3 DEF StoredShown
    <2>4. Stored = [p \in Queues |-> Stored[p]] /\ Stored' = [p \in Queues |-> Stored'[p]]
      BY <2>1, Zenon DEF StoredShown
    <2>5. Stored' = [Stored EXCEPT ![q] = <<>>]
      BY <2>2, <2>3, <2>4
    <2> QED
      BY <1>3, <2>5 DEF Channel!Flush
  <1> QED
    BY <1>4, <1>8, <1>9, <1>10 DEF Refines, MsgInv, Channel!Next

LEMMA MsgNext == MsgInv /\ OneEach /\ [Next]_vars => Refines
  <1> SUFFICES ASSUME MsgInv, OneEach, [Next]_vars PROVE Refines
    OBVIOUS
  <1>1. ASSUME NEW q \in Queues, NEW m \in Messages, MsgQPost(q, m) PROVE Refines
    <2>1. Put({q}, m) /\ ret' \in Int /\ missed' \in BOOLEAN
      BY <1>1 DEF MsgQPost, MsgInv, TypeOK
    <2> QED
      BY <2>1, PutKeeps
  <1>2. ASSUME NEW m \in Messages, MsgQBroadcast(m) PROVE Refines
    <2>1. Cardinality({q \in Queues : IsFull(q)}) \in Nat
      <3>1. IsFiniteSet({q \in Queues : IsFull(q)})
        BY MsgQAssumption, FS_Subset
      <3> QED
        BY <3>1, FS_CardinalityType
    <2>2. Put(Queues, m) /\ ret' \in Int /\ missed' \in BOOLEAN
      BY <1>2, <2>1 DEF MsgQBroadcast
    <2> QED
      BY <2>2, PutKeeps
  <1>3. CASE UNCHANGED vars
    <2>1. MsgInv'
      BY <1>3 DEF MsgInv, TypeOK, EventStandsForMessage, Promised, WaitersServe, IsEmpty, vars
    <2> QED
      BY <1>3, <2>1, RingsAlone DEF Refines, vars
  <1> QED
    BY <1>1, <1>2, <1>3, GetKeeps, TimeoutKeeps, TakeKeeps, FlushKeeps DEF Next

-----------------------------------------------------------------------------
\* With one receiver for each queue, the ASSERT of NutMsgQGetMessage holds: the
\* event a receiver was given still stands for a message when it gets to run,
\* whatever was posted, broadcast, flushed or timed out meanwhile.
THEOREM EventsStand ==
    ASSUME OneEach
    PROVE  Spec => []EventStandsForMessage
  <1>1. MsgInv /\ [Next]_vars => MsgInv'
    BY MsgNext DEF Refines
  <1>2. MsgInv => EventStandsForMessage
    BY DEF MsgInv
  <1> QED
    BY <1>1, <1>2, MsgInit, PTL DEF Spec

\* With one receiver for each queue, the ring with its wrapping positions is
\* a bounded first-in first-out channel: a message that was accepted is given
\* to the receiver once, in the order of acceptance, unless it is flushed.
THEOREM MsgQIsChannel ==
    ASSUME OneEach
    PROVE  Spec => ImplementsChannel
  <1>1. MsgInv /\ [Next]_vars => MsgInv' /\ [Channel!Next]_(Channel!cvars)
    BY MsgNext DEF Refines
  <1> QED
    BY <1>1, MsgInit, PTL DEF Spec, ImplementsChannel, Channel!Spec

=============================================================================
