---------------------------- MODULE NutTcpProofs ----------------------------
(***************************************************************************)
(* One client connection, for a stream of any length, any segments of the  *)
(* peer, any limits of retransmission and any failures on the way out.     *)
(*                                                                         *)
(* One step of the state machine goes through several operators, each of   *)
(* which takes a socket and makes a socket.  A lemma for each says what it *)
(* keeps: the transmission queue (TxQueue), the bytes between the peer and *)
(* the reader (RxStream), and whom it has to wake (Woke).                  *)
(***************************************************************************)
EXTENDS NutTcp, ListLemmas

Dead == {"CLOSED", "TIME_WAIT", "NONE"}

\* The transmission queue runs from so_tx_una to so_tx_nxt, and its timer runs.
TxQueue(s) ==
    /\ s.so_tx_una <= s.so_tx_nxt
    /\ s.so_state \notin Dead =>
         /\ Len(s.so_tx_nbq) = s.so_tx_nxt - s.so_tx_una
         /\ \A i \in 1 .. Len(s.so_tx_nbq) : s.so_tx_nbq[i] = s.so_tx_una + i - 1
         /\ s.so_tx_nbq # <<>> => s.so_retran

\* A segment with data lies in the stream; a FIN comes after the last byte, or
\* on it, unless the peer puts it on longer runs.
InStream(g) == 1 <= g.seq /\ g.seq + g.len <= Bytes + 1
Ends(g) == g.seq + g.len = Bytes + 1 /\ g.len <= 1
FromStream(g) == (g.len > 0 => InStream(g)) /\ (g.fin /\ ~Coalesces => Ends(g))

\* The reader has been given the first n bytes; the buffer holds those up to m.
Buffered(s, n, m) ==
    /\ n + Len(s.so_rx_buf) = m /\ m <= Bytes
    /\ s.so_rx_cnt = Len(s.so_rx_buf)
    /\ \A i \in 1 .. Len(s.so_rx_buf) : s.so_rx_buf[i] = n + i

\* After the FIN nothing is missing, unless it was taken too early.
AtEnd(s, n) == LET m == n + Len(s.so_rx_buf)
               IN  Buffered(s, n, m) /\ (~Coalesces => m = Bytes)

RxStream(s, n) ==
    /\ \A i \in 1 .. Len(s.so_rx_nbq) : s.so_rx_nbq[i].len > 0 /\ FromStream(s.so_rx_nbq[i])
    /\ s.so_state \in {"CLOSED", "SYN_SENT", "NONE"} => s.so_rx_buf = <<>>
    /\ s.so_state = "SYN_SENT" => n = 0 /\ s.so_rx_cnt = 0
    /\ s.so_state = "ESTABLISHED" => Buffered(s, n, s.so_rx_nxt - 1)
    /\ s.so_state = "CLOSE_WAIT" => AtEnd(s, n)

\* A socket before its connect, and who closed it.
Fresh == [Freed EXCEPT !.so_state = "CLOSED"]

Lifecycle ==
    /\ app = "idle" => sock = Fresh
    /\ sock.so_state \in ClosedByApp \cup {"NONE"} => app = "closed"

GotInOrder == /\ got \in Seq(Nat) /\ \A i \in 1 .. Len(got) : got[i] = i
              /\ (app = "idle" => got = <<>>) /\ Len(got) <= Bytes

TcpInv == TypeOK /\ Lifecycle /\ TxQueue(sock) /\ NobodyLeftWaiting

StreamInv == GotInOrder /\ RxStream(sock, Len(got))

-----------------------------------------------------------------------------
(* NutTcpOutput and the end of a connection                                 *)

\* What most operators leave alone.
SameRx(s, t) == /\ t.so_rx_nxt = s.so_rx_nxt /\ t.so_rx_buf = s.so_rx_buf
                /\ t.so_rx_cnt = s.so_rx_cnt /\ t.so_rx_nbq = s.so_rx_nbq

Stays(s, t) == t.so_state = s.so_state /\ t.woken = s.woken

Keeps(s, t) ==
    t \in Sockets /\ Stays(s, t) /\ SameRx(s, t) /\ (TxQueue(s) => TxQueue(t))

LEMMA QueuedKeeps ==
    ASSUME NEW s \in Sockets, NEW f \in SUBSET Flags, NEW o, NEW t,
           t = Queued([s EXCEPT !.so_tx_flags = f, !.so_tx_nxt = @ + 1], s.so_tx_nxt, o)
    PROVE  Keeps(s, t)
  <1>. DEFINE u == [s EXCEPT !.so_tx_flags = f, !.so_tx_nxt = @ + 1]
              q == Append(s.so_tx_nbq, s.so_tx_nxt)
  <1>0. s.so_tx_nxt \in Nat /\ s.so_tx_nxt + 1 \in Nat
    BY DEF Sockets
  <1>9. u \in Sockets
    BY <1>0 DEF Sockets
  <1>1. /\ u \in Sockets /\ u.so_tx_nbq = s.so_tx_nbq /\ u.so_retran = s.so_retran
        /\ u.so_tx_una = s.so_tx_una /\ u.so_tx_nxt = s.so_tx_nxt + 1
        /\ Stays(s, u) /\ SameRx(s, u)
    BY <1>0, <1>9 DEF Sockets, Stays, SameRx
  <1>2. /\ s.so_tx_nbq \in Seq(Nat) /\ s.so_tx_nxt \in Nat /\ s.so_tx_una \in Nat
        /\ s.so_retran \in BOOLEAN
    BY DEF Sockets
  <1>3. /\ q \in Seq(Nat) /\ q # <<>> /\ Len(q) = Len(s.so_tx_nbq) + 1
        /\ q[Len(q)] = s.so_tx_nxt
        /\ \A i \in 1 .. Len(s.so_tx_nbq) : q[i] = s.so_tx_nbq[i]
    BY <1>2, AppendProperties
  <1>4. t = [u EXCEPT !.so_retran = s.so_retran \/ s.so_tx_nbq = <<>>, !.so_tx_nbq = q]
    BY <1>1 DEF Queued
  <1>5. /\ t \in Sockets /\ t.so_tx_nbq = q
        /\ t.so_retran = (s.so_retran \/ s.so_tx_nbq = <<>>)
        /\ t.so_tx_una = u.so_tx_una /\ t.so_tx_nxt = u.so_tx_nxt
        /\ Stays(u, t) /\ SameRx(u, t)
    <2>. HIDE DEF u, q
    <2> QED
      BY <1>1, <1>2, <1>3, <1>4 DEF Sockets, Stays, SameRx
  <1>6. Stays(s, t) /\ SameRx(s, t)
    BY <1>1, <1>5 DEF Stays, SameRx
  <1>7. ASSUME TxQueue(s) PROVE TxQueue(t)
    <2>. HIDE DEF u, q
    <2>1. t.so_tx_una <= t.so_tx_nxt
      BY <1>1, <1>2, <1>5, <1>7 DEF TxQueue
    <2>2. ASSUME t.so_state \notin Dead
          PROVE  /\ Len(t.so_tx_nbq) = t.so_tx_nxt - t.so_tx_una
                 /\ \A i \in 1 .. Len(t.so_tx_nbq) : t.so_tx_nbq[i] = t.so_tx_una + i - 1
                 /\ t.so_tx_nbq # <<>> => t.so_retran
      <3>1. /\ Len(s.so_tx_nbq) = s.so_tx_nxt - s.so_tx_una
            /\ \A i \in 1 .. Len(s.so_tx_nbq) : s.so_tx_nbq[i] = s.so_tx_una + i - 1
            /\ s.so_tx_nbq # <<>> => s.so_retran
        BY <1>6, <1>7, <2>2 DEF TxQueue, Stays
      <3>2. Len(t.so_tx_nbq) = t.so_tx_nxt - t.so_tx_una
        BY <1>1, <1>2, <1>3, <1>5, <3>1
      <3>3. ASSUME NEW i \in 1 .. Len(t.so_tx_nbq)
            PROVE  t.so_tx_nbq[i] = t.so_tx_una + i - 1
        <4>1. Len(s.so_tx_nbq) \in Nat
          BY <1>2, LenProperties
        <4>2. CASE i \in 1 .. Len(s.so_tx_nbq)
          BY <1>1, <1>3, <1>5, <3>1, <4>2
        <4>3. CASE i = Len(s.so_tx_nbq) + 1
          BY <1>1, <1>2, <1>3, <1>5, <3>1, <4>1, <4>3
        <4> QED
          BY <1>3, <1>5, <4>1, <4>2, <4>3
      <3>4. t.so_retran
        BY <1>5, <3>1
      <3> QED
        BY <3>2, <3>3, <3>4
    <2> QED
      BY <2>1, <2>2 DEF TxQueue
  <1> QED
    BY <1>5, <1>6, <1>7 DEF Keeps

\* A change of the flags alone.
LEMMA FlagsKeep ==
    ASSUME NEW s \in Sockets, NEW f \in SUBSET Flags, NEW t, t = [s EXCEPT !.so_tx_flags = f]
    PROVE  Keeps(s, t)
  <1>1. t \in Sockets /\ Stays(s, t) /\ SameRx(s, t)
    BY DEF Sockets, Stays, SameRx
  <1>2. /\ t.so_state = s.so_state /\ t.so_tx_una = s.so_tx_una /\ t.so_tx_nxt = s.so_tx_nxt
        /\ t.so_tx_nbq = s.so_tx_nbq /\ t.so_retran = s.so_retran
    BY DEF Sockets
  <1> QED
    BY <1>1, <1>2 DEF Keeps, TxQueue

LEMMA OutputKeeps ==
    ASSUME NEW s \in Sockets, NEW size, NEW o, NEW t, t = Output(s, size, o)
    PROVE  Keeps(s, t)
  <1>. DEFINE f == s.so_tx_flags \ {"ACK", "FORCE"}
              u == [s EXCEPT !.so_tx_flags = f]
              unit == Content(s, size)
              g == f \ {unit}
              v == [s EXCEPT !.so_tx_flags = g, !.so_tx_nxt = @ + 1]
  <1>1. f \in SUBSET Flags /\ g \in SUBSET Flags
    BY DEF Sockets
  <1>2. [u EXCEPT !.so_tx_flags = @ \ {unit}, !.so_tx_nxt = @ + 1] = v
    BY DEF Sockets
  <1>3. t = s \/ t = u \/ t = Queued(v, s.so_tx_nxt, o)
    <2>. HIDE DEF v
    <2> QED
      BY <1>2 DEF Output
  <1>4. CASE t = s
    BY <1>4 DEF Keeps, Stays, SameRx
  <1>5. CASE t = u
    <2>. HIDE DEF f
    <2> QED
      BY <1>1, <1>5, FlagsKeep
  <1>6. CASE t = Queued(v, s.so_tx_nxt, o)
    <2>. HIDE DEF g
    <2> QED
      BY <1>1, <1>6, QueuedKeeps
  <1> QED
    BY <1>3, <1>4, <1>5, <1>6

\* A socket that is aborted holds nothing, and everybody has been woken.
Aborted(s, t) ==
    /\ t \in Sockets /\ (TxQueue(s) => TxQueue(t))
    /\ t.so_state = AbortState(s.so_state)
    /\ t.so_rx_buf = <<>> /\ t.so_rx_nbq = <<>> /\ t.so_rx_nxt = s.so_rx_nxt
    /\ t.woken = Queues

LEMMA AbortIs ==
    ASSUME NEW s \in Sockets, NEW r, r \in Sockets, Stays(s, r), SameRx(s, r),
           r.so_tx_una = s.so_tx_una, r.so_tx_nxt = s.so_tx_nxt, NEW t, t = Abort(r)
    PROVE  Aborted(s, t)
  <1>1. AbortState(r.so_state) \in {"CLOSED", "TIME_WAIT"}
    BY DEF AbortState
  <1>2. <<>> \in Seq(Nat) /\ <<>> \in Seq(Int) /\ <<>> \in Seq(Segments)
    BY EmptySeq
  <1>3. t \in Sockets
    BY <1>1, <1>2 DEF Abort, Discard, Sockets, States, Queues
  <1>4. /\ t.so_state = AbortState(r.so_state)
        /\ t.so_rx_buf = <<>> /\ t.so_rx_nbq = <<>> /\ t.so_rx_nxt = r.so_rx_nxt
        /\ t.woken = Queues /\ t.so_tx_una = r.so_tx_una /\ t.so_tx_nxt = r.so_tx_nxt
    BY DEF Abort, Discard, Sockets, Queues
  <1>5. TxQueue(s) => TxQueue(t)
    BY <1>1, <1>4 DEF TxQueue, Dead
  <1> QED
    BY <1>3, <1>4, <1>5 DEF Aborted, Stays, SameRx

LEMMA RetranTimeoutIs ==
    ASSUME NEW s \in Sockets, NEW o, NEW t, t = RetranTimeout(s, o)
    PROVE  Keeps(s, t) \/ Aborted(s, t)
  <1>. DEFINE r == [s EXCEPT !.so_retransmits = @ + 1]
              u == [r EXCEPT !.so_retran = TRUE]
  <1>0. s.so_retransmits \in Nat /\ s.so_retransmits + 1 \in Nat
    BY DEF Sockets
  <1>1. r \in Sockets
    BY <1>0 DEF Sockets
  <1>2. /\ Stays(s, r) /\ SameRx(s, r) /\ r.so_tx_una = s.so_tx_una /\ r.so_tx_nxt = s.so_tx_nxt
        /\ r.so_tx_nbq = s.so_tx_nbq
    BY <1>1 DEF Sockets, Stays, SameRx
  <1>. HIDE DEF r
  <1>3. CASE t = Abort(r)
    BY <1>1, <1>2, <1>3, AbortIs
  <1>4. CASE t = u
    <2>1. u \in Sockets
      BY <1>1 DEF Sockets
    <2>2. /\ Stays(r, u) /\ SameRx(r, u) /\ u.so_tx_una = r.so_tx_una /\ u.so_tx_nxt = r.so_tx_nxt
          /\ u.so_tx_nbq = r.so_tx_nbq /\ u.so_retran = TRUE
      BY <1>1 DEF Sockets, Stays, SameRx
    <2>. HIDE DEF u
    <2>3. Stays(s, u) /\ SameRx(s, u)
      BY <1>2, <2>2 DEF Stays, SameRx
    <2>4. TxQueue(s) => TxQueue(u)
      BY <1>2, <2>2, <2>3 DEF TxQueue, Stays
    <2> QED
      BY <1>4, <2>1, <2>3, <2>4 DEF Keeps
  <1>5. t = Abort(r) \/ t = u
    BY DEF RetranTimeout, r
  <1> QED
    BY <1>3, <1>4, <1>5

-----------------------------------------------------------------------------
(* NutTcpStateChange                                                        *)

\* The socket is where the caller wants it, unless the change is refused; the
\* reader hears of the end of the stream.
Changed(s, t, state) ==
    /\ t \in Sockets /\ SameRx(s, t) /\ (TxQueue(s) => TxQueue(t))
    /\ ~Granted(s, state) => t = s
    /\ Granted(s, state) =>
         /\ t.so_state = state
         /\ t.woken = IF state = "CLOSE_WAIT" THEN s.woken \cup {"so_rx_tq", "so_ac_tq"}
                      ELSE s.woken

MovedTo(s, t, state, f) == t = [s EXCEPT !.so_state = state, !.so_tx_flags = f]

\* Another state, where the queue has to be in order as well.
LEMMA MoveKeeps ==
    ASSUME NEW s \in Sockets, s.so_state \notin Dead, NEW state \in States,
           NEW f \in SUBSET Flags, NEW t, MovedTo(s, t, state, f)
    PROVE  /\ t \in Sockets /\ SameRx(s, t) /\ (TxQueue(s) => TxQueue(t))
           /\ t.so_state = state /\ t.woken = s.woken
  <1>. USE DEF MovedTo
  <1>1. t \in Sockets
    BY DEF Sockets
  <1>2. /\ SameRx(s, t) /\ t.so_tx_una = s.so_tx_una /\ t.so_tx_nxt = s.so_tx_nxt
        /\ t.so_tx_nbq = s.so_tx_nbq /\ t.so_retran = s.so_retran
        /\ t.so_state = state /\ t.woken = s.woken
    BY DEF Sockets, SameRx
  <1> QED
    BY <1>1, <1>2 DEF TxQueue

LEMMA StateChangeIs ==
    ASSUME NEW s \in Sockets, s.so_state # "CLOSED", NEW state, NEW o,
           NEW t, t = StateChange(s, state, o)
    PROVE  Changed(s, t, state)
  <1>1. CASE ~Granted(s, state)
    BY <1>1 DEF StateChange, Changed, SameRx
  <1>2. CASE Granted(s, state)
    <2>. DEFINE c == CHOOSE c \in Changes : c.from = s.so_state /\ c.to = state
                flags == FlagsFor(s.so_state, state)
                f == s.so_tx_flags \cup flags
    <2>1. c \in Changes /\ c.from = s.so_state /\ c.to = state
      BY <1>2 DEF Granted
    <2>2. \A d \in Changes : /\ d.from \notin Dead \ {"CLOSED"} /\ d.to \in States
                             /\ d.flags \in SUBSET Flags
      BY DEF Changes, Change, Dead, States, Flags
    <2>. HIDE DEF c
    <2>13. flags = c.flags
      BY DEF FlagsFor, c
    <2>. HIDE DEF flags
    <2>3. s.so_state \notin Dead /\ state \in States /\ f \in SUBSET Flags
      BY <2>1, <2>2, <2>13 DEF Sockets, Dead
    <2>5. PICK r : r = [s EXCEPT !.so_state = state, !.so_tx_flags = s.so_tx_flags \cup flags]
      OBVIOUS
    <2>. DEFINE u == IF flags = {} THEN r ELSE Output(r, 0, o)
    <2>0. MovedTo(s, r, state, f)
      BY <2>5 DEF MovedTo
    <2>11. [s EXCEPT !.so_state = state, !.so_tx_flags = @ \cup flags] = r
      BY <2>5 DEF Sockets
    <2>. HIDE DEF f
    <2>4. /\ r \in Sockets /\ SameRx(s, r) /\ (TxQueue(s) => TxQueue(r))
          /\ r.so_state = state /\ r.woken = s.woken
      BY <2>0, <2>3, MoveKeeps
    <2>6. t = IF state = "CLOSE_WAIT"
              THEN [u EXCEPT !.woken = @ \cup {"so_rx_tq", "so_ac_tq"}] ELSE u
      BY <1>2, <2>11 DEF StateChange, flags
    <2>7. Keeps(r, u)
      <3>1. CASE flags = {}
        BY <2>4, <3>1 DEF Keeps, Stays, SameRx
      <3>2. CASE flags # {}
        BY <2>4, <3>2, OutputKeeps
      <3> QED
        BY <3>1, <3>2
    <2>. HIDE DEF u
    <2>8. /\ u \in Sockets /\ SameRx(s, u) /\ (TxQueue(s) => TxQueue(u))
          /\ u.so_state = state /\ u.woken = s.woken
      BY <2>4, <2>7 DEF Keeps, Stays, SameRx
    <2>9. CASE state = "CLOSE_WAIT"
      <3>. DEFINE w == [u EXCEPT !.woken = @ \cup {"so_rx_tq", "so_ac_tq"}]
      <3>1. w \in Sockets
        BY <2>8 DEF Sockets, Queues
      <3>2. /\ SameRx(u, w) /\ w.so_state = u.so_state
            /\ w.woken = u.woken \cup {"so_rx_tq", "so_ac_tq"}
            /\ w.so_tx_una = u.so_tx_una /\ w.so_tx_nxt = u.so_tx_nxt
            /\ w.so_tx_nbq = u.so_tx_nbq /\ w.so_retran = u.so_retran
        BY <2>8 DEF Sockets, SameRx
      <3>3. t = w
        BY <2>6, <2>9
      <3>. HIDE DEF w
      <3>4. TxQueue(u) => TxQueue(w)
        BY <3>2 DEF TxQueue
      <3> QED
        BY <1>2, <2>8, <2>9, <3>1, <3>2, <3>3, <3>4 DEF Changed, SameRx
    <2>10. CASE state # "CLOSE_WAIT"
      BY <1>2, <2>6, <2>8, <2>10 DEF Changed
    <2> QED
      BY <2>9, <2>10
  <1> QED
    BY <1>1, <1>2

-----------------------------------------------------------------------------
(* NutTcpProcessAck                                                         *)

\* Of a run of numbers q, r holds those from ack on.
Leaves(q, ack, r) ==
    /\ r \in Seq(Nat)
    /\ \A u \in Nat :
         (/\ \A i \in 1 .. Len(q) : q[i] = u + i - 1
          /\ u <= ack /\ ack <= u + Len(q))
           => /\ Len(r) = u + Len(q) - ack
              /\ \A i \in 1 .. Len(r) : r[i] = ack + i - 1

LEMMA UnackedIs ==
    ASSUME NEW q \in Seq(Nat), NEW ack \in Nat, NEW r, r = Unacked(q, ack)
    PROVE  Leaves(q, ack, r)
  <1>. DEFINE left == {i \in DOMAIN q : q[i] + 1 > ack}
              m == Min(left)
  <1>0. Len(q) \in Nat /\ DOMAIN q = 1 .. Len(q) /\ \A i \in 1 .. Len(q) : q[i] \in Nat
    BY LenProperties, ElementOfSeq
  <1>1. r = IF left = {} THEN <<>> ELSE SubSeq(q, m, Len(q))
    BY DEF Unacked
  <1>2. CASE left = {}
    <2>1. r = <<>> /\ <<>> \in Seq(Nat) /\ Len(<<>>) = 0
      BY <1>1, <1>2, EmptySeq
    <2>2. ASSUME NEW u \in Nat, \A i \in 1 .. Len(q) : q[i] = u + i - 1,
                 u <= ack, ack <= u + Len(q)
          PROVE  ack = u + Len(q)
      <3>1. CASE Len(q) = 0
        BY <1>0, <2>2, <3>1
      <3>2. CASE Len(q) > 0
        <4>1. Len(q) \in 1 .. Len(q) /\ Len(q) \notin left
          BY <1>0, <1>2, <3>2
        <4>2. q[Len(q)] = u + Len(q) - 1 /\ ~(q[Len(q)] + 1 > ack)
          BY <1>0, <2>2, <4>1
        <4>3. q[Len(q)] \in Nat
          BY <1>0, <4>1
        <4>4. (u + Len(q) - 1) + 1 <= ack
          BY <1>0, <4>2, <4>3
        <4> QED
          BY <1>0, <2>2, <4>4
      <3> QED
        BY <1>0, <3>1, <3>2
    <2>3. ASSUME NEW u \in Nat, \A i \in 1 .. Len(q) : q[i] = u + i - 1,
                 u <= ack, ack <= u + Len(q)
          PROVE  Len(r) = u + Len(q) - ack /\ \A i \in 1 .. Len(r) : r[i] = ack + i - 1
      <3>1. ack = u + Len(q)
        BY <2>2, <2>3
      <3> QED
        BY <1>0, <2>1, <3>1
    <2> QED
      BY <2>1, <2>3 DEF Leaves
  <1>3. CASE left # {}
    <2>1. left \in SUBSET Nat
      BY <1>0
    <2>2. PICK x \in left : \A y \in left : x <= y
      BY <1>3, <2>1, LeastIndex
    <2>3. m \in left /\ \A y \in left : m <= y
      BY <2>2 DEF Min
    <2>. HIDE DEF m
    <2>4. m \in 1 .. Len(q) /\ q[m] + 1 > ack
      BY <1>0, <2>3
    <2>5. r = SubSeq(q, m, Len(q))
      BY <1>1, <1>3
    <2>6. /\ r \in Seq(Nat) /\ Len(r) = Len(q) - m + 1
          /\ \A i \in 1 .. (Len(q) - m + 1) : r[i] = q[m + i - 1]
      <3>1. \A i \in m .. Len(q) : q[i] \in Nat
        BY <1>0, <2>4
      <3>2. m \in Int /\ Len(q) \in Int /\ m <= Len(q) + 1
        BY <1>0, <2>4
      <3> QED
        BY <1>0, <2>4, <2>5, <3>1, <3>2, SubSeqProperties
    <2>7. ASSUME NEW u \in Nat, \A i \in 1 .. Len(q) : q[i] = u + i - 1,
                 u <= ack, ack <= u + Len(q)
          PROVE  Len(r) = u + Len(q) - ack /\ \A i \in 1 .. Len(r) : r[i] = ack + i - 1
      <3>1. q[m] = u + m - 1 /\ m >= ack - u + 1
        BY <1>0, <2>4, <2>7
      <3>2. ack - u + 1 \in 1 .. Len(q) /\ q[ack - u + 1] = ack
        BY <1>0, <2>4, <2>7, <3>1
      <3>3. ack - u + 1 \in left
        BY <1>0, <3>2
      <3>4. m = ack - u + 1
        BY <2>3, <2>4, <3>1, <3>3
      <3>5. ASSUME NEW i \in 1 .. Len(r)
            PROVE  r[i] = ack + i - 1
        <4>1. r[i] = q[m + i - 1] /\ m + i - 1 \in 1 .. Len(q)
          BY <1>0, <2>4, <2>6
        <4>2. r[i] = u + (m + i - 1) - 1
          BY <2>7, <4>1
        <4> QED
          BY <1>0, <3>4, <4>2
      <3> QED
        BY <1>0, <2>6, <3>4, <3>5
    <2> QED
      BY <2>6, <2>7 DEF Leaves
  <1> QED
    BY <1>2, <1>3

LEMMA Rearmed ==
    ASSUME NEW v \in Sockets, NEW b \in BOOLEAN, NEW t,
           t = [v EXCEPT !.so_retran = b, !.so_retransmits = 0]
    PROVE  t \in Sockets
  BY DEF Sockets

\* Only a segment that brings nothing but an acknowledgment aborts a socket.
LEMMA ProcessAckIs ==
    ASSUME NEW s \in Sockets, NEW g \in Segments, NEW o, NEW t, t = ProcessAck(s, g, o)
    PROVE  Keeps(s, t) \/ (Aborted(s, t) /\ g.len = 0 /\ ~g.syn /\ ~g.fin)
  <1>0. /\ s.so_tx_nbq \in Seq(Nat) /\ s.so_tx_nxt \in Nat /\ s.so_tx_una \in Nat
        /\ s.so_tx_dup \in Nat /\ s.so_tx_flags \in SUBSET Flags
        /\ g.ack \in Nat /\ g.len \in Nat /\ g.syn \in BOOLEAN /\ g.fin \in BOOLEAN
    BY DEF Sockets, Segments
  <1>1. CASE t = s
    BY <1>1 DEF Keeps, Stays, SameRx
  <1>2. CASE g.ack > s.so_tx_nxt
    <2>1. s.so_tx_flags \cup {"ACK", "FORCE"} \in SUBSET Flags
      BY <1>0 DEF Flags
    <2>2. t = [s EXCEPT !.so_tx_flags = s.so_tx_flags \cup {"ACK", "FORCE"}]
      BY <1>2 DEF ProcessAck, Sockets
    <2> QED
      BY <2>1, <2>2, FlagsKeep
  <1>3. CASE g.ack <= s.so_tx_nxt /\ g.ack > s.so_tx_una
    <2>. DEFINE left == Unacked(s.so_tx_nbq, g.ack)
    <2>1. t = [s EXCEPT !.so_tx_una = g.ack, !.so_tx_nbq = left, !.so_tx_dup = 0,
                        !.so_retran = left # <<>>, !.so_retransmits = 0]
      BY <1>0, <1>3 DEF ProcessAck
    <2>11. Leaves(s.so_tx_nbq, g.ack, left)
      BY <1>0, UnackedIs
    <2>. HIDE DEF left
    <2>2. left \in Seq(Nat)
      BY <2>11 DEF Leaves
    <2>6. PICK b \in BOOLEAN : b = (left # <<>>)
      OBVIOUS
    <2>7. t = [s EXCEPT !.so_tx_una = g.ack, !.so_tx_nbq = left, !.so_tx_dup = 0,
                        !.so_retran = b, !.so_retransmits = 0]
      BY <2>1, <2>6
    <2>8. PICK v : v = [s EXCEPT !.so_tx_una = g.ack, !.so_tx_nbq = left, !.so_tx_dup = 0]
      OBVIOUS
    <2>9. v \in Sockets
      BY <1>0, <2>2, <2>8 DEF Sockets
    <2>10. t = [v EXCEPT !.so_retran = b, !.so_retransmits = 0]
      BY <2>7, <2>8
    <2>3. t \in Sockets
      BY <2>6, <2>9, <2>10, Rearmed
    <2>4. /\ Stays(s, t) /\ SameRx(s, t) /\ t.so_tx_una = g.ack /\ t.so_tx_nbq = left
          /\ t.so_retran = (left # <<>>) /\ t.so_tx_nxt = s.so_tx_nxt
      BY <2>1, <2>3 DEF Sockets, Stays, SameRx
    <2>5. ASSUME TxQueue(s) PROVE TxQueue(t)
      <3>1. t.so_tx_una <= t.so_tx_nxt
        BY <1>3, <2>4
      <3>2. ASSUME t.so_state \notin Dead
            PROVE  /\ Len(left) = s.so_tx_nxt - g.ack
                   /\ \A i \in 1 .. Len(left) : left[i] = g.ack + i - 1
        <4>1. /\ Len(s.so_tx_nbq) = s.so_tx_nxt - s.so_tx_una
              /\ \A i \in 1 .. Len(s.so_tx_nbq) : s.so_tx_nbq[i] = s.so_tx_una + i - 1
          BY <2>4, <2>5, <3>2 DEF TxQueue, Stays
        <4>2. /\ s.so_tx_una <= g.ack /\ g.ack <= s.so_tx_una + Len(s.so_tx_nbq)
              /\ s.so_tx_una + Len(s.so_tx_nbq) - g.ack = s.so_tx_nxt - g.ack
          BY <1>0, <1>3, <4>1
        <4> QED
          BY <1>0, <2>11, <4>1, <4>2 DEF Leaves
      <3> QED
        BY <2>4, <3>1, <3>2 DEF TxQueue
    <2> QED
      BY <2>3, <2>4, <2>5 DEF Keeps
  <1>4. CASE g.ack = s.so_tx_una /\ ~(g.ack > s.so_tx_nxt) /\ t # s
    <2>1. g.len = 0 /\ ~g.syn /\ ~g.fin
      BY <1>0, <1>4 DEF ProcessAck
    <2>2. ASSUME NEW d \in Nat, NEW r, r = [s EXCEPT !.so_tx_dup = d]
          PROVE  Keeps(s, r)
      <3>1. r \in Sockets
        BY <2>2 DEF Sockets
      <3>2. /\ Stays(s, r) /\ SameRx(s, r) /\ r.so_tx_una = s.so_tx_una
            /\ r.so_tx_nxt = s.so_tx_nxt /\ r.so_tx_nbq = s.so_tx_nbq
            /\ r.so_retran = s.so_retran
        BY <2>2, <3>1 DEF Sockets, Stays, SameRx
      <3> QED
        BY <3>1, <3>2 DEF Keeps, TxQueue, Stays
    <2>3. \/ t = RetranTimeout([s EXCEPT !.so_tx_dup = 0], o)
          \/ t = [s EXCEPT !.so_tx_dup = s.so_tx_dup + 1]
      BY <1>0, <1>4 DEF ProcessAck, Sockets
    <2>4. CASE t = [s EXCEPT !.so_tx_dup = s.so_tx_dup + 1]
      <3>1. s.so_tx_dup + 1 \in Nat
        BY <1>0
      <3> QED
        BY <2>2, <2>4, <3>1
    <2>5. CASE t = RetranTimeout([s EXCEPT !.so_tx_dup = 0], o)
      <3>1. PICK r : r = [s EXCEPT !.so_tx_dup = 0]
        OBVIOUS
      <3>2. Keeps(s, r)
        BY <2>2, <3>1
      <3>3. r \in Sockets /\ t = RetranTimeout(r, o)
        BY <2>5, <3>1, <3>2 DEF Keeps
      <3>4. Keeps(r, t) \/ Aborted(r, t)
        BY <3>3, RetranTimeoutIs
      <3> QED
        BY <2>1, <3>2, <3>4 DEF Keeps, Aborted, Stays, SameRx
    <2> QED
      BY <2>3, <2>4, <2>5
  <1>5. CASE g.ack < s.so_tx_una
    BY <1>0, <1>1, <1>2, <1>5 DEF ProcessAck
  <1> QED
    BY <1>0, <1>1, <1>2, <1>3, <1>4, <1>5

-----------------------------------------------------------------------------
(* Waking, answers and data                                                 *)

LEMMA WakeKeeps ==
    ASSUME NEW s \in Sockets, NEW q \in SUBSET Queues, NEW t, t = Wake(s, q)
    PROVE  /\ t \in Sockets /\ SameRx(s, t) /\ (TxQueue(s) => TxQueue(t))
           /\ t.so_state = s.so_state /\ t.woken = s.woken \cup q
  <1>1. t \in Sockets
    BY DEF Wake, Sockets
  <1>2. /\ SameRx(s, t) /\ t.so_tx_una = s.so_tx_una /\ t.so_tx_nxt = s.so_tx_nxt
        /\ t.so_tx_nbq = s.so_tx_nbq /\ t.so_retran = s.so_retran
        /\ t.so_state = s.so_state /\ t.woken = s.woken \cup q
    BY DEF Wake, Sockets, SameRx
  <1> QED
    BY <1>1, <1>2 DEF TxQueue

LEMMA AnswerKeeps ==
    ASSUME NEW s \in Sockets, NEW o, NEW t, t = Answer(s, o)
    PROVE  Keeps(s, t)
  <1>. DEFINE f == s.so_tx_flags \cup {"ACK", "FORCE"}
  <1>1. f \in SUBSET Flags
    BY DEF Sockets, Flags
  <1>2. PICK r : r = [s EXCEPT !.so_tx_flags = f]
    OBVIOUS
  <1>. HIDE DEF f
  <1>3. Keeps(s, r)
    BY <1>1, <1>2, FlagsKeep
  <1>4. t = Output(r, 0, o)
    BY <1>2 DEF Answer, f
  <1>5. r \in Sockets
    BY <1>3 DEF Keeps
  <1>6. Keeps(r, t)
    BY <1>4, <1>5, OutputKeeps
  <1> QED
    BY <1>3, <1>6 DEF Keeps, Stays, SameRx

\* t is s with the data of g behind what it has received.
TookData(s, g, t) ==
    /\ t \in Sockets /\ Stays(s, t) /\ (TxQueue(s) => TxQueue(t))
    /\ t.so_rx_nbq = s.so_rx_nbq /\ t.so_rx_nxt = s.so_rx_nxt + g.len
    /\ t.so_rx_cnt = s.so_rx_cnt + g.len
    /\ Len(t.so_rx_buf) = Len(s.so_rx_buf) + g.len
    /\ \A i \in 1 .. Len(s.so_rx_buf) + g.len :
         t.so_rx_buf[i] = IF i <= Len(s.so_rx_buf) THEN s.so_rx_buf[i]
                          ELSE g.seq + (i - Len(s.so_rx_buf)) - 1

LEMMA NumbersInARow ==
    ASSUME NEW from \in Int, NEW len \in Nat
    PROVE  [i \in 1 .. len |-> from + i - 1] \in Seq(Int)
  <1>1. \A i \in 1 .. len : from + i - 1 \in Int
    OBVIOUS
  <1> QED
    BY <1>1, IsASeq

LEMMA ProcessAppDataIs ==
    ASSUME NEW s \in Sockets, NEW g \in Segments, NEW more, NEW o,
           NEW t, t = ProcessAppData(s, g, more, o)
    PROVE  TookData(s, g, t)
  <1>. DEFINE d == [i \in 1 .. g.len |-> g.seq + i - 1]
              b == s.so_rx_buf \o d
              f == s.so_tx_flags \cup {"ACK"} \cup (IF more THEN {} ELSE {"FORCE"})
  <1>0. /\ g.len \in Nat /\ g.seq \in Int /\ s.so_rx_cnt \in Nat /\ s.so_rx_nxt \in Nat
        /\ s.so_rx_buf \in Seq(Int) /\ f \in SUBSET Flags
    BY DEF Sockets, Segments, Flags
  <1>1. d \in Seq(Int) /\ Len(d) = g.len /\ \A i \in 1 .. g.len : d[i] = g.seq + i - 1
    <2>1. \A i \in 1 .. g.len : g.seq + i - 1 \in Int
      BY <1>0
    <2>2. d \in Seq(Int)
      BY <1>0, NumbersInARow
    <2>3. DOMAIN d = 1 .. g.len /\ \A i \in 1 .. g.len : d[i] = g.seq + i - 1
      OBVIOUS
    <2>. HIDE DEF d
    <2>4. Len(d) \in Nat /\ 1 .. Len(d) = 1 .. g.len
      BY <2>2, <2>3, LenProperties
    <2>5. Len(d) = g.len
      BY <1>0, <2>4
    <2> QED
      BY <2>2, <2>3, <2>5
  <1>. HIDE DEF d
  <1>2. /\ b \in Seq(Int) /\ Len(b) = Len(s.so_rx_buf) + g.len
        /\ \A i \in 1 .. Len(s.so_rx_buf) + g.len :
             b[i] = IF i <= Len(s.so_rx_buf) THEN s.so_rx_buf[i] ELSE d[i - Len(s.so_rx_buf)]
    <2>1. s.so_rx_buf \in Seq(Int) /\ d \in Seq(Int) /\ Len(d) = g.len
      BY <1>0, <1>1
    <2> QED
      BY <2>1, ConcatProperties
  <1>3. Len(s.so_rx_buf) \in Nat
    BY <1>0, LenProperties
  <1>4. ASSUME NEW i \in 1 .. Len(s.so_rx_buf) + g.len
        PROVE  b[i] = IF i <= Len(s.so_rx_buf) THEN s.so_rx_buf[i]
                      ELSE g.seq + (i - Len(s.so_rx_buf)) - 1
    <2>1. CASE i <= Len(s.so_rx_buf)
      BY <1>2, <2>1
    <2>2. CASE ~(i <= Len(s.so_rx_buf))
      <3>1. PICK j : j = i - Len(s.so_rx_buf)
        OBVIOUS
      <3>2. j \in 1 .. g.len
        BY <1>0, <1>3, <2>2, <3>1
      <3>3. b[i] = d[j]
        BY <1>2, <2>2, <3>1
      <3> QED
        BY <1>1, <2>2, <3>1, <3>2, <3>3
    <2> QED
      BY <2>1, <2>2
  <1>5. PICK r : r = [s EXCEPT !.so_rx_buf = b, !.so_rx_cnt = s.so_rx_cnt + g.len,
                               !.so_rx_nxt = s.so_rx_nxt + g.len, !.so_tx_flags = f]
    OBVIOUS
  <1>6. r = [s EXCEPT !.so_rx_buf = @ \o [i \in 1 .. g.len |-> g.seq + i - 1],
                      !.so_rx_cnt = @ + g.len, !.so_rx_nxt = @ + g.len,
                      !.so_tx_flags = @ \cup {"ACK"} \cup (IF more THEN {} ELSE {"FORCE"})]
    BY <1>5 DEF d, Sockets
  <1>. HIDE DEF b, f
  <1>7. s.so_rx_cnt + g.len \in Nat /\ s.so_rx_nxt + g.len \in Nat
    BY <1>0
  <1>8. r \in Sockets
    BY <1>0, <1>2, <1>5, <1>7 DEF Sockets
  <1>9. /\ Stays(s, r) /\ r.so_rx_buf = b /\ r.so_rx_cnt = s.so_rx_cnt + g.len
        /\ r.so_rx_nxt = s.so_rx_nxt + g.len /\ r.so_rx_nbq = s.so_rx_nbq
        /\ r.so_tx_una = s.so_tx_una /\ r.so_tx_nxt = s.so_tx_nxt
        /\ r.so_tx_nbq = s.so_tx_nbq /\ r.so_retran = s.so_retran
    BY <1>5, <1>8 DEF Sockets, Stays
  <1>10. TxQueue(s) => TxQueue(r)
    BY <1>9 DEF TxQueue, Stays
  <1>11. t = Output(r, 0, o)
    BY <1>6 DEF ProcessAppData
  <1>12. Keeps(r, t)
    BY <1>8, <1>11, OutputKeeps
  <1>13. TookData(s, g, r)
    BY <1>2, <1>4, <1>8, <1>9, <1>10 DEF TookData
  <1> QED
    BY <1>12, <1>13 DEF TookData, Keeps, Stays, SameRx

-----------------------------------------------------------------------------
(* Segments received in advance                                             *)

\* The segments that wait for their turn come from the stream, and the buffer
\* holds all that was taken.
Waits(q) == \A i \in 1 .. Len(q) : q[i].len > 0 /\ FromStream(q[i])
InOrder(s, n) == Waits(s.so_rx_nbq) /\ Buffered(s, n, s.so_rx_nxt - 1)

LEMMA Shifted ==
    \A n, len, x, d, b \in Nat :
      n + len = x - 1 /\ x + d <= b + 1 =>
        /\ n + (len + d) = (x + d) - 1 /\ (x + d) - 1 <= b
        /\ \A i \in Int : x + (i - len) - 1 = n + i
  OBVIOUS

\* Data whose turn has come keeps the buffer in order.
LEMMA DataInOrder ==
    ASSUME NEW s \in Sockets, NEW g \in Segments, NEW t, TookData(s, g, t), NEW n \in Nat,
           Buffered(s, n, s.so_rx_nxt - 1), g.seq = s.so_rx_nxt, g.seq + g.len <= Bytes + 1
    PROVE  Buffered(t, n, t.so_rx_nxt - 1) /\ t.so_rx_nxt = g.seq + g.len
  <1>0. /\ g.len \in Nat /\ s.so_rx_nxt \in Nat /\ Len(s.so_rx_buf) \in Nat /\ Bytes \in Nat
    BY TcpAssumption, LenProperties DEF Sockets, Segments
  <1>1. /\ n + Len(s.so_rx_buf) = s.so_rx_nxt - 1 /\ s.so_rx_cnt = Len(s.so_rx_buf)
        /\ \A i \in 1 .. Len(s.so_rx_buf) : s.so_rx_buf[i] = n + i
    BY DEF Buffered
  <1>2. /\ t.so_rx_nxt = s.so_rx_nxt + g.len /\ t.so_rx_cnt = s.so_rx_cnt + g.len
        /\ Len(t.so_rx_buf) = Len(s.so_rx_buf) + g.len
        /\ \A i \in 1 .. Len(s.so_rx_buf) + g.len :
             t.so_rx_buf[i] = IF i <= Len(s.so_rx_buf) THEN s.so_rx_buf[i]
                              ELSE g.seq + (i - Len(s.so_rx_buf)) - 1
    BY DEF TookData
  <1>5. PICK len \in Nat, x \in Nat, d \in Nat :
          len = Len(s.so_rx_buf) /\ x = s.so_rx_nxt /\ d = g.len
    BY <1>0
  <1>6. g.seq = x /\ x + d <= Bytes + 1 /\ n + len = x - 1
    BY <1>1, <1>5
  <1>7. /\ n + (len + d) = (x + d) - 1 /\ (x + d) - 1 <= Bytes
        /\ \A i \in Int : x + (i - len) - 1 = n + i
    <2>1. n \in Nat /\ len \in Nat /\ x \in Nat /\ d \in Nat /\ Bytes \in Nat
      BY <1>0, <1>5
    <2>2. n + len = x - 1 /\ x + d <= Bytes + 1
      BY <1>6
    <2>3. \A b \in Nat :
            n + len = x - 1 /\ x + d <= b + 1 =>
              /\ n + (len + d) = (x + d) - 1 /\ (x + d) - 1 <= b
              /\ \A i \in Int : x + (i - len) - 1 = n + i
      BY <2>1, Shifted
    <2> QED
      BY <2>1, <2>2, <2>3
  <1>3. /\ n + Len(t.so_rx_buf) = t.so_rx_nxt - 1 /\ t.so_rx_nxt - 1 <= Bytes
        /\ t.so_rx_cnt = Len(t.so_rx_buf) /\ t.so_rx_nxt = g.seq + g.len
    BY <1>1, <1>2, <1>5, <1>6, <1>7
  <1>4. ASSUME NEW i \in 1 .. Len(t.so_rx_buf)
        PROVE  t.so_rx_buf[i] = n + i
    <2>1. i \in 1 .. Len(s.so_rx_buf) + g.len /\ i \in Int
      BY <1>0, <1>2
    <2>2. CASE i <= Len(s.so_rx_buf)
      BY <1>0, <1>1, <1>2, <2>1, <2>2
    <2>3. CASE ~(i <= Len(s.so_rx_buf))
      <3>1. t.so_rx_buf[i] = g.seq + (i - Len(s.so_rx_buf)) - 1
        BY <1>2, <2>1, <2>3
      <3>2. x + (i - len) - 1 = n + i
        BY <1>7, <2>1
      <3> QED
        BY <1>5, <1>6, <3>1, <3>2
    <2> QED
      BY <2>2, <2>3
  <1> QED
    BY <1>3, <1>4 DEF Buffered

\* What a turn of the loop over these segments keeps, from the socket s on.
Draining(s, acc) ==
    /\ acc.s \in Sockets /\ Stays(s, acc.s) /\ (TxQueue(s) => TxQueue(acc.s))
    /\ s.so_rx_nxt <= acc.s.so_rx_nxt
    /\ \A n \in Nat : InOrder(s, n) =>
         InOrder(acc.s, n) /\ (acc.fin /\ ~Coalesces => acc.s.so_rx_nxt = Bytes + 1)

\* A segment that is taken off the list.
LEMMA TakenOff ==
    ASSUME NEW s \in Sockets, s.so_rx_nbq # <<>>, NEW t,
           t = [s EXCEPT !.so_rx_nbq = Tail(s.so_rx_nbq)]
    PROVE  /\ t \in Sockets /\ Stays(s, t) /\ (TxQueue(s) => TxQueue(t))
           /\ t.so_rx_nbq = Tail(s.so_rx_nbq) /\ t.so_rx_nxt = s.so_rx_nxt
           /\ \A n : InOrder(s, n) => InOrder(t, n)
           /\ Head(s.so_rx_nbq) \in Segments
           /\ Waits(s.so_rx_nbq) => /\ Head(s.so_rx_nbq).len > 0
                                    /\ FromStream(Head(s.so_rx_nbq))
  <1>1. s.so_rx_nbq \in Seq(Segments)
    BY DEF Sockets
  <1>2. PICK q \in Seq(Segments) : q = s.so_rx_nbq
    BY <1>1
  <1>3. /\ Head(q) = q[1] /\ Head(q) \in Segments /\ Tail(q) \in Seq(Segments)
        /\ Len(q) \in Nat /\ Len(q) > 0 /\ Len(Tail(q)) = Len(q) - 1
        /\ \A i \in 1 .. Len(Tail(q)) : Tail(q)[i] = q[i + 1]
    BY <1>2, HeadTailProperties, LenProperties, EmptySeq
  <1>4. t \in Sockets
    BY <1>2, <1>3 DEF Sockets
  <1>5. /\ Stays(s, t) /\ t.so_rx_nbq = Tail(q)
        /\ t.so_rx_nxt = s.so_rx_nxt /\ t.so_rx_buf = s.so_rx_buf /\ t.so_rx_cnt = s.so_rx_cnt
        /\ t.so_tx_una = s.so_tx_una /\ t.so_tx_nxt = s.so_tx_nxt
        /\ t.so_tx_nbq = s.so_tx_nbq /\ t.so_retran = s.so_retran
    BY <1>2, <1>4 DEF Sockets, Stays
  <1>6. TxQueue(s) => TxQueue(t)
    BY <1>5 DEF TxQueue, Stays
  <1>7. Waits(q) => Waits(Tail(q)) /\ q[1].len > 0 /\ FromStream(q[1])
    <2>1. ASSUME Waits(q), NEW i \in 1 .. Len(Tail(q))
          PROVE  Tail(q)[i].len > 0 /\ FromStream(Tail(q)[i])
      <3>1. i + 1 \in 1 .. Len(q)
        BY <1>3
      <3> QED
        BY <1>3, <2>1, <3>1 DEF Waits
    <2>2. 1 \in 1 .. Len(q)
      BY <1>3
    <2> QED
      BY <2>1, <2>2 DEF Waits
  <1>8. ASSUME NEW n, InOrder(s, n) PROVE InOrder(t, n)
    BY <1>2, <1>5, <1>7, <1>8 DEF InOrder, Buffered
  <1> QED
    BY <1>2, <1>3, <1>4, <1>5, <1>6, <1>7, <1>8

Turns == [s : Sockets, fin : BOOLEAN]

LEMMA DrainOneKeeps ==
    ASSUME NEW s \in Sockets, NEW acc \in Turns, Draining(s, acc), NEW o,
           NEW r, r = DrainOne(acc, o)
    PROVE  r \in Turns /\ Draining(s, r)
  <1>1. CASE r = acc
    BY <1>1
  <1>2. CASE r # acc
    <2>1. PICK u \in Sockets : u = acc.s
      BY DEF Turns
    <2>2. u.so_rx_nbq # <<>>
      BY <1>2, <2>1 DEF DrainOne
    <2>3. PICK t : t = [u EXCEPT !.so_rx_nbq = Tail(u.so_rx_nbq)]
      OBVIOUS
    <2>4. PICK h : h = Head(u.so_rx_nbq)
      OBVIOUS
    <2>5. /\ t \in Sockets /\ Stays(u, t) /\ (TxQueue(u) => TxQueue(t))
          /\ t.so_rx_nxt = u.so_rx_nxt
          /\ \A n : InOrder(u, n) => InOrder(t, n)
          /\ h \in Segments
          /\ Waits(u.so_rx_nbq) => h.len > 0 /\ FromStream(h)
      BY <2>1, <2>2, <2>3, <2>4, TakenOff
    <2>6. /\ Stays(s, t) /\ (TxQueue(s) => TxQueue(t)) /\ s.so_rx_nxt <= t.so_rx_nxt
          /\ \A n \in Nat : InOrder(s, n) =>
               /\ InOrder(u, n) /\ InOrder(t, n)
               /\ acc.fin /\ ~Coalesces => t.so_rx_nxt = Bytes + 1
      BY <2>1, <2>5 DEF Draining, Stays
    <2>7. \/ r = [acc EXCEPT !.s = t]
          \/ /\ h.seq = u.so_rx_nxt
             /\ r = [s |-> ProcessAppData(t, h, Tail(u.so_rx_nbq) # <<>>, o),
                     fin |-> acc.fin \/ h.fin]
      BY <1>2, <2>1, <2>2, <2>3, <2>4 DEF DrainOne, NowExpected
    <2>8. CASE r = [acc EXCEPT !.s = t]
      <3>1. r \in Turns /\ r.s = t /\ r.fin = acc.fin
        BY <2>5, <2>8 DEF Turns
      <3> QED
        BY <2>5, <2>6, <3>1 DEF Draining
    <2>9. CASE /\ h.seq = u.so_rx_nxt
               /\ r = [s |-> ProcessAppData(t, h, Tail(u.so_rx_nbq) # <<>>, o),
                       fin |-> acc.fin \/ h.fin]
      <3>1. PICK v : v = ProcessAppData(t, h, Tail(u.so_rx_nbq) # <<>>, o)
        OBVIOUS
      <3>2. TookData(t, h, v)
        BY <2>5, <3>1, ProcessAppDataIs
      <3>3. PICK fin \in BOOLEAN : fin = (acc.fin \/ h.fin)
        OBVIOUS
      <3>4. r = [s |-> v, fin |-> fin]
        BY <2>9, <3>1, <3>3
      <3>5. v \in Sockets /\ Stays(t, v) /\ (TxQueue(t) => TxQueue(v)) /\ v.so_rx_nbq = t.so_rx_nbq
        BY <3>2 DEF TookData
      <3>6. r \in Turns /\ r.s = v /\ r.fin = fin
        BY <3>3, <3>4, <3>5 DEF Turns
      <3>8. s.so_rx_nxt <= v.so_rx_nxt
        <4>1. /\ s.so_rx_nxt \in Nat /\ t.so_rx_nxt \in Nat /\ h.len \in Nat
              /\ v.so_rx_nxt = t.so_rx_nxt + h.len
          BY <2>5, <3>2 DEF Sockets, Segments, TookData
        <4> QED
          BY <2>6, <4>1
      <3>7. ASSUME NEW n \in Nat, InOrder(s, n)
            PROVE  InOrder(v, n) /\ (fin /\ ~Coalesces => v.so_rx_nxt = Bytes + 1)
        <4>0. Bytes \in Nat /\ h.seq \in Int /\ h.len \in Nat
          BY <2>5, TcpAssumption DEF Segments
        <4>1. /\ h.len > 0 /\ h.seq + h.len <= Bytes + 1
              /\ h.fin /\ ~Coalesces => h.seq + h.len = Bytes + 1
          BY <2>5, <2>6, <3>7 DEF InOrder, FromStream, InStream, Ends
        <4>2. InOrder(t, n) /\ h.seq = t.so_rx_nxt
          BY <2>5, <2>6, <2>9, <3>7
        <4>3. Buffered(v, n, v.so_rx_nxt - 1) /\ v.so_rx_nxt = h.seq + h.len
          BY <2>5, <3>2, <4>1, <4>2, DataInOrder DEF InOrder
        <4>4. acc.fin /\ ~Coalesces => h.seq = Bytes + 1
          BY <2>6, <3>7, <4>2
        <4>5. ~(acc.fin /\ ~Coalesces)
          BY <4>0, <4>1, <4>4
        <4> QED
          BY <3>3, <3>5, <4>1, <4>2, <4>3, <4>5 DEF InOrder
      <3> QED
        BY <2>6, <3>5, <3>6, <3>7, <3>8 DEF Draining, Stays
    <2> QED
      BY <2>7, <2>8, <2>9
  <1> QED
    BY <1>1, <1>2

\* The whole loop.
LEMMA DrainKeeps ==
    ASSUME NEW s \in Sockets, NEW o
    PROVE  Drain(s, o) \in Turns /\ Draining(s, Drain(s, o))
  <1>. DEFINE N == Len(s.so_rx_nbq)
              A == {acc \in Turns : Draining(s, acc)}
              a == [s |-> s, fin |-> FALSE]
              T == [acc \in A |-> DrainOne(acc, o)]
  <1>1. N \in Nat
    BY LenProperties DEF Sockets
  <1>2. a \in A
    <2>1. a \in Turns /\ a.s = s /\ a.fin = FALSE
      BY DEF Turns
    <2>2. s.so_rx_nxt <= s.so_rx_nxt
      BY DEF Sockets
    <2> QED
      BY <2>1, <2>2 DEF Draining, Stays
  <1>3. T \in [A -> A]
    BY DrainOneKeeps
  <1>4. \A acc \in A : T[acc] = DrainOne(acc, o)
    OBVIOUS
  <1>. HIDE DEF A, T, a, N
  <1>5. PICK f \in [0 .. N -> A] :
          f = [k \in 0 .. N |-> IF k = 0 THEN a ELSE T[f[k - 1]]]
    BY <1>1, <1>2, <1>3, Iterates
  <1>. DEFINE Is(g) == g = [k \in 0 .. N |-> IF k = 0 THEN a ELSE DrainOne(g[k - 1], o)]
              turns == CHOOSE g : Is(g)
  <1>6. Is(f)
    <2>1. ASSUME NEW k \in 0 .. N
          PROVE  f[k] = IF k = 0 THEN a ELSE DrainOne(f[k - 1], o)
      <3>1. CASE k = 0
        BY <1>5, <3>1
      <3>2. CASE k # 0
        <4>1. k - 1 \in 0 .. N
          BY <1>1, <3>2
        <4>2. f[k - 1] \in A /\ f[k] = T[f[k - 1]]
          BY <1>5, <3>2, <4>1
        <4> QED
          BY <1>4, <3>2, <4>2
      <3> QED
        BY <3>1, <3>2
    <2>2. f = [k \in 0 .. N |-> f[k]]
      BY <1>5
    <2> QED
      BY <2>1, <2>2
  <1>7. Is(turns)
    BY <1>6
  <1>8. Drain(s, o) = turns[N]
    BY DEF Drain, N, a
  <1>. HIDE DEF turns
  <1>9. /\ turns[0] = a
        /\ \A k \in 1 .. N : turns[k] = DrainOne(turns[k - 1], o)
    BY <1>1, <1>7
  <1>10. turns[N] \in A
    <2>. DEFINE D == {k \in 0 .. N : turns[k] \in A}
    <2>1. 0 \in D
      BY <1>1, <1>2, <1>9
    <2>2. ASSUME NEW k \in 0 .. (N - 1), k \in D
          PROVE  k + 1 \in D
      <3>1. k + 1 \in 1 .. N /\ k + 1 \in 0 .. N /\ (k + 1) - 1 = k
        BY <1>1
      <3>2. turns[k + 1] = DrainOne(turns[k], o)
        BY <1>9, <3>1
      <3>3. T[turns[k]] \in A /\ T[turns[k]] = DrainOne(turns[k], o)
        BY <1>3, <1>4, <2>2
      <3> QED
        BY <3>1, <3>2, <3>3
    <2>. HIDE DEF D
    <2>3. \A k \in 0 .. N : k \in D
      BY <1>1, <2>1, <2>2, CountUp
    <2>4. N \in 0 .. N
      BY <1>1
    <2> QED
      BY <2>3, <2>4 DEF D
  <1> QED
    BY <1>8, <1>10 DEF A

LEMMA AdvanceWaits ==
    ASSUME NEW q \in Seq(Segments), NEW g \in Segments, NEW r, r = Advance(q, g)
    PROVE  /\ r \in Seq(Segments)
           /\ Waits(q) /\ g.len > 0 /\ FromStream(g) => Waits(r)
  <1>. DEFINE larger == {i \in DOMAIN q : q[i].seq > g.seq}
              places == larger \cup {Len(q) + 1}
              p == Min(places)
  <1>1. CASE r = q
    BY <1>1
  <1>2. CASE r # q
    <2>0. Len(q) \in Nat /\ DOMAIN q = 1 .. Len(q)
      BY LenProperties
    <2>1. r = InsertAt(q, p, g)
      BY <1>2 DEF Advance
    <2>2. places \in SUBSET (1 .. Len(q) + 1) /\ places \in SUBSET Nat /\ places # {}
      BY <2>0
    <2>3. PICK x \in places : \A y \in places : x <= y
      BY <2>2, LeastIndex
    <2>4. p \in places
      BY <2>3 DEF Min
    <2>. HIDE DEF p, places
    <2>5. p \in 1 .. (Len(q) + 1)
      BY <2>2, <2>4
    <2>6. /\ r \in Seq(Segments) /\ Len(r) = Len(q) + 1
          /\ \A j \in 1 .. (Len(q) + 1) :
               r[j] = IF j < p THEN q[j] ELSE IF j = p THEN g ELSE q[j - 1]
      <3>1. /\ InsertAt(q, p, g) \in Seq(Segments) /\ Len(InsertAt(q, p, g)) = Len(q) + 1
            /\ \A j \in 1 .. (Len(q) + 1) :
                 InsertAt(q, p, g)[j] = IF j < p THEN q[j] ELSE IF j = p THEN g ELSE q[j - 1]
        BY <2>5, InsertAtElements
      <3> QED
        BY <2>1, <3>1
    <2>7. ASSUME Waits(q), g.len > 0, FromStream(g), NEW j \in 1 .. Len(r)
          PROVE  r[j].len > 0 /\ FromStream(r[j])
      <3>1. \/ j \in 1 .. Len(q) /\ r[j] = q[j]
            \/ r[j] = g
            \/ j - 1 \in 1 .. Len(q) /\ r[j] = q[j - 1]
        BY <2>0, <2>5, <2>6
      <3> QED
        BY <2>7, <3>1 DEF Waits
    <2> QED
      BY <2>6, <2>7 DEF Waits
  <1> QED
    BY <1>1, <1>2

-----------------------------------------------------------------------------
(* The peer's FIN                                                           *)

\* A FIN that has been taken.
FinTaken(s, t, state) ==
    /\ t \in Sockets /\ (TxQueue(s) => TxQueue(t))
    /\ t.so_rx_nxt = s.so_rx_nxt + 1 /\ t.so_rx_buf = s.so_rx_buf
    /\ t.so_rx_cnt = s.so_rx_cnt /\ t.so_rx_nbq = s.so_rx_nbq
    /\ t.so_state = IF Granted(s, state) THEN state ELSE s.so_state
    /\ Granted(s, state) =>
         t.woken = IF state = "CLOSE_WAIT" THEN s.woken \cup {"so_rx_tq", "so_ac_tq"}
                   ELSE s.woken

LEMMA TakeFinIs ==
    ASSUME NEW s \in Sockets, s.so_state # "CLOSED", NEW state, NEW o,
           NEW t, t = TakeFin(s, state, o)
    PROVE  FinTaken(s, t, state)
  <1>1. PICK r : r = [s EXCEPT !.so_rx_nxt = s.so_rx_nxt + 1]
    OBVIOUS
  <1>2. s.so_rx_nxt \in Nat /\ s.so_rx_nxt + 1 \in Nat
    BY DEF Sockets
  <1>3. r \in Sockets
    BY <1>1, <1>2 DEF Sockets
  <1>4. /\ r.so_state = s.so_state /\ r.woken = s.woken /\ r.so_rx_nxt = s.so_rx_nxt + 1
        /\ r.so_rx_buf = s.so_rx_buf /\ r.so_rx_cnt = s.so_rx_cnt /\ r.so_rx_nbq = s.so_rx_nbq
        /\ r.so_tx_una = s.so_tx_una /\ r.so_tx_nxt = s.so_tx_nxt
        /\ r.so_tx_nbq = s.so_tx_nbq /\ r.so_retran = s.so_retran
    BY <1>1, <1>3 DEF Sockets
  <1>5. TxQueue(s) => TxQueue(r)
    BY <1>4 DEF TxQueue
  <1>6. t = StateChange(r, state, o)
    BY <1>1 DEF TakeFin
  <1>7. Changed(r, t, state)
    BY <1>3, <1>4, <1>6, StateChangeIs
  <1>8. Granted(r, state) <=> Granted(s, state)
    BY <1>4 DEF Granted
  <1> QED
    BY <1>3, <1>4, <1>5, <1>7, <1>8 DEF Changed, FinTaken, SameRx

\* The changes that a FIN asks for.
LEMMA FinGranted ==
    \A s : /\ s.so_state = "ESTABLISHED" => Granted(s, "CLOSE_WAIT")
           /\ s.so_state = "FIN_WAIT_1" => Granted(s, "CLOSING") /\ Granted(s, "FIN_WAIT_2")
           /\ s.so_state = "FIN_WAIT_2" => Granted(s, "TIME_WAIT")
           /\ s.so_state = "CLOSING" => Granted(s, "TIME_WAIT")
           /\ s.so_state = "SYN_SENT" => Granted(s, "ESTABLISHED")
           /\ s.so_state = "ESTABLISHED" => Granted(s, "FIN_WAIT_1")
           /\ s.so_state = "CLOSE_WAIT" => Granted(s, "LAST_ACK")
  BY DEF Granted, Changes, Change

-----------------------------------------------------------------------------
(* The handlers of the states                                               *)

\* The three states that RxStream speaks of most.
LEMMA RxStreamIs ==
    ASSUME NEW s, NEW n
    PROVE  /\ s.so_state = "ESTABLISHED" => (RxStream(s, n) <=> InOrder(s, n))
           /\ s.so_state = "CLOSE_WAIT" =>
                (RxStream(s, n) <=> Waits(s.so_rx_nbq) /\ AtEnd(s, n))
           /\ s.so_state = "CLOSED" =>
                (RxStream(s, n) <=> Waits(s.so_rx_nbq) /\ s.so_rx_buf = <<>>)
           /\ s.so_state \in ClosedByApp => (RxStream(s, n) <=> Waits(s.so_rx_nbq))
  BY DEF RxStream, InOrder, Waits, ClosedByApp

LEMMA NothingWaits == Waits(<<>>)
  BY DEF Waits

\* The bytes in order are all when the FIN comes.
LEMMA InOrderAtEnd ==
    ASSUME NEW s \in Sockets, NEW n \in Nat, InOrder(s, n),
           ~Coalesces => s.so_rx_nxt - 1 = Bytes,
           NEW t, t.so_rx_nbq = s.so_rx_nbq, t.so_rx_buf = s.so_rx_buf,
           t.so_rx_cnt = s.so_rx_cnt
    PROVE  Waits(t.so_rx_nbq) /\ AtEnd(t, n)
  <1>1. PICK m : m = s.so_rx_nxt - 1
    OBVIOUS
  <1>2. Len(s.so_rx_buf) \in Nat
    BY LenProperties DEF Sockets
  <1>3. Buffered(t, n, m) /\ n + Len(s.so_rx_buf) = m
    BY <1>1 DEF InOrder, Buffered
  <1>4. m \in Nat
    BY <1>2, <1>3
  <1> QED
    BY <1>1, <1>3, <1>4 DEF InOrder, AtEnd

\* What a segment makes of an established connection.
EstablishedTo(s, g, t) ==
    /\ t \in Sockets /\ (TxQueue(s) => TxQueue(t))
    /\ t.so_state \in {"ESTABLISHED", "CLOSE_WAIT", "CLOSED"}
    /\ \/ t.so_state = "ESTABLISHED" /\ t.so_rx_cnt = s.so_rx_cnt
       \/ "so_rx_tq" \in t.woken
    /\ \A n \in Nat : FromStream(g) /\ RxStream(s, n) => RxStream(t, n)

LEMMA EstablishedDataIs ==
    ASSUME NEW s \in Sockets, s.so_state = "ESTABLISHED", NEW g \in Segments,
           NEW more, NEW o, NEW t, t = EstablishedData(s, g, more, o)
    PROVE  EstablishedTo(s, g, t)
  <1>5. PICK u : u = ProcessAck(s, g, o)
    OBVIOUS
  <1>0. /\ g.len \in Nat /\ g.seq \in Int /\ g.fin \in BOOLEAN /\ g.syn \in BOOLEAN
        /\ Bytes \in Nat
    BY TcpAssumption DEF Segments
  <1>1. Keeps(s, u) \/ (Aborted(s, u) /\ g.len = 0 /\ ~g.syn /\ ~g.fin)
    BY <1>5, ProcessAckIs
  <1>2. u \in Sockets /\ u.so_rx_nxt \in Nat /\ u.so_rx_nbq \in Seq(Segments)
    BY <1>1 DEF Keeps, Aborted, Sockets
  <1>3. CASE Aborted(s, u) /\ g.len = 0 /\ ~g.fin
    <2>1. u.so_state = "CLOSED" /\ u.woken = Queues /\ u.so_rx_buf = <<>> /\ u.so_rx_nbq = <<>>
      BY <1>3 DEF Aborted, AbortState, ClosedByApp
    <2>2. [u EXCEPT !.so_rx_nbq = u.so_rx_nbq] = u
      BY <1>2 DEF Sockets
    <2>3. t = u \/ t = Answer(u, o)
      BY <1>0, <1>2, <1>3, <1>5, <2>2 DEF EstablishedData
    <2>4. Keeps(u, t)
      <3>1. CASE t = u
        BY <1>2, <3>1 DEF Keeps, Stays, SameRx
      <3>2. CASE t = Answer(u, o)
        BY <1>2, <3>2, AnswerKeeps
      <3> QED
        BY <2>3, <3>1, <3>2
    <2>5. /\ t \in Sockets /\ (TxQueue(s) => TxQueue(t)) /\ t.so_state = "CLOSED"
          /\ "so_rx_tq" \in t.woken /\ t.so_rx_buf = <<>> /\ t.so_rx_nbq = <<>>
      BY <1>3, <2>1, <2>4 DEF Keeps, Aborted, Stays, SameRx, Queues
    <2>6. \A n : RxStream(t, n)
      BY <2>5, RxStreamIs, NothingWaits
    <2> QED
      BY <2>5, <2>6 DEF EstablishedTo
  <1>4. CASE Keeps(s, u)
    <2>1. /\ u.so_state = "ESTABLISHED" /\ u.woken = s.woken /\ u.so_rx_cnt = s.so_rx_cnt
          /\ (TxQueue(s) => TxQueue(u))
          /\ \A n : InOrder(s, n) <=> InOrder(u, n)
      BY <1>4 DEF Keeps, Stays, SameRx, InOrder, Buffered
    <2>2. \A n : RxStream(s, n) <=> InOrder(u, n)
      BY <2>1, RxStreamIs
    <2>3. CASE g.seq > u.so_rx_nxt
      <3>. DEFINE q == IF g.len > 0 THEN Advance(u.so_rx_nbq, g) ELSE u.so_rx_nbq
      <3>1. /\ q \in Seq(Segments)
            /\ Waits(u.so_rx_nbq) /\ FromStream(g) => Waits(q)
        BY <1>0, <1>2, AdvanceWaits
      <3>3. PICK r : r = [u EXCEPT !.so_rx_nbq = q]
        OBVIOUS
      <3>10. [u EXCEPT !.so_rx_nbq = IF g.len > 0 THEN Advance(@, g) ELSE @] = r
        BY <1>2, <3>3 DEF Sockets
      <3>2. t = Answer(r, o)
        <4>1. t = Answer([u EXCEPT !.so_rx_nbq = IF g.len > 0 THEN Advance(@, g) ELSE @], o)
          BY <1>0, <1>2, <1>5, <2>3 DEF EstablishedData, Answer
        <4> QED
          BY <3>10, <4>1
      <3>. HIDE DEF q
      <3>4. r \in Sockets
        BY <1>2, <3>1, <3>3 DEF Sockets
      <3>5. /\ Stays(u, r) /\ r.so_rx_nbq = q
            /\ r.so_rx_nxt = u.so_rx_nxt /\ r.so_rx_buf = u.so_rx_buf /\ r.so_rx_cnt = u.so_rx_cnt
            /\ r.so_tx_una = u.so_tx_una /\ r.so_tx_nxt = u.so_tx_nxt
            /\ r.so_tx_nbq = u.so_tx_nbq /\ r.so_retran = u.so_retran
        BY <1>2, <3>3, <3>4 DEF Sockets, Stays
      <3>6. Keeps(r, t)
        BY <3>2, <3>4, AnswerKeeps
      <3>7. TxQueue(u) => TxQueue(r)
        BY <3>5 DEF TxQueue, Stays
      <3>8. /\ t.so_state = "ESTABLISHED" /\ t.so_rx_cnt = s.so_rx_cnt
            /\ t.so_rx_nbq = q /\ t.so_rx_buf = u.so_rx_buf /\ t.so_rx_cnt = u.so_rx_cnt
            /\ t.so_rx_nxt = u.so_rx_nxt /\ t \in Sockets /\ (TxQueue(s) => TxQueue(t))
        BY <2>1, <3>5, <3>6, <3>7 DEF Keeps, Stays, SameRx
      <3>9. ASSUME NEW n \in Nat, FromStream(g), RxStream(s, n) PROVE RxStream(t, n)
        <4>1. InOrder(u, n)
          BY <2>2, <3>9
        <4>2. InOrder(t, n)
          BY <3>1, <3>8, <3>9, <4>1 DEF InOrder, Buffered
        <4> QED
          BY <3>8, <4>2, RxStreamIs
      <3> QED
        BY <3>8, <3>9 DEF EstablishedTo
    <2>4. CASE g.seq = u.so_rx_nxt /\ g.len > 0
      <3>1. PICK v : v = ProcessAppData(u, g, more, o)
        OBVIOUS
      <3>2. TookData(u, g, v)
        BY <1>2, <3>1, ProcessAppDataIs
      <3>3. v \in Sockets
        BY <3>2 DEF TookData
      <3>4. PICK d : d = Drain(v, o)
        OBVIOUS
      <3>5. d \in Turns /\ Draining(v, d)
        BY <3>3, <3>4, DrainKeeps
      <3>6. PICK w : w = Wake(d.s, {"so_rx_tq"})
        OBVIOUS
      <3>7. d.s \in Sockets /\ {"so_rx_tq"} \in SUBSET Queues
        BY <3>5 DEF Turns, Queues
      <3>8. /\ w \in Sockets /\ SameRx(d.s, w) /\ (TxQueue(d.s) => TxQueue(w))
            /\ w.so_state = d.s.so_state /\ w.woken = d.s.woken \cup {"so_rx_tq"}
        BY <3>6, <3>7, WakeKeeps
      <3>9. w.so_state = "ESTABLISHED" /\ (TxQueue(s) => TxQueue(w)) /\ "so_rx_tq" \in w.woken
        BY <2>1, <3>2, <3>5, <3>8 DEF TookData, Draining, Stays
      <3>10. ASSUME NEW n \in Nat, FromStream(g), RxStream(s, n)
             PROVE  InOrder(w, n) /\ ((g.fin \/ d.fin) /\ ~Coalesces => w.so_rx_nxt = Bytes + 1)
        <4>1. InOrder(u, n)
          BY <2>2, <3>10
        <4>2. g.seq + g.len <= Bytes + 1 /\ (g.fin /\ ~Coalesces => g.seq + g.len = Bytes + 1)
          BY <1>0, <2>4, <3>10 DEF FromStream, InStream, Ends
        <4>3. Buffered(v, n, v.so_rx_nxt - 1) /\ v.so_rx_nxt = g.seq + g.len
          BY <1>2, <2>4, <3>2, <4>1, <4>2, DataInOrder DEF InOrder
        <4>4. InOrder(v, n)
          BY <3>2, <4>1, <4>3 DEF InOrder, TookData
        <4>5. InOrder(d.s, n) /\ (d.fin /\ ~Coalesces => d.s.so_rx_nxt = Bytes + 1)
          BY <3>5, <4>4 DEF Draining
        <4>6. InOrder(w, n) /\ w.so_rx_nxt = d.s.so_rx_nxt
          BY <3>8, <4>5 DEF InOrder, Buffered, SameRx
        <4>7. /\ d.s.so_rx_nxt \in Nat /\ v.so_rx_nxt \in Nat
              /\ v.so_rx_nxt <= d.s.so_rx_nxt /\ d.s.so_rx_nxt - 1 <= Bytes
          BY <3>3, <3>5, <3>7, <4>5 DEF Sockets, Draining, InOrder, Buffered
        <4>8. g.fin /\ ~Coalesces => v.so_rx_nxt = Bytes + 1
          BY <4>2, <4>3
        <4>9. g.fin /\ ~Coalesces => d.s.so_rx_nxt = Bytes + 1
          BY <1>0, <4>7, <4>8
        <4> QED
          BY <4>5, <4>6, <4>9
      <3>11. CASE g.fin \/ d.fin
        <4>1. t = TakeFin(w, "CLOSE_WAIT", o)
          BY <1>2, <1>5, <2>4, <3>1, <3>4, <3>6, <3>11 DEF EstablishedData
        <4>2. FinTaken(w, t, "CLOSE_WAIT") /\ Granted(w, "CLOSE_WAIT")
          BY <3>8, <3>9, <4>1, TakeFinIs, FinGranted
        <4>3. /\ t \in Sockets /\ (TxQueue(s) => TxQueue(t)) /\ t.so_state = "CLOSE_WAIT"
              /\ "so_rx_tq" \in t.woken /\ t.so_rx_nbq = w.so_rx_nbq
              /\ t.so_rx_buf = w.so_rx_buf /\ t.so_rx_cnt = w.so_rx_cnt
          BY <3>9, <4>2 DEF FinTaken
        <4>4. ASSUME NEW n \in Nat, FromStream(g), RxStream(s, n) PROVE RxStream(t, n)
          <5>1. InOrder(w, n) /\ (~Coalesces => w.so_rx_nxt - 1 = Bytes)
            BY <1>0, <3>10, <3>11, <4>4
          <5>2. Waits(t.so_rx_nbq) /\ AtEnd(t, n)
            BY <3>8, <4>3, <4>4, <5>1, InOrderAtEnd
          <5> QED
            BY <4>3, <5>2, RxStreamIs
        <4> QED
          BY <4>3, <4>4 DEF EstablishedTo
      <3>12. CASE ~(g.fin \/ d.fin)
        <4>1. t = w
          BY <1>2, <1>5, <2>4, <3>1, <3>4, <3>6, <3>12 DEF EstablishedData
        <4>2. \A n \in Nat : FromStream(g) /\ RxStream(s, n) => RxStream(t, n)
          BY <3>9, <3>10, <4>1, RxStreamIs
        <4> QED
          BY <3>8, <3>9, <4>1, <4>2 DEF EstablishedTo
      <3> QED
        BY <3>11, <3>12
    <2>5. CASE ~(g.seq > u.so_rx_nxt) /\ ~(g.seq = u.so_rx_nxt /\ g.len > 0)
      <3>1. PICK v : v = IF g.seq < u.so_rx_nxt THEN Answer(u, o) ELSE u
        OBVIOUS
      <3>2. Keeps(u, v)
        <4>1. CASE v = u
          BY <1>2, <4>1 DEF Keeps, Stays, SameRx
        <4>2. CASE v = Answer(u, o)
          BY <1>2, <4>2, AnswerKeeps
        <4> QED
          BY <3>1, <4>1, <4>2
      <3>3. /\ v \in Sockets /\ (TxQueue(s) => TxQueue(v)) /\ v.so_state = "ESTABLISHED"
            /\ v.so_rx_cnt = s.so_rx_cnt /\ v.so_rx_nxt = u.so_rx_nxt
            /\ \A n : InOrder(u, n) <=> InOrder(v, n)
        BY <2>1, <3>2 DEF Keeps, Stays, SameRx, InOrder, Buffered
      <3>4. t = IF g.fin THEN TakeFin(v, "CLOSE_WAIT", o) ELSE v
        BY <1>5, <2>5, <3>1 DEF EstablishedData
      <3>5. CASE g.fin
        <4>2. FinTaken(v, t, "CLOSE_WAIT") /\ Granted(v, "CLOSE_WAIT")
          BY <3>3, <3>4, <3>5, TakeFinIs, FinGranted
        <4>3. /\ t \in Sockets /\ (TxQueue(s) => TxQueue(t)) /\ t.so_state = "CLOSE_WAIT"
              /\ "so_rx_tq" \in t.woken /\ t.so_rx_nbq = v.so_rx_nbq
              /\ t.so_rx_buf = v.so_rx_buf /\ t.so_rx_cnt = v.so_rx_cnt
          BY <3>3, <4>2 DEF FinTaken
        <4>4. ASSUME NEW n \in Nat, FromStream(g), RxStream(s, n) PROVE RxStream(t, n)
          <5>1. InOrder(u, n) /\ InOrder(v, n)
            BY <2>2, <3>3, <4>4
          <5>2. u.so_rx_nxt - 1 <= Bytes
            BY <5>1 DEF InOrder, Buffered
          <5>3. ~Coalesces => g.seq + g.len = Bytes + 1 /\ g.len <= 1
            BY <3>5, <4>4 DEF FromStream, Ends
          <5>4. g.seq < u.so_rx_nxt \/ (g.seq = u.so_rx_nxt /\ g.len = 0)
            BY <1>0, <1>2, <2>5
          <5>5. ~Coalesces => v.so_rx_nxt - 1 = Bytes
            BY <1>0, <1>2, <3>3, <5>2, <5>3, <5>4
          <5>6. Waits(t.so_rx_nbq) /\ AtEnd(t, n)
            BY <3>3, <4>3, <4>4, <5>1, <5>5, InOrderAtEnd
          <5> QED
            BY <4>3, <5>6, RxStreamIs
        <4> QED
          BY <4>3, <4>4 DEF EstablishedTo
      <3>6. CASE ~g.fin
        <4>1. t = v
          BY <3>4, <3>6
        <4>2. \A n \in Nat : FromStream(g) /\ RxStream(s, n) => RxStream(t, n)
          BY <2>2, <3>3, <4>1, RxStreamIs
        <4> QED
          BY <3>3, <4>1, <4>2 DEF EstablishedTo
      <3> QED
        BY <3>5, <3>6
    <2> QED
      BY <2>3, <2>4, <2>5
  <1> QED
    BY <1>1, <1>3, <1>4

\* What a segment makes of a connection that the application has closed.
ClosedTo(s, t) ==
    /\ t \in Sockets /\ (TxQueue(s) => TxQueue(t))
    /\ t.so_state \in ClosedByApp \cup {"NONE"}
    /\ t.so_rx_nbq = s.so_rx_nbq \/ t.so_rx_nbq = <<>>
    /\ t.so_state = "NONE" => t.so_rx_buf = <<>>

LEMMA FreedIs ==
    ASSUME NEW s \in Sockets, NEW t, t = Destroy(s)
    PROVE  /\ ClosedTo(s, t) /\ t.so_state = "NONE" /\ t = Freed /\ t.woken = {}
           /\ \A n : RxStream(t, n)
  <1>1. <<>> \in Seq(Nat) /\ <<>> \in Seq(Int) /\ <<>> \in Seq(Segments)
    BY EmptySeq
  <1>2. t \in Sockets /\ TxQueue(t)
    BY <1>1 DEF Destroy, Freed, Sockets, TxQueue, Dead
  <1>3. /\ t.so_state = "NONE" /\ t.so_rx_nbq = <<>> /\ t.so_rx_buf = <<>> /\ t.woken = {}
        /\ t = Freed
    BY DEF Destroy, Freed
  <1>4. \A n : RxStream(t, n)
    BY <1>3, NothingWaits DEF RxStream, Waits
  <1> QED
    BY <1>2, <1>3, <1>4 DEF ClosedTo

LEMMA ClosedRx ==
    ASSUME NEW s, s.so_state \in ClosedByApp, NEW t, ClosedTo(s, t), NEW n, RxStream(s, n)
    PROVE  RxStream(t, n)
  <1>1. Waits(s.so_rx_nbq)
    BY DEF RxStream, Waits
  <1>2. Waits(t.so_rx_nbq)
    BY <1>1, NothingWaits DEF ClosedTo
  <1> QED
    BY <1>2 DEF RxStream, Waits, ClosedTo, ClosedByApp

LEMMA ClosedAck ==
    ASSUME NEW s \in Sockets, s.so_state \in ClosedByApp, NEW g \in Segments, NEW o,
           NEW t, t = ProcessAck(s, g, o)
    PROVE  /\ ClosedTo(s, t) /\ t.so_state \in {s.so_state, "TIME_WAIT"}
           /\ t.so_state \in ClosedByApp
  <1>1. Keeps(s, t) \/ Aborted(s, t)
    BY ProcessAckIs
  <1>2. CASE Keeps(s, t)
    BY <1>2 DEF Keeps, Stays, SameRx, ClosedTo, ClosedByApp
  <1>3. CASE Aborted(s, t)
    BY <1>3 DEF Aborted, AbortState, ClosedTo, ClosedByApp
  <1> QED
    BY <1>1, <1>2, <1>3

LEMMA ClosedChange ==
    ASSUME NEW s \in Sockets, s.so_state \in ClosedByApp,
           NEW state \in ClosedByApp, NEW o, NEW t, t = StateChange(s, state, o)
    PROVE  ClosedTo(s, t) /\ t.so_state \in ClosedByApp
  <1>1. Changed(s, t, state)
    BY StateChangeIs DEF ClosedByApp
  <1> QED
    BY <1>1 DEF Changed, SameRx, ClosedTo, ClosedByApp

LEMMA ClosedChain ==
    ASSUME NEW s, NEW t, NEW u, ClosedTo(s, t), ClosedTo(t, u)
    PROVE  ClosedTo(s, u)
  BY DEF ClosedTo

\* A change of so_time_wait alone.
LEMMA TimeWaitKeeps ==
    ASSUME NEW s \in Sockets, NEW k \in Nat, NEW t, t = [s EXCEPT !.so_time_wait = k]
    PROVE  Keeps(s, t)
  <1>1. t \in Sockets
    BY DEF Sockets
  <1>2. /\ Stays(s, t) /\ SameRx(s, t) /\ t.so_tx_una = s.so_tx_una
        /\ t.so_tx_nxt = s.so_tx_nxt /\ t.so_tx_nbq = s.so_tx_nbq /\ t.so_retran = s.so_retran
    BY <1>1 DEF Sockets, Stays, SameRx
  <1> QED
    BY <1>1, <1>2 DEF Keeps, TxQueue, Stays

LEMMA KeepsClosed ==
    ASSUME NEW s, s.so_state \in ClosedByApp, NEW t, Keeps(s, t)
    PROVE  ClosedTo(s, t) /\ t \in Sockets /\ t.so_state = s.so_state
  BY DEF Keeps, Stays, SameRx, ClosedTo, ClosedByApp

LEMMA FinWaitIs ==
    ASSUME NEW s \in Sockets, s.so_state \in {"FIN_WAIT_1", "FIN_WAIT_2"},
           NEW g \in Segments, NEW more, NEW o, NEW t, t = FinWait(s, g, more, o)
    PROVE  ClosedTo(s, t)
  <1>0. s.so_state \in ClosedByApp /\ g.len \in Nat
    BY DEF ClosedByApp, Segments
  <1>1. PICK a : a = ProcessAck(s, g, o)
    OBVIOUS
  <1>2. ClosedTo(s, a) /\ a \in Sockets /\ a.so_state \in ClosedByApp
    BY <1>0, <1>1, ClosedAck DEF ClosedTo
  <1>3. PICK u : u = IF a.so_state = "FIN_WAIT_1" /\ a.so_tx_nxt = a.so_tx_una
                     THEN StateChange(a, "FIN_WAIT_2", o) ELSE a
    OBVIOUS
  <1>4. ClosedTo(a, u) /\ u \in Sockets /\ u.so_state \in ClosedByApp
    <2>1. CASE u = a
      BY <1>2, <2>1 DEF ClosedTo, ClosedByApp
    <2>2. CASE u = StateChange(a, "FIN_WAIT_2", o)
      <3>1. "FIN_WAIT_2" \in ClosedByApp
        BY DEF ClosedByApp
      <3> QED
        BY <1>2, <2>2, <3>1, ClosedChange DEF ClosedTo
    <2> QED
      BY <1>3, <2>1, <2>2
  <1>5. PICK v : v = IF g.len > 0 THEN Wake(ProcessAppData(u, g, more, o), {"so_rx_tq"})
                     ELSE u
    OBVIOUS
  <1>6. ClosedTo(u, v) /\ v \in Sockets /\ v.so_state \in ClosedByApp
    <2>1. CASE v = u
      BY <1>4, <2>1 DEF ClosedTo, ClosedByApp
    <2>2. CASE v = Wake(ProcessAppData(u, g, more, o), {"so_rx_tq"})
      <3>1. PICK d : d = ProcessAppData(u, g, more, o)
        OBVIOUS
      <3>2. TookData(u, g, d)
        BY <1>4, <3>1, ProcessAppDataIs
      <3>3. d \in Sockets /\ {"so_rx_tq"} \in SUBSET Queues
        BY <3>2 DEF TookData, Queues
      <3>4. /\ v \in Sockets /\ SameRx(d, v) /\ (TxQueue(d) => TxQueue(v))
            /\ v.so_state = d.so_state
        BY <2>2, <3>1, <3>3, WakeKeeps
      <3> QED
        BY <1>4, <3>2, <3>4 DEF TookData, Stays, SameRx, ClosedTo, ClosedByApp
    <2> QED
      BY <1>5, <2>1, <2>2
  <1>7. PICK w : w = [v EXCEPT !.so_time_wait = 0]
    OBVIOUS
  <1>8. PICK next : next = IF v.so_state = "FIN_WAIT_1" THEN "CLOSING" ELSE "TIME_WAIT"
    OBVIOUS
  <1>9. t = IF g.fin THEN TakeFin(w, next, o) ELSE v
    BY <1>1, <1>3, <1>5, <1>7, <1>8 DEF FinWait
  <1>10. ClosedTo(v, t)
    <2>1. CASE t = v
      BY <1>6, <2>1 DEF ClosedTo, ClosedByApp
    <2>2. CASE t = TakeFin(w, next, o)
      <3>1. Keeps(v, w)
        BY <1>6, <1>7, TimeWaitKeeps
      <3>2. ClosedTo(v, w) /\ w \in Sockets /\ w.so_state \in ClosedByApp
        BY <1>6, <3>1, KeepsClosed
      <3>3. FinTaken(w, t, next)
        BY <2>2, <3>2, TakeFinIs DEF ClosedByApp
      <3>4. ClosedTo(w, t)
        BY <1>8, <3>2, <3>3 DEF FinTaken, ClosedTo, ClosedByApp
      <3> QED
        BY <3>2, <3>4, ClosedChain
    <2> QED
      BY <1>9, <2>1, <2>2
  <1>11. ClosedTo(s, u)
    BY <1>2, <1>4, ClosedChain
  <1>12. ClosedTo(s, v)
    BY <1>6, <1>11, ClosedChain
  <1> QED
    BY <1>10, <1>12, ClosedChain

LEMMA ClosingIs ==
    ASSUME NEW s \in Sockets, s.so_state = "CLOSING", NEW g \in Segments, NEW o,
           NEW t, t = Closing(s, g, o)
    PROVE  ClosedTo(s, t)
  <1>0. s.so_state \in ClosedByApp /\ "TIME_WAIT" \in ClosedByApp
    BY DEF ClosedByApp
  <1>1. PICK a : a = ProcessAck(s, g, o)
    OBVIOUS
  <1>2. ClosedTo(s, a) /\ a \in Sockets /\ a.so_state \in ClosedByApp
    BY <1>0, <1>1, ClosedAck DEF ClosedTo
  <1>3. PICK w : w = [a EXCEPT !.so_time_wait = 0]
    OBVIOUS
  <1>4. Keeps(a, w)
    BY <1>2, <1>3, TimeWaitKeeps
  <1>5. ClosedTo(a, w) /\ w \in Sockets /\ w.so_state \in ClosedByApp
    BY <1>2, <1>4, KeepsClosed
  <1>6. t = a \/ t = StateChange(w, "TIME_WAIT", o)
    BY <1>1, <1>3 DEF Closing
  <1>7. CASE t = StateChange(w, "TIME_WAIT", o)
    <2>1. ClosedTo(w, t)
      BY <1>0, <1>5, <1>7, ClosedChange
    <2>2. ClosedTo(s, w)
      BY <1>2, <1>5, ClosedChain
    <2> QED
      BY <2>1, <2>2, ClosedChain
  <1> QED
    BY <1>2, <1>6, <1>7

LEMMA LastAckIs ==
    ASSUME NEW s \in Sockets, s.so_state = "LAST_ACK", NEW g \in Segments, NEW o,
           NEW t, t = LastAck(s, g, o)
    PROVE  ClosedTo(s, t)
  <1>0. s.so_state \in ClosedByApp
    BY DEF ClosedByApp
  <1>1. PICK a : a = ProcessAck(s, g, o)
    OBVIOUS
  <1>2. ClosedTo(s, a) /\ a \in Sockets
    BY <1>0, <1>1, ClosedAck DEF ClosedTo
  <1>3. t = a \/ t = Destroy(a)
    BY <1>1 DEF LastAck
  <1>4. CASE t = Destroy(a)
    BY <1>2, <1>4, FreedIs, ClosedChain
  <1> QED
    BY <1>2, <1>3, <1>4

\* Whom a segment has to wake, and where it may take a connection.
Woke(s, t) ==
    /\ s.so_state = "SYN_SENT" => t.so_state = "SYN_SENT" \/ "so_ac_tq" \in t.woken
    /\ s.so_state = "ESTABLISHED" =>
         /\ t.so_state = "ESTABLISHED" \/ "so_tx_tq" \in t.woken
         /\ \/ t.so_state = "ESTABLISHED" /\ t.so_rx_cnt = s.so_rx_cnt
            \/ "so_rx_tq" \in t.woken
    /\ s.so_state \notin ClosedByApp \cup {"NONE"} => t.so_state \notin ClosedByApp \cup {"NONE"}

\* What a step of the state machine keeps.
Serves(s, g, t) ==
    /\ t \in Sockets /\ (TxQueue(s) => TxQueue(t)) /\ Woke(s, t)
    /\ \A n \in Nat : FromStream(g) /\ RxStream(s, n) => RxStream(t, n)

LEMMA ClosedServes ==
    ASSUME NEW s, s.so_state \in ClosedByApp, NEW g, NEW t, ClosedTo(s, t)
    PROVE  Serves(s, g, t)
  <1>1. Woke(s, t)
    BY DEF Woke, ClosedByApp
  <1>2. \A n \in Nat : RxStream(s, n) => RxStream(t, n)
    BY ClosedRx
  <1> QED
    BY <1>1, <1>2 DEF Serves, ClosedTo

LEMMA SameServes ==
    ASSUME NEW s \in Sockets, NEW g
    PROVE  Serves(s, g, s)
  BY DEF Serves, Woke

\* A connection that is aborted before the application has closed it.
LEMMA AbortServes ==
    ASSUME NEW s \in Sockets, s.so_state \in {"CLOSED", "SYN_SENT", "ESTABLISHED", "CLOSE_WAIT"},
           NEW g, NEW t, Aborted(s, t)
    PROVE  Serves(s, g, t)
  <1>1. /\ t \in Sockets /\ (TxQueue(s) => TxQueue(t)) /\ t.so_state = "CLOSED"
        /\ t.so_rx_buf = <<>> /\ t.so_rx_nbq = <<>> /\ t.woken = Queues
    BY DEF Aborted, AbortState, ClosedByApp
  <1>2. Woke(s, t)
    BY <1>1 DEF Woke, Queues, ClosedByApp
  <1>3. \A n : RxStream(t, n)
    BY <1>1, RxStreamIs, NothingWaits
  <1> QED
    BY <1>1, <1>2, <1>3 DEF Serves

LEMMA SynSentIs ==
    ASSUME NEW s \in Sockets, s.so_state = "SYN_SENT", NEW g \in Segments,
           g.syn => g.seq = 0, NEW o, NEW t, t = SynSent(s, g, o)
    PROVE  Serves(s, g, t)
  <1>1. PICK r : r = [s EXCEPT !.so_rx_nxt = g.seq + 1]
    OBVIOUS
  <1>2. PICK a : a = ProcessAck(r, g, o)
    OBVIOUS
  <1>3. PICK u : u = StateChange(a, "ESTABLISHED", o)
    OBVIOUS
  <1>4. \/ t = s
        \/ t = Abort(s)
        \/ g.syn /\ t = Wake(u, {"so_ac_tq"})
    BY <1>1, <1>2, <1>3 DEF SynSent
  <1>5. CASE t = s
    BY <1>5, SameServes
  <1>6. CASE t = Abort(s)
    <2>1. Aborted(s, t)
      BY <1>6, AbortIs DEF Stays, SameRx
    <2> QED
      BY <2>1, AbortServes
  <1>7. CASE g.syn /\ t = Wake(u, {"so_ac_tq"})
    <2>1. g.seq + 1 = 1
      BY <1>7
    <2>2. r \in Sockets
      <3>1. r = [s EXCEPT !.so_rx_nxt = 1]
        BY <1>1, <2>1
      <3> QED
        BY <3>1 DEF Sockets
    <2>3. /\ r.so_state = "SYN_SENT" /\ r.woken = s.woken /\ r.so_rx_nxt = 1
          /\ r.so_rx_buf = s.so_rx_buf /\ r.so_rx_cnt = s.so_rx_cnt /\ r.so_rx_nbq = s.so_rx_nbq
          /\ r.so_tx_una = s.so_tx_una /\ r.so_tx_nxt = s.so_tx_nxt
          /\ r.so_tx_nbq = s.so_tx_nbq /\ r.so_retran = s.so_retran
      BY <1>1, <2>1, <2>2 DEF Sockets
    <2>4. TxQueue(s) => TxQueue(r)
      BY <2>3 DEF TxQueue
    <2>5. Keeps(r, a)
      BY <1>2, <1>7, <2>2, ProcessAckIs
    <2>6. a \in Sockets /\ a.so_state = "SYN_SENT"
      BY <2>3, <2>5 DEF Keeps, Stays
    <2>7. Changed(a, u, "ESTABLISHED") /\ Granted(a, "ESTABLISHED")
      BY <1>3, <2>6, StateChangeIs, FinGranted
    <2>8. u \in Sockets /\ {"so_ac_tq"} \in SUBSET Queues
      BY <2>7 DEF Changed, Queues
    <2>9. /\ t \in Sockets /\ SameRx(u, t) /\ (TxQueue(u) => TxQueue(t))
          /\ t.so_state = u.so_state /\ t.woken = u.woken \cup {"so_ac_tq"}
      BY <1>7, <2>8, WakeKeeps
    <2>10. /\ t.so_state = "ESTABLISHED" /\ (TxQueue(s) => TxQueue(t))
           /\ "so_ac_tq" \in t.woken /\ t.so_rx_nxt = 1
           /\ t.so_rx_buf = s.so_rx_buf /\ t.so_rx_cnt = s.so_rx_cnt /\ t.so_rx_nbq = s.so_rx_nbq
      BY <2>3, <2>4, <2>5, <2>7, <2>9 DEF Keeps, Changed, SameRx
    <2>11. ASSUME NEW n \in Nat, RxStream(s, n) PROVE RxStream(t, n)
      <3>1. Waits(t.so_rx_nbq) /\ n = 0 /\ t.so_rx_cnt = 0 /\ t.so_rx_buf = <<>>
        BY <2>10, <2>11 DEF RxStream, Waits
      <3>2. Len(t.so_rx_buf) = 0
        BY <3>1, EmptySeq
      <3>3. Buffered(t, n, t.so_rx_nxt - 1)
        BY <2>10, <3>1, <3>2, TcpAssumption DEF Buffered
      <3> QED
        BY <2>10, <3>1, <3>3, RxStreamIs DEF InOrder
    <2>12. Woke(s, t)
      BY <2>10 DEF Woke, ClosedByApp
    <2> QED
      BY <2>9, <2>10, <2>11, <2>12 DEF Serves
  <1> QED
    BY <1>4, <1>5, <1>6, <1>7

\* Waking more threads does no harm.
LEMMA WakeRx ==
    ASSUME NEW s, NEW t, SameRx(s, t), s.so_state = t.so_state, NEW n
    PROVE  RxStream(s, n) => RxStream(t, n)
  BY DEF SameRx, RxStream, AtEnd, Buffered

LEMMA EstablishedIs ==
    ASSUME NEW s \in Sockets, s.so_state = "ESTABLISHED", NEW g \in Segments,
           NEW more, NEW wider, NEW o, NEW t, t = Established(s, g, more, wider, o)
    PROVE  Serves(s, g, t)
  <1>1. PICK u : u = EstablishedData(s, g, more, o)
    OBVIOUS
  <1>2. EstablishedTo(s, g, u)
    BY <1>1, EstablishedDataIs
  <1>3. PICK w : w = Wake(u, {"so_tx_tq"})
    OBVIOUS
  <1>4. u \in Sockets /\ {"so_tx_tq"} \in SUBSET Queues
    BY <1>2 DEF EstablishedTo, Queues
  <1>5. /\ w \in Sockets /\ SameRx(u, w) /\ (TxQueue(u) => TxQueue(w))
        /\ w.so_state = u.so_state /\ w.woken = u.woken \cup {"so_tx_tq"}
    BY <1>3, <1>4, WakeKeeps
  <1>6. t = IF SendersWoken(s, u) \/ wider THEN w ELSE u
    BY <1>1, <1>3 DEF Established
  <1>7. (t = u /\ u.so_state = "ESTABLISHED") \/ t = w
    BY <1>6 DEF SendersWoken
  <1>8. CASE t = u /\ u.so_state = "ESTABLISHED"
    <2>1. Woke(s, t)
      BY <1>2, <1>8 DEF EstablishedTo, Woke, ClosedByApp
    <2> QED
      BY <1>2, <1>8, <2>1 DEF EstablishedTo, Serves
  <1>9. CASE t = w
    <2>1. Woke(s, t)
      BY <1>2, <1>5, <1>9 DEF EstablishedTo, Woke, ClosedByApp, SameRx
    <2>2. \A n \in Nat : FromStream(g) /\ RxStream(s, n) => RxStream(t, n)
      BY <1>2, <1>5, <1>9, WakeRx DEF EstablishedTo
    <2> QED
      BY <1>2, <1>5, <1>9, <2>1, <2>2 DEF EstablishedTo, Serves
  <1> QED
    BY <1>7, <1>8, <1>9

\* A socket that only an output has gone over.
LEMMA KeepsServes ==
    ASSUME NEW s \in Sockets, NEW g, NEW t, Keeps(s, t)
    PROVE  Serves(s, g, t)
  <1>1. t \in Sockets /\ Stays(s, t) /\ SameRx(s, t) /\ (TxQueue(s) => TxQueue(t))
    BY DEF Keeps
  <1>2. Woke(s, t)
    BY <1>1 DEF Woke, Stays, SameRx
  <1>3. \A n \in Nat : RxStream(s, n) => RxStream(t, n)
    BY <1>1, WakeRx DEF Stays
  <1> QED
    BY <1>1, <1>2, <1>3 DEF Serves

LEMMA StateProcessIs ==
    ASSUME NEW s \in Sockets, NEW g \in Segments, g.syn => g.seq = 0, NEW more, NEW wider,
           NEW o, NEW t, t = StateProcess(s, g, more, wider, o)
    PROVE  Serves(s, g, t) /\ (s.so_state = "CLOSED" => t = s)
  <1>1. CASE s.so_state = "SYN_SENT"
    <2>1. t = SynSent(s, g, o)
      BY <1>1 DEF StateProcess, ClosedByApp
    <2> QED
      BY <1>1, <2>1, SynSentIs
  <1>2. CASE t = s
    BY <1>2, SameServes
  <1>3. CASE s.so_state \in {"ESTABLISHED", "CLOSE_WAIT"} /\ g.rst
    <2>1. PICK a : a = Abort(s)
      OBVIOUS
    <2>2. Aborted(s, a)
      BY <2>1, AbortIs DEF Stays, SameRx
    <2>3. a \in Sockets /\ {"so_tx_tq"} \in SUBSET Queues
      BY <2>2 DEF Aborted, Queues
    <2>4. t = Wake(a, {"so_tx_tq"})
      BY <1>3, <2>1 DEF StateProcess, ClosedByApp
    <2>5. /\ t \in Sockets /\ SameRx(a, t) /\ (TxQueue(a) => TxQueue(t))
          /\ t.so_state = a.so_state /\ t.woken = a.woken \cup {"so_tx_tq"}
      BY <2>3, <2>4, WakeKeeps
    <2>6. Aborted(s, t)
      BY <2>2, <2>5 DEF Aborted, SameRx, Queues
    <2> QED
      BY <1>3, <2>6, AbortServes
  <1>4. CASE s.so_state \in ClosedByApp \ {"TIME_WAIT"} /\ g.rst
    <2>1. t = Destroy(s)
      BY <1>4 DEF StateProcess, ClosedByApp
    <2> QED
      BY <1>4, <2>1, FreedIs, ClosedServes DEF ClosedByApp
  <1>5. CASE s.so_state \notin {"SYN_SENT", "CLOSED", "TIME_WAIT", "NONE"} /\ ~g.rst /\ ~g.syn
    <2>1. CASE s.so_state = "ESTABLISHED"
      BY <1>5, <2>1, EstablishedIs DEF StateProcess, ClosedByApp
    <2>2. CASE s.so_state = "CLOSE_WAIT"
      <3>1. t = ProcessAck(s, g, o)
        BY <1>5, <2>2 DEF StateProcess, ClosedByApp
      <3>2. Keeps(s, t) \/ Aborted(s, t)
        BY <3>1, ProcessAckIs
      <3>3. CASE Keeps(s, t)
        BY <2>2, <3>3, KeepsServes
      <3> QED
        BY <2>2, <3>2, <3>3, AbortServes
    <2>3. CASE s.so_state \in {"FIN_WAIT_1", "FIN_WAIT_2"}
      BY <1>5, <2>3, FinWaitIs, ClosedServes DEF StateProcess, ClosedByApp
    <2>4. CASE s.so_state = "CLOSING"
      BY <1>5, <2>4, ClosingIs, ClosedServes DEF StateProcess, ClosedByApp
    <2>5. CASE s.so_state = "LAST_ACK"
      BY <1>5, <2>5, LastAckIs, ClosedServes DEF StateProcess, ClosedByApp
    <2> QED
      BY <1>5, <2>1, <2>2, <2>3, <2>4, <2>5 DEF Sockets, States
  <1>6. \/ s.so_state \notin {"CLOSED", "TIME_WAIT", "NONE"}
        \/ t = s
    BY DEF StateProcess, ClosedByApp
  <1>7. \/ ~(g.syn /\ ~g.rst)
        \/ s.so_state \in {"SYN_SENT", "CLOSED", "TIME_WAIT", "NONE"}
        \/ t = s
    BY DEF StateProcess, ClosedByApp
  <1>8. s.so_state \in States \cup {"NONE"}
    BY DEF Sockets
  <1> QED
    BY <1>1, <1>2, <1>3, <1>4, <1>5, <1>6, <1>7, <1>8 DEF States, ClosedByApp

LEMMA FromPeerIs ==
    ASSUME NEW s \in Sockets, NEW g \in FromPeer(s)
    PROVE  g \in Segments /\ (g.syn => g.seq = 0) /\ FromStream(g)
  <1>. DEFINE Seg(seq, len, flag) ==
                [seq |-> seq, len |-> len, syn |-> flag = "syn", fin |-> flag = "fin",
                 rst |-> flag = "rst", ack |-> 1]
              Runs == {r \in (1 .. Bytes) \X (1 .. MaxRun) : r[1] + r[2] - 1 <= Bytes}
              Final == {r \in Runs : r[1] + r[2] - 1 = Bytes /\ (r[2] = 1 \/ Coalesces)}
              Segs == {Seg(0, 0, "syn"), Seg(Bytes + 1, 0, "fin"), Seg(1, 0, "rst"),
                       Seg(s.so_rx_nxt, 0, "ack"), Seg(s.so_rx_nxt - 1, 0, "ack")}
                        \cup {Seg(r[1], r[2], "ack") : r \in Runs}
                        \cup {Seg(r[1], r[2], "fin") : r \in Final}
  <1>0. Bytes \in Nat /\ MaxRun \in Nat /\ s.so_rx_nxt \in Nat /\ s.so_tx_nxt \in Nat
    BY TcpAssumption DEF Sockets
  <1>1. PICK h \in Segs, a \in 1 .. s.so_tx_nxt : g = [h EXCEPT !.ack = a]
    BY DEF FromPeer
  <1>2. ASSUME NEW seq \in Int, NEW len \in Nat, NEW flag, h = Seg(seq, len, flag)
        PROVE  /\ g \in Segments /\ g.seq = seq /\ g.len = len
               /\ g.syn = (flag = "syn") /\ g.fin = (flag = "fin")
    <2>1. a \in Nat
      BY <1>0
    <2>2. g = [seq |-> seq, len |-> len, syn |-> flag = "syn", fin |-> flag = "fin",
               rst |-> flag = "rst", ack |-> a]
      BY <1>1, <1>2
    <2> QED
      BY <2>1, <2>2 DEF Segments
  <1>. HIDE DEF Seg
  <1>3. CASE h \in {Seg(0, 0, "syn"), Seg(Bytes + 1, 0, "fin"), Seg(1, 0, "rst"),
                    Seg(s.so_rx_nxt, 0, "ack"), Seg(s.so_rx_nxt - 1, 0, "ack")}
    <2>1. PICK seq \in Int, flag \in {"syn", "fin", "rst", "ack"} :
            h = Seg(seq, 0, flag) /\ (flag = "syn" => seq = 0) /\ (flag = "fin" => seq = Bytes + 1)
      <3>1. CASE h = Seg(0, 0, "syn")
        BY <3>1
      <3>2. CASE h = Seg(Bytes + 1, 0, "fin")
        BY <1>0, <3>2
      <3>3. CASE h = Seg(1, 0, "rst")
        BY <3>3
      <3>4. CASE h = Seg(s.so_rx_nxt, 0, "ack")
        BY <1>0, <3>4
      <3>5. CASE h = Seg(s.so_rx_nxt - 1, 0, "ack")
        <4>1. s.so_rx_nxt - 1 \in Int
          BY <1>0
        <4> QED
          BY <3>5, <4>1
      <3> QED
        BY <1>3, <3>1, <3>2, <3>3, <3>4, <3>5
    <2>2. /\ g \in Segments /\ g.seq = seq /\ g.len = 0
          /\ g.syn = (flag = "syn") /\ g.fin = (flag = "fin")
      BY <1>2, <2>1
    <2>3. g.syn => g.seq = 0
      BY <2>1, <2>2
    <2>4. g.fin => g.seq + g.len = Bytes + 1 /\ g.len <= 1
      <3>1. ASSUME g.fin PROVE seq = Bytes + 1
        BY <2>1, <2>2, <3>1
      <3>2. g.fin => g.seq = Bytes + 1
        BY <2>2, <3>1
      <3> QED
        BY <1>0, <2>2, <3>2
    <2>5. FromStream(g)
      BY <2>2, <2>4 DEF FromStream, Ends
    <2> QED
      BY <2>2, <2>3, <2>5
  <1>4. ASSUME NEW r \in Runs, NEW flag \in {"ack", "fin"}, h = Seg(r[1], r[2], flag),
               flag = "fin" => r \in Final
        PROVE  g \in Segments /\ (g.syn => g.seq = 0) /\ FromStream(g)
    <2>1. /\ r[1] \in Int /\ r[2] \in Nat /\ 1 <= r[1] /\ r[1] + r[2] <= Bytes + 1
          /\ flag = "fin" /\ ~Coalesces => r[1] + r[2] = Bytes + 1 /\ r[2] <= 1
      BY <1>0, <1>4
    <2>2. /\ g \in Segments /\ g.seq = r[1] /\ g.len = r[2]
          /\ g.syn = (flag = "syn") /\ g.fin = (flag = "fin")
      BY <1>2, <1>4, <2>1
    <2> QED
      BY <2>1, <2>2 DEF FromStream, InStream, Ends
  <1> QED
    BY <1>1, <1>3, <1>4

-----------------------------------------------------------------------------
(* One turn of the timer                                                    *)

Late(s, o) == IF "ACK" \in s.so_tx_flags THEN Answer(s, o) ELSE s

Again(s, expired, o) == IF s.so_tx_nbq # <<>> /\ s.so_retran /\ expired
                        THEN RetranTimeout(s, o) ELSE s

Linger(s) == CASE ~Lingers(s) -> s
               [] Lingers(s) /\ s.so_time_wait >= TimeWait -> Destroy(s)
               [] OTHER -> [s EXCEPT !.so_time_wait = @ + 1]

LEMMA LingerIs ==
    ASSUME NEW s \in Sockets, NEW t, t = Linger(s)
    PROVE  IF s.so_state \in ClosedByApp THEN ClosedTo(s, t) ELSE t = s
  <1>1. CASE ~Lingers(s)
    <2>1. t = s
      BY <1>1 DEF Linger
    <2> QED
      BY <2>1 DEF ClosedTo, ClosedByApp
  <1>2. CASE Lingers(s)
    <2>1. s.so_state \in ClosedByApp
      BY <1>2 DEF Lingers, ClosedByApp
    <2>2. CASE t = Destroy(s)
      BY <2>1, <2>2, FreedIs
    <2>3. CASE t = [s EXCEPT !.so_time_wait = @ + 1]
      <3>1. s.so_time_wait + 1 \in Nat /\ t = [s EXCEPT !.so_time_wait = s.so_time_wait + 1]
        BY <2>3 DEF Sockets
      <3>2. Keeps(s, t)
        BY <3>1, TimeWaitKeeps
      <3> QED
        BY <2>1, <3>2, KeepsClosed
    <2> QED
      BY <1>2, <2>2, <2>3 DEF Linger
  <1> QED
    BY <1>1, <1>2

LEMMA TurnIs ==
    ASSUME NEW s \in Sockets, s.so_state # "NONE", NEW expired, NEW o, NEW g,
           NEW a, a = Late(s, o), NEW b, b = Again(a, expired, o), NEW t, t = Linger(b)
    PROVE  Serves(s, g, t)
  <1>1. Keeps(s, a)
    <2>1. CASE a = s
      BY <2>1 DEF Keeps, Stays, SameRx
    <2>2. CASE a = Answer(s, o)
      BY <2>2, AnswerKeeps
    <2> QED
      BY <2>1, <2>2 DEF Late
  <1>2. a \in Sockets
    BY <1>1 DEF Keeps
  <1>3. Keeps(s, b) \/ Aborted(s, b)
    <2>1. CASE b = a
      BY <1>1, <2>1
    <2>2. CASE b = RetranTimeout(a, o)
      <3>1. Keeps(a, b) \/ Aborted(a, b)
        BY <1>2, <2>2, RetranTimeoutIs
      <3> QED
        BY <1>1, <3>1 DEF Keeps, Aborted, Stays, SameRx
    <2> QED
      BY <2>1, <2>2 DEF Again
  <1>4. b \in Sockets
    BY <1>3 DEF Keeps, Aborted
  <1>5. CASE s.so_state \in ClosedByApp
    <2>1. ClosedTo(s, b) /\ b.so_state \in ClosedByApp
      <3>1. CASE Keeps(s, b)
        BY <1>5, <3>1, KeepsClosed
      <3>2. CASE Aborted(s, b)
        BY <1>5, <3>2 DEF Aborted, AbortState, ClosedTo, ClosedByApp
      <3> QED
        BY <1>3, <3>1, <3>2
    <2>2. ClosedTo(b, t)
      BY <1>4, <2>1, LingerIs
    <2>3. ClosedTo(s, t)
      BY <2>1, <2>2, ClosedChain
    <2> QED
      BY <1>5, <2>3, ClosedServes
  <1>6. CASE s.so_state \notin ClosedByApp
    <2>1. b.so_state \notin ClosedByApp
      BY <1>3, <1>6 DEF Keeps, Stays, Aborted, AbortState, ClosedByApp
    <2>2. t = b
      BY <1>4, <2>1, LingerIs
    <2>3. CASE Keeps(s, b)
      BY <2>2, <2>3, KeepsServes
    <2>4. CASE Aborted(s, b) /\ s.so_state # "NONE"
      <3>1. s.so_state \in {"CLOSED", "SYN_SENT", "ESTABLISHED", "CLOSE_WAIT"}
        BY <1>6, <2>4 DEF Sockets, States, ClosedByApp
      <3> QED
        BY <2>2, <2>4, <3>1, AbortServes
    <2> QED
      BY <1>3, <2>3, <2>4
  <1> QED
    BY <1>5, <1>6

-----------------------------------------------------------------------------
(* The steps of the system keep TcpInv                                      *)

LEMMA FreshIs ==
    /\ Fresh \in Sockets /\ TxQueue(Fresh) /\ Fresh.woken = {} /\ Fresh.so_state = "CLOSED"
    /\ Fresh.so_tx_flags = {} /\ Fresh.so_tx_nbq = <<>> /\ Fresh.so_rx_buf = <<>>
    /\ Fresh.so_rx_nbq = <<>> /\ Fresh.so_rx_cnt = 0 /\ (\A n : RxStream(Fresh, n))
  <1>1. <<>> \in Seq(Nat) /\ <<>> \in Seq(Int) /\ <<>> \in Seq(Segments)
    BY EmptySeq
  <1>2. /\ Fresh \in Sockets /\ Fresh.woken = {} /\ Fresh.so_state = "CLOSED"
        /\ Fresh.so_tx_flags = {} /\ Fresh.so_tx_nbq = <<>> /\ Fresh.so_rx_buf = <<>>
        /\ Fresh.so_rx_nbq = <<>> /\ Fresh.so_rx_cnt = 0
        /\ Fresh.so_tx_una = 0 /\ Fresh.so_tx_nxt = 0
    BY <1>1 DEF Fresh, Freed, Sockets, States
  <1>3. TxQueue(Fresh)
    BY <1>2 DEF TxQueue, Dead
  <1>4. \A n : RxStream(Fresh, n)
    BY <1>2, NothingWaits, RxStreamIs
  <1> QED
    BY <1>2, <1>3, <1>4

LEMMA ConnectIs ==
    ASSUME NEW o, NEW t, t = StateChange(Fresh, "SYN_SENT", o)
    PROVE  /\ t \in Sockets /\ TxQueue(t) /\ t.so_state = "SYN_SENT" /\ t.woken = {}
           /\ RxStream(t, 0)
  <1>. DEFINE flags == FlagsFor("CLOSED", "SYN_SENT")
  <1>0. Granted(Fresh, "SYN_SENT")
    BY FreshIs DEF Granted, Changes, Change
  <1>1. flags \in SUBSET Flags
    <2>1. \E c \in Changes : c.from = "CLOSED" /\ c.to = "SYN_SENT"
      BY DEF Changes, Change
    <2>2. \A c \in Changes : c.flags \in SUBSET Flags
      BY DEF Changes, Change, Flags
    <2> QED
      BY <2>1, <2>2 DEF FlagsFor
  <1>. HIDE DEF flags
  <1>2. PICK r : r = [Fresh EXCEPT !.so_state = "SYN_SENT", !.so_tx_flags = flags]
    OBVIOUS
  <1>3. r \in Sockets
    BY <1>1, <1>2, FreshIs DEF Sockets, States
  <1>4. /\ r.so_state = "SYN_SENT" /\ r.woken = {} /\ r.so_rx_buf = <<>> /\ r.so_rx_nbq = <<>>
        /\ r.so_rx_cnt = 0 /\ r.so_tx_nbq = <<>> /\ r.so_tx_una = 0 /\ r.so_tx_nxt = 0
    BY <1>2, <1>3, FreshIs DEF Sockets, Fresh, Freed
  <1>5. TxQueue(r)
    <2>1. Len(<<>>) = 0
      BY EmptySeq
    <2> QED
      BY <1>4, <2>1 DEF TxQueue
  <1>6. RxStream(r, 0)
    BY <1>4, NothingWaits DEF RxStream, Waits
  <1>7. [Fresh EXCEPT !.so_state = "SYN_SENT", !.so_tx_flags = @ \cup flags] = r
    BY <1>2, FreshIs DEF Sockets
  <1>8. t = IF flags = {} THEN r ELSE Output(r, 0, o)
    BY <1>0, <1>7, FreshIs DEF StateChange, flags
  <1>9. Keeps(r, t)
    <2>1. CASE t = r
      BY <1>3, <2>1 DEF Keeps, Stays, SameRx
    <2>2. CASE t = Output(r, 0, o)
      BY <1>3, <2>2, OutputKeeps
    <2> QED
      BY <1>8, <2>1, <2>2
  <1>10. RxStream(t, 0)
    BY <1>6, <1>9, WakeRx DEF Keeps, Stays
  <1> QED
    BY <1>4, <1>5, <1>9, <1>10 DEF Keeps, Stays

\* What Commit leaves of the socket: nobody is noted as woken any more.
LEMMA Committed ==
    ASSUME NEW t \in Sockets, NEW u, u = [t EXCEPT !.woken = {}]
    PROVE  /\ u \in Sockets /\ u.woken = {} /\ u.so_state = t.so_state /\ SameRx(t, u)
           /\ TxQueue(t) => TxQueue(u)
           /\ t.woken = {} => u = t
  <1>1. u \in Sockets
    BY DEF Sockets
  <1>2. /\ SameRx(t, u) /\ u.so_tx_una = t.so_tx_una /\ u.so_tx_nxt = t.so_tx_nxt
        /\ u.so_tx_nbq = t.so_tx_nbq /\ u.so_retran = t.so_retran
        /\ u.so_state = t.so_state /\ u.woken = {}
    BY DEF Sockets, SameRx
  <1>3. t.woken = {} => u = t
    BY DEF Sockets
  <1> QED
    BY <1>1, <1>2, <1>3 DEF TxQueue

\* A step of the state machine.
LEMMA StepOfStateMachine ==
    ASSUME TcpInv, NEW g, NEW t, Serves(sock, g, t), app = "idle" => t = sock,
           Commit(t), UNCHANGED <<app, sent, got>>
    PROVE  TcpInv' /\ (StreamInv /\ FromStream(g) => StreamInv')
  <1>0. /\ t \in Sockets /\ sock \in Sockets /\ sock.woken = {} /\ TxQueue(t) /\ Woke(sock, t)
    BY DEF TcpInv, TypeOK, Serves
  <1>1. /\ sock' \in Sockets /\ sock'.woken = {} /\ sock'.so_state = t.so_state
        /\ SameRx(t, sock') /\ TxQueue(sock') /\ (t.woken = {} => sock' = t)
    BY <1>0, Committed DEF Commit
  <1>2. blocked' \in BOOLEAN /\ (blocked' => blocked /\ QueueOf(app) \notin t.woken)
    BY DEF Commit, TcpInv, TypeOK
  <1>3. TypeOK'
    BY <1>1, <1>2 DEF TcpInv, TypeOK
  <1>4. Lifecycle'
    BY <1>0, <1>1 DEF TcpInv, Lifecycle, Woke
  <1>5. NobodyLeftWaiting'
    <2>. SUFFICES ASSUME blocked'
                  PROVE  CASE app = "connect" -> t.so_state = "SYN_SENT"
                           [] app = "send" -> t.so_state = "ESTABLISHED"
                           [] app = "receive" -> t.so_state = "ESTABLISHED" /\ t.so_rx_cnt = 0
      BY <1>1 DEF NobodyLeftWaiting, SameRx
    <2>1. app \in {"connect", "send", "receive"} /\ blocked /\ QueueOf(app) \notin t.woken
      BY <1>2 DEF TcpInv, TypeOK
    <2>2. CASE app = "connect"
      BY <1>0, <2>1, <2>2 DEF TcpInv, NobodyLeftWaiting, QueueOf, Woke
    <2>3. CASE app = "send"
      BY <1>0, <2>1, <2>3 DEF TcpInv, NobodyLeftWaiting, QueueOf, Woke
    <2>4. CASE app = "receive"
      BY <1>0, <2>1, <2>4 DEF TcpInv, NobodyLeftWaiting, QueueOf, Woke
    <2> QED
      BY <2>1, <2>2, <2>3, <2>4
  <1>6. ASSUME StreamInv, FromStream(g) PROVE StreamInv'
    <2>1. got \in Seq(Nat) /\ RxStream(sock, Len(got))
      BY <1>6 DEF StreamInv, GotInOrder
    <2>2. Len(got) \in Nat
      BY <2>1, LenProperties
    <2>3. RxStream(t, Len(got))
      BY <1>6, <2>1, <2>2 DEF Serves
    <2>4. RxStream(sock', Len(got))
      BY <1>1, <2>3, WakeRx
    <2> QED
      BY <1>6, <2>4 DEF StreamInv, GotInOrder
  <1> QED
    BY <1>1, <1>3, <1>4, <1>5, <1>6 DEF TcpInv

LEMMA ArriveKeeps ==
    ASSUME TcpInv, NEW g \in FromPeer(sock), NEW more, NEW wider, NEW o,
           Arrive(g, more, wider, o)
    PROVE  TcpInv' /\ (StreamInv => StreamInv')
  <1>1. PICK t : t = StateProcess(sock, g, more, wider, o)
    OBVIOUS
  <1>2. sock \in Sockets /\ (app = "idle" => sock.so_state = "CLOSED")
    BY FreshIs DEF TcpInv, TypeOK, Lifecycle
  <1>3. g \in Segments /\ (g.syn => g.seq = 0) /\ FromStream(g)
    BY <1>2, FromPeerIs
  <1>4. Serves(sock, g, t) /\ (sock.so_state = "CLOSED" => t = sock)
    BY <1>1, <1>2, <1>3, StateProcessIs
  <1>5. Commit(t) /\ UNCHANGED <<app, sent, got>>
    BY <1>1 DEF Arrive
  <1> QED
    BY <1>2, <1>3, <1>4, <1>5, StepOfStateMachine

LEMMA TimerTurnKeeps ==
    ASSUME TcpInv, NEW expired, NEW o, TimerTurn(expired, o)
    PROVE  TcpInv' /\ (StreamInv => StreamInv')
  <1>1. PICK a : a = Late(sock, o)
    OBVIOUS
  <1>2. PICK b : b = Again(a, expired, o)
    OBVIOUS
  <1>3. PICK t : t = Linger(b)
    OBVIOUS
  <1>4. PICK g : g = [seq |-> 0, len |-> 0, fin |-> FALSE]
    OBVIOUS
  <1>5. FromStream(g)
    BY <1>4 DEF FromStream
  <1>6. sock.so_state # "NONE" /\ Commit(t) /\ UNCHANGED <<app, sent, got>>
    BY <1>1, <1>2, <1>3 DEF TimerTurn, Late, Again, Linger
  <1>7. sock \in Sockets
    BY DEF TcpInv, TypeOK
  <1>8. Serves(sock, g, t)
    BY <1>1, <1>2, <1>3, <1>6, <1>7, TurnIs
  <1>9. ASSUME app = "idle" PROVE t = sock
    <2>1. sock = Fresh
      BY <1>9 DEF TcpInv, Lifecycle
    <2>2. a = sock
      BY <1>1, <2>1, FreshIs DEF Late
    <2>3. b = sock
      BY <1>2, <2>1, <2>2, FreshIs DEF Again
    <2> QED
      BY <1>3, <2>1, <2>3, FreshIs DEF Linger, Lingers
  <1> QED
    BY <1>5, <1>6, <1>8, <1>9, StepOfStateMachine

LEMMA InitTcpInv == Init => TcpInv /\ StreamInv
  <1>. SUFFICES ASSUME Init PROVE TcpInv /\ StreamInv
    OBVIOUS
  <1>1. sock = Fresh /\ app = "idle" /\ blocked = FALSE /\ sent = 0 /\ got = <<>>
    BY DEF Init, Fresh
  <1>2. TypeOK
    <2>1. Requests \in Nat /\ 0 \in 0 .. Requests
      BY TcpAssumption
    <2> QED
      BY <1>1, <2>1, FreshIs DEF TypeOK
  <1>3. Lifecycle /\ NobodyLeftWaiting /\ TxQueue(sock) /\ RxStream(sock, Len(got))
    BY <1>1, FreshIs DEF Lifecycle, NobodyLeftWaiting, ClosedByApp
  <1>4. GotInOrder
    BY <1>1, EmptySeq, TcpAssumption DEF GotInOrder
  <1> QED
    BY <1>2, <1>3, <1>4 DEF TcpInv, StreamInv

\* A call that leaves the socket, or changes what only the sender uses.
LEMMA StepOfCall ==
    ASSUME TcpInv, app # "idle", Keeps(sock, sock'), app' # "idle", got' = got,
           app' \in {"connect", "open", "send", "receive", "ended", "failed", "crashed"},
           app # "closed", blocked' \in BOOLEAN,
           sent' \in 0 .. Requests, app' = "send" => sent' < Requests,
           blocked' => app' \in {"connect", "send", "receive"},
           NobodyLeftWaiting'
    PROVE  TcpInv' /\ (StreamInv => StreamInv')
  <1>1. /\ sock' \in Sockets /\ sock'.woken = {} /\ TxQueue(sock')
        /\ sock'.so_state = sock.so_state /\ SameRx(sock, sock')
    BY DEF TcpInv, TypeOK, Keeps, Stays
  <1>2. TypeOK'
    BY <1>1 DEF TypeOK
  <1>3. Lifecycle'
    BY <1>1 DEF TcpInv, Lifecycle
  <1>4. ASSUME StreamInv PROVE StreamInv'
    <2>1. RxStream(sock', Len(got))
      BY <1>1, <1>4, WakeRx DEF StreamInv
    <2> QED
      BY <1>4, <2>1 DEF StreamInv, GotInOrder
  <1> QED
    BY <1>1, <1>2, <1>3, <1>4 DEF TcpInv

LEMMA SameKeeps == \A s \in Sockets : Keeps(s, s)
  BY DEF Keeps, Stays, SameRx

\* The caller takes n bytes out of the buffer.
Taken(s, n, t) ==
    /\ n <= s.so_rx_cnt /\ n <= Len(s.so_rx_buf)
    /\ t = [s EXCEPT !.so_rx_buf = SubSeq(s.so_rx_buf, n + 1, Len(s.so_rx_buf)),
                     !.so_rx_cnt = s.so_rx_cnt - n]

LeftBehind(s, n, t) ==
    /\ t \in Sockets /\ Stays(s, t) /\ (TxQueue(s) => TxQueue(t))
    /\ t.so_rx_nbq = s.so_rx_nbq /\ t.so_rx_nxt = s.so_rx_nxt
    /\ t.so_rx_cnt = s.so_rx_cnt - n
    /\ Len(t.so_rx_buf) = Len(s.so_rx_buf) - n
    /\ \A i \in 1 .. Len(s.so_rx_buf) - n : t.so_rx_buf[i] = s.so_rx_buf[n + i]

LEMMA TakenIs ==
    ASSUME NEW s \in Sockets, NEW n \in Nat, NEW t, Taken(s, n, t)
    PROVE  LeftBehind(s, n, t)
  <1>0. PICK b \in Seq(Int) : b = s.so_rx_buf
    BY DEF Sockets
  <1>1. Len(b) \in Nat /\ (\A i \in 1 .. Len(b) : b[i] \in Int) /\ n <= Len(b)
    BY <1>0, LenProperties, ElementOfSeq DEF Taken
  <1>2. PICK m \in Nat : m = s.so_rx_cnt - n
    BY DEF Sockets, Taken
  <1>3. PICK r : r = SubSeq(b, n + 1, Len(b))
    OBVIOUS
  <1>4. /\ r \in Seq(Int) /\ Len(r) = Len(b) - n
        /\ \A i \in 1 .. Len(b) - n : r[i] = b[n + i]
    <2>1. PICK k \in Nat : k = n + 1
      OBVIOUS
    <2>2. k \in Int /\ k <= Len(b) + 1 /\ \A i \in k .. Len(b) : b[i] \in Int
      BY <1>1, <2>1
    <2>3. /\ r \in Seq(Int) /\ Len(r) = Len(b) - k + 1
          /\ \A i \in 1 .. (Len(b) - k + 1) : r[i] = b[k + i - 1]
      BY <1>0, <1>1, <1>3, <2>1, <2>2, SubSeqProperties
    <2>4. Len(b) - k + 1 = Len(b) - n /\ \A i \in 1 .. Len(b) - n : k + i - 1 = n + i
      BY <1>1, <2>1
    <2>5. \A i \in 1 .. Len(b) - n : r[i] = b[k + i - 1]
      BY <2>3, <2>4
    <2>6. \A i \in 1 .. Len(b) - n : r[i] = b[n + i]
      BY <2>4, <2>5
    <2> QED
      BY <2>3, <2>4, <2>6
  <1>5. t = [s EXCEPT !.so_rx_buf = r, !.so_rx_cnt = m]
    BY <1>0, <1>2, <1>3 DEF Taken
  <1>6. t \in Sockets
    BY <1>4, <1>5 DEF Sockets
  <1>7. /\ Stays(s, t) /\ t.so_rx_nbq = s.so_rx_nbq /\ t.so_rx_nxt = s.so_rx_nxt
        /\ t.so_rx_buf = r /\ t.so_rx_cnt = m
        /\ t.so_tx_una = s.so_tx_una /\ t.so_tx_nxt = s.so_tx_nxt
        /\ t.so_tx_nbq = s.so_tx_nbq /\ t.so_retran = s.so_retran
    BY <1>5, <1>6 DEF Sockets, Stays
  <1>8. TxQueue(s) => TxQueue(t)
    BY <1>7 DEF TxQueue, Stays
  <1> QED
    BY <1>0, <1>2, <1>4, <1>6, <1>7, <1>8 DEF LeftBehind

LEMMA ReceiveTakesKeeps ==
    ASSUME TcpInv, NEW n \in 1 .. Bytes, NEW opens, NEW o, ReceiveTakes(n, opens, o)
    PROVE  /\ TcpInv'
           /\ StreamInv => /\ StreamInv' /\ n \in 1 .. Bytes - Len(got)
                           /\ got' = got \o [i \in 1 .. n |-> Len(got) + i]
  <1>1. PICK r : Taken(sock, n, r)
    BY DEF Taken, ReceiveTakes
  <1>0. /\ sock \in Sockets /\ n \in Nat /\ n <= sock.so_rx_cnt /\ n <= Len(sock.so_rx_buf)
        /\ Bytes \in Nat /\ sock.woken = {}
    BY TcpAssumption DEF ReceiveTakes, TcpInv, TypeOK
  <1>2. /\ r \in Sockets /\ Stays(sock, r) /\ (TxQueue(sock) => TxQueue(r))
        /\ r.so_rx_nbq = sock.so_rx_nbq /\ r.so_rx_nxt = sock.so_rx_nxt
        /\ r.so_rx_cnt = sock.so_rx_cnt - n
        /\ Len(r.so_rx_buf) = Len(sock.so_rx_buf) - n
        /\ \A i \in 1 .. Len(sock.so_rx_buf) - n : r.so_rx_buf[i] = sock.so_rx_buf[n + i]
    <2>1. LeftBehind(sock, n, r)
      BY <1>0, <1>1, TakenIs
    <2> QED
      BY <2>1 DEF LeftBehind
  <1>3. [sock EXCEPT !.so_rx_buf = SubSeq(@, n + 1, Len(@)), !.so_rx_cnt = @ - n] = r
    BY <1>0, <1>1 DEF Taken, Sockets
  <1>4. sock' = IF opens /\ r.so_state = "ESTABLISHED" THEN Answer(r, o) ELSE r
    BY <1>3 DEF ReceiveTakes
  <1>5. Keeps(r, sock')
    BY <1>2, <1>4, AnswerKeeps, SameKeeps
  <1>6. /\ app \in {"open", "receive"} /\ (app = "receive" => ~blocked) /\ app' = "open"
        /\ blocked' = blocked /\ sent' = sent
        /\ got' = got \o SubSeq(sock.so_rx_buf, 1, n)
    BY DEF ReceiveTakes, Receiving
  <1>7. ~blocked
    BY <1>6 DEF TcpInv, TypeOK
  <1>8. /\ sock' \in Sockets /\ sock'.woken = {} /\ TxQueue(sock')
        /\ sock'.so_state = sock.so_state
    BY <1>0, <1>2, <1>5 DEF TcpInv, Keeps, Stays
  <1>9. TypeOK'
    BY <1>6, <1>7, <1>8 DEF TcpInv, TypeOK
  <1>10. Lifecycle' /\ NobodyLeftWaiting'
    BY <1>6, <1>7, <1>8 DEF TcpInv, Lifecycle, NobodyLeftWaiting
  <1>11. TcpInv'
    BY <1>8, <1>9, <1>10 DEF TcpInv
  <1>12. ASSUME StreamInv
         PROVE  /\ StreamInv' /\ n \in 1 .. Bytes - Len(got)
                /\ got' = got \o [i \in 1 .. n |-> Len(got) + i]
    <2>0. PICK b \in Seq(Int) : b = sock.so_rx_buf
      BY <1>0 DEF Sockets
    <2>1. Len(b) \in Nat /\ Len(b) > 0 /\ n <= Len(b) /\ b # <<>>
      BY <1>0, <2>0, LenProperties, EmptySeq
    <2>2. sock.so_state \in {"ESTABLISHED", "CLOSE_WAIT"}
      <3>1. sock.so_state \notin {"CLOSED", "SYN_SENT", "NONE"}
        BY <1>12, <2>0, <2>1 DEF StreamInv, RxStream
      <3>2. sock.so_state \notin ClosedByApp
        BY <1>6 DEF TcpInv, Lifecycle
      <3> QED
        BY <1>0, <3>1, <3>2 DEF Sockets, States, ClosedByApp
    <2>3. PICK k \in Nat : k = Len(got)
      BY <1>12, LenProperties DEF StreamInv, GotInOrder
    <2>4. PICK m : /\ Buffered(sock, k, m)
                   /\ sock.so_state = "ESTABLISHED" => m = sock.so_rx_nxt - 1
                   /\ sock.so_state = "CLOSE_WAIT" => (~Coalesces => m = Bytes)
      BY <1>12, <2>2, <2>3 DEF StreamInv, RxStream, AtEnd
    <2>5. /\ k + Len(b) = m /\ m <= Bytes /\ sock.so_rx_cnt = Len(b)
          /\ \A i \in 1 .. Len(b) : b[i] = k + i
      BY <2>0, <2>4 DEF Buffered
    <2>6. n \in 1 .. Bytes - k /\ k + n \in Nat /\ k + n <= Bytes
      BY <1>0, <2>1, <2>5
    <2>7. PICK c : c = SubSeq(b, 1, n)
      OBVIOUS
    <2>8. c \in Seq(Nat) /\ Len(c) = n /\ \A i \in 1 .. n : c[i] = k + i
      <3>1. \A i \in 1 .. n : b[i] \in Nat /\ b[i] = k + i
        BY <1>0, <2>1, <2>5
      <3>2. 1 \in Int /\ n \in Int /\ 1 <= n + 1 /\ n - 1 + 1 = n /\ \A i \in Int : 1 + i - 1 = i
        BY <1>0
      <3>3. /\ c \in Seq(Nat) /\ Len(c) = n - 1 + 1
            /\ \A i \in 1 .. (n - 1 + 1) : c[i] = b[1 + i - 1]
        BY <2>7, <3>1, <3>2, SubSeqProperties
      <3> QED
        BY <3>1, <3>2, <3>3
    <2>9. PICK d : d = [i \in 1 .. n |-> k + i]
      OBVIOUS
    <2>10. c = d
      <3>1. \A i \in 1 .. n : k + i \in Nat
        BY <1>0
      <3>2. [i \in 1 .. n |-> k + i] \in Seq(Nat)
        BY <1>0, <3>1, IsASeq
      <3>3. d \in Seq(Nat) /\ DOMAIN d = 1 .. n /\ \A i \in 1 .. n : d[i] = k + i
        BY <2>9, <3>2
      <3>4. DOMAIN c = 1 .. n
        BY <2>8, LenProperties
      <3>5. c = [i \in 1 .. n |-> c[i]] /\ d = [i \in 1 .. n |-> d[i]]
        BY <2>8, <2>9, <3>4
      <3> QED
        BY <2>8, <2>9, <3>5
    <2>11. got' = got \o c /\ got \in Seq(Nat) /\ \A i \in 1 .. k : got[i] = i
      BY <1>6, <1>12, <2>0, <2>3, <2>7 DEF StreamInv, GotInOrder
    <2>12. /\ got' \in Seq(Nat) /\ Len(got') = k + n
           /\ \A i \in 1 .. k + n : got'[i] = IF i <= k THEN got[i] ELSE c[i - k]
      BY <2>3, <2>8, <2>11, ConcatProperties
    <2>13. ASSUME NEW i \in 1 .. k + n PROVE got'[i] = i
      <3>1. CASE i <= k
        BY <2>11, <2>12, <3>1
      <3>2. CASE ~(i <= k)
        <4>1. i - k \in 1 .. n
          BY <1>0, <3>2
        <4>2. c[i - k] = k + (i - k)
          BY <2>8, <4>1
        <4> QED
          BY <2>12, <3>2, <4>2
      <3> QED
        BY <3>1, <3>2
    <2>14. GotInOrder'
      BY <1>6, <2>6, <2>12, <2>13 DEF GotInOrder
    <2>15. SameRx(r, sock') /\ sock'.so_state = r.so_state /\ r.so_state = sock.so_state
      BY <1>2, <1>5 DEF Keeps, Stays
    <2>16. Buffered(r, k + n, m)
      <3>1. PICK l \in Nat : l = Len(b)
        BY <2>1
      <3>2. (k + n) + (l - n) = k + l /\ \A i \in Int : k + (n + i) = (k + n) + i
        BY <1>0
      <3>3. \A i \in 1 .. l - n : n + i \in 1 .. l
        BY <1>0, <2>1, <3>1
      <3>4. /\ Len(r.so_rx_buf) = l - n /\ r.so_rx_cnt = l - n
            /\ \A i \in 1 .. l - n : r.so_rx_buf[i] = b[n + i]
        BY <1>2, <2>0, <2>5, <3>1
      <3>5. \A i \in 1 .. l - n : r.so_rx_buf[i] = (k + n) + i
        BY <2>5, <3>1, <3>2, <3>3, <3>4
      <3> QED
        BY <2>5, <3>1, <3>2, <3>4, <3>5 DEF Buffered
    <2>17. RxStream(r, k + n)
      <3>1. Waits(r.so_rx_nbq)
        BY <1>2, <1>12 DEF StreamInv, RxStream, Waits
      <3>2. (k + n) + Len(r.so_rx_buf) = m
        BY <2>16 DEF Buffered
      <3>3. sock.so_state = "CLOSE_WAIT" => AtEnd(r, k + n)
        BY <2>4, <2>16, <3>2 DEF AtEnd
      <3> QED
        BY <1>2, <2>2, <2>4, <2>15, <2>16, <3>1, <3>3, RxStreamIs DEF InOrder
    <2>18. RxStream(sock', Len(got'))
      BY <2>12, <2>15, <2>17, WakeRx
    <2> QED
      BY <2>3, <2>6, <2>9, <2>10, <2>11, <2>14, <2>18 DEF StreamInv
  <1> QED
    BY <1>11, <1>12

LEMMA SendKeeps ==
    ASSUME TcpInv, NEW room, NEW o, Send(room, o)
    PROVE  TcpInv' /\ (StreamInv => StreamInv') /\ app' \in {"open", "send"}
  <1>1. /\ app \in {"open", "send"} /\ (app = "send" => ~blocked) /\ got' = got
        /\ sent < Requests /\ sent \in 0 .. Requests /\ Requests \in Nat
        /\ sock \in Sockets /\ blocked \in BOOLEAN
    BY TcpAssumption DEF Send, TcpInv, TypeOK
  <1>2. CASE /\ sock.so_state = "ESTABLISHED" /\ app' = "send" /\ blocked' = TRUE
             /\ UNCHANGED <<sock, sent>>
    <2>1. Keeps(sock, sock')
      BY <1>1, <1>2, SameKeeps
    <2>2. NobodyLeftWaiting'
      BY <1>2 DEF NobodyLeftWaiting
    <2> QED
      BY <1>1, <1>2, <2>1, <2>2, StepOfCall
  <1>3. CASE /\ app' = "open" /\ sent' = sent + 1 /\ UNCHANGED blocked
             /\ sock' = IF sock.so_state # "ESTABLISHED" THEN sock
                        ELSE Output([sock EXCEPT !.so_tx_flags = @ \cup {"ACK"}], 1, o)
    <2>1. ~blocked
      BY <1>1 DEF TcpInv, TypeOK
    <2>2. Keeps(sock, sock')
      <3>. DEFINE f == sock.so_tx_flags \cup {"ACK"}
      <3>1. PICK r : r = [sock EXCEPT !.so_tx_flags = f]
        OBVIOUS
      <3>2. f \in SUBSET Flags
        BY <1>1 DEF Sockets, Flags
      <3>3. [sock EXCEPT !.so_tx_flags = @ \cup {"ACK"}] = r
        BY <1>1, <3>1 DEF Sockets
      <3>. HIDE DEF f
      <3>4. Keeps(sock, r)
        BY <1>1, <3>1, <3>2, FlagsKeep
      <3>5. r \in Sockets
        BY <3>4 DEF Keeps
      <3>6. sock' = sock \/ sock' = Output(r, 1, o)
        BY <1>3, <3>3
      <3>7. CASE sock' = Output(r, 1, o)
        <4>1. Keeps(r, sock')
          BY <3>5, <3>7, OutputKeeps
        <4> QED
          BY <3>4, <4>1 DEF Keeps, Stays, SameRx
      <3> QED
        BY <1>1, <3>6, <3>7, SameKeeps
    <2>3. NobodyLeftWaiting'
      BY <1>3, <2>1 DEF NobodyLeftWaiting
    <2>4. sent' \in 0 .. Requests
      BY <1>1, <1>3
    <2> QED
      BY <1>1, <1>3, <2>1, <2>2, <2>3, <2>4, StepOfCall
  <1> QED
    BY <1>2, <1>3 DEF Send

\* The calls that leave the socket alone.
LEMMA StepOfWait ==
    ASSUME TcpInv, UNCHANGED <<sock, sent, got>>, app \notin {"idle", "closed"},
           app' \in {"open", "receive", "ended", "failed", "crashed"},
           blocked' => app' = "receive", blocked' \in BOOLEAN, NobodyLeftWaiting'
    PROVE  TcpInv' /\ (StreamInv => StreamInv')
  <1>1. sock \in Sockets /\ sent \in 0 .. Requests
    BY DEF TcpInv, TypeOK
  <1>2. Keeps(sock, sock')
    BY <1>1, SameKeeps
  <1> QED
    BY <1>1, <1>2, StepOfCall

LEMMA WaitsKeep ==
    ASSUME TcpInv,
           Connected \/ ReceiveRefused \/ ReceiveWaits \/ ReceiveEnds \/ ReceiveCrashes
             \/ ReceiveTimesOut
    PROVE  TcpInv' /\ (StreamInv => StreamInv')
  <1>0. blocked \in BOOLEAN /\ (blocked => app \in {"connect", "send", "receive"})
    BY DEF TcpInv, TypeOK
  <1>1. CASE Connected
    BY <1>0, <1>1, StepOfWait DEF Connected, NobodyLeftWaiting
  <1>2. CASE ReceiveRefused
    BY <1>0, <1>2, StepOfWait DEF ReceiveRefused, NobodyLeftWaiting
  <1>3. CASE ReceiveWaits
    BY <1>0, <1>3, StepOfWait DEF ReceiveWaits, Receiving, NobodyLeftWaiting
  <1>4. CASE ReceiveEnds
    BY <1>0, <1>4, StepOfWait DEF ReceiveEnds, Receiving, NobodyLeftWaiting
  <1>5. CASE ReceiveCrashes
    BY <1>0, <1>5, StepOfWait DEF ReceiveCrashes, Receiving, NobodyLeftWaiting
  <1>6. CASE ReceiveTimesOut
    BY <1>0, <1>6, StepOfWait DEF ReceiveTimesOut, NobodyLeftWaiting
  <1> QED
    BY <1>1, <1>2, <1>3, <1>4, <1>5, <1>6

LEMMA NoRouteKeeps ==
    ASSUME TcpInv, NoRoute
    PROVE  TcpInv' /\ (StreamInv => StreamInv')
  <1>1. app = "idle" /\ app' = "failed" /\ UNCHANGED <<sock, blocked, sent, got>>
    BY DEF NoRoute
  <1>2. ~blocked /\ sock = Fresh
    BY <1>1 DEF TcpInv, TypeOK, Lifecycle
  <1> QED
    BY <1>1, <1>2, FreshIs DEF TcpInv, TypeOK, Lifecycle, NobodyLeftWaiting, ClosedByApp,
                               StreamInv, GotInOrder

LEMMA ConnectKeeps ==
    ASSUME TcpInv, NEW o, Connect(o)
    PROVE  TcpInv' /\ (StreamInv => StreamInv')
  <1>1. app = "idle" /\ app' = "connect" /\ UNCHANGED <<sent, got>> /\ blocked' \in BOOLEAN
    BY DEF Connect
  <1>2. sock' = StateChange(Fresh, "SYN_SENT", o)
    BY <1>1 DEF Connect, TcpInv, Lifecycle
  <1>3. /\ sock' \in Sockets /\ TxQueue(sock') /\ sock'.so_state = "SYN_SENT"
        /\ sock'.woken = {} /\ RxStream(sock', 0)
    BY <1>2, ConnectIs
  <1>4. TypeOK' /\ Lifecycle' /\ NobodyLeftWaiting'
    BY <1>1, <1>3 DEF TcpInv, TypeOK, Lifecycle, NobodyLeftWaiting, ClosedByApp
  <1>5. ASSUME StreamInv PROVE StreamInv'
    <2>1. got = <<>> /\ Len(got) = 0
      BY <1>1, <1>5, EmptySeq DEF StreamInv, GotInOrder
    <2> QED
      BY <1>1, <1>3, <1>5, <2>1 DEF StreamInv, GotInOrder
  <1> QED
    BY <1>3, <1>4, <1>5 DEF TcpInv

LEMMA CloseKeeps ==
    ASSUME TcpInv, NEW o, Close(o)
    PROVE  TcpInv' /\ (StreamInv => StreamInv')
  <1>1. /\ app \in {"open", "ended", "failed"} /\ app' = "closed"
        /\ UNCHANGED <<blocked, sent, got>> /\ ~blocked
    BY DEF Close, TcpInv, TypeOK
  <1>2. sock \in Sockets /\ sock.woken = {} /\ TxQueue(sock)
    BY DEF TcpInv, TypeOK
  <1>3. /\ sock' \in Sockets /\ sock'.woken = {} /\ TxQueue(sock')
        /\ \A n : RxStream(sock, n) => RxStream(sock', n)
    <2>1. CASE sock' = sock
      BY <1>2, <2>1
    <2>2. CASE sock' = Destroy(sock)
      BY <1>2, <2>2, FreedIs DEF ClosedTo
    <2>3. CASE sock.so_state = "ESTABLISHED" /\ sock' = StateChange(sock, "FIN_WAIT_1", o)
      <3>1. Changed(sock, sock', "FIN_WAIT_1") /\ Granted(sock, "FIN_WAIT_1")
        BY <1>2, <2>3, StateChangeIs, FinGranted
      <3> QED
        BY <1>2, <3>1 DEF Changed, SameRx, RxStream
    <2>4. CASE sock.so_state = "CLOSE_WAIT" /\ sock' = StateChange(sock, "LAST_ACK", o)
      <3>1. Changed(sock, sock', "LAST_ACK") /\ Granted(sock, "LAST_ACK")
        BY <1>2, <2>4, StateChangeIs, FinGranted
      <3> QED
        BY <1>2, <3>1 DEF Changed, SameRx, RxStream
    <2> QED
      BY <2>1, <2>2, <2>3, <2>4 DEF Close
  <1>4. TypeOK' /\ Lifecycle' /\ NobodyLeftWaiting'
    BY <1>1, <1>3 DEF TcpInv, TypeOK, Lifecycle, NobodyLeftWaiting
  <1>5. ASSUME StreamInv PROVE StreamInv'
    BY <1>1, <1>3, <1>5 DEF StreamInv, GotInOrder
  <1> QED
    BY <1>3, <1>4, <1>5 DEF TcpInv

LEMMA NextKeeps ==
    ASSUME TcpInv, [Next]_vars
    PROVE  TcpInv' /\ (StreamInv => StreamInv')
  <1>1. CASE Application
    BY <1>1, NoRouteKeeps, WaitsKeep, ConnectKeeps, CloseKeeps, SendKeeps, ReceiveTakesKeeps
       DEF Application
  <1>2. CASE StateMachine
    BY <1>2, ArriveKeeps, TimerTurnKeeps DEF StateMachine
  <1>3. CASE UNCHANGED vars
    BY <1>3 DEF vars, TcpInv, TypeOK, Lifecycle, NobodyLeftWaiting, StreamInv, GotInOrder
  <1> QED
    BY <1>1, <1>2, <1>3 DEF Next

-----------------------------------------------------------------------------
(* Results                                                                  *)

THEOREM SocketInvariant == Spec => []TcpInv
  <1>1. Init => TcpInv
    BY InitTcpInv
  <1>2. TcpInv /\ [Next]_vars => TcpInv'
    BY NextKeeps
  <1> QED
    BY <1>1, <1>2, PTL DEF Spec

\* The socket, the call of the application and the histories keep their types
\* (struct _TCPSOCKET; NutTcpConnect, NutTcpSend, NutTcpReceive).
THEOREM TcpTypeCorrect == Spec => []TypeOK
  <1>1. TcpInv => TypeOK
    BY DEF TcpInv
  <1> QED
    BY <1>1, SocketInvariant, PTL

\* What is not acknowledged is queued, in order and with the timer running,
\* however long the connection lives and whatever fails on the way out
\* (NutTcpOutput, NutTcpProcessAck, NutTcpStateRetranTimeout).
THEOREM UnackedStaysQueued == Spec => []UnackedQueued
  <1>1. TcpInv => UnackedQueued
    <2>. SUFFICES ASSUME TcpInv, sock.so_state \notin Dead
                  PROVE  /\ sock.so_tx_nbq = [i \in 1 .. sock.so_tx_nxt - sock.so_tx_una |->
                                                sock.so_tx_una + i - 1]
                         /\ sock.so_tx_nbq # <<>> => sock.so_retran
      BY DEF UnackedQueued, Dead
    <2>1. PICK q \in Seq(Nat) : q = sock.so_tx_nbq
      BY DEF TcpInv, TypeOK, Sockets
    <2>2. /\ Len(q) = sock.so_tx_nxt - sock.so_tx_una
          /\ \A i \in 1 .. Len(q) : q[i] = sock.so_tx_una + i - 1
          /\ q # <<>> => sock.so_retran
      BY <2>1 DEF TcpInv, TxQueue
    <2>3. q = [i \in 1 .. Len(q) |-> q[i]]
      BY <2>1, LenProperties
    <2>4. q = [i \in 1 .. Len(q) |-> sock.so_tx_una + i - 1]
      BY <2>2, <2>3
    <2> QED
      BY <2>1, <2>2, <2>4
  <1> QED
    BY <1>1, SocketInvariant, PTL

\* Whoever sleeps in a call on the socket waits for something that can still
\* come: each end of a connection wakes everybody whom it leaves without
\* (NutTcpAbortSocket, NutTcpStateChange, NutTcpStateProcess).
THEOREM NobodyIsLeftWaiting == Spec => []NobodyLeftWaiting
  <1>1. TcpInv => NobodyLeftWaiting
    BY DEF TcpInv
  <1> QED
    BY <1>1, SocketInvariant, PTL

LEMMA StreamInvariant == Spec => []StreamInv
  <1>1. Init => StreamInv
    BY InitTcpInv
  <1>2. TcpInv /\ StreamInv /\ [Next]_vars => StreamInv'
    BY NextKeeps
  <1> QED
    BY <1>1, <1>2, SocketInvariant, PTL DEF Spec

\* The reader is given the first bytes of the peer's stream, each once and in
\* order, whatever segments the peer puts its FIN on (NutTcpStateEstablished,
\* NutTcpProcessAppData, NutTcpReceive).
THEOREM BytesComeInOrder == Spec => [](\A i \in 1 .. Len(got) : got[i] = i)
  <1>1. StreamInv => \A i \in 1 .. Len(got) : got[i] = i
    BY DEF StreamInv, GotInOrder
  <1> QED
    BY <1>1, StreamInvariant, PTL

LEMMA StreamInitial == Init => Stream!Init
  BY DEF Init, Stream!Init, StreamStatus

\* A step of the socket is a step of the stream, or none.
LEMMA StreamStep ==
    ASSUME TcpInv, StreamInv, ~Coalesces, [Next]_vars
    PROVE  [Stream!Next]_(Stream!vars)
  <1>. USE DEF Stream!Next, Stream!vars, StreamStatus
  <1>1. ASSUME NEW n \in 1 .. Bytes, NEW b, NEW o, ReceiveTakes(n, b, o)
        PROVE  Stream!Deliver
    <2>1. /\ n \in 1 .. Bytes - Len(got)
          /\ got' = got \o [i \in 1 .. n |-> Len(got) + i]
      BY <1>1, ReceiveTakesKeeps
    <2>2. app \in {"open", "receive"} /\ app' = "open"
      BY <1>1 DEF ReceiveTakes, Receiving
    <2> QED
      BY <2>1, <2>2 DEF Stream!Deliver
  <1>2. ASSUME ReceiveEnds PROVE Stream!End \/ Stream!Break
    <2>1. /\ app \in {"open", "receive"} /\ got' = got
          /\ sock.so_rx_cnt = 0 /\ sock.so_state # "ESTABLISHED"
          /\ app' = IF sock.so_state = "CLOSE_WAIT" THEN "ended" ELSE "failed"
      BY <1>2 DEF ReceiveEnds, Receiving
    <2>2. CASE sock.so_state = "CLOSE_WAIT"
      <3>1. Len(got) + Len(sock.so_rx_buf) = Bytes /\ Len(sock.so_rx_buf) = 0
        BY <2>1, <2>2 DEF StreamInv, RxStream, AtEnd, Buffered
      <3>2. Len(got) \in Nat
        BY LenProperties DEF StreamInv, GotInOrder
      <3>3. Len(got) = Bytes
        BY <3>1, <3>2
      <3> QED
        BY <2>1, <2>2, <3>3 DEF Stream!End
    <2>3. CASE sock.so_state # "CLOSE_WAIT"
      BY <2>1, <2>3 DEF Stream!Break
    <2> QED
      BY <2>2, <2>3
  <1>3. ASSUME NoRoute \/ ReceiveRefused \/ ReceiveCrashes PROVE Stream!Break
    BY <1>3 DEF NoRoute, ReceiveRefused, ReceiveCrashes, Receiving, Stream!Break
  <1>4. ASSUME Connected PROVE Stream!Break \/ UNCHANGED Stream!vars
    BY <1>4 DEF Connected, Stream!Break
  <1>5. ASSUME NEW o, Close(o) PROVE Stream!Close
    BY <1>5 DEF Close, Stream!Close
  <1>6. ASSUME ReceiveWaits \/ ReceiveTimesOut PROVE UNCHANGED Stream!vars
    BY <1>6 DEF ReceiveWaits, ReceiveTimesOut, Receiving
  <1>7. ASSUME NEW o, Connect(o) PROVE UNCHANGED Stream!vars
    BY <1>7 DEF Connect
  <1>8. ASSUME NEW b, NEW o, Send(b, o) PROVE UNCHANGED Stream!vars
    BY <1>8 DEF Send
  <1>9. ASSUME UNCHANGED <<app, got>> PROVE UNCHANGED Stream!vars
    BY <1>9
  <1>10. CASE Application
    BY <1>1, <1>2, <1>3, <1>4, <1>5, <1>6, <1>7, <1>8, <1>10 DEF Application
  <1>11. CASE StateMachine
    BY <1>9, <1>11 DEF StateMachine, Arrive, TimerTurn
  <1>12. CASE UNCHANGED vars
    BY <1>9, <1>12 DEF vars
  <1> QED
    BY <1>10, <1>11, <1>12 DEF Next

\* The reader gets the peer's bytes in order and once, and the end of the
\* stream after the last one, for a stream of any length and any segments that
\* the network loses, repeats or reorders.  That the peer does not put its FIN
\* on a longer run is needed: NutTcpStateEstablished takes the FIN of a segment
\* that it takes no data from.
THEOREM StreamKept == ASSUME ~Coalesces PROVE Spec => ImplementsByteStream
  <1>1. Init => Stream!Init
    BY StreamInitial
  <1>2. Spec => []TcpInv /\ []StreamInv
    BY SocketInvariant, StreamInvariant
  <1>3. TcpInv /\ StreamInv /\ [Next]_vars => [Stream!Next]_(Stream!vars)
    BY StreamStep
  <1> QED
    BY <1>1, <1>2, <1>3, PTL DEF Spec, ImplementsByteStream, Stream!Spec

=============================================================================
