------------------------------- MODULE NutTcp -------------------------------
(***************************************************************************)
(* One client connection of Nut/Net (net/tcpsm.c, net/tcpout.c,             *)
(* net/tcpsock.c): the thread that connects, sends a request, receives and  *)
(* closes, against the state machine thread NutTcpSm, which runs before it, *)
(* takes one segment or one turn of its timer at a time, and sends through  *)
(* a heap and an IP layer that may fail.                                    *)
(*                                                                          *)
(* The peer and the network have no memory: any segment the peer may ever   *)
(* have sent can arrive now, late, again or never.  A SYN, a FIN and one     *)
(* write of the application count as one sequence number each; our SYN is   *)
(* number 0 and the peer's bytes are the numbers 1..Bytes, its FIN Bytes+1. *)
(* Windows, round trip times and options are left out: whether there is     *)
(* room to send, and whether the retransmission timer has run out, is a      *)
(* choice.                                                                  *)
(***************************************************************************)
EXTENDS Integers, Sequences, SequencesExt

CONSTANTS Bytes,                 \* bytes of the peer's stream
          Requests,              \* writes of the application
          MaxRun,                \* bytes in a segment of the peer (bound)
          MaxRetrans,            \* 7 in NutTcpStateRetranTimeout
          MaxDup,                \* 3 in NutTcpProcessAck
          TimeWait,              \* 9 in NutTcpSm
          MaxSeq,                \* bound on so_rx_nxt after our close
          Coalesces              \* does the peer put its FIN on any old data

ASSUME TcpAssumption == /\ {Bytes, Requests, MaxRun, MaxRetrans, MaxDup,
                            TimeWait, MaxSeq} \subseteq Nat
                        /\ Bytes > 0 /\ MaxRun > 0 /\ MaxDup > 0
                        /\ MaxSeq > Bytes + 1
                        /\ Coalesces \in BOOLEAN

VARIABLES sock,                  \* the TCPSOCKET; so_state "NONE" when freed
          app,                   \* the call the application is in
          blocked,               \* does it sleep on the queue of that call
          sent,                  \* writes that NutTcpSend accepted
          got                    \* bytes that NutTcpReceive handed over

vars == <<sock, app, blocked, sent, got>>

States == {"CLOSED", "SYN_SENT", "ESTABLISHED", "CLOSE_WAIT", "FIN_WAIT_1",
           "CLOSING", "LAST_ACK", "FIN_WAIT_2", "TIME_WAIT"}

\* From TCPS_FIN_WAIT_1 on the application has closed.
ClosedByApp == {"FIN_WAIT_1", "CLOSING", "LAST_ACK", "FIN_WAIT_2", "TIME_WAIT"}

\* The queue an application call waits on.
QueueOf(call) == CASE call = "connect" -> "so_ac_tq"
                   [] call = "send" -> "so_tx_tq"
                   [] call = "receive" -> "so_rx_tq"
                   [] OTHER -> "none"

(***************************************************************************)
(* A segment is sent; or no memory for its header, or for its data; or the *)
(* IP layer refuses it after it has been queued for retransmission.         *)
(***************************************************************************)
Outcomes == {"sent", "nohdr", "nodata", "noip"}

-----------------------------------------------------------------------------
(* NutTcpOutput                                                             *)

Silent(s, size) == size = 0 /\ s.so_tx_flags \cap {"SYN", "FIN", "FORCE"} = {}

\* A SYN goes before data and data before a FIN.
Content(s, size) == CASE "SYN" \in s.so_tx_flags -> "SYN"
                      [] "SYN" \notin s.so_tx_flags /\ size > 0 -> "DATA"
                      [] s.so_tx_flags \cap {"SYN", "FIN"} = {"FIN"} /\ size = 0 -> "FIN"
                      [] OTHER -> "ACK"

\* The return value -1.
OutputFails(s, size, o) ==
  /\ ~Silent(s, size)
  /\ o \in {"nohdr", "noip"} \/ (o = "nodata" /\ Content(s, size) = "DATA")

\* Mutant: the segment is queued only once the IP layer has taken it.
Queued_Late(s, seq, o) == IF o # "sent" THEN s
                          ELSE [s EXCEPT !.so_retran = @ \/ s.so_tx_nbq = <<>>,
                                         !.so_tx_nbq = Append(@, seq)]

\* The segment waits for its acknowledgment, sent or not.
Queued(s, seq, o) == [s EXCEPT !.so_retran = @ \/ s.so_tx_nbq = <<>>,
                               !.so_tx_nbq = Append(@, seq)]

Output(s, size, o) ==
  LET unit == Content(s, size)
      t == [s EXCEPT !.so_tx_flags = @ \ {"ACK", "FORCE"}]
  IN  CASE Silent(s, size) \/ o = "nohdr" -> s
        [] ~Silent(s, size) /\ (unit = "ACK" \/ (unit = "DATA" /\ o = "nodata")) -> t
        [] OTHER -> Queued([t EXCEPT !.so_tx_flags = @ \ {unit}, !.so_tx_nxt = @ + 1],
                           s.so_tx_nxt, o)

\* An acknowledgment that must leave at once.
Answer(s, o) == Output([s EXCEPT !.so_tx_flags = @ \cup {"ACK", "FORCE"}], 0, o)

-----------------------------------------------------------------------------
(* The end of a connection                                                  *)

Discard(s) == [s EXCEPT !.so_rx_buf = <<>>, !.so_tx_nbq = <<>>, !.so_rx_nbq = <<>>]

\* A socket that the application has closed must still be freed by the timer.
AbortState(state) == IF state \in ClosedByApp THEN "TIME_WAIT" ELSE "CLOSED"

\* NutTcpAbortSocket: so_rx_cnt is left as it is.
Abort(s) ==
  Discard([s EXCEPT !.so_retran = FALSE, !.so_time_wait = 0,
                    !.so_state = AbortState(@),
                    !.woken = {"so_rx_tq", "so_tx_tq", "so_ac_tq"}])

Freed == [so_state |-> "NONE", so_tx_una |-> 0, so_tx_nxt |-> 0, so_tx_nbq |-> <<>>,
          so_tx_dup |-> 0, so_tx_flags |-> {}, so_retran |-> FALSE,
          so_retransmits |-> 0, so_time_wait |-> 0, so_rx_nxt |-> 0,
          so_rx_buf |-> <<>>, so_rx_cnt |-> 0, so_rx_nbq |-> <<>>, woken |-> {}]

\* NutTcpDestroySocket clears and frees the socket; nobody is woken.
Destroy(s) == Freed

\* NutTcpStateRetranTimeout
RetranTimeout(s, o) ==
  LET t == [s EXCEPT !.so_retransmits = @ + 1]
  IN  IF s.so_retransmits > MaxRetrans \/ o # "sent" THEN Abort(t)
      ELSE [t EXCEPT !.so_retran = TRUE]

-----------------------------------------------------------------------------
(* NutTcpStateChange: the changes it grants and the flags each one sets.    *)

Change(from, to, flags) == [from |-> from, to |-> to, flags |-> flags]
Changes == { Change("CLOSED", "SYN_SENT", {"SYN"}),
             Change("SYN_SENT", "ESTABLISHED", {"ACK", "FORCE"}),
             Change("ESTABLISHED", "FIN_WAIT_1", {"FIN", "ACK"}),
             Change("ESTABLISHED", "CLOSE_WAIT", {"ACK", "FORCE"}),
             Change("FIN_WAIT_1", "FIN_WAIT_2", {}),
             Change("FIN_WAIT_1", "CLOSING", {"ACK", "FORCE"}),
             Change("FIN_WAIT_1", "TIME_WAIT", {}),
             Change("FIN_WAIT_2", "TIME_WAIT", {"ACK", "FORCE"}),
             Change("CLOSE_WAIT", "LAST_ACK", {"FIN", "ACK"}),
             Change("CLOSING", "TIME_WAIT", {}) }

Granted(s, state) == \E c \in Changes : c.from = s.so_state /\ c.to = state

FlagsFor(from, to) == (CHOOSE c \in Changes : c.from = from /\ c.to = to).flags

StateChange(s, state, o) ==
  IF ~Granted(s, state) THEN s
  ELSE LET flags == FlagsFor(s.so_state, state)
           t == [s EXCEPT !.so_state = state, !.so_tx_flags = @ \cup flags]
           u == IF flags = {} THEN t ELSE Output(t, 0, o)
       IN  IF state = "CLOSE_WAIT"
           THEN [u EXCEPT !.woken = @ \cup {"so_rx_tq", "so_ac_tq"}] ELSE u

-----------------------------------------------------------------------------
(* NutTcpProcessAck and NutTcpProcessAppData                                *)

\* The netbufs that an acknowledgment leaves: those from the first it does not
\* cover.
Unacked(nbq, ack) ==
  LET left == {i \in DOMAIN nbq : nbq[i] + 1 > ack}
  IN  IF left = {} THEN <<>> ELSE SubSeq(nbq, Min(left), Len(nbq))

ProcessAck(s, g, o) ==
  IF g.ack > s.so_tx_nxt THEN [s EXCEPT !.so_tx_flags = @ \cup {"ACK", "FORCE"}]
  ELSE IF g.ack < s.so_tx_una THEN s
  ELSE IF g.ack > s.so_tx_una
  THEN LET left == Unacked(s.so_tx_nbq, g.ack)
       IN  [s EXCEPT !.so_tx_una = g.ack, !.so_tx_nbq = left, !.so_tx_dup = 0,
                     !.so_retran = left # <<>>, !.so_retransmits = 0]
  ELSE IF s.so_tx_nbq = <<>> \/ g.len > 0 \/ g.syn \/ g.fin THEN s
  ELSE IF s.so_tx_dup + 1 >= MaxDup
  THEN RetranTimeout([s EXCEPT !.so_tx_dup = 0], o)
  ELSE [s EXCEPT !.so_tx_dup = @ + 1]

\* more: another netbuf follows this one, and its answer will do.
ProcessAppData(s, g, more, o) ==
  LET t == [s EXCEPT !.so_rx_buf = @ \o [i \in 1 .. g.len |-> g.seq + i - 1],
                     !.so_rx_cnt = @ + g.len, !.so_rx_nxt = @ + g.len,
                     !.so_tx_flags = @ \cup {"ACK"} \cup (IF more THEN {} ELSE {"FORCE"})]
  IN  Output(t, 0, o)

-----------------------------------------------------------------------------
(* A segment arrives                                                        *)

\* The segments received in advance, in the order of their numbers: g goes in
\* before the first with a larger one.
Advance(q, g) ==
  LET larger == {i \in DOMAIN q : q[i].seq > g.seq}
  IN  IF \E i \in DOMAIN q : q[i].seq = g.seq THEN q
      ELSE InsertAt(q, Min(larger \cup {Len(q) + 1}), g)

\* Mutant: a segment in advance that later bytes have overtaken is taken too.
NowExpected_Overlaps(s, h) == h.seq <= s.so_rx_nxt

NowExpected(s, h) == h.seq = s.so_rx_nxt

\* One turn of the loop over the segments in advance: the first is taken off
\* the list if its turn has come.  acc: the socket, and was there a FIN.
DrainOne(acc, o) ==
  LET q == acc.s.so_rx_nbq
      h == Head(q)
      t == [acc.s EXCEPT !.so_rx_nbq = Tail(q)]
  IN  CASE q = <<>> \/ h.seq > acc.s.so_rx_nxt -> acc
        [] q # <<>> /\ NowExpected(acc.s, h) ->
             [s |-> ProcessAppData(t, h, Tail(q) # <<>>, o), fin |-> acc.fin \/ h.fin]
        [] OTHER -> [acc EXCEPT !.s = t]

\* The whole loop: it turns once for each segment at most.
Drain(s, o) ==
  LET turns[k \in 0 .. Len(s.so_rx_nbq)] ==
        IF k = 0 THEN [s |-> s, fin |-> FALSE] ELSE DrainOne(turns[k - 1], o)
  IN  turns[Len(s.so_rx_nbq)]

\* The FIN of the peer takes a number of its own.
TakeFin(s, state, o) == StateChange([s EXCEPT !.so_rx_nxt = @ + 1], state, o)

Wake(s, queues) == [s EXCEPT !.woken = @ \cup queues]

\* NutTcpStateSynSent
SynSent(s, g, o) ==
  CASE ~(1 <= g.ack /\ g.ack <= s.so_tx_nxt) -> s
    [] g.rst /\ 1 <= g.ack /\ g.ack <= s.so_tx_nxt -> Abort(s)
    [] g.syn /\ 1 <= g.ack /\ g.ack <= s.so_tx_nxt ->
         LET t == ProcessAck([s EXCEPT !.so_rx_nxt = g.seq + 1], g, o)
         IN  Wake(StateChange(t, "ESTABLISHED", o), {"so_ac_tq"})
    [] OTHER -> s

\* NutTcpStateEstablished, after RST and SYN
EstablishedData(s, g, more, o) ==
  LET t == ProcessAck(s, g, o)
      inorder == Drain(ProcessAppData(t, g, more, o), o)
  IN  CASE g.seq > t.so_rx_nxt ->
             Answer([t EXCEPT !.so_rx_nbq = IF g.len > 0 THEN Advance(@, g) ELSE @], o)
        [] g.seq = t.so_rx_nxt /\ g.len > 0 ->
             LET u == Wake(inorder.s, {"so_rx_tq"})
             IN  IF g.fin \/ inorder.fin THEN TakeFin(u, "CLOSE_WAIT", o) ELSE u
        [] OTHER ->
             LET u == IF g.seq < t.so_rx_nxt THEN Answer(t, o) ELSE t
             IN  IF g.fin THEN TakeFin(u, "CLOSE_WAIT", o) ELSE u

\* NutTcpStateFinWait1 and NutTcpStateFinWait2 take data and FIN unseen.
FinWait(s, g, more, o) ==
  LET t == ProcessAck(s, g, o)
      acked == t.so_state = "FIN_WAIT_1" /\ t.so_tx_nxt = t.so_tx_una
      u == IF acked THEN StateChange(t, "FIN_WAIT_2", o) ELSE t
      v == IF g.len > 0 THEN Wake(ProcessAppData(u, g, more, o), {"so_rx_tq"}) ELSE u
      next == IF v.so_state = "FIN_WAIT_1" THEN "CLOSING" ELSE "TIME_WAIT"
  IN  IF g.fin THEN TakeFin([v EXCEPT !.so_time_wait = 0], next, o) ELSE v

\* NutTcpStateClosing
Closing(s, g, o) ==
  LET t == ProcessAck(s, g, o)
  IN  IF t.so_tx_nxt # t.so_tx_una THEN t
      ELSE StateChange([t EXCEPT !.so_time_wait = 0], "TIME_WAIT", o)

\* NutTcpStateLastAck
LastAck(s, g, o) ==
  LET t == ProcessAck(s, g, o)
  IN  IF t.so_tx_nxt = t.so_tx_una THEN Destroy(t) ELSE t

\* Mutant: the threads that wait to send hear of acknowledgments only.
SendersWoken_AckOnly(s, t) == t.so_tx_una > s.so_tx_una

\* When NutTcpStateProcess wakes the threads that wait to send.
SendersWoken(s, t) == t.so_state # "ESTABLISHED" \/ t.so_tx_una > s.so_tx_una

\* wider: the segment opened the peer's window.
Established(s, g, more, wider, o) ==
  LET t == EstablishedData(s, g, more, o)
  IN  IF SendersWoken(s, t) \/ wider THEN Wake(t, {"so_tx_tq"}) ELSE t

\* NutTcpStateProcess: what a segment makes of the socket
StateProcess(s, g, more, wider, o) ==
  CASE s.so_state = "SYN_SENT" -> SynSent(s, g, o)
    [] s.so_state \in {"CLOSED", "TIME_WAIT", "NONE"} -> s
    [] s.so_state \in {"ESTABLISHED", "CLOSE_WAIT"} /\ g.rst ->
         Wake(Abort(s), {"so_tx_tq"})
    [] s.so_state \in ClosedByApp \ {"TIME_WAIT"} /\ g.rst -> Destroy(s)
    [] g.syn /\ ~g.rst /\ s.so_state \notin {"SYN_SENT", "CLOSED", "TIME_WAIT", "NONE"} -> s
    [] OTHER ->
         CASE s.so_state = "ESTABLISHED" -> Established(s, g, more, wider, o)
           [] s.so_state = "CLOSE_WAIT" -> ProcessAck(s, g, o)
           [] s.so_state \in {"FIN_WAIT_1", "FIN_WAIT_2"} -> FinWait(s, g, more, o)
           [] s.so_state = "CLOSING" -> Closing(s, g, o)
           [] s.so_state = "LAST_ACK" -> LastAck(s, g, o)

(***************************************************************************)
(* What the peer may have sent: its SYN, runs of its bytes, its FIN, which  *)
(* may ride on its last byte (or, with Coalesces, on any run that ends the   *)
(* stream), acknowledgments with the number we expect or the one before      *)
(* (keep-alive), and resets.  None acknowledges what we have not sent.       *)
(***************************************************************************)
FromPeer(s) ==
  LET Seg(seq, len, flag) ==
        [seq |-> seq, len |-> len, syn |-> flag = "syn", fin |-> flag = "fin",
         rst |-> flag = "rst", ack |-> 1]
      Ends(r) == r[1] + r[2] - 1 = Bytes /\ (r[2] = 1 \/ Coalesces)
      Runs == {r \in (1 .. Bytes) \X (1 .. MaxRun) : r[1] + r[2] - 1 <= Bytes}
      Segs == {Seg(0, 0, "syn"), Seg(Bytes + 1, 0, "fin"), Seg(1, 0, "rst"),
               Seg(s.so_rx_nxt, 0, "ack"), Seg(s.so_rx_nxt - 1, 0, "ack")}
                \cup {Seg(r[1], r[2], "ack") : r \in Runs}
                \cup {Seg(r[1], r[2], "fin") : r \in {r \in Runs : Ends(r)}}
  IN  {[g EXCEPT !.ack = ack] : g \in Segs, ack \in 1 .. s.so_tx_nxt}

-----------------------------------------------------------------------------
(* Steps.  A step of the state machine is over before the application runs. *)

\* A woken thread leaves its queue; then the socket holds s.
Commit(s) == /\ sock' = [s EXCEPT !.woken = {}]
             /\ blocked' = (blocked /\ QueueOf(app) \notin s.woken)

Init == /\ sock = [Freed EXCEPT !.so_state = "CLOSED"]
        /\ app = "idle" /\ blocked = FALSE
        /\ sent = 0 /\ got = <<>>

\* After the application's close, data is taken without looking at its number.
Bounded(g) == \/ sock.so_state \notin {"FIN_WAIT_1", "FIN_WAIT_2"}
              \/ sock.so_rx_nxt + g.len < MaxSeq

\* One segment in NutTcpSm
Arrive(g, more, wider, o) ==
  /\ sock.so_state # "NONE" /\ Bounded(g)
  /\ Commit(StateProcess(sock, g, more, wider, o))
  /\ UNCHANGED <<app, sent, got>>

\* Mutant: a socket in FIN_WAIT_2 waits for the peer's FIN for ever.
Lingers_TimeWaitOnly(s) == s.so_state = "TIME_WAIT"

Lingers(s) == s.so_state \in {"TIME_WAIT", "FIN_WAIT_2"}

\* One turn of the timer in NutTcpSm: late acknowledgment, retransmission, and
\* the end of sockets that linger.
TimerTurn(expired, o) ==
  LET late == IF "ACK" \in sock.so_tx_flags THEN Answer(sock, o) ELSE sock
      again == IF late.so_tx_nbq # <<>> /\ late.so_retran /\ expired
               THEN RetranTimeout(late, o) ELSE late
  IN  /\ sock.so_state # "NONE"
      /\ Commit(CASE ~Lingers(again) -> again
                  [] Lingers(again) /\ again.so_time_wait >= TimeWait -> Destroy(again)
                  [] OTHER -> [again EXCEPT !.so_time_wait = @ + 1])
      /\ UNCHANGED <<app, sent, got>>

\* NutTcpConnect sends a SYN and waits, unless the SYN could not be sent.
Connect(o) ==
  /\ app = "idle"
  /\ sock' = StateChange(sock, "SYN_SENT", o)
  /\ blocked' = ~OutputFails([sock EXCEPT !.so_tx_flags = {"SYN"}], 0, o)
  /\ app' = "connect"
  /\ UNCHANGED <<sent, got>>

\* There is no route to the host.
NoRoute == /\ app = "idle"
           /\ app' = "failed"
           /\ UNCHANGED <<sock, blocked, sent, got>>

Connected ==
  /\ app = "connect" /\ ~blocked
  /\ app' = IF sock.so_state = "ESTABLISHED" THEN "open" ELSE "failed"
  /\ UNCHANGED <<sock, blocked, sent, got>>

\* NutTcpSend, from its call or from its wait
Send(room, o) ==
  /\ \/ app = "open" /\ sent < Requests
     \/ app = "send" /\ ~blocked
  /\ IF sock.so_state = "ESTABLISHED" /\ ~room
     THEN app' = "send" /\ blocked' = TRUE /\ UNCHANGED <<sock, sent>>
     ELSE /\ app' = "open" /\ sent' = sent + 1 /\ UNCHANGED blocked
          /\ sock' = IF sock.so_state # "ESTABLISHED" THEN sock
                     ELSE Output([sock EXCEPT !.so_tx_flags = @ \cup {"ACK"}], 1, o)
  /\ UNCHANGED got

\* NutTcpReceive, from its call or from its wait
Receiving == app = "open" \/ (app = "receive" /\ ~blocked)

\* A call on a socket without a connection fails at once.
ReceiveRefused == /\ app = "open" /\ sock.so_state \notin {"ESTABLISHED", "CLOSE_WAIT"}
                  /\ app' = "failed"
                  /\ UNCHANGED <<sock, blocked, sent, got>>

Callable == app = "receive" \/ sock.so_state \in {"ESTABLISHED", "CLOSE_WAIT"}

ReceiveWaits == /\ Receiving /\ Callable
                /\ sock.so_rx_cnt = 0 /\ sock.so_state = "ESTABLISHED"
                /\ app' = "receive" /\ blocked' = TRUE
                /\ UNCHANGED <<sock, sent, got>>

\* Nothing is left and nothing will come: the end of the stream, or an error.
ReceiveEnds == /\ Receiving /\ Callable
               /\ sock.so_rx_cnt = 0 /\ sock.so_state # "ESTABLISHED"
               /\ app' = IF sock.so_state = "CLOSE_WAIT" THEN "ended" ELSE "failed"
               /\ UNCHANGED <<sock, blocked, sent, got>>

\* The caller takes n bytes; opens: the window has become wide enough to say so.
ReceiveTakes(n, opens, o) ==
  /\ Receiving /\ Callable
  /\ n <= sock.so_rx_cnt /\ n <= Len(sock.so_rx_buf)
  /\ got' = got \o SubSeq(sock.so_rx_buf, 1, n)
  /\ LET s == [sock EXCEPT !.so_rx_buf = SubSeq(@, n + 1, Len(@)), !.so_rx_cnt = @ - n]
     IN  sock' = IF opens /\ s.so_state = "ESTABLISHED" THEN Answer(s, o) ELSE s
  /\ app' = "open"
  /\ UNCHANGED <<blocked, sent>>

\* so_rx_cnt counts bytes that so_rx_buf no longer holds: a null pointer is read.
ReceiveCrashes == /\ Receiving /\ Callable
                  /\ Len(sock.so_rx_buf) < sock.so_rx_cnt
                  /\ app' = "crashed"
                  /\ UNCHANGED <<sock, blocked, sent, got>>

\* The read timeout of the socket
ReceiveTimesOut == /\ app = "receive" /\ blocked
                   /\ app' = "open" /\ blocked' = FALSE
                   /\ UNCHANGED <<sock, sent, got>>

\* NutTcpCloseSocket: there is nothing to close yet, or a FIN is sent.
Close(o) ==
  /\ app \in {"open", "ended", "failed"}
  /\ sock' = CASE sock.so_state \in {"CLOSED", "SYN_SENT"} -> Destroy(sock)
               [] sock.so_state = "ESTABLISHED" -> StateChange(sock, "FIN_WAIT_1", o)
               [] sock.so_state = "CLOSE_WAIT" -> StateChange(sock, "LAST_ACK", o)
               [] OTHER -> sock
  /\ app' = "closed"
  /\ UNCHANGED <<blocked, sent, got>>

Application == \/ NoRoute \/ Connected \/ ReceiveRefused \/ ReceiveWaits \/ ReceiveEnds
               \/ ReceiveCrashes \/ ReceiveTimesOut
               \/ \E o \in Outcomes :
                    \/ Connect(o) \/ Close(o)
                    \/ \E b \in BOOLEAN :
                         \/ Send(b, o)
                         \/ \E n \in 1 .. Bytes : ReceiveTakes(n, b, o)

\* It sends no data and ignores the result of NutTcpOutput, so that "noip" is
\* no case of its own here.
StateMachine ==
  \/ \E g \in FromPeer(sock) :
       \E more \in {FALSE, g.len > 0}, wider \in {FALSE, app = "send"},
          o \in {"sent", "nohdr"} : Arrive(g, more, wider, o)
  \/ \E expired \in BOOLEAN, o \in {"sent", "nohdr"} : TimerTurn(expired, o)

Next == Application \/ StateMachine

Spec == Init /\ [][Next]_vars

(***************************************************************************)
(* The timer thread runs every 200 ms, its timeouts run out, and a send     *)
(* does not fail for ever; a woken thread runs.  Nothing is asked of the    *)
(* peer or of the network.                                                  *)
(***************************************************************************)
Fairness == WF_vars(TimerTurn(TRUE, "sent")) /\ WF_vars(Connected)

FairSpec == Spec /\ Fairness

-----------------------------------------------------------------------------
(* Properties                                                               *)

Flags == {"SYN", "FIN", "ACK", "FORCE"}
Queues == {"so_rx_tq", "so_tx_tq", "so_ac_tq"}
Segments == [seq : Int, len : Nat, syn : BOOLEAN, fin : BOOLEAN, rst : BOOLEAN, ack : Nat]

Sockets ==
  [so_state : States \cup {"NONE"}, so_tx_una : Nat, so_tx_nxt : Nat,
   so_tx_nbq : Seq(Nat), so_tx_dup : Nat, so_tx_flags : SUBSET Flags,
   so_retran : BOOLEAN, so_retransmits : Nat, so_time_wait : Nat, so_rx_nxt : Nat,
   so_rx_buf : Seq(Int), so_rx_cnt : Nat, so_rx_nbq : Seq(Segments),
   woken : SUBSET Queues]

\* The socket, the application's call and the histories; a thread sleeps in a
\* call that waits, and waits to send a request that is left.
TypeOK ==
  /\ sock \in Sockets /\ sock.woken = {}
  /\ app \in {"idle", "connect", "open", "send", "receive", "ended", "failed",
              "crashed", "closed"}
  /\ blocked \in BOOLEAN /\ sent \in 0 .. Requests
  /\ blocked => app \in {"connect", "send", "receive"}
  /\ app = "send" => sent < Requests

(***************************************************************************)
(* As long as the connection lives, the transmission queue holds exactly    *)
(* the numbers from so_tx_una to so_tx_nxt, and its timer runs: whatever    *)
(* failed on the way out is sent again (NutTcpOutput, NutTcpProcessAck).     *)
(***************************************************************************)
UnackedQueued ==
  sock.so_state \notin {"CLOSED", "TIME_WAIT", "NONE"} =>
    /\ sock.so_tx_nbq = [i \in 1 .. sock.so_tx_nxt - sock.so_tx_una |->
                           sock.so_tx_una + i - 1]
    /\ sock.so_tx_nbq # <<>> => sock.so_retran

(***************************************************************************)
(* Nobody sleeps on a queue that no later segment or timeout will post: a   *)
(* thread waits to connect only while the SYN is out, and to send or to      *)
(* receive only on an established connection, the latter without data.       *)
(* (NutTcpAbortSocket, NutTcpStateChange and NutTcpStateProcess each wake    *)
(* queues of their own.)                                                     *)
(***************************************************************************)
NobodyLeftWaiting ==
  blocked => CASE app = "connect" -> sock.so_state = "SYN_SENT"
               [] app = "send" -> sock.so_state = "ESTABLISHED"
               [] app = "receive" -> sock.so_state = "ESTABLISHED" /\ sock.so_rx_cnt = 0

(***************************************************************************)
(* The reader gets the peer's bytes in order and once, and the end of the   *)
(* stream after the last one, whatever the network does with the segments.  *)
(***************************************************************************)
StreamStatus == CASE app = "ended" -> "ended"
                  [] app \in {"failed", "crashed"} -> "broken"
                  [] app = "closed" -> "closed"
                  [] OTHER -> "open"
Stream == INSTANCE ByteStream WITH status <- StreamStatus
ImplementsByteStream == Stream!Spec

(***************************************************************************)
(* A connect comes back and a closed socket is freed, with a peer that      *)
(* stays silent and a network that loses everything: the retransmission     *)
(* limit and the linger time end what no segment ends.                      *)
(***************************************************************************)
ConnectAndCloseEnd == /\ app = "connect" ~> app # "connect"
                      /\ app = "closed" ~> sock.so_state = "NONE"

(***************************************************************************)
(* net/tcpsock.c:740 on NutTcpReceive: "-1 is returned in case of an error   *)
(* or broken connection".  A thread that data has woken runs after an abort  *)
(* that empties so_rx_buf and leaves so_rx_cnt, and reads from no buffer.    *)
(***************************************************************************)
BrokenIsReported == app # "crashed"
=============================================================================
