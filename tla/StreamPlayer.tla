---------------------------- MODULE StreamPlayer ----------------------------
(***************************************************************************)
(* Playing an Internet radio stream: the thread of PlayMp3Stream           *)
(* (source/StreamWork.c) reads the stream into the segmented buffer, and   *)
(* VsPlayerFeed (source/vs10xx.c), run by the decoder's interrupt, feeds   *)
(* it to the VS10xx decoder.                                               *)
(*                                                                         *)
(* The interrupt handler comes between any two steps of the thread while   *)
(* the decoder's interrupt is enabled; the thread does not run during it.  *)
(* The decoder lowers its pin DREQ when it has been fed enough and raises  *)
(* it at any time; the rising edge is kept in the flag EIFR until the      *)
(* handler is entered.                                                     *)
(***************************************************************************)
EXTENDS SegBuf

CONSTANTS Burst,      \* bytes fed without DREQ (32)
          Threshold,  \* a buffer with less room than this starts the player (1024)
          Labels      \* bound of the model: bytes are numbered modulo Labels

ASSUME PlayerAssumption ==
    /\ Burst \in Nat \ {0}
    /\ Threshold \in Nat \ {0}
    /\ Labels \in Nat /\ Labels > Size * Banks

VARIABLES
    memory,     \* memory[s][i]: the number of the byte at offset i of segment s
    vs_status,
    dreq,       \* the pin DREQ
    eifr,       \* a rising edge waits for the handler
    eimsk,      \* the decoder's interrupt is enabled
    pc,         \* the place of the thread in PlayMp3Stream
    rbytes, got,
    stopAlarm,  \* set by stopStream() on any thread
    feed,       \* VsPlayerFeed: "off", or who runs it: "isr" or "kick"
    consumed, available, bp, j,
    sent,       \* history: number of the next byte of the stream
    heard       \* history: number of the next byte the decoder should get

device == <<vs_status, dreq, eifr, eimsk>>
thread == <<pc, rbytes, got>>
feeder == <<feed, consumed, available, bp, j>>
vars == <<segbuf, memory, device, thread, stopAlarm, feeder, sent, heard>>

\* Behind NutSegBufInit, VsPlayerInit, VsPlayerReset and NutSegBufReset.
Init ==
    /\ SegBufInit
    /\ memory = [s \in 0 .. (Banks - 1) |-> [i \in 0 .. (Size - 1) |-> 0]]
    /\ vs_status = "STOPPED"
    /\ dreq \in BOOLEAN /\ eifr = FALSE /\ eimsk = FALSE
    /\ pc = "request" /\ rbytes = 0 /\ got = 0
    /\ stopAlarm = FALSE
    /\ feed = "off" /\ consumed = 0 /\ available = 0 /\ bp = 0 /\ j = 0
    /\ sent = 0 /\ heard = 0

-----------------------------------------------------------------------------
\* The decoder has room for data again.
DreqRises ==
    /\ ~dreq
    /\ dreq' = TRUE
    /\ eifr' = TRUE
    /\ UNCHANGED <<segbuf, memory, vs_status, eimsk, thread, stopAlarm, feeder, sent, heard>>

\* VsPlayerFeed up to its loop: nothing is done unless the player runs and
\* DREQ is high; otherwise the decoder's interrupt stays disabled.
EnterFeed(who) ==
    IF vs_status' = "RUNNING" /\ dreq
    THEN /\ feed' = who
         /\ consumed' = 0 /\ available' = 0 /\ j' = Burst
         /\ eimsk' = FALSE
         /\ UNCHANGED bp
    ELSE UNCHANGED <<feeder, eimsk>>

Isr ==
    /\ feed = "off" /\ eimsk /\ eifr
    /\ eifr' = FALSE
    /\ UNCHANGED vs_status
    /\ EnterFeed("isr")
    /\ UNCHANGED <<segbuf, memory, dreq, thread, stopAlarm, sent, heard>>

\* Mutant: the interrupt stays disabled behind the handler.
LeaveFeed_Masked ==
    /\ feed' = "off"
    /\ consumed' = 0 /\ available' = 0 /\ bp' = 0 /\ j' = 0
    /\ eimsk' = FALSE

\* VsPlayerInterrupts(ief): the handler was entered with the interrupt
\* enabled, VsPlayerKick calls with the interrupt disabled.
LeaveFeed ==
    /\ feed' = "off"
    /\ consumed' = 0 /\ available' = 0 /\ bp' = 0 /\ j' = 0
    /\ eimsk' = (feed = "isr")

\* All bytes requested are consumed: commit them and request more.
FeedRequest ==
    /\ feed # "off" /\ j > 0 /\ consumed >= available
    /\ ReadNext(consumed)
    /\ consumed' = 0
    /\ available' = ReadSpace'
    /\ bp' = segbuf_rp'
    /\ IF ReadSpace' = 0
       THEN vs_status' = "EOF" /\ j' = 0
       ELSE UNCHANGED <<vs_status, j>>
    /\ UNCHANGED <<memory, dreq, eifr, eimsk, thread, stopAlarm, feed, sent, heard>>

\* One byte goes to the decoder, which may have enough then.
FeedByte ==
    /\ feed # "off" /\ j > 0 /\ consumed < available
    /\ bp' = bp + 1
    /\ consumed' = consumed + 1
    /\ heard' = (heard + 1) % Labels
    /\ dreq' \in {dreq, FALSE}
    /\ j' = (IF dreq' THEN Burst ELSE j) - 1
    /\ UNCHANGED <<segbuf, memory, vs_status, eifr, eimsk, thread, stopAlarm, feed,
                   available, sent>>

FeedLast ==
    /\ feed # "off" /\ j = 0
    /\ ReadLast(consumed)
    /\ LeaveFeed
    /\ UNCHANGED <<memory, vs_status, dreq, eifr, thread, stopAlarm, sent, heard>>

-----------------------------------------------------------------------------
Thread(p) == feed = "off" /\ pc = p

\* The head of the outer loop and NutSegBufWriteRequest.
Request ==
    /\ Thread("request")
    /\ IF stopAlarm
       THEN pc' = "stop" /\ UNCHANGED <<rbytes, segbuf>>
       ELSE /\ WriteRequest
            /\ rbytes' = WriteSpace
            /\ pc' = "status"
    /\ UNCHANGED <<memory, device, got, stopAlarm, feeder, sent, heard>>

\* Mutant: a player that has run out of data is not kicked again.
Status_KicksOnce ==
    /\ Thread("status")
    /\ \/ /\ vs_status = "STOPPED"
          /\ pc' = "kick"
       \/ /\ vs_status # "STOPPED" \/ rbytes >= Threshold
          /\ pc' = "limit"
    /\ UNCHANGED <<segbuf, memory, device, rbytes, got, stopAlarm, feeder, sent, heard>>

\* A player that does not run is kicked when the buffer is nearly full or
\* the last kick is over 4 seconds ago.
Status ==
    /\ Thread("status")
    /\ \/ /\ vs_status # "RUNNING"
          /\ pc' = "kick"
       \/ /\ vs_status = "RUNNING" \/ rbytes >= Threshold
          /\ pc' = "limit"
    /\ UNCHANGED <<segbuf, memory, device, rbytes, got, stopAlarm, feeder, sent, heard>>

\* VsPlayerKick: the interrupt is disabled, the decoder fed ...
Kick ==
    /\ Thread("kick")
    /\ pc' = IF vs_status # "RUNNING" THEN "kicked" ELSE "limit"
    /\ IF vs_status # "RUNNING"
       THEN /\ vs_status' = "RUNNING"
            /\ IF dreq THEN EnterFeed("kick") ELSE eimsk' = FALSE /\ UNCHANGED feeder
       ELSE UNCHANGED <<vs_status, eimsk, feeder>>
    /\ UNCHANGED <<segbuf, memory, dreq, eifr, rbytes, got, stopAlarm, sent, heard>>

\* ... and the interrupt enabled.
Kicked ==
    /\ Thread("kicked")
    /\ pc' = "limit"
    /\ eimsk' = TRUE
    /\ UNCHANGED <<segbuf, memory, vs_status, dreq, eifr, rbytes, got, stopAlarm, feeder,
                   sent, heard>>

\* "Do not read pass metadata": mp3left may be less than rbytes.
Limit ==
    /\ Thread("limit")
    /\ pc' = "read"
    /\ IF rbytes = 0 THEN UNCHANGED rbytes ELSE \E left \in 1 .. rbytes : rbytes' = left
    /\ UNCHANGED <<segbuf, memory, device, got, stopAlarm, feeder, sent, heard>>

\* fread into the buffer: up to rbytes bytes, none at the end of the stream.
Read ==
    /\ Thread("read")
    /\ IF rbytes = 0 \/ stopAlarm
       THEN /\ pc' = IF got = 0 THEN "stop" ELSE "request"
            /\ UNCHANGED <<got, memory, sent>>
       ELSE \E n \in 0 .. rbytes :
               /\ got' = n
               /\ memory' = [memory EXCEPT ![bank] = [i \in 0 .. (Size - 1) |->
                     IF segbuf_wp <= i /\ i < segbuf_wp + n
                     THEN (sent + i - segbuf_wp) % Labels ELSE @[i]]]
               /\ sent' = (sent + n) % Labels
               /\ pc' = IF n > 0 THEN "commit" ELSE "stop"
    /\ UNCHANGED <<segbuf, device, rbytes, stopAlarm, feeder, heard>>

Commit ==
    /\ Thread("commit")
    /\ WriteCommit(got)
    /\ rbytes' = rbytes - got
    /\ pc' = "read"
    /\ UNCHANGED <<memory, device, got, stopAlarm, feeder, sent, heard>>

\* VsPlayerStop behind the loop; startStream then sleeps for ever.
Stop ==
    /\ Thread("stop")
    /\ pc' = "done"
    /\ vs_status' = IF vs_status = "RUNNING" THEN "STOPPED" ELSE vs_status
    /\ UNCHANGED <<segbuf, memory, dreq, eifr, eimsk, rbytes, got, stopAlarm, feeder,
                   sent, heard>>

\* stopStream on another thread.
StopStream ==
    /\ feed = "off"
    /\ stopAlarm' = TRUE
    /\ UNCHANGED <<segbuf, memory, device, thread, feeder, sent, heard>>

Handler == Isr \/ FeedRequest \/ FeedByte \/ FeedLast

Player == Request \/ Status \/ Kick \/ Kicked \/ Limit \/ Read \/ Commit \/ Stop

Next == DreqRises \/ Handler \/ Player \/ StopStream

Spec == Init /\ [][Next]_vars

-----------------------------------------------------------------------------
TypeOK ==
    /\ SegBufTypeOK
    /\ memory \in [0 .. (Banks - 1) -> [0 .. (Size - 1) -> 0 .. (Labels - 1)]]
    /\ vs_status \in {"STOPPED", "RUNNING", "EOF"}
    /\ dreq \in BOOLEAN /\ eifr \in BOOLEAN /\ eimsk \in BOOLEAN
    /\ pc \in {"request", "status", "kick", "kicked", "limit", "read", "commit", "stop", "done"}
    /\ rbytes \in 0 .. Size /\ got \in 0 .. Size
    /\ stopAlarm \in BOOLEAN
    /\ feed \in {"off", "isr", "kick"}
    /\ consumed \in 0 .. Size /\ available \in 0 .. Size /\ bp \in 0 .. Size /\ j \in 0 .. Burst
    /\ sent \in 0 .. (Labels - 1) /\ heard \in 0 .. (Labels - 1)

\* The decoder hears the stream: the bytes it is fed are those the thread
\* has read, each once and in order, although the thread reads into the ring
\* without disabling the handler, and the handler switches segments under it.
HearsStream == [][FeedByte => memory[bank][bp] = heard]_vars

\* Whenever the thread runs after a request, its segment is enabled: fread
\* never writes into the segment the handler has enabled for reading.
WriterSegmentEnabled == feed = "off" /\ pc \in {"read", "commit"} => bank = segbuf_ws

\* A running player can be interrupted, whatever saves and restores of the
\* interrupt mask the thread, the kick and the handler have nested: else the
\* decoder would fall silent for good.
RunningIsEnabled ==
    vs_status = "RUNNING" /\ feed = "off" /\ pc # "kicked" => eimsk

\* What makes the two inductive: a feed that VsPlayerKick makes happens in
\* the kick, and the writer's segment is enabled from the request on.
KickFeedsInKick == feed \in {"off", "isr"} \/ (feed = "kick" /\ pc = "kicked")

SegmentStays ==
    feed = "off" /\ pc \notin {"request", "stop", "done"} => bank = segbuf_ws

HandOverInv == KickFeedsInKick /\ SegmentStays /\ RunningIsEnabled

\* "VS_STATUS_EOF Player has reached the end of a stream after VsPlayerFlush()
\* has been called" (source/vs10xx.c, VsGetStatus): the end of the stream.
EofIsEndOfStream == vs_status = "EOF" => pc \in {"stop", "done"}

\* The decoder goes on asking for data, its interrupt is served, the thread
\* gets the CPU, and fread returns: the socket has a receive timeout.
FairSpec ==
    /\ Spec
    /\ WF_vars(DreqRises) /\ WF_vars(Handler) /\ WF_vars(Player)

\* What is in the buffer is heard, or the stream ends or is stopped: no
\* lost edge of DREQ and no end of data leaves player and thread waiting.
BufferedIsHeard ==
    \A n \in 0 .. (Labels - 1) :
        (heard = n /\ segbuf_used > 0) ~> (heard # n \/ stopAlarm \/ pc \in {"stop", "done"})

=============================================================================
