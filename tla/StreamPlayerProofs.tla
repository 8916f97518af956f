------------------------- MODULE StreamPlayerProofs -------------------------
(***************************************************************************)
(* For any size of the buffer, any number of segments and any burst: the   *)
(* thread that fills the buffer and the handler that empties it hand the   *)
(* interrupt mask and the enabled segment to each other correctly, and the *)
(* decoder hears the stream that the thread reads.                         *)
(*                                                                         *)
(* The first is by the invariant HandOverInv: the two properties speak of  *)
(* the moments at which the thread runs, and what the handler owes it when *)
(* it leaves depends on who called it, which KickFeedsInKick settles.      *)
(*                                                                         *)
(* The second is by BufferInv: the count, the flag and the pointers agree  *)
(* (RingInv); the room the thread was offered stays free and the bytes the *)
(* handler was offered stay there, whatever the other does in between      *)
(* (RoomInv, FeedInv); and each byte between reader and writer, those that *)
(* are read but not yet committed included, is the one of the stream that  *)
(* belongs there (MemInv).                                                 *)
(***************************************************************************)
EXTENDS StreamPlayer, ListLemmas

\* The initial state.
LEMMA HandOverInit == Init => HandOverInv
  BY DEF Init, SegBufInit, HandOverInv, KickFeedsInKick, SegmentStays, RunningIsEnabled

\* The handler: what it restores when it leaves.
LEMMA HandlerPreserves ==
    ASSUME HandOverInv, Handler
    PROVE  HandOverInv'
  <1>1. KickFeedsInKick /\ SegmentStays /\ RunningIsEnabled
    BY DEF HandOverInv
  <1>2. UNCHANGED <<pc, segbuf_ws>>
    BY DEF Handler, Isr, FeedRequest, FeedByte, FeedLast, ReadNext, ReadLast, Release,
           thread, segbuf
  <1>3. CASE Isr
    <2>1. /\ feed = "off" /\ eimsk /\ UNCHANGED <<bank, vs_status>>
          /\ feed' \in {"off", "isr"}
          /\ feed' = "off" => eimsk' = eimsk
      BY <1>3 DEF Isr, EnterFeed, feeder, segbuf
    <2> QED
      BY <1>1, <1>2, <2>1
      DEF HandOverInv, KickFeedsInKick, SegmentStays, RunningIsEnabled
  <1>4. CASE FeedRequest \/ FeedByte
    <2>1. feed' = feed /\ feed # "off"
      BY <1>4 DEF FeedRequest, FeedByte
    <2> QED
      BY <1>1, <1>2, <2>1
      DEF HandOverInv, KickFeedsInKick, SegmentStays, RunningIsEnabled
  <1>5. CASE FeedLast
    <2>1. /\ feed' = "off" /\ bank' = segbuf_ws /\ vs_status' = vs_status
          /\ feed # "off"
      BY <1>5 DEF FeedLast, ReadLast, LeaveFeed
    <2>2. feed = "isr" => eimsk'
      BY <1>5 DEF FeedLast, LeaveFeed
    <2>3. RunningIsEnabled'
      BY <1>1, <1>2, <2>1, <2>2 DEF KickFeedsInKick, RunningIsEnabled
    <2> QED
      BY <1>1, <1>2, <2>1, <2>3 DEF HandOverInv, KickFeedsInKick, SegmentStays
  <1> QED
    BY <1>3, <1>4, <1>5 DEF Handler

\* The thread of PlayMp3Stream, up to the kick and behind it.
LEMMA PlayerPreserves ==
    ASSUME HandOverInv, Player
    PROVE  HandOverInv'
  <1>1. feed = "off" /\ KickFeedsInKick /\ SegmentStays /\ RunningIsEnabled
    BY DEF HandOverInv, Player, Thread, Request, Status, Kick, Kicked, Limit, Read, Commit, Stop
  <1>2. CASE Request
    <2>1. /\ UNCHANGED <<vs_status, eimsk, feed>> /\ pc = "request"
          /\ pc' = "stop" \/ (pc' = "status" /\ bank' = segbuf_ws')
      BY <1>2 DEF Request, Thread, WriteRequest, device, feeder
    <2> QED
      BY <1>1, <2>1 DEF HandOverInv, KickFeedsInKick, SegmentStays, RunningIsEnabled
  <1>3. CASE Kick
    <2>1. /\ pc = "kick" /\ UNCHANGED <<bank, segbuf_ws>> /\ feed' \in {"off", "kick"}
          /\ \/ pc' = "kicked"
             \/ pc' = "limit" /\ UNCHANGED <<vs_status, eimsk, feed>>
      BY <1>1, <1>3 DEF Kick, Thread, EnterFeed, feeder, segbuf
    <2> QED
      BY <1>1, <2>1 DEF HandOverInv, KickFeedsInKick, SegmentStays, RunningIsEnabled
  <1>4. CASE Kicked
    <2>1. /\ pc = "kicked" /\ pc' = "limit" /\ eimsk'
          /\ UNCHANGED <<bank, segbuf_ws, vs_status, feed>>
      BY <1>4 DEF Kicked, Thread, feeder, segbuf
    <2> QED
      BY <1>1, <2>1 DEF HandOverInv, KickFeedsInKick, SegmentStays, RunningIsEnabled
  <1>5. CASE Commit
    <2>1. /\ pc = "commit" /\ pc' = "read" /\ UNCHANGED <<vs_status, eimsk, feed>>
          /\ bank' = segbuf_ws' \/ UNCHANGED <<bank, segbuf_ws>>
      BY <1>5 DEF Commit, Thread, WriteCommit, device, feeder, segbuf
    <2> QED
      BY <1>1, <2>1 DEF HandOverInv, KickFeedsInKick, SegmentStays, RunningIsEnabled
  <1>6. CASE Status \/ Limit \/ Read
    <2>1. /\ pc \in {"status", "limit", "read"}
          /\ pc' \in {"kick", "limit", "read", "commit", "request", "stop"}
          /\ UNCHANGED <<bank, segbuf_ws, vs_status, eimsk, feed>>
      BY <1>6 DEF Status, Limit, Read, Thread, device, feeder, segbuf
    <2> QED
      BY <1>1, <2>1 DEF HandOverInv, KickFeedsInKick, SegmentStays, RunningIsEnabled
  <1>7. CASE Stop
    <2>1. pc' = "done" /\ vs_status' # "RUNNING" /\ UNCHANGED feed
      BY <1>7 DEF Stop, feeder
    <2> QED
      BY <1>1, <2>1 DEF HandOverInv, KickFeedsInKick, SegmentStays, RunningIsEnabled
  <1> QED
    BY <1>2, <1>3, <1>4, <1>5, <1>6, <1>7 DEF Player

\* Every step.
LEMMA HandOverStep ==
    ASSUME HandOverInv, [Next]_vars
    PROVE  HandOverInv'
  <1>1. CASE DreqRises \/ StopStream \/ UNCHANGED vars
    <2>1. UNCHANGED <<bank, segbuf_ws, pc, vs_status, eimsk, feed>>
      BY <1>1 DEF DreqRises, StopStream, vars, segbuf, device, thread, feeder
    <2> QED
      BY <2>1 DEF HandOverInv, KickFeedsInKick, SegmentStays, RunningIsEnabled
  <1> QED
    BY <1>1, HandlerPreserves, PlayerPreserves DEF Next

\* What handler and thread owe each other.
THEOREM HandOver == Spec => []HandOverInv
  <1>1. Init => HandOverInv
    BY HandOverInit
  <1>2. HandOverInv /\ [Next]_vars => HandOverInv'
    BY HandOverStep
  <1> QED
    BY <1>1, <1>2, PTL DEF Spec

\* A running player can be interrupted whenever the thread runs, except
\* inside the kick that is about to enable the interrupt: no nesting of
\* saves and restores leaves the decoder's interrupt off.
THEOREM PlayerStaysEnabled == Spec => []RunningIsEnabled
  <1>1. HandOverInv => RunningIsEnabled
    BY DEF HandOverInv
  <1> QED
    BY <1>1, HandOver, PTL

\* fread never writes into the segment that the handler has enabled.
THEOREM WriterKeepsSegment == Spec => []WriterSegmentEnabled
  <1>1. HandOverInv => WriterSegmentEnabled
    BY DEF HandOverInv, SegmentStays, WriterSegmentEnabled
  <1> QED
    BY <1>1, HandOver, PTL

-----------------------------------------------------------------------------
(* The ring.  WPos and RPos are the places of the writer and the reader,   *)
(* with the segments laid end to end.                                      *)

Cap == Size * Banks
WPos == segbuf_ws * Size + segbuf_wp
RPos == segbuf_rs * Size + segbuf_rp

\* Where bc bytes behind the place x are.
Advanced(x, bc) == IF x + bc = Cap THEN 0 ELSE x + bc

\* The count is the distance from the reader to the writer; at equal places
\* the flag decides between none and all.
RingInv ==
    /\ SegBufTypeOK
    /\ segbuf_empty => segbuf_used = 0 /\ segbuf_ws = segbuf_rs /\ segbuf_wp = segbuf_rp
    /\ ~segbuf_empty =>
          segbuf_used = IF WPos > RPos THEN WPos - RPos ELSE WPos - RPos + Cap

\* A segment lies within the ring, and only the last one ends at its end.
LEMMA SegmentFits ==
    ASSUME NEW s \in 0 .. (Banks - 1)
    PROVE  /\ s * Size \in Nat /\ Cap \in Nat /\ s * Size + Size <= Cap
           /\ s + 1 = Banks => s * Size + Size = Cap
           /\ s + 1 # Banks => s * Size + Size < Cap /\ (s + 1) * Size = s * Size + Size
  <1>1. Size \in Nat \ {0} /\ Banks \in Nat \ {0}
    BY SegBufAssumption
  <1>2. PICK d \in Nat : Banks = (s + 1) + d
    <2>1. Banks - (s + 1) \in Nat /\ Banks = (s + 1) + (Banks - (s + 1))
      BY <1>1
    <2> QED
      BY <2>1
  <1>3. /\ s * Size \in Nat /\ d * Size \in Nat /\ (s + 1) * Size = s * Size + Size
        /\ Cap = (s + 1) * Size + d * Size
    BY <1>1, <1>2 DEF Cap
  <1>4. d # 0 => d * Size > 0
    BY <1>1
  <1>5. d = 0 => d * Size = 0
    BY <1>1
  <1> QED
    BY <1>1, <1>2, <1>3, <1>4, <1>5

\* Two segments are the same or do not overlap.
LEMMA SegmentsApart ==
    ASSUME NEW s \in 0 .. (Banks - 1), NEW t \in 0 .. (Banks - 1), s < t
    PROVE  s * Size + Size <= t * Size
  <1>1. Size \in Nat \ {0}
    BY SegBufAssumption
  <1>2. PICK d \in Nat : t = (s + 1) + d
    <2>1. t - (s + 1) \in Nat /\ t = (s + 1) + (t - (s + 1))
      BY SegBufAssumption
    <2> QED
      BY <2>1
  <1>3. /\ s * Size \in Nat /\ d * Size \in Nat /\ (s + 1) * Size = s * Size + Size
        /\ t * Size = (s + 1) * Size + d * Size
    BY <1>1, <1>2, SegBufAssumption
  <1> QED
    BY <1>1, <1>3

\* The same in numbers that stand for the products.
LEMMA Segments ==
    ASSUME NEW s \in 0 .. (Banks - 1), NEW t \in 0 .. (Banks - 1)
    PROVE  \E A, B, C \in Nat :
              /\ A = s * Size /\ B = t * Size /\ C = Cap
              /\ A + Size <= C /\ B + Size <= C
              /\ s = t => A = B
              /\ s < t => A + Size <= B
              /\ t < s => B + Size <= A
  <1>1. /\ s * Size \in Nat /\ Cap \in Nat /\ s * Size + Size <= Cap
        /\ t * Size \in Nat /\ t * Size + Size <= Cap
    BY SegmentFits
  <1>2. s < t => s * Size + Size <= t * Size
    BY SegmentsApart
  <1>3. t < s => t * Size + Size <= s * Size
    BY SegmentsApart
  <1> QED
    BY <1>1, <1>2, <1>3

\* The pointers of one side after bc more bytes of its segment.
LEMMA PointerAdvances ==
    ASSUME NEW s \in 0 .. (Banks - 1), NEW i \in 0 .. (Size - 1), NEW bc \in 0 .. (Size - i),
           NEW s1, NEW i1,
           s1 = IF i + bc = Size THEN (s + 1) % Banks ELSE s,
           i1 = IF i + bc = Size THEN 0 ELSE i + bc
    PROVE  /\ s1 \in 0 .. (Banks - 1) /\ i1 \in 0 .. (Size - 1)
           /\ s1 * Size + i1 = Advanced(s * Size + i, bc)
  <1>1. Size \in Nat \ {0} /\ Banks \in Nat \ {0}
    BY SegBufAssumption
  <1>2. /\ s * Size \in Nat /\ Cap \in Nat /\ s * Size + Size <= Cap
        /\ s + 1 = Banks => s * Size + Size = Cap
        /\ s + 1 # Banks => s * Size + Size < Cap /\ (s + 1) * Size = s * Size + Size
    BY SegmentFits
  <1>3. PICK A, C \in Nat : A = s * Size /\ C = Cap
    BY <1>2
  <1>4. CASE i + bc # Size
    <2>1. s1 = s /\ i1 = i + bc /\ i1 \in 0 .. (Size - 1)
      BY <1>1, <1>4
    <2>2. A + i + bc < C
      BY <1>1, <1>2, <1>3, <1>4
    <2> QED
      BY <1>1, <1>3, <2>1, <2>2 DEF Advanced
  <1>5. CASE i + bc = Size /\ s + 1 = Banks
    <2>1. s1 = 0 /\ i1 = 0
      BY <1>1, <1>5, ModSmall
    <2>2. A + i + bc = C
      BY <1>1, <1>2, <1>3, <1>5
    <2>3. 0 * Size + 0 = 0
      BY <1>1
    <2> QED
      BY <1>1, <1>3, <2>1, <2>2, <2>3 DEF Advanced
  <1>6. CASE i + bc = Size /\ s + 1 # Banks
    <2>1. s + 1 \in 0 .. (Banks - 1)
      BY <1>1, <1>6
    <2>2. s1 = s + 1 /\ i1 = 0
      BY <1>1, <1>6, <2>1, ModSmall
    <2>3. A + i + bc = A + Size /\ A + Size < C
      BY <1>1, <1>2, <1>3, <1>6
    <2>4. s1 * Size + i1 = A + Size
      BY <1>1, <1>2, <1>3, <1>6, <2>2
    <2> QED
      BY <1>1, <1>3, <2>1, <2>2, <2>3, <2>4 DEF Advanced
  <1> QED
    BY <1>4, <1>5, <1>6

\* Pointers at the same place are the same.
LEMMA PlaceUnique ==
    ASSUME NEW s \in 0 .. (Banks - 1), NEW i \in 0 .. (Size - 1),
           NEW t \in 0 .. (Banks - 1), NEW k \in 0 .. (Size - 1),
           s * Size + i = t * Size + k
    PROVE  s = t /\ i = k
  <1>1. PICK A, B, C \in Nat :
          /\ A = s * Size /\ B = t * Size /\ C = Cap
          /\ A + Size <= C /\ B + Size <= C
          /\ s = t => A = B
          /\ s < t => A + Size <= B
          /\ t < s => B + Size <= A
    BY Segments
  <1>2. A + i = B + k
    BY <1>1
  <1> QED
    BY <1>1, <1>2, SegBufAssumption

-----------------------------------------------------------------------------
(* The calls of the segmented buffer.                                      *)

\* What NutSegBufWriteRequest offers is free, up to the end of the segment.
LEMMA RoomIsFree ==
    RingInv => WriteSpace \in Nat /\ segbuf_wp + WriteSpace <= Size /\ segbuf_used + WriteSpace <= Cap
  <1>. SUFFICES ASSUME RingInv
                PROVE  WriteSpace \in Nat /\ segbuf_wp + WriteSpace <= Size /\ segbuf_used + WriteSpace <= Cap
    OBVIOUS
  <1>1. /\ segbuf_wp \in 0 .. (Size - 1) /\ segbuf_ws \in 0 .. (Banks - 1)
        /\ segbuf_rp \in 0 .. (Size - 1) /\ segbuf_rs \in 0 .. (Banks - 1)
        /\ Size \in Nat \ {0} /\ Banks \in Nat \ {0} /\ segbuf_empty \in BOOLEAN
    BY SegBufAssumption DEF RingInv, SegBufTypeOK
  <1>2. PICK A, B, C \in Nat :
          /\ A = segbuf_ws * Size /\ B = segbuf_rs * Size /\ C = Cap
          /\ A + Size <= C /\ B + Size <= C
          /\ segbuf_ws = segbuf_rs => A = B
          /\ segbuf_ws < segbuf_rs => A + Size <= B
          /\ segbuf_rs < segbuf_ws => B + Size <= A
    BY <1>1, Segments
  <1>3. CASE segbuf_empty
    BY <1>1, <1>2, <1>3 DEF RingInv, WriteSpace
  <1>4. CASE ~segbuf_empty
    <2>1. segbuf_used = IF A + segbuf_wp > B + segbuf_rp THEN A + segbuf_wp - (B + segbuf_rp)
                        ELSE A + segbuf_wp - (B + segbuf_rp) + C
      <3>1. WPos = A + segbuf_wp /\ RPos = B + segbuf_rp
        BY <1>2 DEF WPos, RPos
      <3>2. segbuf_used = IF WPos > RPos THEN WPos - RPos ELSE WPos - RPos + Cap
        BY <1>4 DEF RingInv
      <3> QED
        BY <1>1, <1>2, <3>1, <3>2
    <2> QED
      BY <1>1, <1>2, <1>4, <2>1 DEF WriteSpace
  <1> QED
    BY <1>3, <1>4

\* What NutSegBufReadRequest offers is in the buffer, up to the end of the
\* segment.
LEMMA ReadyIsUsed ==
    RingInv => ReadSpace \in Nat /\ segbuf_rp + ReadSpace <= Size /\ ReadSpace <= segbuf_used
  <1>. SUFFICES ASSUME RingInv
                PROVE  ReadSpace \in Nat /\ segbuf_rp + ReadSpace <= Size /\ ReadSpace <= segbuf_used
    OBVIOUS
  <1>1. /\ segbuf_wp \in 0 .. (Size - 1) /\ segbuf_ws \in 0 .. (Banks - 1)
        /\ segbuf_rp \in 0 .. (Size - 1) /\ segbuf_rs \in 0 .. (Banks - 1)
        /\ Size \in Nat \ {0} /\ Banks \in Nat \ {0} /\ segbuf_empty \in BOOLEAN
    BY SegBufAssumption DEF RingInv, SegBufTypeOK
  <1>2. PICK A, B, C \in Nat :
          /\ A = segbuf_ws * Size /\ B = segbuf_rs * Size /\ C = Cap
          /\ A + Size <= C /\ B + Size <= C
          /\ segbuf_ws = segbuf_rs => A = B
          /\ segbuf_ws < segbuf_rs => A + Size <= B
          /\ segbuf_rs < segbuf_ws => B + Size <= A
    BY <1>1, Segments
  <1>3. CASE segbuf_empty
    BY <1>1, <1>3 DEF RingInv, ReadSpace
  <1>4. CASE ~segbuf_empty
    <2>1. segbuf_used = IF A + segbuf_wp > B + segbuf_rp THEN A + segbuf_wp - (B + segbuf_rp)
                        ELSE A + segbuf_wp - (B + segbuf_rp) + C
      <3>1. WPos = A + segbuf_wp /\ RPos = B + segbuf_rp
        BY <1>2 DEF WPos, RPos
      <3>2. segbuf_used = IF WPos > RPos THEN WPos - RPos ELSE WPos - RPos + Cap
        BY <1>4 DEF RingInv
      <3> QED
        BY <1>1, <1>2, <3>1, <3>2
    <2> QED
      BY <1>1, <1>2, <1>4, <2>1 DEF ReadSpace
  <1> QED
    BY <1>3, <1>4

\* NutSegBufWriteCommit of bytes that were free.
LEMMA CommitKeeps ==
    ASSUME RingInv, NEW bc \in 0 .. (Size - segbuf_wp), segbuf_used + bc <= Cap,
           WriteCommit(bc)
    PROVE  /\ RingInv' /\ segbuf_used' = segbuf_used + bc
           /\ UNCHANGED <<segbuf_rp, segbuf_rs>>
           /\ segbuf_wp' \in {0, segbuf_wp + bc}
  <1>1. /\ segbuf_wp \in 0 .. (Size - 1) /\ segbuf_ws \in 0 .. (Banks - 1)
        /\ segbuf_rp \in 0 .. (Size - 1) /\ segbuf_rs \in 0 .. (Banks - 1)
        /\ Size \in Nat \ {0} /\ Banks \in Nat \ {0} /\ segbuf_empty \in BOOLEAN
        /\ segbuf_used \in 0 .. Cap /\ bank \in 0 .. (Banks - 1) /\ Cap \in Nat
    BY SegBufAssumption DEF RingInv, SegBufTypeOK, Cap
  <1>2. CASE bc = 0
    <2>1. UNCHANGED segbuf
      BY <1>2 DEF WriteCommit
    <2> QED
      BY <1>1, <1>2, <2>1 DEF segbuf, RingInv, SegBufTypeOK, WPos, RPos
  <1>3. CASE bc # 0
    <2>1. /\ segbuf_empty' = FALSE
          /\ segbuf_used' = segbuf_used + bc
          /\ segbuf_wp' = IF segbuf_wp + bc = Size THEN 0 ELSE segbuf_wp + bc
          /\ segbuf_ws' = IF segbuf_wp + bc = Size THEN (segbuf_ws + 1) % Banks ELSE segbuf_ws
          /\ bank' \in {segbuf_ws', bank}
          /\ UNCHANGED <<segbuf_rp, segbuf_rs>>
      BY <1>3 DEF WriteCommit
    <2>2. /\ segbuf_ws' \in 0 .. (Banks - 1) /\ segbuf_wp' \in 0 .. (Size - 1)
          /\ segbuf_ws' * Size + segbuf_wp' = Advanced(segbuf_ws * Size + segbuf_wp, bc)
      BY <1>1, <2>1, PointerAdvances
    <2>3. PICK A, B, C \in Nat :
            /\ A = segbuf_ws * Size /\ B = segbuf_rs * Size /\ C = Cap
            /\ A + Size <= C /\ B + Size <= C
            /\ segbuf_ws = segbuf_rs => A = B
            /\ segbuf_ws < segbuf_rs => A + Size <= B
            /\ segbuf_rs < segbuf_ws => B + Size <= A
      BY <1>1, Segments
    <2>4. PICK W, R, V \in Nat :
            /\ W = A + segbuf_wp /\ R = B + segbuf_rp
            /\ V = IF W + bc = C THEN 0 ELSE W + bc
      BY <1>1, <2>3
    <2>5. WPos = W /\ RPos = R /\ WPos' = V /\ RPos' = R
      BY <2>1, <2>2, <2>3, <2>4 DEF WPos, RPos, Advanced
    <2>6. W < C /\ R < C /\ W + bc <= C
      BY <1>1, <2>3, <2>4
    <2>7. segbuf_empty => segbuf_used = 0 /\ W = R
      BY <2>3, <2>4 DEF RingInv
    <2>8. ~segbuf_empty => segbuf_used = IF W > R THEN W - R ELSE W - R + C
      BY <2>3, <2>5 DEF RingInv
    <2>9. segbuf_used + bc = IF V > R THEN V - R ELSE V - R + C
      BY <1>1, <1>3, <2>3, <2>4, <2>6, <2>7, <2>8
    <2>10. (segbuf_used = IF WPos > RPos THEN WPos - RPos ELSE WPos - RPos + Cap)'
      BY <2>1, <2>3, <2>5, <2>9 DEF Cap
    <2>11. SegBufTypeOK'
      <3>1. segbuf_used' \in 0 .. Cap
        BY <1>1, <2>1
      <3>2. bank' \in 0 .. (Banks - 1)
        BY <1>1, <2>1, <2>2
      <3> QED
        BY <1>1, <2>1, <2>2, <3>1, <3>2 DEF SegBufTypeOK, Cap
    <2> QED
      BY <2>1, <2>10, <2>11 DEF RingInv
  <1> QED
    BY <1>2, <1>3

\* NutSegBufReadCommit of bytes that were read.
LEMMA ReleaseKeeps ==
    ASSUME RingInv, NEW bc \in 0 .. (Size - segbuf_rp), bc <= segbuf_used,
           Release(bc), bank' \in {segbuf_rs', segbuf_ws}
    PROVE  /\ RingInv' /\ segbuf_used' = segbuf_used - bc
           /\ RPos' = Advanced(RPos, bc)
           /\ UNCHANGED <<segbuf_wp, segbuf_ws>>
  <1>1. /\ segbuf_wp \in 0 .. (Size - 1) /\ segbuf_ws \in 0 .. (Banks - 1)
        /\ segbuf_rp \in 0 .. (Size - 1) /\ segbuf_rs \in 0 .. (Banks - 1)
        /\ Size \in Nat \ {0} /\ Banks \in Nat \ {0} /\ segbuf_empty \in BOOLEAN
        /\ segbuf_used \in 0 .. Cap /\ bank \in 0 .. (Banks - 1) /\ Cap \in Nat
    BY SegBufAssumption DEF RingInv, SegBufTypeOK, Cap
  <1>2. /\ segbuf_used' = segbuf_used - bc
        /\ segbuf_rp' = IF segbuf_rp + bc = Size THEN 0 ELSE segbuf_rp + bc
        /\ segbuf_rs' = IF segbuf_rp + bc = Size THEN (segbuf_rs + 1) % Banks ELSE segbuf_rs
        /\ segbuf_empty' =
              (segbuf_empty \/ (bc > 0 /\ segbuf_rp' = segbuf_wp /\ segbuf_rs' = segbuf_ws))
        /\ UNCHANGED <<segbuf_wp, segbuf_ws>>
    BY DEF Release
  <1>3. /\ segbuf_rs' \in 0 .. (Banks - 1) /\ segbuf_rp' \in 0 .. (Size - 1)
        /\ segbuf_rs' * Size + segbuf_rp' = Advanced(segbuf_rs * Size + segbuf_rp, bc)
    BY <1>1, <1>2, PointerAdvances
  <1>4. PICK A, B, C \in Nat :
          /\ A = segbuf_ws * Size /\ B = segbuf_rs * Size /\ C = Cap
          /\ A + Size <= C /\ B + Size <= C
          /\ segbuf_ws = segbuf_rs => A = B
          /\ segbuf_ws < segbuf_rs => A + Size <= B
          /\ segbuf_rs < segbuf_ws => B + Size <= A
    BY <1>1, Segments
  <1>5. PICK W, R, V \in Nat :
          /\ W = A + segbuf_wp /\ R = B + segbuf_rp
          /\ V = IF R + bc = C THEN 0 ELSE R + bc
    BY <1>1, <1>4
  <1>6. WPos = W /\ RPos = R /\ WPos' = W /\ RPos' = V /\ V = Advanced(RPos, bc)
    BY <1>2, <1>3, <1>4, <1>5 DEF WPos, RPos, Advanced
  <1>7. W < C /\ R < C /\ R + bc <= C
    BY <1>1, <1>4, <1>5
  <1>8. segbuf_empty => segbuf_used = 0 /\ W = R
    BY <1>4, <1>5 DEF RingInv
  <1>9. ~segbuf_empty => segbuf_used = IF W > R THEN W - R ELSE W - R + C
    BY <1>4, <1>6 DEF RingInv
  <1>10. V = W <=> segbuf_rp' = segbuf_wp /\ segbuf_rs' = segbuf_ws
    <2>1. V = segbuf_rs' * Size + segbuf_rp' /\ W = segbuf_ws * Size + segbuf_wp
      BY <1>3, <1>4, <1>5, <1>6 DEF RPos
    <2>2. V = W => segbuf_rp' = segbuf_wp /\ segbuf_rs' = segbuf_ws
      BY <1>1, <1>3, <2>1, PlaceUnique
    <2> QED
      BY <2>1, <2>2
  <1>11. segbuf_empty' => segbuf_used - bc = 0 /\ V = W
    BY <1>1, <1>2, <1>4, <1>5, <1>7, <1>8, <1>9, <1>10
  <1>12. ~segbuf_empty' => segbuf_used - bc = IF W > V THEN W - V ELSE W - V + C
    <2>1. ~segbuf_empty' => ~segbuf_empty /\ (bc > 0 => V # W)
      BY <1>2, <1>10
    <2> QED
      BY <1>1, <1>5, <1>7, <1>9, <2>1
  <1>13. SegBufTypeOK'
    <2>1. segbuf_used' \in 0 .. Cap
      BY <1>1, <1>2
    <2> QED
      BY <1>1, <1>2, <1>3, <2>1 DEF SegBufTypeOK, Cap
  <1>14. (segbuf_used = IF WPos > RPos THEN WPos - RPos ELSE WPos - RPos + Cap)'
         <=> segbuf_used - bc = IF W > V THEN W - V ELSE W - V + C
    BY <1>2, <1>4, <1>6 DEF Cap
  <1>15. (segbuf_empty => segbuf_used = 0 /\ segbuf_ws = segbuf_rs /\ segbuf_wp = segbuf_rp)'
    BY <1>2, <1>10, <1>11
  <1>16. RingInv'
    BY <1>12, <1>13, <1>14, <1>15 DEF RingInv
  <1> QED
    BY <1>2, <1>6, <1>16

-----------------------------------------------------------------------------
(* The contents of the ring.                                               *)

\* How far behind the reader's byte the offset i of segment s is.
Ahead(s, i) ==
    IF s * Size + i >= RPos THEN s * Size + i - RPos ELSE s * Size + i - RPos + Cap

\* The bytes that fread has written and NutSegBufWriteCommit has not counted.
Pending == IF pc = "commit" THEN got ELSE 0

\* The number of the byte that is n bytes behind the reader's.
Number(n) == (heard - consumed + n) % Labels

\* The thread fills no more than the room that was there at its request: the
\* handler only adds to it.
RoomInv ==
    /\ pc \in {"status", "kick", "kicked", "limit", "read", "commit"} =>
          segbuf_wp + rbytes <= Size /\ segbuf_used + rbytes <= Cap
    /\ pc = "commit" => got \in 1 .. rbytes

\* The handler consumes no more than was there at its request, from the
\* reader's place on.
FeedInv ==
    /\ consumed <= available /\ available <= segbuf_used /\ segbuf_rp + available <= Size
    /\ feed = "off" => available = 0
    /\ available > 0 => bank = segbuf_rs /\ bp = segbuf_rp + consumed

\* The ring holds the stream, from the byte heard next to the one sent last.
MemInv ==
    /\ \A s \in 0 .. (Banks - 1), i \in 0 .. (Size - 1) :
          Ahead(s, i) < segbuf_used + Pending => memory[s][i] = Number(Ahead(s, i))
    /\ sent = Number(segbuf_used + Pending)

BufferInv == TypeOK /\ RingInv /\ RoomInv /\ FeedInv /\ MemInv

\* A place and the reader's in numbers that stand for the products.
LEMMA Places ==
    ASSUME SegBufTypeOK, NEW s \in 0 .. (Banks - 1), NEW i \in 0 .. (Size - 1)
    PROVE  \E p, R, C \in Nat :
              /\ p = s * Size + i /\ R = RPos /\ C = Cap /\ p < C /\ R < C
              /\ R + (Size - segbuf_rp) <= C
              /\ Ahead(s, i) = IF p >= R THEN p - R ELSE p - R + C
  <1>1. /\ segbuf_rp \in 0 .. (Size - 1) /\ segbuf_rs \in 0 .. (Banks - 1)
        /\ Size \in Nat \ {0}
    BY SegBufAssumption DEF SegBufTypeOK
  <1>2. PICK A, B, C \in Nat :
          /\ A = s * Size /\ B = segbuf_rs * Size /\ C = Cap
          /\ A + Size <= C /\ B + Size <= C
          /\ s = segbuf_rs => A = B
          /\ s < segbuf_rs => A + Size <= B
          /\ segbuf_rs < s => B + Size <= A
    BY <1>1, Segments
  <1>3. /\ A + i \in Nat /\ B + segbuf_rp \in Nat
        /\ A + i < C /\ B + segbuf_rp < C /\ B + segbuf_rp + (Size - segbuf_rp) <= C
    BY <1>1, <1>2
  <1>4. A + i = s * Size + i /\ B + segbuf_rp = RPos /\ C = Cap
    BY <1>2 DEF RPos
  <1> QED
    BY <1>2, <1>3, <1>4 DEF Ahead

\* A distance is a number.
LEMMA AheadTypes ==
    SegBufTypeOK => \A t \in 0 .. (Banks - 1), k \in 0 .. (Size - 1) : Ahead(t, k) \in Nat
  BY Places

\* What is released comes out of the front.
LEMMA ReleasedFirst ==
    ASSUME RingInv, NEW bc \in 0 .. (Size - segbuf_rp), RPos' = Advanced(RPos, bc),
           NEW s \in 0 .. (Banks - 1), NEW i \in 0 .. (Size - 1),
           Ahead(s, i)' + bc < Cap
    PROVE  Ahead(s, i) = Ahead(s, i)' + bc /\ Ahead(s, i)' \in Nat
  <1>1. PICK p, R, C \in Nat :
          /\ p = s * Size + i /\ R = RPos /\ C = Cap /\ p < C /\ R < C
          /\ R + (Size - segbuf_rp) <= C
          /\ Ahead(s, i) = IF p >= R THEN p - R ELSE p - R + C
    BY Places DEF RingInv
  <1>2. segbuf_rp \in Nat /\ Size \in Nat /\ bc \in Nat /\ R + bc <= C
    BY <1>1, SegBufAssumption DEF RingInv, SegBufTypeOK
  <1>3. PICK V \in Nat : V = IF R + bc = C THEN 0 ELSE R + bc
    BY <1>2
  <1>4. V = RPos'
    BY <1>1, <1>3 DEF Advanced
  <1>5. Ahead(s, i)' = IF p >= V THEN p - V ELSE p - V + C
    <2>1. Ahead(s, i)' = IF s * Size + i >= RPos' THEN s * Size + i - RPos'
                         ELSE s * Size + i - RPos' + Cap
      BY DEF Ahead, Cap
    <2>2. PICK A \in Nat : A = s * Size
      BY SegmentFits
    <2>3. p = A + i /\ i \in Nat
      BY <1>1, <2>2
    <2> QED
      BY <1>1, <1>4, <2>1, <2>2, <2>3
  <1> QED
    BY <1>1, <1>2, <1>3, <1>5

\* What is written goes to the end.
LEMMA WrittenLast ==
    ASSUME RingInv, NEW n \in 0 .. (Size - segbuf_wp), segbuf_used + n <= Cap,
           NEW s \in 0 .. (Banks - 1), NEW i \in 0 .. (Size - 1)
    PROVE  /\ Ahead(s, i) \in Nat
           /\ s = segbuf_ws /\ segbuf_wp <= i /\ i < segbuf_wp + n =>
                 Ahead(s, i) = segbuf_used + (i - segbuf_wp)
           /\ Ahead(s, i) < segbuf_used + n =>
                 \/ s = segbuf_ws /\ segbuf_wp <= i /\ i < segbuf_wp + n
                 \/ Ahead(s, i) < segbuf_used
  <1>1. /\ segbuf_wp \in 0 .. (Size - 1) /\ segbuf_ws \in 0 .. (Banks - 1)
        /\ segbuf_used \in Nat /\ segbuf_empty \in BOOLEAN /\ Size \in Nat \ {0}
        /\ Banks \in Nat \ {0} /\ n \in Nat
    BY SegBufAssumption DEF RingInv, SegBufTypeOK
  <1>2. PICK p, R, C \in Nat :
          /\ p = s * Size + i /\ R = RPos /\ C = Cap /\ p < C /\ R < C
          /\ R + (Size - segbuf_rp) <= C
          /\ Ahead(s, i) = IF p >= R THEN p - R ELSE p - R + C
    BY Places DEF RingInv
  <1>3. PICK A, B, D \in Nat :
          /\ A = s * Size /\ B = segbuf_ws * Size /\ D = Cap
          /\ A + Size <= D /\ B + Size <= D
          /\ s = segbuf_ws => A = B
          /\ s < segbuf_ws => A + Size <= B
          /\ segbuf_ws < s => B + Size <= A
    BY <1>1, Segments
  <1>4. PICK W \in Nat : W = B + segbuf_wp /\ W = WPos /\ W + n <= C
    BY <1>1, <1>2, <1>3 DEF WPos
  <1>5. p = A + i
    BY <1>2, <1>3
  <1>6. segbuf_empty => segbuf_used = 0 /\ W = R
    BY <1>2, <1>4 DEF RingInv, WPos, RPos
  <1>7. ~segbuf_empty => segbuf_used = IF W > R THEN W - R ELSE W - R + C
    BY <1>2, <1>4 DEF RingInv
  <1>8. n > 0 => segbuf_used = IF W >= R THEN W - R ELSE W - R + C
    BY <1>1, <1>2, <1>4, <1>6, <1>7
  <1>9. Ahead(s, i) \in Nat
    BY <1>2
  <1>10. ASSUME s = segbuf_ws, segbuf_wp <= i, i < segbuf_wp + n
         PROVE  Ahead(s, i) = segbuf_used + (i - segbuf_wp)
    <2>1. n > 0 /\ p = W + (i - segbuf_wp)
      BY <1>1, <1>3, <1>4, <1>5, <1>10
    <2>2. segbuf_used = IF W >= R THEN W - R ELSE W - R + C
      BY <1>8, <2>1
    <2>3. segbuf_used + n <= C /\ i - segbuf_wp \in Nat /\ i - segbuf_wp < n
      BY <1>1, <1>2, <1>10
    <2> QED
      BY <1>1, <1>2, <1>4, <2>1, <2>2, <2>3
  <1>11. ASSUME segbuf_used <= Ahead(s, i), Ahead(s, i) < segbuf_used + n
         PROVE  s = segbuf_ws /\ segbuf_wp <= i /\ i < segbuf_wp + n
    <2>1. n > 0
      BY <1>1, <1>9, <1>11
    <2>2. segbuf_used = IF W >= R THEN W - R ELSE W - R + C
      BY <1>8, <2>1
    <2>3. segbuf_used + n <= C
      BY <1>2
    <2>4. W <= p /\ p < W + n
      BY <1>1, <1>2, <1>4, <1>11, <2>2, <2>3
    <2>5. A + i < B + segbuf_wp + n /\ B + segbuf_wp <= A + i
      BY <1>4, <1>5, <2>4
    <2> QED
      BY <1>1, <1>3, <2>5
  <1> QED
    BY <1>1, <1>9, <1>10, <1>11

\* Numbers of bytes.
LEMMA Numbers ==
    ASSUME TypeOK, NEW n \in Nat, NEW k \in Nat
    PROVE  /\ Number(n) \in 0 .. (Labels - 1)
           /\ (Number(n) + k) % Labels = Number(n + k)
  <1>1. Labels \in Nat \ {0} /\ heard \in Int /\ consumed \in Int
    <2>1. Labels \in Nat /\ heard \in 0 .. (Labels - 1) /\ consumed \in 0 .. Size
      BY PlayerAssumption DEF TypeOK
    <2> QED
      BY <2>1, SegBufAssumption
  <1>2. PICK a \in Int : a = heard - consumed + n
    BY <1>1
  <1>3. a % Labels \in 0 .. (Labels - 1)
    BY <1>1, ModSmall
  <1>4. ((a % Labels) + k) % Labels = (a + k) % Labels
    <2>1. k \in Int
      OBVIOUS
    <2> QED
      BY <1>1, <2>1, ModAdd
  <1>5. a + k = heard - consumed + (n + k)
    BY <1>1, <1>2
  <1> QED
    BY <1>2, <1>3, <1>4, <1>5 DEF Number

-----------------------------------------------------------------------------
(* The steps of handler and thread.                                        *)

\* The initial state.
LEMMA BufferInit == Init => BufferInv
  <1>1. SUFFICES ASSUME Init PROVE BufferInv
    OBVIOUS
  <1>2. /\ Size \in Nat \ {0} /\ Banks \in Nat \ {0} /\ Cap \in Nat /\ Burst \in Nat \ {0}
        /\ Labels \in Nat \ {0} /\ 0 % Labels = 0
    <2>1. Cap \in Nat /\ Labels \in Nat /\ Labels > Cap
      BY SegBufAssumption, PlayerAssumption DEF Cap
    <2> QED
      BY <2>1, SegBufAssumption, PlayerAssumption, ModSmall
  <1>3. SegBufTypeOK
    BY <1>1, <1>2 DEF Init, SegBufInit, SegBufTypeOK, Cap
  <1>4. TypeOK
    <2>1. 0 \in 0 .. (Labels - 1) /\ 0 \in 0 .. Size /\ 0 \in 0 .. Burst
      BY <1>2
    <2>2. memory \in [0 .. (Banks - 1) -> [0 .. (Size - 1) -> 0 .. (Labels - 1)]]
      BY <1>1, <2>1 DEF Init
    <2> QED
      BY <1>1, <1>3, <2>1, <2>2 DEF Init, TypeOK
  <1>5. RingInv
    BY <1>1, <1>3 DEF Init, SegBufInit, RingInv
  <1>6. RoomInv /\ FeedInv
    BY <1>1, <1>2 DEF Init, SegBufInit, RoomInv, FeedInv
  <1>7. MemInv
    <2>1. segbuf_used + Pending = 0 /\ heard - consumed + 0 = 0 /\ sent = 0
      BY <1>1 DEF Init, SegBufInit, Pending
    <2>3. \A s \in 0 .. (Banks - 1), i \in 0 .. (Size - 1) :
             ~(Ahead(s, i) < segbuf_used + Pending)
      <3>1. ASSUME NEW s \in 0 .. (Banks - 1), NEW i \in 0 .. (Size - 1)
            PROVE  ~(Ahead(s, i) < 0)
        <4>1. PICK e \in Nat : e = Ahead(s, i)
          BY <1>3, Places
        <4> QED
          BY <4>1
      <3> QED
        BY <2>1, <3>1
    <2> QED
      BY <1>2, <2>1, <2>3 DEF MemInv, Number
  <1> QED
    BY <1>4, <1>5, <1>6, <1>7 DEF BufferInv

\* Steps that leave the buffer and the handler's share of it alone.
LEMMA BufferQuiet ==
    ASSUME BufferInv, TypeOK', RoomInv', FeedInv',
           UNCHANGED <<segbuf_empty, segbuf_used, segbuf_wp, segbuf_ws, segbuf_rp, segbuf_rs>>,
           UNCHANGED <<memory, sent, heard, consumed>>,
           UNCHANGED <<pc, got>> \/ (pc # "commit" /\ pc' # "commit")
    PROVE  BufferInv'
  <1>1. RingInv'
    BY DEF BufferInv, RingInv, TypeOK, WPos, RPos, Cap
  <1>2. Pending' = Pending
    BY DEF Pending
  <1>3. MemInv'
    <2>1. \A s, i : Ahead(s, i)' = Ahead(s, i)
      BY DEF Ahead, RPos, Cap
    <2>2. \A n : Number(n)' = Number(n)
      BY DEF Number
    <2> QED
      BY <1>2, <2>1, <2>2 DEF BufferInv, MemInv
  <1> QED
    BY <1>1, <1>3 DEF BufferInv

\* NutSegBufReadCommit of what the handler has consumed.
LEMMA BufferReleased ==
    ASSUME BufferInv, feed # "off", Release(consumed), bank' \in {segbuf_rs', segbuf_ws},
           consumed' = 0, UNCHANGED <<memory, thread, sent, heard>>
    PROVE  RingInv' /\ RoomInv' /\ MemInv' /\ SegBufTypeOK'
  <1>1. /\ TypeOK /\ RingInv /\ RoomInv /\ MemInv
        /\ consumed <= available /\ available <= segbuf_used /\ segbuf_rp + available <= Size
    BY DEF BufferInv, FeedInv
  <1>2. /\ consumed \in 0 .. Size /\ available \in 0 .. Size /\ segbuf_used \in 0 .. Cap
        /\ segbuf_rp \in 0 .. (Size - 1) /\ Size \in Nat /\ Cap \in Nat
        /\ rbytes \in 0 .. Size /\ got \in 0 .. Size /\ heard \in Int
        /\ segbuf_wp \in 0 .. (Size - 1)
    BY <1>1, SegBufAssumption, PlayerAssumption DEF TypeOK, SegBufTypeOK, Cap
  <1>3. PICK bc \in 0 .. (Size - segbuf_rp) : bc = consumed /\ bc <= segbuf_used
    BY <1>1, <1>2
  <1>4. /\ RingInv' /\ segbuf_used' = segbuf_used - bc
        /\ RPos' = Advanced(RPos, bc)
        /\ UNCHANGED <<segbuf_wp, segbuf_ws>>
    BY <1>1, <1>3, ReleaseKeeps
  <1>5. RoomInv'
    BY <1>1, <1>2, <1>3, <1>4 DEF RoomInv, thread, Cap
  <1>6. Pending \in Nat /\ Pending' = Pending /\ segbuf_used + Pending <= Cap
    BY <1>1, <1>2 DEF RoomInv, Pending, thread
  <1>7. ASSUME NEW n \in Nat
        PROVE  Number(n + bc) = Number(n)'
    BY <1>2, <1>3 DEF Number
  <1>8. ASSUME NEW s \in 0 .. (Banks - 1), NEW i \in 0 .. (Size - 1),
               Ahead(s, i)' < segbuf_used' + Pending'
        PROVE  memory'[s][i] = Number(Ahead(s, i))'
    <2>0. PICK e \in Nat : e = Ahead(s, i)'
      <3>1. Ahead(s, i)' + bc < Cap
        <4>1. SegBufTypeOK' => (\A t \in 0 .. (Banks - 1), k \in 0 .. (Size - 1) :
                                   Ahead(t, k) \in Nat)'
          BY AheadTypes, PTL
        <4>2. PICK e \in Nat : e = Ahead(s, i)'
          BY <1>4, <4>1 DEF RingInv
        <4>3. e < (segbuf_used - bc) + Pending
          BY <1>4, <1>6, <1>8, <4>2
        <4>4. e + bc < Cap
          BY <1>2, <1>3, <1>6, <4>3
        <4> QED
          BY <4>2, <4>4
      <3> QED
        BY <1>1, <1>4, <3>1, ReleasedFirst
    <2>1. e + bc < Cap /\ e + bc < segbuf_used + Pending
      BY <1>2, <1>3, <1>4, <1>6, <1>8, <2>0
    <2>2. Ahead(s, i) = e + bc
      BY <1>1, <1>4, <2>0, <2>1, ReleasedFirst
    <2>3. memory[s][i] = Number(e + bc)
      BY <1>1, <2>1, <2>2 DEF MemInv
    <2> QED
      BY <1>7, <2>0, <2>3 DEF Number
  <1>9. sent' = Number(segbuf_used + Pending)'
    <2>1. PICK u \in Nat : u = segbuf_used' + Pending'
      BY <1>2, <1>3, <1>4, <1>6
    <2>2. segbuf_used + Pending = u + bc
      BY <1>2, <1>3, <1>4, <1>6, <2>1
    <2> QED
      BY <1>1, <1>7, <2>1, <2>2 DEF MemInv, Number
  <1>10. MemInv'
    BY <1>8, <1>9 DEF MemInv
  <1> QED
    BY <1>4, <1>5, <1>10 DEF RingInv

\* The handler.
LEMMA HandlerKeepsBuffer ==
    ASSUME BufferInv, Handler
    PROVE  BufferInv'
  <1>1. TypeOK /\ RingInv /\ RoomInv /\ FeedInv /\ MemInv /\ SegBufTypeOK
    BY DEF BufferInv, TypeOK
  <1>2. /\ consumed \in 0 .. Size /\ available \in 0 .. Size /\ j \in 0 .. Burst
        /\ bp \in 0 .. Size /\ heard \in 0 .. (Labels - 1) /\ Labels \in Nat \ {0}
        /\ Size \in Nat \ {0} /\ Burst \in Nat \ {0} /\ Cap \in Nat
        /\ segbuf_used \in 0 .. Cap /\ segbuf_rp \in 0 .. (Size - 1)
        /\ segbuf_rs \in 0 .. (Banks - 1)
    BY <1>1, SegBufAssumption, PlayerAssumption DEF TypeOK, SegBufTypeOK, Cap
  <1>3. CASE Isr
    <2>1. /\ feed = "off" /\ eifr' = FALSE /\ UNCHANGED <<segbuf, memory, dreq, vs_status>>
          /\ UNCHANGED <<thread, stopAlarm, sent, heard>>
          /\ \/ feed' = "isr" /\ consumed' = 0 /\ available' = 0 /\ j' = Burst
                /\ eimsk' = FALSE /\ UNCHANGED bp
             \/ UNCHANGED <<feeder, eimsk>>
      BY <1>3 DEF Isr, EnterFeed
    <2>2. consumed = 0 /\ available = 0
      BY <1>1, <1>2, <2>1 DEF FeedInv
    <2>3. UNCHANGED <<consumed, available, bp>> /\ feed' \in {"off", "isr"} /\ j' \in 0 .. Burst
          /\ eimsk' \in {eimsk, FALSE}
      <3>1. Burst \in 0 .. Burst
        BY <1>2
      <3>2. CASE UNCHANGED <<feeder, eimsk>>
        BY <1>2, <2>1, <3>2 DEF feeder
      <3>3. CASE feed' = "isr" /\ consumed' = 0 /\ available' = 0 /\ j' = Burst
                 /\ eimsk' = FALSE /\ UNCHANGED bp
        BY <2>2, <3>1, <3>3
      <3> QED
        BY <2>1, <3>2, <3>3
    <2>4. TypeOK'
      <3>1. SegBufTypeOK'
        BY <1>1, <2>1 DEF SegBufTypeOK, segbuf
      <3>2. eifr' \in BOOLEAN /\ eimsk' \in BOOLEAN
        BY <1>1, <2>1, <2>3 DEF TypeOK
      <3> QED
        BY <1>1, <2>1, <2>3, <3>1, <3>2 DEF TypeOK, thread
    <2>5. RoomInv' /\ FeedInv'
      BY <1>1, <2>1, <2>2, <2>3 DEF RoomInv, FeedInv, segbuf, thread, Cap
    <2> QED
      BY <2>1, <2>3, <2>4, <2>5, BufferQuiet DEF segbuf, thread
  <1>4. CASE FeedRequest
    <2>1. /\ feed # "off" /\ consumed >= available /\ ReadNext(consumed)
          /\ consumed' = 0 /\ available' = ReadSpace' /\ bp' = segbuf_rp'
          /\ vs_status' \in {vs_status, "EOF"} /\ j' \in {j, 0}
          /\ UNCHANGED <<memory, dreq, eifr, eimsk, thread, stopAlarm, feed, sent, heard>>
      BY <1>4 DEF FeedRequest
    <2>2. Release(consumed) /\ bank' = segbuf_rs'
      BY <2>1 DEF ReadNext
    <2>3. RingInv' /\ RoomInv' /\ MemInv' /\ SegBufTypeOK'
      BY <2>1, <2>2, BufferReleased
    <2>4. available' \in Nat /\ segbuf_rp' + available' <= Size /\ available' <= segbuf_used'
      <3>1. RingInv' => (ReadSpace \in Nat /\ segbuf_rp + ReadSpace <= Size /\ ReadSpace <= segbuf_used)'
        BY ReadyIsUsed, PTL
      <3> QED
        BY <2>1, <2>3, <3>1
    <2>5. segbuf_rp' \in 0 .. (Size - 1)
      BY <2>3 DEF SegBufTypeOK
    <2>6. TypeOK'
      <3>0. bp' = segbuf_rp' /\ consumed' = 0 /\ j' \in {j, 0}
        BY <2>1
      <3>1. PICK k \in Nat, l \in 0 .. (Size - 1) :
              k = available' /\ l = segbuf_rp' /\ l + k <= Size
        BY <2>4, <2>5
      <3>2. k \in 0 .. Size /\ l \in 0 .. Size /\ 0 \in 0 .. Size /\ 0 \in 0 .. Burst
        <4>1. Size \in Nat /\ Burst \in Nat
          BY <1>2
        <4>2. l + k <= Size
          BY <3>1
        <4> QED
          BY <4>1, <4>2
      <3>3. available' \in 0 .. Size /\ bp' \in 0 .. Size /\ consumed' \in 0 .. Size
            /\ j' \in 0 .. Burst
        BY <1>2, <3>0, <3>1, <3>2
      <3>4. vs_status' \in {"STOPPED", "RUNNING", "EOF"}
        BY <1>1, <2>1 DEF TypeOK
      <3>5. UNCHANGED <<memory, dreq, eifr, eimsk, pc, rbytes, got, stopAlarm, feed, sent, heard>>
        BY <2>1 DEF thread
      <3> QED
        BY <1>1, <2>3, <3>3, <3>4, <3>5 DEF TypeOK
    <2>7. FeedInv'
      <3>1. consumed' = 0 /\ bp' = segbuf_rp' /\ bank' = segbuf_rs' /\ feed' # "off"
        BY <2>1, <2>2
      <3>2. PICK k \in Nat, l \in 0 .. (Size - 1) : k = available' /\ l = segbuf_rp'
        BY <2>4, <2>5
      <3>3. 0 <= k /\ l = l + 0
        BY <1>2
      <3> QED
        BY <2>4, <3>1, <3>2, <3>3 DEF FeedInv
    <2> QED
      BY <2>3, <2>6, <2>7 DEF BufferInv
  <1>5. CASE FeedByte
    <2>1. /\ feed # "off" /\ j > 0 /\ consumed < available
          /\ bp' = bp + 1 /\ consumed' = consumed + 1 /\ heard' = (heard + 1) % Labels
          /\ dreq' \in {dreq, FALSE} /\ j' \in {Burst - 1, j - 1}
          /\ UNCHANGED <<segbuf, memory, vs_status, eifr, eimsk, thread, stopAlarm, feed,
                         available, sent>>
      BY <1>5 DEF FeedByte
    <2>2. available > 0 /\ bp = segbuf_rp + consumed /\ bank = segbuf_rs
          /\ segbuf_rp + available <= Size
      BY <1>1, <1>2, <2>1 DEF FeedInv
    <2>3. TypeOK'
      <3>1. consumed' \in 0 .. Size /\ bp' \in 0 .. Size /\ j' \in 0 .. Burst
        BY <1>2, <2>1, <2>2
      <3>2. heard' \in 0 .. (Labels - 1)
        BY <1>2, <2>1, ModSmall
      <3>3. SegBufTypeOK'
        BY <1>1, <2>1 DEF SegBufTypeOK, segbuf
      <3>4. dreq' \in BOOLEAN /\ available' \in 0 .. Size
        BY <1>1, <2>1 DEF TypeOK
      <3> QED
        BY <1>1, <2>1, <3>1, <3>2, <3>3, <3>4 DEF TypeOK, thread
    <2>4. RoomInv' /\ FeedInv'
      BY <1>1, <1>2, <2>1, <2>2 DEF RoomInv, FeedInv, segbuf, thread, Cap
    <2>5. RingInv'
      BY <1>1, <2>1, <2>3 DEF RingInv, TypeOK, WPos, RPos, segbuf, Cap
    <2>6. ASSUME NEW n \in Nat
          PROVE  Number(n)' = Number(n)
      <3>1. PICK b \in Int : b = n - (consumed + 1)
        BY <1>2
      <3>2. (((heard + 1) % Labels) + b) % Labels = (heard + 1 + b) % Labels
        <4>1. heard + 1 \in Int
          BY <1>2
        <4> QED
          BY <1>2, <4>1, ModAdd
      <3>3. heard' \in Int /\ heard' - consumed' + n = heard' + b
        <4>1. heard' \in Int
          BY <1>2, <2>1, ModSmall
        <4> QED
          BY <1>2, <2>1, <3>1, <4>1
      <3>4. heard + 1 + b = heard - consumed + n
        BY <1>2, <3>1
      <3> QED
        BY <2>1, <3>2, <3>3, <3>4 DEF Number
    <2>7. MemInv'
      <3>1. Pending' = Pending /\ Pending \in Nat /\ UNCHANGED segbuf_used
        BY <1>1, <2>1 DEF Pending, thread, segbuf, TypeOK
      <3>2. \A s, i : Ahead(s, i)' = Ahead(s, i)
        BY <2>1 DEF Ahead, RPos, Cap, segbuf
      <3>3. \A s \in 0 .. (Banks - 1), i \in 0 .. (Size - 1) : Ahead(s, i) \in Nat
        BY <1>1, Places
      <3>4. segbuf_used + Pending \in Nat
        BY <1>2, <3>1
      <3> QED
        BY <1>1, <2>1, <2>6, <3>1, <3>2, <3>3, <3>4 DEF MemInv
    <2> QED
      BY <2>3, <2>4, <2>5, <2>7 DEF BufferInv
  <1>6. CASE FeedLast
    <2>1. /\ feed # "off" /\ Release(consumed) /\ bank' = segbuf_ws
          /\ feed' = "off" /\ consumed' = 0 /\ available' = 0 /\ bp' = 0 /\ j' = 0
          /\ eimsk' \in BOOLEAN
          /\ UNCHANGED <<memory, vs_status, dreq, eifr, thread, stopAlarm, sent, heard>>
      BY <1>6 DEF FeedLast, ReadLast, LeaveFeed
    <2>2. RingInv' /\ RoomInv' /\ MemInv' /\ SegBufTypeOK'
      BY <2>1, BufferReleased
    <2>3. TypeOK'
      BY <1>1, <1>2, <2>1, <2>2 DEF TypeOK, thread
    <2>4. FeedInv'
      <3>1. segbuf_used' \in 0 .. Cap /\ segbuf_rp' \in 0 .. (Size - 1)
        BY <2>2 DEF SegBufTypeOK, Cap
      <3>2. PICK k \in 0 .. Cap, l \in 0 .. (Size - 1) : k = segbuf_used' /\ l = segbuf_rp'
        BY <3>1
      <3>3. 0 <= k /\ l + 0 <= Size
        BY <1>2
      <3> QED
        BY <2>1, <3>2, <3>3 DEF FeedInv
    <2> QED
      BY <2>2, <2>3, <2>4 DEF BufferInv
  <1> QED
    BY <1>3, <1>4, <1>5, <1>6 DEF Handler

\* The steps of the thread that neither read nor commit.
LEMMA PlayerKeepsBuffer ==
    ASSUME BufferInv, Request \/ Status \/ Kick \/ Kicked \/ Limit \/ Stop
    PROVE  BufferInv'
  <1>1. TypeOK /\ RingInv /\ RoomInv /\ FeedInv /\ MemInv /\ SegBufTypeOK
    BY DEF BufferInv, TypeOK
  <1>2. /\ Size \in Nat \ {0} /\ Banks \in Nat \ {0} /\ Burst \in Nat \ {0} /\ Cap \in Nat
        /\ segbuf_wp \in 0 .. (Size - 1) /\ segbuf_ws \in 0 .. (Banks - 1)
        /\ segbuf_rp \in 0 .. (Size - 1) /\ segbuf_used \in 0 .. Cap
        /\ consumed \in 0 .. Size /\ available \in 0 .. Size /\ rbytes \in 0 .. Size
    BY <1>1, SegBufAssumption, PlayerAssumption DEF TypeOK, SegBufTypeOK, Cap
  <1>3. CASE Request
    <2>1. /\ pc = "request" /\ UNCHANGED <<memory, device, got, stopAlarm, feeder, sent, heard>>
          /\ UNCHANGED <<segbuf_empty, segbuf_used, segbuf_wp, segbuf_ws, segbuf_rp, segbuf_rs>>
          /\ \/ pc' = "stop" /\ UNCHANGED <<rbytes, bank>>
             \/ pc' = "status" /\ rbytes' = WriteSpace /\ bank' = segbuf_ws
      BY <1>3 DEF Request, Thread, WriteRequest, segbuf
    <2>2. WriteSpace \in Nat /\ segbuf_wp + WriteSpace <= Size /\ segbuf_used + WriteSpace <= Cap
      BY <1>1, RoomIsFree
    <2>3. WriteSpace \in 0 .. Size
      <3>1. PICK k \in Nat : k = WriteSpace /\ segbuf_wp + k <= Size
        BY <2>2
      <3>2. k \in 0 .. Size
        BY <1>2, <3>1
      <3> QED
        BY <3>1, <3>2
    <2>4. SegBufTypeOK'
      BY <1>1, <2>1 DEF SegBufTypeOK
    <2>5. TypeOK'
      BY <1>1, <2>1, <2>3, <2>4 DEF TypeOK, device, feeder
    <2>6. RoomInv'
      BY <1>1, <2>1, <2>2 DEF RoomInv, Cap
    <2>7. feed = "off" /\ available = 0
      BY <1>1, <1>3 DEF Request, Thread, FeedInv
    <2>8. FeedInv'
      BY <1>1, <2>1, <2>7 DEF FeedInv, feeder
    <2> QED
      BY <2>1, <2>5, <2>6, <2>8, BufferQuiet DEF feeder
  <1>4. CASE Kick
    <2>1. /\ pc = "kick" /\ pc' \in {"kicked", "limit"} /\ feed = "off"
          /\ vs_status' \in {vs_status, "RUNNING"} /\ eimsk' \in {eimsk, FALSE}
          /\ UNCHANGED <<segbuf, memory, dreq, eifr, rbytes, got, stopAlarm, sent, heard, bp>>
          /\ \/ feed' = "kick" /\ consumed' = 0 /\ available' = 0 /\ j' = Burst
             \/ UNCHANGED feeder
      BY <1>4 DEF Kick, Thread, EnterFeed, feeder
    <2>2. consumed = 0 /\ available = 0
      BY <1>1, <1>2, <2>1 DEF FeedInv
    <2>3. /\ UNCHANGED <<consumed, available>> /\ j' \in {Burst, j}
          /\ feed' \in {"off", "kick"}
      BY <2>1, <2>2 DEF feeder
    <2>4. j' \in 0 .. Burst
      BY <1>1, <1>2, <2>3 DEF TypeOK
    <2>5. SegBufTypeOK'
      BY <1>1, <2>1 DEF SegBufTypeOK, segbuf
    <2>6. TypeOK'
      BY <1>1, <2>1, <2>3, <2>4, <2>5 DEF TypeOK
    <2>7. RoomInv' /\ FeedInv'
      BY <1>1, <2>1, <2>2, <2>3 DEF RoomInv, FeedInv, segbuf, Cap
    <2> QED
      BY <2>1, <2>3, <2>6, <2>7, BufferQuiet DEF segbuf
  <1>5. CASE Status \/ Kicked \/ Limit \/ Stop
    <2>1. /\ pc # "commit" /\ pc' \in {"kick", "limit", "read", "done"}
          /\ pc' # "done" => pc \in {"status", "kicked", "limit"}
          /\ rbytes' = rbytes \/ (rbytes' \in 1 .. rbytes)
          /\ vs_status' \in {vs_status, "STOPPED"} /\ eimsk' \in BOOLEAN
          /\ UNCHANGED <<segbuf, memory, dreq, eifr, got, stopAlarm, feeder, sent, heard>>
      BY <1>1, <1>5 DEF Status, Kicked, Limit, Stop, Thread, TypeOK, device
    <2>2. PICK b \in 0 .. Size : b = rbytes' /\ b <= rbytes
      BY <1>2, <2>1
    <2>3. SegBufTypeOK'
      BY <1>1, <2>1 DEF SegBufTypeOK, segbuf
    <2>4. TypeOK'
      BY <1>1, <2>1, <2>2, <2>3 DEF TypeOK, feeder
    <2>5. RoomInv'
      <3>1. ASSUME pc' # "done"
            PROVE  segbuf_wp + b <= Size /\ segbuf_used + b <= Cap
        <4>1. segbuf_wp + rbytes <= Size /\ segbuf_used + rbytes <= Cap
          BY <1>1, <2>1, <3>1 DEF RoomInv
        <4>2. b <= rbytes
          BY <2>2
        <4> QED
          BY <1>2, <4>1, <4>2
      <3> QED
        BY <2>1, <2>2, <3>1 DEF RoomInv, segbuf, Cap
    <2>6. FeedInv'
      BY <1>1, <2>1 DEF FeedInv, segbuf, feeder
    <2> QED
      BY <2>1, <2>4, <2>5, <2>6, BufferQuiet DEF segbuf, feeder
  <1> QED
    BY <1>3, <1>4, <1>5

\* fread, into the segment that is enabled: the writer's.
LEMMA ReadKeepsBuffer ==
    ASSUME BufferInv, HandOverInv, Read
    PROVE  BufferInv'
  <1>1. TypeOK /\ RingInv /\ RoomInv /\ FeedInv /\ MemInv /\ SegBufTypeOK
    BY DEF BufferInv, TypeOK
  <1>2. /\ pc = "read" /\ feed = "off" /\ bank = segbuf_ws
        /\ UNCHANGED <<segbuf, device, rbytes, stopAlarm, feeder, heard>>
    BY DEF HandOverInv, SegmentStays, Read, Thread
  <1>3. /\ Size \in Nat \ {0} /\ Banks \in Nat \ {0} /\ Cap \in Nat /\ Labels \in Nat \ {0}
        /\ segbuf_wp \in 0 .. (Size - 1) /\ segbuf_ws \in 0 .. (Banks - 1)
        /\ segbuf_used \in 0 .. Cap /\ rbytes \in 0 .. Size
        /\ sent \in 0 .. (Labels - 1)
    BY <1>1, SegBufAssumption, PlayerAssumption DEF TypeOK, SegBufTypeOK, Cap
  <1>4. segbuf_wp + rbytes <= Size /\ segbuf_used + rbytes <= Cap
    BY <1>1, <1>2 DEF RoomInv
  <1>5. SegBufTypeOK'
    BY <1>1, <1>2 DEF SegBufTypeOK, segbuf
  <1>6. FeedInv'
    BY <1>1, <1>2 DEF FeedInv, segbuf, feeder
  <1>7. CASE rbytes = 0 \/ stopAlarm
    <2>1. pc' \in {"stop", "request"} /\ UNCHANGED <<got, memory, sent>>
      BY <1>7 DEF Read
    <2>2. TypeOK'
      BY <1>1, <1>2, <1>5, <2>1 DEF TypeOK, device, feeder
    <2>3. RoomInv'
      BY <2>1 DEF RoomInv
    <2> QED
      BY <1>2, <1>6, <2>1, <2>2, <2>3, BufferQuiet DEF segbuf, feeder
  <1>8. CASE ~(rbytes = 0 \/ stopAlarm)
    <2>1. PICK n \in 0 .. rbytes :
            /\ got' = n
            /\ memory' = [memory EXCEPT ![bank] = [i \in 0 .. (Size - 1) |->
                  IF segbuf_wp <= i /\ i < segbuf_wp + n
                  THEN (sent + i - segbuf_wp) % Labels ELSE @[i]]]
            /\ sent' = (sent + n) % Labels
            /\ pc' = IF n > 0 THEN "commit" ELSE "stop"
      BY <1>8 DEF Read
    <2>2. /\ n \in Nat /\ n \in 0 .. (Size - segbuf_wp) /\ segbuf_used + n <= Cap
          /\ n \in 0 .. Size
      BY <1>3, <1>4
    <2>3. Pending = 0 /\ Pending' = n
      BY <1>2, <2>1, <2>2 DEF Pending
    <2>4. RoomInv'
      BY <1>2, <1>3, <1>4, <2>1, <2>2 DEF RoomInv, segbuf, Cap
    <2>5. sent = Number(segbuf_used)
      BY <1>1, <1>3, <2>3 DEF MemInv
    <2>6. \A k \in Nat : (sent + k) % Labels = Number(segbuf_used + k)
      BY <1>1, <1>3, <2>5, Numbers
    <2>7. \A k : Number(k)' = Number(k)
      BY <1>2 DEF Number, feeder
    <2>8. \A s, i : Ahead(s, i)' = Ahead(s, i)
      BY <1>2 DEF Ahead, RPos, Cap, segbuf
    <2>9. /\ memory \in [0 .. (Banks - 1) -> [0 .. (Size - 1) -> 0 .. (Labels - 1)]]
          /\ bank \in 0 .. (Banks - 1)
      BY <1>1, <1>2, <1>3 DEF TypeOK
    <2>10. ASSUME NEW s \in 0 .. (Banks - 1), NEW i \in 0 .. (Size - 1)
           PROVE  memory'[s][i] = IF s = segbuf_ws /\ segbuf_wp <= i /\ i < segbuf_wp + n
                                  THEN (sent + i - segbuf_wp) % Labels ELSE memory[s][i]
      BY <1>2, <2>1, <2>9
    <2>11. ASSUME NEW i \in 0 .. (Size - 1)
           PROVE  (sent + i - segbuf_wp) % Labels \in 0 .. (Labels - 1)
      <3>1. sent + i - segbuf_wp \in Int
        BY <1>3
      <3> QED
        BY <1>3, <3>1, ModSmall
    <2>12. TypeOK'
      <3>1. memory' \in [0 .. (Banks - 1) -> [0 .. (Size - 1) -> 0 .. (Labels - 1)]]
        BY <2>1, <2>9, <2>11
      <3>2. sent' \in 0 .. (Labels - 1)
        <4>1. sent + n \in Int
          BY <1>3, <2>2
        <4> QED
          BY <1>3, <2>1, <4>1, ModSmall
      <3> QED
        BY <1>1, <1>2, <1>5, <2>1, <2>2, <3>1, <3>2 DEF TypeOK, device, feeder
    <2>13. RingInv'
      BY <1>1, <1>2, <1>5 DEF RingInv, WPos, RPos, Cap, segbuf
    <2>14. ASSUME NEW s \in 0 .. (Banks - 1), NEW i \in 0 .. (Size - 1),
                  Ahead(s, i) < segbuf_used + n
           PROVE  memory'[s][i] = Number(Ahead(s, i))
      <3>1. CASE s = segbuf_ws /\ segbuf_wp <= i /\ i < segbuf_wp + n
        <4>1. PICK k \in Nat : k = i - segbuf_wp /\ sent + k = sent + i - segbuf_wp
          BY <1>3, <3>1
        <4>2. Ahead(s, i) = segbuf_used + k
          BY <1>1, <2>2, <3>1, <4>1, WrittenLast
        <4>3. memory'[s][i] = (sent + k) % Labels
          BY <2>10, <3>1, <4>1
        <4> QED
          BY <2>6, <4>2, <4>3
      <3>2. CASE ~(s = segbuf_ws /\ segbuf_wp <= i /\ i < segbuf_wp + n)
        <4>1. Ahead(s, i) < segbuf_used
          BY <1>1, <2>2, <2>14, <3>2, WrittenLast
        <4>2. memory[s][i] = Number(Ahead(s, i))
          BY <1>1, <1>3, <2>3, <4>1 DEF MemInv
        <4> QED
          BY <2>10, <3>2, <4>2
      <3> QED
        BY <3>1, <3>2
    <2>15. MemInv'
      BY <1>2, <2>1, <2>2, <2>3, <2>6, <2>7, <2>8, <2>14 DEF MemInv, segbuf
    <2> QED
      BY <1>6, <2>4, <2>12, <2>13, <2>15 DEF BufferInv
  <1> QED
    BY <1>7, <1>8

\* NutSegBufWriteCommit of what was read.
LEMMA CommitKeepsBuffer ==
    ASSUME BufferInv, Commit
    PROVE  BufferInv'
  <1>1. TypeOK /\ RingInv /\ RoomInv /\ FeedInv /\ MemInv /\ SegBufTypeOK
    BY DEF BufferInv, TypeOK
  <1>2. /\ pc = "commit" /\ pc' = "read" /\ feed = "off" /\ WriteCommit(got)
        /\ rbytes' = rbytes - got
        /\ UNCHANGED <<memory, device, got, stopAlarm, feeder, sent, heard>>
    BY DEF Commit, Thread
  <1>3. /\ Size \in Nat \ {0} /\ Cap \in Nat /\ rbytes \in 0 .. Size /\ got \in 0 .. Size
        /\ segbuf_wp \in 0 .. (Size - 1) /\ segbuf_used \in 0 .. Cap
        /\ segbuf_rp \in 0 .. (Size - 1)
    BY <1>1, SegBufAssumption DEF TypeOK, SegBufTypeOK, Cap
  <1>4. segbuf_wp + rbytes <= Size /\ segbuf_used + rbytes <= Cap /\ got \in 1 .. rbytes
    BY <1>1, <1>2 DEF RoomInv
  <1>5. PICK bc \in 0 .. (Size - segbuf_wp) : bc = got /\ segbuf_used + bc <= Cap
    BY <1>3, <1>4
  <1>6. /\ RingInv' /\ segbuf_used' = segbuf_used + bc
        /\ UNCHANGED <<segbuf_rp, segbuf_rs>>
        /\ segbuf_wp' \in {0, segbuf_wp + bc}
    BY <1>1, <1>2, <1>5, CommitKeeps
  <1>7. PICK b \in 0 .. Size : b = rbytes - bc
    BY <1>3, <1>4, <1>5
  <1>8. TypeOK'
    BY <1>1, <1>2, <1>5, <1>6, <1>7 DEF TypeOK, RingInv, device, feeder
  <1>9. RoomInv'
    <2>1. PICK w \in Nat, u \in Nat : /\ w = segbuf_wp' /\ w \in {0, segbuf_wp + bc}
                                      /\ u = segbuf_used' /\ u = segbuf_used + bc
      BY <1>3, <1>5, <1>6
    <2>2. w + b <= Size /\ u + b <= Cap
      <3>1. w \in {0, segbuf_wp + bc} /\ u = segbuf_used + bc
        BY <2>1
      <3> QED
        BY <1>3, <1>4, <1>5, <1>7, <3>1
    <2> QED
      BY <1>2, <1>5, <1>7, <2>1, <2>2 DEF RoomInv, Cap
  <1>10. FeedInv'
    <2>1. consumed <= available /\ available = 0 /\ segbuf_rp + available <= Size
      BY <1>1, <1>2 DEF FeedInv
    <2>2. PICK u \in Nat : u = segbuf_used'
      BY <1>3, <1>5, <1>6
    <2> QED
      BY <1>2, <1>6, <2>1, <2>2 DEF FeedInv, feeder
  <1>11. MemInv'
    <2>1. Pending = bc /\ Pending' = 0
      BY <1>2, <1>5 DEF Pending
    <2>2. PICK u \in Nat : u = segbuf_used' /\ u = segbuf_used + Pending /\ u + 0 = u
      BY <1>3, <1>5, <1>6, <2>1
    <2>3. \A s, i : Ahead(s, i)' = Ahead(s, i)
      BY <1>6 DEF Ahead, RPos, Cap
    <2>4. \A k : Number(k)' = Number(k)
      BY <1>2 DEF Number, feeder
    <2> QED
      BY <1>1, <1>2, <2>1, <2>2, <2>3, <2>4 DEF MemInv
  <1> QED
    BY <1>6, <1>8, <1>9, <1>10, <1>11 DEF BufferInv

\* Every step.
LEMMA BufferStep ==
    ASSUME HandOverInv, BufferInv, [Next]_vars
    PROVE  BufferInv'
  <1>1. CASE DreqRises \/ StopStream \/ UNCHANGED vars
    <2>1. /\ UNCHANGED <<segbuf, memory, vs_status, eimsk, thread, feeder, sent, heard>>
          /\ dreq' \in {dreq, TRUE} /\ eifr' \in {eifr, TRUE} /\ stopAlarm' \in {stopAlarm, TRUE}
      BY <1>1 DEF DreqRises, StopStream, vars, device
    <2>2. TypeOK /\ RoomInv /\ FeedInv /\ SegBufTypeOK
      BY DEF BufferInv, TypeOK
    <2>3. SegBufTypeOK'
      BY <2>1, <2>2 DEF SegBufTypeOK, segbuf
    <2>4. TypeOK'
      <3>1. dreq' \in BOOLEAN /\ eifr' \in BOOLEAN /\ stopAlarm' \in BOOLEAN
        BY <2>1, <2>2 DEF TypeOK
      <3> QED
        BY <2>1, <2>2, <2>3, <3>1 DEF TypeOK, thread, feeder
    <2>5. RoomInv' /\ FeedInv'
      BY <2>1, <2>2 DEF RoomInv, FeedInv, segbuf, thread, feeder, Cap
    <2> QED
      BY <2>1, <2>4, <2>5, BufferQuiet DEF segbuf, thread, feeder
  <1> QED
    BY <1>1, HandlerKeepsBuffer, PlayerKeepsBuffer, ReadKeepsBuffer, CommitKeepsBuffer
    DEF Next, Player

\* For any size of the buffer, any number of segments and any burst: the ring
\* holds the part of the stream that has been read and not yet heard.
THEOREM PlayerBuffer == Spec => [](HandOverInv /\ BufferInv)
  <1>1. Init => HandOverInv /\ BufferInv
    BY HandOverInit, BufferInit
  <1>2. HandOverInv /\ BufferInv /\ [Next]_vars => (HandOverInv /\ BufferInv)'
    BY HandOverStep, BufferStep
  <1> QED
    BY <1>1, <1>2, PTL DEF Spec

\* Every variable of the player and its buffer keeps its type: no pointer ever
\* leaves its segment.
THEOREM PlayerTypes == Spec => []TypeOK
  <1>1. HandOverInv /\ BufferInv => TypeOK
    BY DEF BufferInv
  <1> QED
    BY <1>1, PlayerBuffer, PTL

\* The count of NutSegBufUsed, the empty flag and the pointers agree.
THEOREM BufferCounts == Spec => []UsedIsDistance
  <1>1. ASSUME RingInv
        PROVE  UsedIsDistance
    <2>1. /\ segbuf_wp \in 0 .. (Size - 1) /\ segbuf_ws \in 0 .. (Banks - 1)
          /\ segbuf_rp \in 0 .. (Size - 1) /\ segbuf_rs \in 0 .. (Banks - 1)
          /\ Size \in Nat \ {0} /\ Banks \in Nat \ {0} /\ segbuf_empty \in BOOLEAN
      BY <1>1, SegBufAssumption DEF RingInv, SegBufTypeOK
    <2>2. PICK A, B, C \in Nat :
            /\ A = segbuf_ws * Size /\ B = segbuf_rs * Size /\ C = Cap
            /\ A + Size <= C /\ B + Size <= C
      BY <2>1, Segments
    <2>3. PICK W, R \in Nat :
            /\ W = A + segbuf_wp /\ R = B + segbuf_rp /\ W < C /\ R < C
      BY <2>1, <2>2
    <2>4. WPos = W /\ RPos = R /\ C \in Nat \ {0}
      BY <2>2, <2>3 DEF WPos, RPos
    <2>5. Distance = (W - R) % C
      BY <2>2, <2>4 DEF Distance, WPos, RPos, Cap
    <2>6. (W - R) % C = IF W >= R THEN W - R ELSE W - R + C
      <3>1. CASE W >= R
        <4>1. W - R \in 0 .. (C - 1)
          BY <2>3, <3>1
        <4> QED
          BY <2>4, <3>1, <4>1, ModSmall
      <3>2. CASE W < R
        <4>1. W - R \in (-(C - 1)) .. (-1)
          BY <2>3, <3>2
        <4> QED
          BY <2>3, <2>4, <3>2, <4>1, ModSmall
      <3> QED
        BY <2>3, <3>1, <3>2
    <2>7. segbuf_empty => segbuf_used = 0
      BY <1>1 DEF RingInv
    <2>8. ~segbuf_empty => segbuf_used = IF W > R THEN W - R ELSE W - R + C
      BY <1>1, <2>2, <2>4 DEF RingInv
    <2>9. ASSUME ~segbuf_empty
          PROVE  segbuf_used = IF Distance = 0 THEN C ELSE Distance
      <3>1. segbuf_used = IF W > R THEN W - R ELSE W - R + C
        BY <2>8, <2>9
      <3> QED
        BY <2>3, <2>5, <2>6, <3>1
    <2> QED
      BY <2>2, <2>7, <2>9 DEF UsedIsDistance, Cap
  <1>2. HandOverInv /\ BufferInv => UsedIsDistance
    BY <1>1 DEF BufferInv
  <1> QED
    BY <1>2, PlayerBuffer, PTL

\* The decoder hears the stream: each byte that was read, once and in order.
THEOREM StreamHeard == Spec => HearsStream
  <1>1. ASSUME BufferInv, FeedByte
        PROVE  memory[bank][bp] = heard
    <2>1. TypeOK /\ RingInv /\ FeedInv /\ MemInv /\ SegBufTypeOK
      BY <1>1 DEF BufferInv, TypeOK
    <2>2. /\ consumed \in 0 .. Size /\ available \in 0 .. Size /\ Labels \in Nat \ {0}
          /\ heard \in 0 .. (Labels - 1) /\ Size \in Nat \ {0} /\ Cap \in Nat
          /\ segbuf_rp \in 0 .. (Size - 1) /\ segbuf_rs \in 0 .. (Banks - 1)
          /\ segbuf_used \in 0 .. Cap /\ got \in 0 .. Size
      BY <2>1, SegBufAssumption, PlayerAssumption DEF TypeOK, SegBufTypeOK, Cap
    <2>3. consumed < available
      BY <1>1 DEF FeedByte
    <2>4. /\ bank = segbuf_rs /\ bp = segbuf_rp + consumed /\ bp \in 0 .. (Size - 1)
          /\ consumed < segbuf_used
      BY <2>1, <2>2, <2>3 DEF FeedInv
    <2>5. Ahead(bank, bp) = consumed
      <3>1. PICK B \in Nat : B = segbuf_rs * Size
        BY <2>2, SegmentFits
      <3>2. B + bp >= B + segbuf_rp /\ B + bp - (B + segbuf_rp) = consumed
        BY <2>2, <2>4
      <3>3. RPos = B + segbuf_rp /\ bank * Size = B
        BY <2>4, <3>1 DEF RPos
      <3> QED
        BY <2>2, <2>4, <3>1, <3>2, <3>3 DEF Ahead
    <2>6. consumed < segbuf_used + Pending
      <3>1. Pending \in Nat
        BY <2>2 DEF Pending
      <3> QED
        BY <2>2, <2>4, <3>1
    <2>7. memory[bank][bp] = Number(consumed)
      BY <2>1, <2>2, <2>4, <2>5, <2>6 DEF MemInv
    <2>8. heard - consumed + consumed = heard
      BY <2>2
    <2>9. heard % Labels = heard
      BY <2>2, ModSmall
    <2> QED
      BY <2>7, <2>8, <2>9 DEF Number
  <1>2. HandOverInv /\ BufferInv /\ [Next]_vars => [FeedByte => memory[bank][bp] = heard]_vars
    BY <1>1
  <1> QED
    BY <1>2, PlayerBuffer, PTL DEF Spec, HearsStream

=============================================================================
