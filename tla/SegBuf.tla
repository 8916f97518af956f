------------------------------- MODULE SegBuf -------------------------------
(***************************************************************************)
(* The segmented buffer of Nut/OS (os/bankmem.c): a ring of Banks segments *)
(* of Size bytes, of which one at a time is visible at the same addresses. *)
(* Without banked memory (NUTBANK_COUNT = 0) there is one segment.         *)
(*                                                                         *)
(* Each operator is a call; it determines the next values of the variables *)
(* below and is made with the decoder's interrupt disabled.                *)
(***************************************************************************)
EXTENDS Integers

CONSTANTS Size,    \* segbuf_end - segbuf_start
          Banks    \* NUTBANK_COUNT, or 1

ASSUME SegBufAssumption == Size \in Nat \ {0} /\ Banks \in Nat \ {0}

VARIABLES
    segbuf_empty,
    segbuf_used,
    segbuf_wp, segbuf_ws,  \* offset and segment of the writer
    segbuf_rp, segbuf_rs,  \* offset and segment of the reader
    bank                   \* the segment enabled by NutSegBufEnable

segbuf == <<segbuf_empty, segbuf_used, segbuf_wp, segbuf_ws, segbuf_rp, segbuf_rs, bank>>

\* NutSegBufReset.
SegBufInit ==
    /\ segbuf_empty = TRUE
    /\ segbuf_used = 0
    /\ segbuf_wp = 0 /\ segbuf_ws = 0
    /\ segbuf_rp = 0 /\ segbuf_rs = 0
    /\ bank = 0

\* Mutant: a full buffer is taken for an empty one.
WriteSpace_FullIsEmpty ==
    IF segbuf_ws # segbuf_rs \/ segbuf_wp >= segbuf_rp
    THEN Size - segbuf_wp
    ELSE segbuf_rp - segbuf_wp

\* The consecutive bytes free for writing.
WriteSpace ==
    IF segbuf_empty \/ segbuf_ws # segbuf_rs \/ segbuf_wp > segbuf_rp
    THEN Size - segbuf_wp
    ELSE segbuf_rp - segbuf_wp

WriteRequest ==
    /\ bank' = segbuf_ws
    /\ UNCHANGED <<segbuf_empty, segbuf_used, segbuf_wp, segbuf_ws, segbuf_rp, segbuf_rs>>

\* The consecutive bytes ready for reading.  The code's third branch, for a
\* reader behind the writer, also looks for a distance of 0, which cannot be.
ReadSpace ==
    IF segbuf_empty THEN 0
    ELSE IF segbuf_ws # segbuf_rs \/ segbuf_rp >= segbuf_wp THEN Size - segbuf_rp
    ELSE segbuf_wp - segbuf_rp

\* NutSegBufWriteCommit.
WriteCommit(bc) ==
    IF bc = 0 THEN UNCHANGED segbuf
    ELSE LET wraps == segbuf_wp + bc = Size
         IN  /\ segbuf_empty' = FALSE
             /\ segbuf_used' = segbuf_used + bc
             /\ segbuf_wp' = IF wraps THEN 0 ELSE segbuf_wp + bc
             /\ segbuf_ws' = IF wraps THEN (segbuf_ws + 1) % Banks ELSE segbuf_ws
             /\ bank' = IF wraps THEN segbuf_ws' ELSE bank
             /\ UNCHANGED <<segbuf_rp, segbuf_rs>>

\* Mutant: an emptied buffer is not marked empty.
Release_NotEmpty(bc) ==
    LET wraps == segbuf_rp + bc = Size
    IN  /\ segbuf_used' = segbuf_used - bc
        /\ segbuf_rp' = IF wraps THEN 0 ELSE segbuf_rp + bc
        /\ segbuf_rs' = IF wraps THEN (segbuf_rs + 1) % Banks ELSE segbuf_rs
        /\ UNCHANGED <<segbuf_empty, segbuf_wp, segbuf_ws>>

\* The pointers after the reader has released bc bytes.
Release(bc) ==
    LET wraps == segbuf_rp + bc = Size
    IN  /\ segbuf_used' = segbuf_used - bc
        /\ segbuf_rp' = IF wraps THEN 0 ELSE segbuf_rp + bc
        /\ segbuf_rs' = IF wraps THEN (segbuf_rs + 1) % Banks ELSE segbuf_rs
        /\ segbuf_empty' =
              \/ segbuf_empty
              \/ bc > 0 /\ segbuf_rp' = segbuf_wp /\ segbuf_rs' = segbuf_ws
        /\ UNCHANGED <<segbuf_wp, segbuf_ws>>

\* NutSegBufReadCommit followed by NutSegBufReadRequest.
ReadNext(bc) == Release(bc) /\ bank' = segbuf_rs'

\* Mutant: the reader's segment stays enabled.
ReadLast_KeepsSegment(bc) == Release(bc) /\ bank' = segbuf_rs'

\* NutSegBufReadLast.
ReadLast(bc) == Release(bc) /\ bank' = segbuf_ws

\* What is between the reader and the writer, in bytes.
Distance ==
    ((segbuf_ws * Size + segbuf_wp) - (segbuf_rs * Size + segbuf_rp)) % (Size * Banks)

-----------------------------------------------------------------------------
SegBufTypeOK ==
    /\ segbuf_empty \in BOOLEAN
    /\ segbuf_used \in 0 .. (Size * Banks)
    /\ segbuf_wp \in 0 .. (Size - 1) /\ segbuf_ws \in 0 .. (Banks - 1)
    /\ segbuf_rp \in 0 .. (Size - 1) /\ segbuf_rs \in 0 .. (Banks - 1)
    /\ bank \in 0 .. (Banks - 1)

\* The count of NutSegBufUsed, the empty flag and the four pointers, which
\* the writer and the interrupt handler update in turn, tell one story: equal
\* pointers mean empty or full, and the flag says which.
UsedIsDistance ==
    segbuf_used = IF segbuf_empty THEN 0
                  ELSE IF Distance = 0 THEN Size * Banks ELSE Distance

=============================================================================
