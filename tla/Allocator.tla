----------------------------- MODULE Allocator ------------------------------
(***************************************************************************)
(* What a heap promises its callers (os/heap.c, NutHeapAlloc): a block of   *)
(* the wanted length that belongs to nobody else, inside the memory the      *)
(* heap was given, until it is released.                                     *)
(***************************************************************************)
EXTENDS Integers

CONSTANTS Memory,                \* the addresses the heap may ever own
          Lengths                \* lengths that callers ask for

VARIABLE blocks                  \* records [at, len]

avars == <<blocks>>

Cells(b) == b.at .. b.at + b.len - 1

Init == blocks = {}

Hand(len) == \E at \in Memory :
               LET b == [at |-> at, len |-> len]
               IN  /\ blocks' = blocks \cup {b}
                   /\ Cells(b) \subseteq Memory
                   /\ \A c \in blocks : Cells(b) \cap Cells(c) = {}

Release(b) == blocks' = blocks \ {b}

Next == \/ \E len \in Lengths : Hand(len)
        \/ \E b \in blocks : Release(b)

Spec == Init /\ [][Next]_avars
=============================================================================
