------------------------------ MODULE NutHeap -------------------------------
(***************************************************************************)
(* The heap of Nut/OS (os/heap.c): a list of free nodes in the order of     *)
(* their addresses, NutHeapAlloc with its best fit and its splitting, and    *)
(* NutHeapFree, which joins a block with the free nodes on both sides and    *)
(* refuses a block that is free already.  Threads are not preempted and      *)
(* interrupts do not allocate, so that each call is one step.  A block is    *)
(* known to its owner by the address of its node; the block that the caller  *)
(* sees begins SizeField bytes later and ends Overhead - SizeField bytes     *)
(* before the node's end, where a mark is written.                           *)
(***************************************************************************)
EXTENDS Integers, SequencesExt

CONSTANTS Regions,               \* regions given to NutHeapAdd, in this order
          Sizes,                 \* sizes that callers ask for
          SizeField,             \* sizeof(size_t)
          Overhead,              \* MEMOVHD
          NodeSize,              \* sizeof(HEAPNODE)
          Threshold              \* ALLOC_THRESHOLD

Node(addr, size) == [addr |-> addr, size |-> size]
End(n) == n.addr + n.size

ASSUME HeapAssumption ==
  /\ Regions \in Seq([addr : Nat, size : Nat]) /\ Sizes \subseteq Nat \ {0}
  /\ {SizeField, Overhead, NodeSize, Threshold} \subseteq Nat \ {0}
  /\ SizeField < Overhead /\ SizeField < NodeSize
  /\ \A i \in DOMAIN Regions : Regions[i].size >= NodeSize
  /\ \A i, j \in DOMAIN Regions :
       i # j => End(Regions[i]) <= Regions[j].addr \/ End(Regions[j]) <= Regions[i].addr

VARIABLES heapFreeList,          \* the free nodes, a sequence
          available,             \* bytes in them
          used,                  \* allocated nodes, with the size asked for
          added                  \* regions added so far

heapVars == <<heapFreeList, available, used, added>>

-----------------------------------------------------------------------------
(* NutHeapAlloc                                                             *)

\* What a request takes: the overhead, and at least a node.
Gross(want) == IF want + Overhead < NodeSize THEN NodeSize ELSE want + Overhead

Fits(list, size) == {i \in DOMAIN list : list[i].size >= size}

\* The smallest node that fits, the first of them.
BestFit(list, size) ==
  CHOOSE i \in Fits(list, size) :
    \A j \in Fits(list, size) : \/ list[i].size < list[j].size
                                \/ list[i].size = list[j].size /\ i <= j

Splits(n, size) == n.size > size + NodeSize + Threshold

Taken(n, size) == IF Splits(n, size) THEN Node(n.addr, size) ELSE n

\* Mutant: the rest of a node that is split is linked in with its old size.
Left_WholeSize(n, size) == Node(n.addr + size, n.size)

Left(n, size) == Node(n.addr + size, n.size - size)

\* The list without what was taken from its node i.
Unlinked(list, i, size) ==
  IF Splits(list[i], size) THEN [list EXCEPT ![i] = Left(list[i], size)]
  ELSE RemoveAt(list, i)

-----------------------------------------------------------------------------
(* NutHeapFree                                                              *)

\* The node ends where f begins.
Before(n, f) == End(n) = f.addr

\* Where the walk along the list ends; behind the last node if nowhere.
Stops(n, f) == Before(n, f) \/ n.addr > f.addr \/ End(n) > f.addr

Stop(list, f) == CHOOSE i \in 1 .. Len(list) + 1 :
                   /\ \A j \in 1 .. i - 1 : ~Stops(list[j], f)
                   /\ i <= Len(list) => Stops(list[i], f)

\* Mutant: only a block that begins at a free node is found to be free.
Twice_SameAddress(n, f) == ~Before(n, f) /\ n.addr = f.addr

\* The block lies in a free node: somebody tried to free it twice.
Twice(n, f) == ~Before(n, f) /\ n.addr <= f.addr /\ End(n) > f.addr

IsFree(list, f) == Stop(list, f) <= Len(list) /\ Twice(list[Stop(list, f)], f)

\* Mutant: the node behind a joined one is not joined as well.
JoinedBehind_NotNext(list, i) == list

\* Node i with the node behind it, if that begins where node i ends.
JoinedBehind(list, i) ==
  IF i < Len(list) /\ Before(list[i], list[i + 1])
  THEN RemoveAt([list EXCEPT ![i].size = @ + list[i + 1].size], i + 1)
  ELSE list

Linked(list, f) ==
  LET i == Stop(list, f)
  IN  IF i <= Len(list) /\ Before(list[i], f)
      THEN JoinedBehind([list EXCEPT ![i].size = @ + f.size], i)
      ELSE JoinedBehind(InsertAt(list, i, f), i)

HeapFree(f) ==
  IF IsFree(heapFreeList, f) THEN UNCHANGED <<heapFreeList, available>>
  ELSE /\ heapFreeList' = Linked(heapFreeList, f)
       /\ available' = available + f.size

-----------------------------------------------------------------------------
HeapInit == /\ heapFreeList = <<>> /\ available = 0
            /\ used = {} /\ added = 0

\* NutHeapAdd
Add == /\ added < Len(Regions)
       /\ added' = added + 1
       /\ HeapFree(Regions[added + 1])
       /\ UNCHANGED used

\* A call that returns no block changes nothing.
Alloc(want) ==
  LET size == Gross(want)
      i == BestFit(heapFreeList, size)
      fit == Taken(heapFreeList[i], size)
  IN  /\ want < available /\ Fits(heapFreeList, size) # {}
      /\ heapFreeList' = Unlinked(heapFreeList, i, size)
      /\ available' = available - fit.size
      /\ used' = used \cup {[addr |-> fit.addr, size |-> fit.size, want |-> want]}
      /\ UNCHANGED added

Free(b) == /\ HeapFree(Node(b.addr, b.size))
           /\ used' = used \ {b}
           /\ UNCHANGED added

\* A block that is free already is released again; what its size field holds
\* by now is anything.
FreeAgain(addr, size) == /\ HeapFree(Node(addr, size))
                         /\ UNCHANGED <<used, added>>

InFree == UNION {heapFreeList[i].addr .. End(heapFreeList[i]) - 1 :
                   i \in DOMAIN heapFreeList}

HeapNext == \/ Add
            \/ \E want \in Sizes : Alloc(want)
            \/ \E b \in used : Free(b)
            \/ \E addr \in InFree, size \in Sizes : FreeAgain(addr, size)

HeapSpec == HeapInit /\ [][HeapNext]_heapVars

-----------------------------------------------------------------------------
(* Properties                                                               *)

(***************************************************************************)
(* The free list is ordered by address and no two of its nodes touch, with  *)
(* or without an order in the releases: that is what finding a block freed   *)
(* twice and joining neighbours rest on (NutHeapFree).                       *)
(***************************************************************************)
FreeListJoined ==
  \A i, j \in DOMAIN heapFreeList :
    i < j => End(heapFreeList[i]) < heapFreeList[j].addr

\* The given memory.
Memory == UNION {Regions[i].addr .. End(Regions[i]) - 1 : i \in DOMAIN Regions}

Nodes == {heapFreeList[i] : i \in DOMAIN heapFreeList} \cup
           {Node(b.addr, b.size) : b \in used}

(***************************************************************************)
(* Every byte that was added is in exactly one node, free or allocated, and  *)
(* the count of available bytes tells those that are free: neither a split,  *)
(* a block not worth splitting, nor a block released twice loses or makes     *)
(* memory (NutHeapAlloc, NutHeapFree).                                       *)
(***************************************************************************)
NothingLost ==
  /\ \A a \in Memory : Cardinality({n \in Nodes : a \in n.addr .. End(n) - 1}) =
       (IF \E i \in 1 .. added : a \in Regions[i].addr .. End(Regions[i]) - 1 THEN 1 ELSE 0)
  /\ available = FoldSeq(LAMBDA n, sum : n.size + sum, 0, heapFreeList)

(***************************************************************************)
(* Callers get blocks of the length they asked for that overlap no other     *)
(* block (NutHeapAlloc).                                                     *)
(***************************************************************************)
A == INSTANCE Allocator WITH
       Lengths <- Sizes,
       blocks <- {[at |-> b.addr + SizeField, len |-> b.want] : b \in used}
ImplementsAllocator == A!Spec
=============================================================================
