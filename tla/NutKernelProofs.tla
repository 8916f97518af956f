-------------------------- MODULE NutKernelProofs ---------------------------
(***************************************************************************)
(* For any number of threads and queues, any priorities and any number of  *)
(* interrupts: the kernel's lists stay consistent and in their order, and  *)
(* the kernel implements the abstract event queues.  In five parts:        *)
(*                                                                         *)
(* 1. The queue operations of module NutQueue, for queues of any length:   *)
(*    which threads a queue holds afterwards, who is first, what is        *)
(*    pending.  The parts below use queues only through these lemmas.      *)
(*                                                                         *)
(* 2. The lists.  No one property is inductive.  That no thread is lost    *)
(*    depends on what the locals of the kernel call in progress say about  *)
(*    the queue they were read from (TransitInv); that NutThreadResume     *)
(*    finds the events it has counted depends on td_queue naming the queue *)
(*    a thread is in, which is only true as long as no thread is in two;   *)
(*    and all of it depends on the kernel calls not interrupting each      *)
(*    other (OthersParked).                                                *)
(*                                                                         *)
(* 3. The timeouts of NutEventWait (TimeoutInv).                           *)
(*                                                                         *)
(* 4. The order of the queues.  A thread is linked in one critical section *)
(*    at the place another one has found: LinkPlace says why the place is  *)
(*    still the right one.                                                 *)
(*                                                                         *)
(* 5. The refinement of NutEvents.                                         *)
(***************************************************************************)
EXTENDS NutKernel, ListLemmas

-----------------------------------------------------------------------------
(***************************************************************************)
(* 1. The queue operations.                                                *)
(***************************************************************************)

\* A chain of threads in which nobody is linked twice.
Linked(s) == s \in Seq(Threads) /\ IsInjective(s)

\* What there is to know about the elements of a chain.
LEMMA LinkedElements ==
    ASSUME NEW s, Linked(s)
    PROVE  /\ Len(s) \in Nat /\ DOMAIN s = 1 .. Len(s)
           /\ \A i \in 1 .. Len(s) : s[i] \in Threads
           /\ \A i, j \in 1 .. Len(s) : s[i] = s[j] => i = j
           /\ \A u : Contains(s, u) => u \in Threads
           /\ ~IsSignaled(s)
           /\ s # <<>> => 1 \in 1 .. Len(s) /\ Head(s) = s[1] /\ Contains(s, Head(s))
  <1>1. /\ Len(s) \in Nat /\ DOMAIN s = 1 .. Len(s)
        /\ \A i \in 1 .. Len(s) : s[i] \in Threads
    BY LenProperties, ElementOfSeq DEF Linked
  <1>2. ~IsSignaled(s)
    BY <1>1, SignaledIsNoThread DEF IsSignaled
  <1>3. s # <<>> => 1 \in 1 .. Len(s) /\ Head(s) = s[1]
    BY <1>1, EmptySeq DEF Linked
  <1> QED
    BY <1>1, <1>2, <1>3 DEF Linked, IsInjective, Contains

\* The null pointer is the chain of nobody.
LEMMA EmptyLinked == Linked(<<>>) /\ \A u : ~Contains(<<>>, u)
  BY DEF Linked, IsInjective, Contains

\* One thread is a chain of its own.
LEMMA SingleLinked ==
    ASSUME NEW t \in Threads
    PROVE  Linked(<<t>>) /\ \A u : Contains(<<t>>, u) <=> u = t
  BY DEF Linked, IsInjective, Contains

\* The mark is not a thread that waits.
LEMMA MarkHoldsNobody ==
    ASSUME NEW s, IsSignaled(s)
    PROVE  \A u \in Threads : ~Contains(s, u)
  BY SignaledIsNoThread DEF IsSignaled, Contains

\* The walk along the links finds a thread that is in the chain.
LEMMA PositionFinds ==
    ASSUME NEW s, Linked(s), NEW t, Contains(s, t)
    PROVE  Position(s, t) \in 1 .. Len(s) /\ s[Position(s, t)] = t
  BY LinkedElements DEF Contains, Position

\* Unlinking a thread takes out this one and nobody else.
LEMMA WithoutLinked ==
    ASSUME NEW s, Linked(s), NEW t
    PROVE  /\ Linked(Without(s, t))
           /\ \A u : Contains(Without(s, t), u) <=> Contains(s, u) /\ u # t
  <1>1. CASE ~Contains(s, t)
    BY <1>1 DEF Without
  <1>2. CASE Contains(s, t)
    <2>. DEFINE p == Position(s, t)
                w == RemoveAt(s, p)
    <2>1. p \in 1 .. Len(s) /\ s[p] = t
      BY <1>2, PositionFinds
    <2>2. /\ w \in Seq(Threads) /\ Len(w) = Len(s) - 1
          /\ \A j \in 1 .. (Len(s) - 1) : w[j] = IF j < p THEN s[j] ELSE s[j + 1]
      <3>. HIDE DEF p
      <3> QED
        BY <2>1, RemoveAtElements DEF Linked
    <2>3. Without(s, t) = w
      BY <1>2 DEF Without
    <2>. HIDE DEF p, w
    <2>4. DOMAIN w = 1 .. (Len(s) - 1)
      BY <2>2, LenProperties
    <2>5. /\ Len(s) \in Nat /\ DOMAIN s = 1 .. Len(s)
          /\ \A i, j \in 1 .. Len(s) : s[i] = s[j] => i = j
      BY LinkedElements
    <2>6. IsInjective(w)
      <3> SUFFICES ASSUME NEW i \in 1 .. (Len(s) - 1), NEW j \in 1 .. (Len(s) - 1), w[i] = w[j]
                   PROVE  i = j
        BY <2>4 DEF IsInjective
      <3>. DEFINE O(k) == IF k < p THEN k ELSE k + 1
      <3>1. /\ O(i) \in 1 .. Len(s) /\ O(j) \in 1 .. Len(s)
            /\ w[i] = s[O(i)] /\ w[j] = s[O(j)]
        BY <2>1, <2>2, <2>5
      <3>2. O(i) = O(j)
        <4>. HIDE DEF O
        <4> QED
          BY <2>5, <3>1
      <3> QED
        BY <2>1, <2>5, <3>2
    <2>7. ASSUME NEW u, Contains(w, u)
          PROVE  Contains(s, u) /\ u # t
      <3>1. PICK i \in 1 .. (Len(s) - 1) : w[i] = u
        BY <2>4, <2>7 DEF Contains
      <3>2. PICK k \in 1 .. Len(s) : k # p /\ s[k] = u
        <4>1. CASE i < p
          BY <2>1, <2>2, <2>5, <3>1, <4>1
        <4>2. CASE ~(i < p)
          <5>1. i + 1 \in 1 .. Len(s) /\ i + 1 # p /\ s[i + 1] = u
            BY <2>1, <2>2, <2>5, <3>1, <4>2
          <5> QED
            BY <5>1
        <4> QED
          BY <4>1, <4>2
      <3>3. Contains(s, u)
        BY <2>5, <3>2 DEF Contains
      <3>4. u # t
        BY <2>1, <2>5, <3>2
      <3> QED
        BY <3>3, <3>4
    <2>8. ASSUME NEW u, Contains(s, u), u # t
          PROVE  Contains(w, u)
      <3>1. PICK i \in 1 .. Len(s) : s[i] = u
        BY <2>8 DEF Contains
      <3>2. CASE i < p
        <4>1. i \in 1 .. (Len(s) - 1) /\ w[i] = u
          BY <2>1, <2>2, <3>1, <3>2, LinkedElements
        <4> QED
          BY <2>2, <4>1 DEF Contains
      <3>3. CASE i > p
        <4>1. i - 1 \in 1 .. (Len(s) - 1) /\ ~(i - 1 < p) /\ (i - 1) + 1 = i
          BY <2>1, <3>3, LinkedElements
        <4>2. w[i - 1] = u
          BY <2>2, <3>1, <4>1
        <4> QED
          BY <2>2, <4>1, <4>2 DEF Contains
      <3> QED
        BY <2>1, <2>8, <3>1, <3>2, <3>3, LinkedElements
    <2> QED
      BY <2>2, <2>3, <2>6, <2>7, <2>8 DEF Linked
  <1> QED
    BY <1>1, <1>2

\* Who is first behind the unlinked thread.
LEMMA WithoutHead ==
    ASSUME NEW s, Linked(s), s # <<>>, NEW t, Contains(s, t)
    PROVE  /\ Head(s) # t => Without(s, t) # <<>> /\ Head(Without(s, t)) = Head(s)
           /\ Head(s) = t /\ HasSuccessor(s, t) =>
                 /\ Without(s, t) # <<>> /\ Head(Without(s, t)) = Successor(s, t)
           /\ Head(s) = t /\ ~HasSuccessor(s, t) => Without(s, t) = <<>>
           /\ HasSuccessor(s, t) => Contains(s, Successor(s, t)) /\ Successor(s, t) # t
  <1>. DEFINE p == Position(s, t)
              w == RemoveAt(s, p)
  <1>1. p \in 1 .. Len(s) /\ s[p] = t
    BY PositionFinds
  <1>2. /\ w \in Seq(Threads) /\ Len(w) = Len(s) - 1
        /\ \A j \in 1 .. (Len(s) - 1) : w[j] = IF j < p THEN s[j] ELSE s[j + 1]
    <2>. HIDE DEF p
    <2> QED
      BY <1>1, RemoveAtElements DEF Linked
  <1>3. Without(s, t) = w
    BY DEF Without
  <1>4. HasSuccessor(s, t) <=> p < Len(s)
    BY DEF HasSuccessor
  <1>5. Successor(s, t) = s[p + 1]
    BY DEF Successor
  <1>. HIDE DEF p, w
  <1>6. Len(s) \in Nat /\ 1 \in 1 .. Len(s) /\ Head(s) = s[1]
    BY LinkedElements
  <1>7. Head(s) = t <=> p = 1
    BY <1>1, <1>6, LinkedElements
  <1>8. Len(s) > 1 => w # <<>> /\ Head(w) = w[1] /\ 1 \in 1 .. (Len(s) - 1)
    BY <1>2, <1>6, EmptySeq
  <1>9. Len(s) = 1 => w = <<>>
    BY <1>2, <1>6, EmptySeq
  <1>10. HasSuccessor(s, t) => Contains(s, Successor(s, t)) /\ Successor(s, t) # t
    <2> SUFFICES ASSUME p < Len(s)
                 PROVE  Contains(s, s[p + 1]) /\ s[p + 1] # t
      BY <1>4, <1>5
    <2>1. p + 1 \in 1 .. Len(s) /\ p + 1 # p
      BY <1>1, <1>6
    <2> QED
      BY <1>1, <2>1, LinkedElements DEF Contains
  <1> QED
    BY <1>1, <1>2, <1>3, <1>4, <1>5, <1>6, <1>7, <1>8, <1>9, <1>10

\* Linking a thread that is not in the chain.
LEMMA InsertLinked ==
    ASSUME NEW s, Linked(s), NEW i \in 1 .. (Len(s) + 1),
           NEW t \in Threads, ~Contains(s, t)
    PROVE  /\ Linked(InsertAt(s, i, t)) /\ InsertAt(s, i, t) # <<>>
           /\ Head(InsertAt(s, i, t)) = IF i = 1 THEN t ELSE Head(s)
           /\ \A u : Contains(InsertAt(s, i, t), u) <=> u = t \/ Contains(s, u)
  <1>. DEFINE w == InsertAt(s, i, t)
  <1>1. /\ w \in Seq(Threads) /\ Len(w) = Len(s) + 1
        /\ \A j \in 1 .. (Len(s) + 1) :
               w[j] = IF j < i THEN s[j] ELSE IF j = i THEN t ELSE s[j - 1]
    <2>1. s \in Seq(Threads)
      BY DEF Linked
    <2>2. w \in Seq(Threads) /\ Len(w) = Len(s) + 1
      BY <2>1, InsertAtElements
    <2>3. \A j \in 1 .. (Len(s) + 1) :
              w[j] = IF j < i THEN s[j] ELSE IF j = i THEN t ELSE s[j - 1]
      BY <2>1, InsertAtElements
    <2> QED
      BY <2>2, <2>3
  <1>. HIDE DEF w
  <1>2. /\ Len(s) \in Nat /\ DOMAIN w = 1 .. (Len(s) + 1)
        /\ \A j \in 1 .. Len(s) : s[j] # t
    BY <1>1, LinkedElements, LenProperties DEF Contains
  <1>3. IsInjective(w)
    <2> SUFFICES ASSUME NEW j \in 1 .. (Len(s) + 1), NEW k \in 1 .. (Len(s) + 1), w[j] = w[k]
                 PROVE  j = k
      BY <1>2 DEF IsInjective
    <2>1. /\ j < i => j \in 1 .. Len(s)
          /\ j > i => j - 1 \in 1 .. Len(s)
          /\ k < i => k \in 1 .. Len(s)
          /\ k > i => k - 1 \in 1 .. Len(s)
      BY <1>2
    <2>2. /\ j < i => w[j] = s[j]
          /\ j = i => w[j] = t
          /\ j > i => w[j] = s[j - 1]
      BY <1>1, <1>2
    <2>3. /\ k < i => w[k] = s[k]
          /\ k = i => w[k] = t
          /\ k > i => w[k] = s[k - 1]
      BY <1>1, <1>2
    <2>4. \A m, n \in 1 .. Len(s) : s[m] = s[n] => m = n
      BY LinkedElements
    <2>5. CASE j = i \/ k = i
      BY <1>2, <2>1, <2>2, <2>3, <2>5
    <2>6. CASE j < i /\ k < i
      BY <2>1, <2>2, <2>3, <2>4, <2>6
    <2>7. CASE j > i /\ k > i
      <3>1. j - 1 = k - 1
        BY <2>1, <2>2, <2>3, <2>4, <2>7
      <3> QED
        BY <1>2, <3>1
    <2>8. ~(j < i /\ k > i)
      <3> SUFFICES ASSUME j < i, k > i PROVE FALSE
        OBVIOUS
      <3>1. j = k - 1
        BY <2>1, <2>2, <2>3, <2>4
      <3> QED
        BY <1>2, <3>1
    <2>9. ~(j > i /\ k < i)
      <3> SUFFICES ASSUME j > i, k < i PROVE FALSE
        OBVIOUS
      <3>1. j - 1 = k
        BY <2>1, <2>2, <2>3, <2>4
      <3> QED
        BY <1>2, <3>1
    <2> QED
      BY <1>2, <2>5, <2>6, <2>7, <2>8, <2>9
  <1>4. w # <<>> /\ Head(w) = w[1] /\ 1 \in 1 .. (Len(s) + 1)
    BY <1>1, <1>2, EmptySeq
  <1>5. Head(w) = IF i = 1 THEN t ELSE Head(s)
    <2>1. i # 1 => s # <<>> /\ w[1] = s[1]
      BY <1>1, <1>2
    <2> QED
      BY <1>1, <1>4, <2>1, LinkedElements
  <1>6. ASSUME NEW u, Contains(w, u)
        PROVE  u = t \/ Contains(s, u)
    <2>1. PICK j \in 1 .. (Len(s) + 1) : w[j] = u
      BY <1>1, <1>6 DEF Contains
    <2>2. /\ j < i => j \in 1 .. Len(s)
          /\ j > i => j - 1 \in 1 .. Len(s)
      BY <1>2
    <2> QED
      BY <1>1, <1>2, <2>1, <2>2 DEF Contains
  <1>7. ASSUME NEW u, Contains(s, u)
        PROVE  Contains(w, u)
    <2>1. PICK j \in 1 .. Len(s) : s[j] = u
      BY <1>7 DEF Contains
    <2>2. CASE j < i
      BY <1>1, <1>2, <2>1, <2>2 DEF Contains
    <2>3. CASE ~(j < i)
      <3>1. j + 1 \in 1 .. (Len(s) + 1) /\ ~(j + 1 < i) /\ j + 1 # i /\ (j + 1) - 1 = j
        BY <1>2, <2>3
      <3>2. w[j + 1] = s[(j + 1) - 1]
        BY <1>1, <3>1
      <3>3. w[j + 1] = u
        BY <2>1, <3>1, <3>2
      <3> QED
        BY <1>1, <3>1, <3>3 DEF Contains
    <2> QED
      BY <2>2, <2>3
  <1>8. Contains(w, t)
    BY <1>1, <1>2 DEF Contains
  <1> QED
    BY <1>1, <1>3, <1>4, <1>5, <1>6, <1>7, <1>8 DEF Linked, w

-----------------------------------------------------------------------------
\* The walk of NutThreadAddPriQueue ends, behind every thread of the same or
\* a higher priority and in front of one of a lower priority, if any.
LEMMA PriPositionInRange ==
    ASSUME NEW s, Linked(s), NEW pri \in [Threads -> Nat], NEW t \in Threads
    PROVE  /\ PriPosition(s, t, pri) \in 1 .. (Len(s) + 1)
           /\ \A j \in 1 .. (PriPosition(s, t, pri) - 1) : pri[s[j]] <= pri[t]
           /\ PriPosition(s, t, pri) <= Len(s) => pri[s[PriPosition(s, t, pri)]] > pri[t]
  <1>. DEFINE Stops(i) == i <= Len(s) => pri[s[i]] > pri[t]
              T == {i \in 1 .. (Len(s) + 1) : Stops(i)}
  <1>0. Len(s) \in Nat /\ \A j \in 1 .. Len(s) : s[j] \in Threads
    BY LinkedElements
  <1>1. T \in SUBSET Nat /\ Len(s) + 1 \in T
    BY <1>0
  <1>2. PICK i \in T : \A y \in T : i <= y
    <2>. HIDE DEF T
    <2> QED
      BY <1>1, LeastIndex
  <1>3. ASSUME NEW j \in 1 .. (i - 1)
        PROVE  pri[s[j]] <= pri[t]
    <2>1. j \in 1 .. Len(s) /\ j \in 1 .. (Len(s) + 1) /\ ~(i <= j)
      BY <1>0
    <2>2. ~Stops(j)
      BY <1>2, <2>1
    <2>3. pri[s[j]] \in Nat /\ pri[t] \in Nat
      BY <1>0, <2>1
    <2> QED
      BY <2>1, <2>2, <2>3
  <1>4. /\ i \in 1 .. (Len(s) + 1)
        /\ \A j \in 1 .. (i - 1) : pri[s[j]] <= pri[t]
        /\ i <= Len(s) => pri[s[i]] > pri[t]
    BY <1>2, <1>3
  <1> QED
    BY <1>4 DEF PriPosition

\* NutThreadAddPriQueue: the thread is linked, and nobody else's place in
\* the chain is lost.
LEMMA AddPriLinked ==
    ASSUME NEW s, IsSignaled(s) \/ Linked(s), NEW pri \in [Threads -> Nat],
           NEW t \in Threads, ~Contains(s, t)
    PROVE  /\ Linked(AddPri(s, t, pri)) /\ AddPri(s, t, pri) # <<>>
           /\ \A u \in Threads : Contains(AddPri(s, t, pri), u) <=> u = t \/ Contains(s, u)
  <1>1. CASE IsSignaled(s)
    BY <1>1, SingleLinked, MarkHoldsNobody DEF AddPri
  <1>2. CASE Linked(s)
    <2>1. ~IsSignaled(s)
      BY <1>2, LinkedElements
    <2> QED
      BY <1>2, <2>1, PriPositionInRange, InsertLinked DEF AddPri
  <1> QED
    BY <1>1, <1>2

\* A root without threads: the caller is the only one, with at most the
\* latched event pending.
LEMMA AddToEmpty ==
    ASSUME NEW s, IsSignaled(s) \/ s = <<>>, NEW pri \in [Threads -> Nat],
           NEW t \in Threads, NEW pec \in [Threads -> Nat]
    PROVE  /\ AddPri(s, t, pri) = <<t>>
           /\ AddPec(pec, s, t, pri) \in [Threads -> Nat]
           /\ \A u \in Threads \ {t} : AddPec(pec, s, t, pri)[u] = pec[u]
  <1>1. CASE IsSignaled(s)
    BY <1>1 DEF AddPri, AddPec
  <1>2. CASE s = <<>>
    <2>1. Linked(s) /\ Len(s) = 0
      BY <1>2, EmptyLinked
    <2>2. ~IsSignaled(s) /\ PriPosition(s, t, pri) \in 1 .. 1
      BY <2>1, LinkedElements, PriPositionInRange
    <2>3. AddPec(pec, s, t, pri) = [pec EXCEPT ![t] = 0]
      BY <2>1, <2>2 DEF AddPec
    <2>4. AddPri(s, t, pri) = InsertAt(s, 1, t)
      BY <2>2 DEF AddPri
    <2>5. InsertAt(s, 1, t) = <<t>>
      <3>1. s \in Seq(Threads) /\ 1 \in 1 .. (Len(s) + 1)
        BY <2>1 DEF Linked
      <3>2. /\ InsertAt(s, 1, t) \in Seq(Threads)
            /\ Len(InsertAt(s, 1, t)) = Len(s) + 1
            /\ \A j \in 1 .. (Len(s) + 1) :
                   InsertAt(s, 1, t)[j] = IF j < 1 THEN s[j]
                                          ELSE IF j = 1 THEN t ELSE s[j - 1]
        BY <3>1, InsertAtElements
      <3>3. <<t>> \in Seq(Threads) /\ Len(<<t>>) = 1 /\ <<t>>[1] = t
        OBVIOUS
      <3>4. Len(InsertAt(s, 1, t)) = 1 /\ InsertAt(s, 1, t)[1] = t
        BY <2>1, <3>2
      <3> QED
        BY <3>2, <3>3, <3>4, SeqEqual
    <2> QED
      BY <2>3, <2>4, <2>5
  <1> QED
    BY <1>1, <1>2

\* The run queue, where nobody has events pending: the counters of the
\* others do not change.
LEMMA AddToQuietQueue ==
    ASSUME NEW s, Linked(s), NEW pri \in [Threads -> Nat], NEW t \in Threads,
           ~Contains(s, t), NEW pec \in [Threads -> Nat],
           \A u \in Threads : Contains(s, u) => pec[u] = 0
    PROVE  AddPec(pec, s, t, pri) = [pec EXCEPT ![t] = 0]
  <1>. DEFINE i == PriPosition(s, t, pri)
  <1>1. ~IsSignaled(s) /\ i \in 1 .. (Len(s) + 1) /\ Len(s) \in Nat
    BY LinkedElements, PriPositionInRange
  <1>. HIDE DEF i
  <1>2. CASE ~(i <= Len(s) /\ s[i] # t)
    BY <1>1, <1>2 DEF AddPec, i
  <1>3. CASE i <= Len(s) /\ s[i] # t
    <2>1. s[i] \in Threads /\ Contains(s, s[i])
      BY <1>1, <1>3, LinkedElements DEF Contains
    <2>2. pec[s[i]] = 0
      BY <2>1
    <2>3. [pec EXCEPT ![t] = pec[s[i]], ![s[i]] = 0] = [pec EXCEPT ![t] = 0]
      BY <2>1, <2>2
    <2>4. AddPec(pec, s, t, pri) = [pec EXCEPT ![t] = pec[s[i]], ![s[i]] = 0]
      BY <1>1, <1>3 DEF AddPec, i
    <2> QED
      BY <2>3, <2>4
  <1> QED
    BY <1>2, <1>3

\* Unlinking a thread without pending events changes no counter.
LEMMA DropNothing ==
    ASSUME NEW s, NEW t \in Threads, NEW pec \in [Threads -> Nat], pec[t] = 0
    PROVE  DropPec(pec, s, t) = pec
  BY DEF DropPec

\* A queue whose pending events are all counted in its head: unlinking one
\* of its threads leaves either the mark or a queue of which that is true
\* again, and takes out nobody but that thread.
LEMMA DropKeepsHead ==
    ASSUME NEW s, Linked(s), s # <<>>, NEW t \in Threads, Contains(s, t),
           NEW pec \in [Threads -> Nat],
           \A u \in Threads : Contains(s, u) /\ pec[u] > 0 => u = Head(s)
    PROVE  /\ IsSignaled(DropLatch(s, t, pec)) \/ Linked(DropLatch(s, t, pec))
           /\ \A u \in Threads : Contains(DropLatch(s, t, pec), u) <=> Contains(s, u) /\ u # t
           /\ DropPec(pec, s, t) \in [Threads -> Nat]
           /\ DropPec(pec, s, t)[t] = 0
           /\ \A u \in Threads : ~Contains(s, u) => DropPec(pec, s, t)[u] = pec[u]
           /\ \A u \in Threads : Contains(s, u) /\ DropPec(pec, s, t)[u] > 0 =>
                  /\ DropLatch(s, t, pec) # <<>> /\ ~IsSignaled(DropLatch(s, t, pec))
                  /\ Head(DropLatch(s, t, pec)) = u
  <1>0. Linked(Without(s, t)) /\ \A u : Contains(Without(s, t), u) <=> Contains(s, u) /\ u # t
    BY WithoutLinked
  <1>1. CASE pec[t] = 0
    <2>1. DropPec(pec, s, t) = pec /\ DropLatch(s, t, pec) = Without(s, t)
      BY <1>1, DropNothing DEF DropLatch
    <2>2. ASSUME NEW u \in Threads, Contains(s, u), pec[u] > 0
          PROVE  /\ Without(s, t) # <<>> /\ ~IsSignaled(Without(s, t))
                 /\ Head(Without(s, t)) = u
      <3>1. u = Head(s) /\ u # t
        BY <1>1, <2>2
      <3> QED
        BY <1>0, <3>1, WithoutHead, LinkedElements
    <2> QED
      BY <1>0, <1>1, <2>1, <2>2
  <1>2. CASE pec[t] > 0 /\ HasSuccessor(s, t)
    <2>1. t = Head(s)
      BY <1>2
    <2>2. /\ Without(s, t) # <<>> /\ Head(Without(s, t)) = Successor(s, t)
          /\ Contains(s, Successor(s, t)) /\ Successor(s, t) # t
          /\ Successor(s, t) \in Threads
      BY <1>2, <2>1, WithoutHead, LinkedElements
    <2>3. DropPec(pec, s, t) = [pec EXCEPT ![Successor(s, t)] = pec[t], ![t] = 0]
      BY <1>2 DEF DropPec
    <2>4. DropLatch(s, t, pec) = Without(s, t)
      BY <1>2 DEF DropLatch
    <2>. DEFINE x == Successor(s, t)
                p == DropPec(pec, s, t)
    <2>. HIDE DEF x, p
    <2>5. /\ x \in Threads /\ Contains(s, x) /\ p \in [Threads -> Nat]
          /\ \A u \in Threads : p[u] = IF u = t THEN 0 ELSE IF u = x THEN pec[t] ELSE pec[u]
      BY <2>2, <2>3 DEF x, p
    <2>6. ASSUME NEW u \in Threads, Contains(s, u), p[u] > 0
          PROVE  u = x
      <3> SUFFICES ASSUME u # x PROVE FALSE
        OBVIOUS
      <3>1. u # t /\ p[u] = pec[u]
        BY <2>5, <2>6
      <3> QED
        BY <2>1, <2>6, <3>1
    <2>7. Linked(DropLatch(s, t, pec)) /\ ~IsSignaled(DropLatch(s, t, pec))
      BY <1>0, <2>4, LinkedElements
    <2>8. p[t] = 0 /\ \A u \in Threads : ~Contains(s, u) => p[u] = pec[u]
      BY <2>5
    <2>9. DropLatch(s, t, pec) # <<>> /\ Head(DropLatch(s, t, pec)) = x
      BY <2>2, <2>4 DEF x
    <2> QED
      BY <1>0, <2>4, <2>5, <2>6, <2>7, <2>8, <2>9 DEF p
  <1>3. CASE pec[t] > 0 /\ ~HasSuccessor(s, t)
    <2>1. t = Head(s)
      BY <1>3
    <2>2. Without(s, t) = <<>>
      BY <1>3, <2>1, WithoutHead
    <2>3. DropLatch(s, t, pec) = <<SIGNALED>>
      BY <1>3, <2>2 DEF DropLatch
    <2>4. IsSignaled(DropLatch(s, t, pec))
      BY <2>3 DEF IsSignaled
    <2>5. DropPec(pec, s, t) = [pec EXCEPT ![t] = 0]
      BY <1>3 DEF DropPec
    <2>6. \A u \in Threads : Contains(s, u) => u = t
      BY <1>0, <2>2, EmptyLinked
    <2> QED
      BY <2>4, <2>5, <2>6, MarkHoldsNobody
  <1> QED
    BY <1>1, <1>2, <1>3

\* A thread put in front of a queue it is not in.
LEMMA ConsLinked ==
    ASSUME NEW s, Linked(s), NEW t \in Threads, ~Contains(s, t)
    PROVE  /\ Linked(<<t>> \o s)
           /\ \A u : Contains(<<t>> \o s, u) <=> u = t \/ Contains(s, u)
  <1>. DEFINE w == <<t>> \o s
  <1>1. s \in Seq(Threads) /\ Len(s) \in Nat /\ DOMAIN s = 1 .. Len(s)
    BY LinkedElements DEF Linked
  <1>2. /\ w \in Seq(Threads) /\ Len(w) = Len(s) + 1 /\ DOMAIN w = 1 .. (Len(s) + 1)
        /\ w[1] = t /\ \A j \in 2 .. (Len(s) + 1) : w[j] = s[j - 1]
    BY <1>1
  <1>. HIDE DEF w
  <1>3. \A u : Contains(w, u) <=> u = t \/ Contains(s, u)
    <2> SUFFICES ASSUME NEW u PROVE Contains(w, u) <=> u = t \/ Contains(s, u)
      OBVIOUS
    <2>1. ASSUME Contains(w, u), u # t PROVE Contains(s, u)
      <3>1. PICK j \in 1 .. (Len(s) + 1) : w[j] = u
        BY <1>2, <2>1 DEF Contains
      <3>2. j \in 2 .. (Len(s) + 1) /\ s[j - 1] = u /\ j - 1 \in 1 .. Len(s)
        BY <1>1, <1>2, <2>1, <3>1
      <3> QED
        BY <1>1, <3>2 DEF Contains
    <2>2. ASSUME Contains(s, u) PROVE Contains(w, u)
      <3>1. PICK j \in 1 .. Len(s) : s[j] = u
        BY <1>1, <2>2 DEF Contains
      <3>2. j + 1 \in 2 .. (Len(s) + 1) /\ w[j + 1] = s[(j + 1) - 1] /\ (j + 1) - 1 = j
        BY <1>1, <1>2, <3>1
      <3>3. w[j + 1] = u /\ j + 1 \in DOMAIN w
        BY <1>1, <1>2, <3>1, <3>2
      <3> QED
        BY <3>3 DEF Contains
    <2>3. Contains(w, t)
      BY <1>1, <1>2 DEF Contains
    <2> QED
      BY <2>1, <2>2, <2>3
  <1>4. IsInjective(w)
    <2> SUFFICES ASSUME NEW j \in DOMAIN w, NEW k \in DOMAIN w, w[j] = w[k] PROVE j = k
      BY DEF IsInjective
    <2>1. \A l \in 2 .. (Len(s) + 1) : l - 1 \in 1 .. Len(s) /\ w[l] = s[l - 1] /\ w[l] # t
      BY <1>1, <1>2 DEF Contains
    <2>2. j \in 1 .. (Len(s) + 1) /\ k \in 1 .. (Len(s) + 1)
      BY <1>2
    <2>3. CASE j = 1 \/ k = 1
      BY <1>1, <1>2, <2>1, <2>2, <2>3
    <2>4. CASE j # 1 /\ k # 1
      <3>1. j \in 2 .. (Len(s) + 1) /\ k \in 2 .. (Len(s) + 1)
        BY <1>1, <2>2, <2>4
      <3>2. s[j - 1] = s[k - 1] /\ j - 1 \in 1 .. Len(s) /\ k - 1 \in 1 .. Len(s)
        BY <2>1, <3>1
      <3>3. j - 1 = k - 1
        BY <3>2, LinkedElements
      <3> QED
        BY <1>1, <3>1, <3>3
    <2> QED
      BY <2>3, <2>4
  <1> QED
    BY <1>2, <1>3, <1>4 DEF Linked, w

-----------------------------------------------------------------------------
(***************************************************************************)
(* 2. The lists of the kernel.                                             *)
(***************************************************************************)

\* Where a thread without the CPU can be.
Parked == {"app", "ret", "retwait", "destroy", "dead"}

\* The running thread is in NutThreadResume, where it may not be ready.
Resuming ==
    \/ pc[self] \in {"scan", "take", "elapsed"}
    \/ pc[self] \in {"post", "pop", "ready"} /\ reg.ret = "scan"

\* One kernel call at a time: nobody else is in the middle of one.
OthersParked == \A t \in Threads \ {self} : pc[t] \in Parked

\* What the locals of the call in progress are at each place.
LocalsInv ==
    /\ pc[self] \in {"wait", "clear", "enter", "link"} => self \in Apps /\ reg.q \in Queues
    /\ pc[self] \in {"post", "pop", "ready", "bcast"} => reg.q \in Queues
    /\ At("bcast") => reg.ret \in {"bcast", "bcastasync"}
    /\ Resuming => reg.cur >= 1
    /\ At("take") => /\ reg.cur \in 1 .. Len(nutThreadList)
                     /\ td_qpec[nutThreadList[reg.cur]] > 0

\* No queue holds a thread twice, td_queue names the one queue a thread is
\* in, and the idle thread and the thread with the CPU are ready to run.
QueueInv ==
    /\ Linked(runQueue) /\ Contains(runQueue, Idle)
    /\ \A q \in Queues : IsSignaled(root[q]) \/ Linked(root[q])
    /\ \A t \in Threads : Contains(runQueue, t) => td_queue[t] = RunQ
    /\ \A q \in Queues, t \in Threads : Contains(root[q], t) => td_queue[t] = q
    /\ ~Resuming /\ ~At("link") => Contains(runQueue, self)

\* Between two critical sections of a call, what the first has read is
\* still so: interrupts neither link nor unlink threads.
TransitInv ==
    /\ At("clear") => IsSignaled(root[reg.q])
    /\ At("link") =>
          /\ Linked(root[reg.q]) /\ root[reg.q] # <<>>
          /\ reg.td = NoOne \/ Contains(root[reg.q], reg.td)
          /\ td_queue[self] = reg.q /\ ~Contains(root[reg.q], self)
    /\ At("pop") =>
          \/ reg.td = NoOne /\ (IsSignaled(root[reg.q]) \/ root[reg.q] = <<>>)
          \/ /\ Linked(root[reg.q]) /\ root[reg.q] # <<>>
             /\ reg.td = Head(root[reg.q])
    /\ At("ready") =>
          reg.td \in Threads /\ td_queue[reg.td] = reg.q /\ ~Contains(root[reg.q], reg.td)

\* Pending events are counted in the head of the queue td_queue names.
PendInv ==
    \A t \in Threads : td_qpec[t] > 0 =>
        /\ td_queue[t] \in Queues
        /\ Linked(root[td_queue[t]]) /\ root[td_queue[t]] # <<>>
        /\ Head(root[td_queue[t]]) = t

\* A living thread is somewhere, and who is somewhere lives.
Placed(t) ==
    \/ Contains(runQueue, t)
    \/ \E q \in Queues : Contains(root[q], t)
    \/ At("link") /\ t = self
    \/ At("ready") /\ t = reg.td
    \/ td_timer[t] = "wake"

LiveInv ==
    /\ Linked(nutThreadList)
    /\ \A t \in Threads : Contains(nutThreadList, t) <=> Placed(t)

\* A thread with a timer is not ready to run.
TimerInv ==
    \A t \in Threads :
        /\ td_timer[t] = "wake" => td_queue[t] = NoOne
        /\ td_timer[t] = "event" => td_queue[t] \in Queues

KernelInv ==
    /\ TypeOK /\ OthersParked /\ LocalsInv
    /\ QueueInv /\ TransitInv /\ PendInv /\ LiveInv /\ TimerInv

-----------------------------------------------------------------------------
\* A root is the mark or a chain of threads, and in both cases of its type.
LEMMA RootType ==
    ASSUME NEW s, IsSignaled(s) \/ Linked(s)
    PROVE  s \in Seq(Threads \cup {SIGNALED})
  <1>1. CASE IsSignaled(s)
    BY <1>1 DEF IsSignaled
  <1>2. CASE Linked(s)
    BY <1>2, SeqMonotonic DEF Linked
  <1> QED
    BY <1>1, <1>2

\* The state NutIdle leaves behind satisfies the invariant.
LEMMA KernelInit == Init => KernelInv
  <1> SUFFICES ASSUME Init PROVE KernelInv
    OBVIOUS
  <1>. USE KernelAssumption
  <1>1. /\ Linked(<<Main, Idle>>)
        /\ \A t : Contains(<<Main, Idle>>, t) <=> t \in {Main, Idle}
    <2>1. Linked(<<Idle>>) /\ \A t : Contains(<<Idle>>, t) <=> t = Idle
      BY SingleLinked
    <2>2. <<Main, Idle>> \in Seq(Threads) /\ IsInjective(<<Main, Idle>>)
      BY DEF IsInjective
    <2>3. \A t : Contains(<<Main, Idle>>, t) <=> t \in {Main, Idle}
      BY DEF Contains
    <2> QED
      BY <2>2, <2>3 DEF Linked
  <1>2. TypeOK
    <2>1. /\ runningThread \in Threads /\ runQueue \in Seq(Threads)
          /\ nutThreadList \in Seq(Threads) /\ killedThread \in Threads \cup {NoOne}
      BY DEF Init
    <2>2. root \in [Queues -> Seq(Threads \cup {SIGNALED})]
      BY EmptyLinked, RootType DEF Init
    <2>3. /\ td_qpec \in [Threads -> Nat]
          /\ td_queue \in [Threads -> Queues \cup {RunQ, NoOne}]
          /\ td_timer \in [Threads -> Timers]
          /\ td_state \in [Threads -> States]
          /\ pc \in [Threads -> Points]
      BY DEF Init, Timers, States, Points
    <2>4. td_priority \in [Threads -> 0 .. 255]
      BY DEF Init, IdlePriority, DefaultPriority
    <2>5. reg \in Regs
      BY DEF Init, Regs, NoRegs
    <2> QED
      BY <2>1, <2>2, <2>3, <2>4, <2>5 DEF TypeOK
  <1>3. pc[self] = "app" /\ self = Main
    BY DEF Init, self
  <1>4. OthersParked /\ LocalsInv
    BY <1>3 DEF OthersParked, LocalsInv, Init, Parked, Resuming, At, self
  <1>5. QueueInv
    <2>1. \A t \in Threads : Contains(runQueue, t) => td_queue[t] = RunQ
      BY <1>1 DEF Init
    <2>2. \A q \in Queues : Linked(root[q]) /\ \A t : ~Contains(root[q], t)
      BY EmptyLinked DEF Init
    <2>3. Linked(runQueue) /\ Contains(runQueue, Idle) /\ Contains(runQueue, self)
      BY <1>1, <1>3 DEF Init
    <2> QED
      BY <2>1, <2>2, <2>3 DEF QueueInv
  <1>6. TransitInv
    BY <1>3 DEF TransitInv, At
  <1>7. PendInv
    BY DEF PendInv, Init
  <1>8. LiveInv
    <2>1. \A q \in Queues : \A t : ~Contains(root[q], t)
      BY EmptyLinked DEF Init
    <2>2. \A t \in Threads : Placed(t) <=> Contains(runQueue, t)
      BY <1>3, <2>1 DEF Placed, At, Init
    <2> QED
      BY <1>1, <2>2 DEF LiveInv, Init
  <1>9. TimerInv
    BY DEF TimerInv, Init
  <1> QED
    BY <1>2, <1>4, <1>5, <1>6, <1>7, <1>8, <1>9 DEF KernelInv

-----------------------------------------------------------------------------
\* A root that no thread waits at.
Unthreaded(s) == IsSignaled(s) \/ s = <<>>

\* The mark and the null pointer: nobody waits there.
LEMMA UnthreadedHoldsNobody ==
    ASSUME NEW s, Unthreaded(s)
    PROVE  /\ IsSignaled(s) \/ Linked(s)
           /\ \A u \in Threads : ~Contains(s, u)
           /\ ~HasThreads(s)
           /\ ~(Linked(s) /\ s # <<>>)
  BY EmptyLinked, MarkHoldsNobody, LinkedElements DEF Unthreaded, HasThreads

\* Steps that only move the running thread through its call: every queue
\* keeps its threads, and counters and timers are at most cleared.
Calm ==
    /\ UNCHANGED <<runningThread, nutThreadList, td_queue, td_priority>>
    /\ td_state' \in [Threads -> States]
    /\ Linked(runQueue')
    /\ \A t \in Threads : Contains(runQueue', t) <=> Contains(runQueue, t)
    /\ killedThread' \in Threads \cup {NoOne}
    /\ root' \in [Queues -> Seq(Threads \cup {SIGNALED})]
    /\ \A q \in Queues : root'[q] = root[q] \/ (Unthreaded(root[q]) /\ Unthreaded(root'[q]))
    /\ td_qpec' \in [Threads -> Nat]
    /\ \A t \in Threads : td_qpec'[t] > 0 => td_qpec[t] > 0
    /\ td_timer' \in [Threads -> Timers]
    /\ \A t \in Threads : td_timer'[t] = td_timer[t]
                         \/ (td_timer'[t] = "none" /\ td_timer[t] # "wake")

\* A calm step of the running thread that does not put a thread in transit
\* preserves the invariant, given what it says of its new locals.
LEMMA CalmStep ==
    ASSUME KernelInv, Calm, NEW p \in Points \ {"link", "ready"},
           pc[self] \notin {"link", "ready"}, pc' = [pc EXCEPT ![self] = p],
           reg' \in Regs, LocalsInv', TransitInv', Resuming => Resuming'
    PROVE  KernelInv'
  <1>1. /\ self' = self /\ self \in Threads
        /\ ~At("link") /\ ~At("link")' /\ ~At("ready") /\ ~At("ready")'
    BY DEF self, At, Calm, KernelInv, TypeOK
  <1>2. \A q \in Queues : \A t \in Threads : Contains(root'[q], t) <=> Contains(root[q], t)
    BY UnthreadedHoldsNobody DEF Calm
  <1>3. QueueInv'
    <2>1. \A q \in Queues : IsSignaled(root'[q]) \/ Linked(root'[q])
      BY UnthreadedHoldsNobody DEF KernelInv, QueueInv, Calm
    <2>2. Contains(runQueue', self) \/ Resuming'
      BY <1>1 DEF KernelInv, QueueInv, Calm
    <2>3. Contains(runQueue', Idle)
      BY KernelAssumption DEF KernelInv, QueueInv, Calm
    <2> QED
      BY <1>1, <1>2, <2>1, <2>2, <2>3 DEF KernelInv, QueueInv, Calm
  <1>4. PendInv'
    <2> SUFFICES ASSUME NEW t \in Threads, td_qpec'[t] > 0
                 PROVE  /\ td_queue[t] \in Queues
                        /\ Linked(root'[td_queue[t]]) /\ root'[td_queue[t]] # <<>>
                        /\ Head(root'[td_queue[t]]) = t
      BY DEF PendInv, Calm
    <2>1. /\ td_queue[t] \in Queues
          /\ Linked(root[td_queue[t]]) /\ root[td_queue[t]] # <<>>
          /\ Head(root[td_queue[t]]) = t
      BY DEF KernelInv, PendInv, Calm
    <2> QED
      BY <2>1, UnthreadedHoldsNobody DEF Calm
  <1>5. LiveInv'
    <2>1. \A t \in Threads : Placed(t)' <=> Placed(t)
      BY <1>1, <1>2 DEF Placed, Calm
    <2> QED
      BY <2>1 DEF KernelInv, LiveInv, Calm
  <1>6. TimerInv'
    BY DEF KernelInv, TimerInv, Calm
  <1>7. TypeOK' /\ OthersParked'
    BY <1>1 DEF KernelInv, TypeOK, OthersParked, Calm, Linked
  <1> QED
    BY <1>3, <1>4, <1>5, <1>6, <1>7 DEF KernelInv

\* A step that touches no queue and no thread structure is calm.
LEMMA StillCalm ==
    ASSUME KernelInv,
           UNCHANGED <<runningThread, runQueue, root, nutThreadList, killedThread, tcb>>
    PROVE  Calm
  BY DEF Calm, KernelInv, TypeOK, QueueInv, tcb

\* A step that sets or clears the mark where nobody waits is calm.
LEMMA MarkCalm ==
    ASSUME KernelInv, UNCHANGED <<runningThread, runQueue, nutThreadList, killedThread, tcb>>,
           NEW q \in Queues, NEW x, Unthreaded(x), Unthreaded(root[q]),
           root' = [root EXCEPT ![q] = x]
    PROVE  Calm
  <1>1. x \in Seq(Threads \cup {SIGNALED})
    BY UnthreadedHoldsNobody, RootType
  <1>2. /\ root' \in [Queues -> Seq(Threads \cup {SIGNALED})]
        /\ root'[q] = x
        /\ \A r \in Queues \ {q} : root'[r] = root[r]
    BY <1>1 DEF KernelInv, TypeOK
  <1>3. \A r \in Queues : root'[r] = root[r] \/ (Unthreaded(root[r]) /\ Unthreaded(root'[r]))
    BY <1>2
  <1> QED
    BY <1>2, <1>3 DEF Calm, KernelInv, TypeOK, QueueInv, tcb

\* NutEventWaitNext and NutEventBroadcast forget an event nobody waits for.
LEMMA ForgetCalm ==
    ASSUME KernelInv, UNCHANGED <<runningThread, runQueue, nutThreadList, killedThread, tcb>>,
           NEW q \in Queues, root' = [root EXCEPT ![q] = IF IsSignaled(@) THEN <<>> ELSE @]
    PROVE  Calm
  <1>1. CASE IsSignaled(root[q])
    <2>1. root' = [root EXCEPT ![q] = <<>>] /\ Unthreaded(root[q]) /\ Unthreaded(<<>>)
      BY <1>1 DEF Unthreaded
    <2> QED
      BY <2>1, MarkCalm
  <1>2. CASE ~IsSignaled(root[q])
    <2>1. root' = root
      BY <1>2 DEF KernelInv, TypeOK
    <2> QED
      BY <2>1, StillCalm
  <1> QED
    BY <1>1, <1>2

\* What the actions start from.
LEMMA AtPlace ==
    ASSUME KernelInv
    PROVE  /\ self \in Threads /\ reg \in Regs /\ pc \in [Threads -> Points]
           /\ DOMAIN root = Queues
           /\ \A q \in Queues : HasThreads(root[q]) \/ Unthreaded(root[q])
           /\ \A q \in Queues : HasThreads(root[q]) => Linked(root[q]) /\ root[q] # <<>>
  BY DEF KernelInv, TypeOK, self, QueueInv, HasThreads, Unthreaded

\* NutEventWait and NutEventWaitNext begin: only locals and a stale mark.
LEMMA EventWaitPreserves ==
    ASSUME KernelInv, NEW q \in Queues, NEW ms \in BOOLEAN,
           EventWait(q, ms) \/ EventWaitNext(q, ms)
    PROVE  KernelInv'
  <1>1. /\ UNCHANGED <<runningThread, runQueue, nutThreadList, killedThread, tcb>>
        /\ pc[self] = "app" /\ self \in Apps
        /\ pc' = [pc EXCEPT ![self] = "wait"]
        /\ reg' = [NoRegs EXCEPT !.q = q, !.ms = ms, !.after = "retwait"]
        /\ \/ root' = root
           \/ root' = [root EXCEPT ![q] = IF IsSignaled(@) THEN <<>> ELSE @]
    BY DEF EventWait, EventWaitNext, Free, At, Goto, lists
  <1>2. /\ self' = self /\ pc'[self] = "wait" /\ reg'.q = q
        /\ reg' \in Regs
    BY <1>1, AtPlace, KernelAssumption DEF self, NoRegs, Regs
  <1>3. Calm
    BY <1>1, StillCalm, ForgetCalm
  <1>4. LocalsInv'
    BY <1>1, <1>2 DEF LocalsInv, Resuming, At
  <1>5. TransitInv'
    BY <1>2 DEF TransitInv, At
  <1> QED
    BY <1>1, <1>2, <1>3, <1>4, <1>5, CalmStep DEF Resuming, Points

\* NutEventWait has read the root: what it has read of the mark stays true.
LEMMA WaitReadPreserves == ASSUME KernelInv, WaitRead PROVE KernelInv'
  <1>1. PICK p \in {"clear", "enter"} :
           /\ UNCHANGED <<runningThread, runQueue, root, nutThreadList, killedThread, tcb, reg>>
           /\ pc[self] = "wait" /\ pc' = [pc EXCEPT ![self] = p]
           /\ p = "clear" => IsSignaled(root[reg.q])
    BY DEF WaitRead, At, Goto, lists
  <1>2. self' = self /\ pc'[self] = p /\ self \in Apps /\ reg.q \in Queues /\ reg' \in Regs
    BY <1>1, AtPlace DEF self, KernelInv, LocalsInv
  <1>3. Calm
    BY <1>1, StillCalm
  <1>4. LocalsInv'
    BY <1>1, <1>2 DEF LocalsInv, Resuming, At
  <1>5. TransitInv'
    BY <1>1, <1>2 DEF TransitInv, At
  <1> QED
    BY <1>1, <1>2, <1>3, <1>4, <1>5, CalmStep DEF Resuming, Points

\* NutEventWait takes the latched event: nobody waits at the root it clears.
LEMMA WaitClearPreserves == ASSUME KernelInv, WaitClear PROVE KernelInv'
  <1>1. /\ UNCHANGED <<runningThread, runQueue, nutThreadList, killedThread, tcb>>
        /\ pc[self] = "clear" /\ reg' = NoRegs
        /\ pc' = [pc EXCEPT ![self] = "yield"]
        /\ root' = [root EXCEPT ![reg.q] = <<>>]
    BY DEF WaitClear, At, Goto
  <1>2. reg.q \in Queues /\ Unthreaded(root[reg.q])
    BY <1>1 DEF KernelInv, LocalsInv, TransitInv, At, Unthreaded
  <1>3. self' = self /\ pc'[self] = "yield" /\ reg' \in Regs
    BY <1>1, AtPlace DEF self, NoRegs, Regs
  <1>4. Calm
    BY <1>1, <1>2, MarkCalm DEF Unthreaded
  <1>5. LocalsInv' /\ TransitInv'
    BY <1>1, <1>3 DEF LocalsInv, TransitInv, Resuming, At
  <1> QED
    BY <1>1, <1>3, <1>4, <1>5, CalmStep DEF Resuming, Points

\* NutEventPost and NutEventPostAsync begin.
LEMMA EventPostPreserves ==
    ASSUME KernelInv, NEW q \in Queues, NEW async \in BOOLEAN, EventPost(q, async)
    PROVE  KernelInv'
  <1>1. PICK ret \in {"app", "yield"} :
           /\ UNCHANGED <<runningThread, runQueue, root, nutThreadList, killedThread, tcb>>
           /\ pc[self] = "app"
           /\ pc' = [pc EXCEPT ![self] = "post"]
           /\ reg' = [NoRegs EXCEPT !.q = q, !.ret = ret]
    BY DEF EventPost, Free, At, Goto, lists
  <1>2. /\ self' = self /\ pc'[self] = "post" /\ reg'.q = q /\ reg'.ret = ret
        /\ reg' \in Regs
    BY <1>1, AtPlace, KernelAssumption DEF self, NoRegs, Regs
  <1>3. Calm
    BY <1>1, StillCalm
  <1>4. LocalsInv' /\ TransitInv'
    BY <1>1, <1>2 DEF LocalsInv, TransitInv, Resuming, At
  <1> QED
    BY <1>1, <1>2, <1>3, <1>4, CalmStep DEF Resuming, Points

\* NutEventBroadcast(Async) begins: a latched event is forgotten.
LEMMA EventBroadcastPreserves ==
    ASSUME KernelInv, NEW q \in Queues, NEW async \in BOOLEAN, EventBroadcast(q, async)
    PROVE  KernelInv'
  <1>1. /\ UNCHANGED <<runningThread, runQueue, nutThreadList, killedThread, tcb>>
        /\ pc[self] = "app"
        /\ root' = [root EXCEPT ![q] = IF IsSignaled(@) THEN <<>> ELSE @]
    BY DEF EventBroadcast, Free, At
  <1>2. PICK p \in {"post", "app", "yield"} :
           /\ pc' = [pc EXCEPT ![self] = p]
           /\ IF p = "post"
              THEN \E ret \in {"bcast", "bcastasync"} :
                       reg' = [NoRegs EXCEPT !.q = q, !.ret = ret]
              ELSE reg' = NoRegs
    BY DEF EventBroadcast, Goto
  <1>3. /\ self' = self /\ pc'[self] = p /\ reg' \in Regs
        /\ p = "post" => reg'.q = q /\ reg'.ret \in {"bcast", "bcastasync"}
    <2>1. NoRegs \in Regs
      BY DEF NoRegs, Regs
    <2>2. ASSUME NEW ret \in {"bcast", "bcastasync"}, reg' = [NoRegs EXCEPT !.q = q, !.ret = ret]
          PROVE  reg' \in Regs /\ reg'.q = q /\ reg'.ret = ret
      BY <2>2 DEF NoRegs, Regs
    <2> QED
      BY <1>1, <1>2, <2>1, <2>2, AtPlace DEF self
  <1>4. Calm
    BY <1>1, ForgetCalm
  <1>5. LocalsInv' /\ TransitInv'
    BY <1>1, <1>3 DEF LocalsInv, TransitInv, Resuming, At
  <1> QED
    BY <1>1, <1>2, <1>3, <1>4, <1>5, CalmStep DEF Resuming, Points

\* NutEventBroadcast looks for the next thread that waits.
LEMMA BroadcastNextPreserves == ASSUME KernelInv, BroadcastNext PROVE KernelInv'
  <1>1. /\ UNCHANGED <<runningThread, runQueue, root, nutThreadList, killedThread, tcb>>
        /\ pc[self] = "bcast"
    BY DEF BroadcastNext, At, lists
  <1>2. PICK p \in {"post", "app", "yield"} :
           /\ pc' = [pc EXCEPT ![self] = p]
           /\ IF p = "post" THEN reg' = reg ELSE reg' = NoRegs
    BY DEF BroadcastNext, Goto
  <1>3. reg.q \in Queues /\ reg.ret \in {"bcast", "bcastasync"}
    BY <1>1 DEF KernelInv, LocalsInv, At
  <1>4. self' = self /\ pc'[self] = p /\ reg' \in Regs
    <2>1. NoRegs \in Regs
      BY DEF NoRegs, Regs
    <2> QED
      BY <1>1, <1>2, <2>1, AtPlace DEF self
  <1>5. Calm
    BY <1>1, StillCalm
  <1>6. LocalsInv' /\ TransitInv'
    BY <1>1, <1>2, <1>3, <1>4 DEF LocalsInv, TransitInv, Resuming, At
  <1> QED
    BY <1>1, <1>2, <1>4, <1>5, <1>6, CalmStep DEF Resuming, Points

\* Where a post goes on, and that it leaves NutThreadResume only when it
\* has not been called from there.
LEMMA PostDoneMoves ==
    ASSUME KernelInv, pc[self] \in {"post", "pop", "ready"}, PostDone,
           UNCHANGED runningThread
    PROVE  /\ \E p \in {"app", "yield", "scan", "bcast"} : pc' = [pc EXCEPT ![self] = p]
           /\ reg' \in Regs /\ LocalsInv' /\ TransitInv' /\ (Resuming => Resuming')
           /\ pc'[self] \notin {"link", "ready"}
  <1>0. /\ reg \in Regs /\ reg.q \in Queues /\ self \in Threads /\ self' = self
        /\ pc \in [Threads -> Points]
    BY AtPlace DEF KernelInv, LocalsInv, self
  <1>1. CASE reg.ret \in {"app", "yield"}
    <2>1. pc' = [pc EXCEPT ![self] = reg.ret] /\ reg' = NoRegs /\ ~Resuming
      BY <1>1 DEF PostDone, Goto, Resuming
    <2>2. pc'[self] = reg.ret /\ reg' \in Regs
      BY <1>0, <2>1 DEF NoRegs, Regs
    <2>3. LocalsInv' /\ TransitInv'
      BY <1>0, <1>1, <2>2 DEF LocalsInv, TransitInv, Resuming, At
    <2> QED
      BY <1>1, <2>1, <2>2, <2>3
  <1>2. CASE reg.ret = "scan"
    <2>1. /\ pc' = [pc EXCEPT ![self] = "scan"]
          /\ reg' = [NoRegs EXCEPT !.cur = reg.cur + 1, !.after = reg.after]
      BY <1>2 DEF PostDone, Goto
    <2>2. pc'[self] = "scan" /\ reg' \in Regs /\ reg'.cur >= 1
      <3>1. reg.cur \in Nat /\ reg.cur + 1 \in Nat /\ reg.cur + 1 >= 1
            /\ reg.after \in {"ret", "retwait", "destroy"}
        BY <1>0 DEF Regs
      <3>2. reg' \in Regs /\ reg'.cur = reg.cur + 1
        BY <2>1, <3>1 DEF NoRegs, Regs
      <3> QED
        BY <1>0, <2>1, <3>1, <3>2
    <2>3. LocalsInv' /\ TransitInv' /\ Resuming'
      BY <1>0, <2>2 DEF LocalsInv, TransitInv, Resuming, At
    <2> QED
      BY <2>1, <2>2, <2>3
  <1>3. CASE reg.ret \in {"bcast", "bcastasync"}
    <2>1. pc' = [pc EXCEPT ![self] = "bcast"] /\ reg' = [reg EXCEPT !.td = NoOne] /\ ~Resuming
      BY <1>3 DEF PostDone, Goto, Resuming
    <2>2. /\ pc'[self] = "bcast" /\ reg' \in Regs
          /\ reg'.q = reg.q /\ reg'.ret = reg.ret
      BY <1>0, <2>1 DEF Regs
    <2>3. LocalsInv' /\ TransitInv'
      BY <1>0, <1>3, <2>2 DEF LocalsInv, TransitInv, Resuming, At
    <2> QED
      BY <2>1, <2>2, <2>3
  <1> QED
    BY <1>0, <1>1, <1>2, <1>3 DEF Regs

\* A post has read the root: the thread it found is and stays the head.
LEMMA PostReadPreserves == ASSUME KernelInv, PostRead PROVE KernelInv'
  <1>1. /\ UNCHANGED <<runningThread, runQueue, root, nutThreadList, killedThread, tcb>>
        /\ pc[self] = "post" /\ reg.q \in Queues
    BY DEF PostRead, At, lists, KernelInv, LocalsInv
  <1>2. Calm
    BY <1>1, StillCalm
  <1>3. CASE IsSignaled(root[reg.q])
    <2>1. PostDone
      BY <1>3 DEF PostRead
    <2> QED
      BY <1>1, <1>2, <2>1, PostDoneMoves, CalmStep DEF Points
  <1>4. CASE ~IsSignaled(root[reg.q])
    <2>1. PICK td : /\ td = IF root[reg.q] = <<>> THEN NoOne ELSE Head(root[reg.q])
                    /\ pc' = [pc EXCEPT ![self] = "pop"]
                    /\ reg' = [reg EXCEPT !.td = td]
      BY <1>4 DEF PostRead, Goto
    <2>2. root[reg.q] # <<>> => Linked(root[reg.q]) /\ Head(root[reg.q]) \in Threads
      BY <1>1, <1>4, LinkedElements DEF KernelInv, QueueInv
    <2>3. /\ self' = self /\ pc'[self] = "pop" /\ reg' \in Regs
          /\ reg'.q = reg.q /\ reg'.ret = reg.ret /\ reg'.cur = reg.cur /\ reg'.td = td
      BY <1>1, <2>1, <2>2, AtPlace DEF self, Regs
    <2>4. LocalsInv'
      BY <1>1, <2>3 DEF LocalsInv, Resuming, At, KernelInv
    <2>5. TransitInv'
      BY <1>1, <2>1, <2>2, <2>3 DEF TransitInv, At
    <2> QED
      BY <1>1, <1>2, <2>1, <2>3, <2>4, <2>5, CalmStep DEF Resuming, Points
  <1> QED
    BY <1>3, <1>4

\* NutThreadResume looks at the counter of one thread.
LEMMA ScanPreserves == ASSUME KernelInv, Scan PROVE KernelInv'
  <1>1. /\ UNCHANGED <<runningThread, runQueue, root, nutThreadList, killedThread, tcb>>
        /\ pc[self] = "scan" /\ reg.cur >= 1 /\ reg \in Regs /\ Resuming
    BY AtPlace DEF Scan, At, lists, KernelInv, LocalsInv, Resuming
  <1>2. PICK p \in {"scan", "elapsed", "take"} :
           /\ pc' = [pc EXCEPT ![self] = p]
           /\ reg' = IF p = "scan" THEN [reg EXCEPT !.cur = @ + 1] ELSE reg
           /\ p = "take" => /\ ~(reg.cur > Len(nutThreadList))
                            /\ td_qpec[nutThreadList[reg.cur]] # 0
    <2>1. CASE reg.cur > Len(nutThreadList)
      BY <2>1 DEF Scan, Goto
    <2>2. CASE ~(reg.cur > Len(nutThreadList)) /\ td_qpec[nutThreadList[reg.cur]] = 0
      <3>1. pc' = [pc EXCEPT ![self] = "scan"]
        BY <1>1, <2>2, AtPlace DEF Scan
      <3> QED
        BY <2>2, <3>1 DEF Scan
    <2>3. CASE ~(reg.cur > Len(nutThreadList)) /\ td_qpec[nutThreadList[reg.cur]] # 0
      BY <2>3 DEF Scan, Goto
    <2> QED
      BY <2>1, <2>2, <2>3
  <1>3. /\ self' = self /\ pc'[self] = p /\ reg' \in Regs /\ reg'.cur >= 1
        /\ p = "take" => reg' = reg
    BY <1>1, <1>2, AtPlace DEF self, Regs
  <1>4. Calm
    BY <1>1, StillCalm
  <1>5. p = "take" => /\ reg.cur \in 1 .. Len(nutThreadList)
                      /\ td_qpec[nutThreadList[reg.cur]] > 0
    <2>1. Len(nutThreadList) \in Nat /\ reg.cur \in Nat
      BY <1>1, LinkedElements DEF KernelInv, LiveInv, Regs
    <2>2. \A i \in 1 .. Len(nutThreadList) : td_qpec[nutThreadList[i]] \in Nat
      BY LinkedElements DEF KernelInv, LiveInv, TypeOK
    <2> QED
      BY <1>1, <1>2, <2>1, <2>2
  <1>6. LocalsInv' /\ TransitInv'
    BY <1>1, <1>3, <1>5 DEF LocalsInv, TransitInv, Resuming, At, tcb
  <1> QED
    BY <1>1, <1>2, <1>3, <1>4, <1>6, CalmStep DEF Resuming, Points

\* The event taken off a counter goes to the queue its thread waits in.
LEMMA ScanTakePreserves == ASSUME KernelInv, ScanTake PROVE KernelInv'
  <1>. DEFINE td == nutThreadList[reg.cur]
              q  == td_queue[td]
  <1>1. /\ UNCHANGED <<runningThread, runQueue, root, nutThreadList, killedThread,
                       td_queue, td_timer, td_state, td_priority>>
        /\ pc[self] = "take"
        /\ td_qpec' = [td_qpec EXCEPT ![td] = @ - 1]
    BY DEF ScanTake, At, lists
  <1>2. td \in Threads /\ td_qpec[td] > 0
    BY <1>1, LinkedElements DEF KernelInv, LocalsInv, LiveInv, At
  <1>3. q \in Queues /\ q # RunQ /\ ~IsSignaled(root[q])
    BY <1>2, LinkedElements, KernelAssumption DEF KernelInv, PendInv
  <1>4. /\ pc' = [pc EXCEPT ![self] = "post"]
        /\ reg' = [reg EXCEPT !.q = q, !.ret = "scan"]
    BY <1>3 DEF ScanTake, Goto
  <1>. HIDE DEF q, td
  <1>5. Calm
    <2>1. td_qpec \in [Threads -> Nat]
      BY DEF KernelInv, TypeOK
    <2>2. td_qpec' \in [Threads -> Nat] /\ \A t \in Threads : td_qpec'[t] > 0 => td_qpec[t] > 0
      BY <1>1, <1>2, <2>1
    <2> QED
      BY <1>1, <2>2 DEF Calm, KernelInv, TypeOK, QueueInv
  <1>6. reg \in Regs /\ reg.cur >= 1
    BY <1>1, AtPlace DEF KernelInv, LocalsInv, Resuming
  <1>7. /\ self' = self /\ pc'[self] = "post" /\ reg' \in Regs
        /\ reg'.q = q /\ reg'.ret = "scan" /\ reg'.cur = reg.cur
    BY <1>1, <1>3, <1>4, <1>6, AtPlace DEF self, Regs
  <1>8. LocalsInv' /\ TransitInv' /\ Resuming'
    BY <1>3, <1>6, <1>7 DEF LocalsInv, TransitInv, Resuming, At
  <1> QED
    BY <1>1, <1>4, <1>5, <1>7, <1>8, CalmStep DEF Points

\* Back in the caller of NutThreadResume: only the mark of a timeout is lost.
LEMMA ReturnPreserves == ASSUME KernelInv, Return PROVE KernelInv'
  <1>1. /\ UNCHANGED <<runningThread, runQueue, root, nutThreadList, killedThread,
                       td_qpec, td_queue, td_state, td_priority, reg>>
        /\ pc[self] \in {"ret", "retwait"}
        /\ pc' = [pc EXCEPT ![self] = "app"]
        /\ \/ td_timer' = td_timer
           \/ td_timer[self] = "timedout" /\ td_timer' = [td_timer EXCEPT ![self] = "none"]
    BY DEF Return, At, Goto, lists
  <1>2. self' = self /\ pc'[self] = "app" /\ reg' \in Regs
    BY <1>1, AtPlace DEF self
  <1>3. Calm
    BY <1>1, AtPlace DEF Calm, KernelInv, TypeOK, QueueInv, Timers
  <1>4. LocalsInv' /\ TransitInv'
    BY <1>2 DEF LocalsInv, TransitInv, Resuming, At
  <1> QED
    BY <1>1, <1>2, <1>3, <1>4, CalmStep DEF Resuming, Points

\* NutThreadDestroy in the idle loop frees the stack of a thread in no list.
LEMMA IdleDestroyPreserves == ASSUME KernelInv, IdleDestroy PROVE KernelInv'
  <1>1. /\ UNCHANGED <<runningThread, runQueue, root, nutThreadList, tcb, reg>>
        /\ pc[self] = "destroy" /\ killedThread' = NoOne
        /\ pc' = [pc EXCEPT ![self] = "app"]
    BY DEF IdleDestroy, At, Goto
  <1>2. self' = self /\ pc'[self] = "app" /\ reg' \in Regs
    BY <1>1, AtPlace DEF self
  <1>3. Calm
    BY <1>1 DEF Calm, KernelInv, TypeOK, QueueInv, tcb
  <1>4. LocalsInv' /\ TransitInv'
    BY <1>2 DEF LocalsInv, TransitInv, Resuming, At
  <1> QED
    BY <1>1, <1>2, <1>3, <1>4, CalmStep DEF Resuming, Points

-----------------------------------------------------------------------------
\* An interrupt: latches an event or counts it in the head of the queue.
LEMMA PostFromIrqPreserves ==
    ASSUME KernelInv, NEW q \in Queues, PostFromIrq(q)
    PROVE  KernelInv'
  <1>1. UNCHANGED <<runningThread, runQueue, nutThreadList, killedThread,
                    td_queue, td_timer, td_state, td_priority, pc, reg>>
    BY DEF PostFromIrq
  <1>2. self' = self /\ (Resuming' <=> Resuming) /\ \A p : At(p)' <=> At(p)
    BY <1>1 DEF self, Resuming, At
  <1>. DEFINE h == Head(root[q])
  <1>3. CASE root[q] = <<>> /\ root' = [root EXCEPT ![q] = <<SIGNALED>>] /\ td_qpec' = td_qpec
    <2>1. Unthreaded(root[q]) /\ Unthreaded(<<SIGNALED>>)
      BY <1>3 DEF Unthreaded, IsSignaled
    <2>2. Calm
      BY <1>1, <1>3, <2>1, MarkCalm DEF tcb
    <2>3. \A r \in Queues :
              /\ \A t \in Threads : Contains(root'[r], t) <=> Contains(root[r], t)
              /\ IsSignaled(root'[r]) \/ Linked(root'[r])
              /\ Linked(root[r]) /\ root[r] # <<>> => root'[r] = root[r]
              /\ IsSignaled(root[r]) => root'[r] = root[r]
      <3>1. ~IsSignaled(root[q])
        BY <1>3, LinkedElements, EmptyLinked
      <3>2. \A r \in Queues \ {q} : root'[r] = root[r]
        BY <1>3, AtPlace
      <3>3. root'[q] = <<SIGNALED>>
        BY <1>3, AtPlace
      <3> QED
        BY <2>1, <3>1, <3>2, <3>3, UnthreadedHoldsNobody, <1>3 DEF KernelInv, QueueInv
    <2>4. TypeOK' /\ OthersParked' /\ TimerInv'
      <3>1. root' \in [Queues -> Seq(Threads \cup {SIGNALED})]
        BY <2>2 DEF Calm
      <3>2. TypeOK'
        BY <1>1, <1>3, <3>1 DEF KernelInv, TypeOK
      <3> QED
        BY <1>1, <1>2, <3>2 DEF KernelInv, OthersParked, TimerInv
    <2>5. LocalsInv'
      BY <1>1, <1>2, <1>3 DEF KernelInv, LocalsInv
    <2>6. QueueInv'
      BY <1>1, <1>2, <2>3 DEF KernelInv, QueueInv
    <2>7. PendInv'
      BY <1>1, <1>3, <2>3 DEF KernelInv, PendInv
    <2>8. TransitInv'
      <3>1. At("clear") => TransitInv'
        BY <1>1, <1>2, <2>3 DEF KernelInv, TransitInv, LocalsInv, At
      <3>2. At("link") => TransitInv'
        BY <1>1, <1>2, <2>3, AtPlace DEF KernelInv, TransitInv, LocalsInv, At
      <3>3. At("pop") => TransitInv'
        <4>1. CASE Linked(root[reg.q]) /\ root[reg.q] # <<>> /\ At("pop")
          BY <1>1, <1>2, <2>3, <4>1 DEF KernelInv, TransitInv, LocalsInv, At
        <4>2. CASE Unthreaded(root[reg.q]) /\ At("pop")
          <5>1. reg.td = NoOne /\ reg.q \in Queues
            BY <4>2, UnthreadedHoldsNobody DEF KernelInv, TransitInv, LocalsInv, At
          <5>2. Unthreaded(root'[reg.q])
            BY <1>3, <2>1, <4>2, <5>1, AtPlace
          <5> QED
            BY <1>1, <1>2, <4>2, <5>1, <5>2 DEF TransitInv, At, Unthreaded
        <4> QED
          BY <4>1, <4>2 DEF KernelInv, TransitInv, Unthreaded
      <3>4. At("ready") => TransitInv'
        BY <1>1, <1>2, <2>3 DEF KernelInv, TransitInv, LocalsInv, At
      <3> QED
        BY <1>2, <3>1, <3>2, <3>3, <3>4 DEF TransitInv
    <2>9. LiveInv'
      <3>1. \A t \in Threads : Placed(t)' <=> Placed(t)
        BY <1>1, <1>2, <2>3 DEF Placed
      <3> QED
        BY <1>1, <3>1 DEF KernelInv, LiveInv
    <2> QED
      BY <2>4, <2>5, <2>6, <2>7, <2>8, <2>9 DEF KernelInv
  <1>4. CASE HasThreads(root[q]) /\ td_qpec' = [td_qpec EXCEPT ![h] = @ + 1] /\ root' = root
    <2>1. Linked(root[q]) /\ root[q] # <<>> /\ h \in Threads /\ td_queue[h] = q
      BY <1>4, AtPlace, LinkedElements DEF KernelInv, QueueInv
    <2>. HIDE DEF h
    <2>2. /\ td_qpec' \in [Threads -> Nat]
          /\ \A t \in Threads : td_qpec'[t] > 0 => t = h \/ td_qpec[t] > 0
          /\ \A t \in Threads : td_qpec[t] > 0 => td_qpec'[t] > 0
      BY <1>4, <2>1 DEF KernelInv, TypeOK
    <2>3. TypeOK' /\ OthersParked' /\ TimerInv' /\ QueueInv' /\ TransitInv'
      BY <1>1, <1>2, <1>4, <2>2
      DEF KernelInv, TypeOK, OthersParked, TimerInv, QueueInv, TransitInv
    <2>4. LocalsInv'
      <3>1. At("take") => nutThreadList[reg.cur] \in Threads
        BY LinkedElements DEF KernelInv, LocalsInv, LiveInv
      <3> QED
        BY <1>1, <1>2, <2>2, <3>1 DEF KernelInv, LocalsInv
    <2>5. PendInv'
      BY <1>1, <1>4, <2>1, <2>2 DEF KernelInv, PendInv, h
    <2>6. LiveInv'
      <3>1. \A t \in Threads : Placed(t)' <=> Placed(t)
        BY <1>1, <1>2, <1>4 DEF Placed
      <3> QED
        BY <1>1, <3>1 DEF KernelInv, LiveInv
    <2> QED
      BY <2>3, <2>4, <2>5, <2>6 DEF KernelInv
  <1>5. CASE UNCHANGED <<root, td_qpec>>
    <2>1. TypeOK' /\ OthersParked' /\ QueueInv' /\ TransitInv'
      BY <1>1, <1>2, <1>5 DEF KernelInv, TypeOK, OthersParked, QueueInv, TransitInv
    <2>4. LocalsInv'
      BY <1>1, <1>2, <1>5 DEF KernelInv, LocalsInv
    <2>2. PendInv' /\ TimerInv'
      BY <1>1, <1>5 DEF KernelInv, PendInv, TimerInv
    <2>3. LiveInv'
      <3>1. \A t \in Threads : Placed(t)' <=> Placed(t)
        BY <1>1, <1>2, <1>5 DEF Placed
      <3> QED
        BY <1>1, <3>1 DEF KernelInv, LiveInv
    <2> QED
      BY <2>1, <2>2, <2>3, <2>4 DEF KernelInv
  <1> QED
    BY <1>3, <1>4, <1>5 DEF PostFromIrq

-----------------------------------------------------------------------------
\* Nobody in the run queue has a timer, is in an event queue or has events
\* pending, so the counters do not move when threads get ready.
LEMMA ReadyIsQuiet ==
    ASSUME KernelInv, NEW t \in Threads, Contains(runQueue, t)
    PROVE  /\ td_queue[t] = RunQ /\ td_qpec[t] = 0
           /\ \A q \in Queues : ~Contains(root[q], t)
           /\ td_timer[t] \notin {"wake", "event"}
  <1>1. td_queue[t] = RunQ /\ RunQ \notin Queues /\ RunQ # NoOne
    BY KernelAssumption DEF KernelInv, QueueInv
  <1>2. td_qpec[t] \in Nat /\ ~(td_qpec[t] > 0)
    BY <1>1 DEF KernelInv, PendInv, TypeOK
  <1>3. \A q \in Queues : ~Contains(root[q], t)
    BY <1>1 DEF KernelInv, QueueInv
  <1> QED
    BY <1>1, <1>2, <1>3 DEF KernelInv, TimerInv

\* What the lemmas about queues ask of priorities and counters.
LEMMA PrioritiesAreNats ==
    ASSUME KernelInv
    PROVE  td_priority \in [Threads -> Nat] /\ td_qpec \in [Threads -> Nat]
  <1>1. td_priority \in [Threads -> 0 .. 255] /\ td_qpec \in [Threads -> Nat]
    BY DEF KernelInv, TypeOK
  <1>2. 0 .. 255 \subseteq Nat
    OBVIOUS
  <1> QED
    BY <1>1, <1>2

\* NutThreadAddPriQueue on the run queue.
LEMMA MakingReady ==
    ASSUME KernelInv, NEW t \in Threads, ~Contains(runQueue, t),
           NEW pec \in [Threads -> Nat], NEW pri \in [Threads -> Nat],
           \A u \in Threads : Contains(runQueue, u) => pec[u] = 0
    PROVE  /\ Linked(AddPri(runQueue, t, pri))
           /\ \A u \in Threads : Contains(AddPri(runQueue, t, pri), u)
                                   <=> (u = t \/ Contains(runQueue, u))
           /\ AddPec(pec, runQueue, t, pri) = [pec EXCEPT ![t] = 0]
  <1>1. Linked(runQueue)
    BY DEF KernelInv, QueueInv
  <1> QED
    BY <1>1, AddPriLinked, AddToQuietQueue

\* The running thread taken out of the run queue and put in again.
LEMMA Requeueing ==
    ASSUME KernelInv, Contains(runQueue, self), NEW pri \in [Threads -> Nat]
    PROVE  /\ Linked(AddPri(Without(runQueue, self), self, pri))
           /\ AddPri(Without(runQueue, self), self, pri) # <<>>
           /\ \A u \in Threads : Contains(AddPri(Without(runQueue, self), self, pri), u)
                                   <=> Contains(runQueue, u)
           /\ DropPec(td_qpec, runQueue, self) = td_qpec
           /\ AddPec(td_qpec, Without(runQueue, self), self, pri) = td_qpec
           /\ [td_queue EXCEPT ![self] = RunQ] = td_queue
  <1>. DEFINE s == Without(runQueue, self)
  <1>1. self \in Threads /\ td_queue[self] = RunQ /\ td_qpec[self] = 0
    BY AtPlace, ReadyIsQuiet
  <1>2. Linked(s) /\ \A u : Contains(s, u) <=> Contains(runQueue, u) /\ u # self
    BY WithoutLinked DEF KernelInv, QueueInv
  <1>3. \A u \in Threads : Contains(s, u) => td_qpec[u] = 0
    BY <1>2, ReadyIsQuiet
  <1>. HIDE DEF s
  <1>4. /\ Linked(AddPri(s, self, pri)) /\ AddPri(s, self, pri) # <<>>
        /\ \A u \in Threads : Contains(AddPri(s, self, pri), u) <=> Contains(runQueue, u)
    BY <1>1, <1>2, AddPriLinked
  <1>5. AddPec(td_qpec, s, self, pri) = [td_qpec EXCEPT ![self] = 0]
    BY <1>1, <1>2, <1>3, PrioritiesAreNats, AddToQuietQueue
  <1>6. DropPec(td_qpec, runQueue, self) = td_qpec
    BY <1>1, PrioritiesAreNats, DropNothing
  <1>7. [td_qpec EXCEPT ![self] = 0] = td_qpec /\ [td_queue EXCEPT ![self] = RunQ] = td_queue
    BY <1>1 DEF KernelInv, TypeOK
  <1> QED
    BY <1>4, <1>5, <1>6, <1>7 DEF s

\* NutThreadYield: the same threads are ready, in another order.
LEMMA YieldPreserves == ASSUME KernelInv, Yield PROVE KernelInv'
  <1>1. /\ UNCHANGED <<runningThread, root, nutThreadList, killedThread,
                       td_timer, td_state, td_priority>>
        /\ pc[self] \in {"yield", "app"} /\ Requeue
        /\ pc' = [pc EXCEPT ![self] = "scan"]
        /\ \E after \in {"ret", "destroy"} :
               reg' = [NoRegs EXCEPT !.cur = 1, !.after = after]
    BY DEF Yield, At, Resume, Goto
  <1>2. self' = self /\ pc'[self] = "scan" /\ reg' \in Regs /\ reg'.cur = 1
    <2>1. ASSUME NEW after \in {"ret", "destroy"},
                 reg' = [NoRegs EXCEPT !.cur = 1, !.after = after]
          PROVE  reg' \in Regs /\ reg'.cur = 1
      BY <2>1 DEF NoRegs, Regs
    <2> QED
      BY <1>1, <2>1, AtPlace DEF self
  <1>3. Contains(runQueue, self)
    BY <1>1 DEF KernelInv, QueueInv, Resuming, At
  <1>4. Calm
    <2>1. /\ Linked(runQueue') /\ td_qpec' = td_qpec /\ td_queue' = td_queue
          /\ \A t \in Threads : Contains(runQueue', t) <=> Contains(runQueue, t)
      BY <1>1, <1>3, Requeueing, PrioritiesAreNats DEF Requeue, KernelInv, QueueInv
    <2> QED
      BY <1>1, <2>1 DEF Calm, KernelInv, TypeOK
  <1>5. LocalsInv' /\ TransitInv' /\ Resuming'
    BY <1>2 DEF LocalsInv, TransitInv, Resuming, At
  <1> QED
    BY <1>1, <1>2, <1>4, <1>5, CalmStep DEF Points

-----------------------------------------------------------------------------
\* A thread taken out of an event queue: its pending events stay with the
\* queue.
LEMMA Unqueueing ==
    ASSUME KernelInv, NEW q \in Queues, NEW t \in Threads, Contains(root[q], t)
    PROVE  LET s   == root[q]
               r   == DropLatch(s, t, td_qpec)
               pec == DropPec(td_qpec, s, t)
           IN  /\ td_queue[t] = q
               /\ IsSignaled(r) \/ Linked(r)
               /\ \A u \in Threads : Contains(r, u) <=> (Contains(s, u) /\ u # t)
               /\ pec \in [Threads -> Nat] /\ pec[t] = 0
               /\ \A u \in Threads : ~Contains(s, u) => pec[u] = td_qpec[u]
               /\ \A u \in Threads : (Contains(s, u) /\ pec[u] > 0) =>
                                        (Linked(r) /\ r # <<>> /\ Head(r) = u)
  <1>1. Linked(root[q]) /\ root[q] # <<>>
    <2>1. ~Unthreaded(root[q])
      BY UnthreadedHoldsNobody
    <2> QED
      BY <2>1, AtPlace
  <1>2. \A u \in Threads : Contains(root[q], u) => td_queue[u] = q
    BY DEF KernelInv, QueueInv
  <1>3. \A u \in Threads : (Contains(root[q], u) /\ td_qpec[u] > 0) => u = Head(root[q])
    BY <1>2 DEF KernelInv, PendInv
  <1>4. td_qpec \in [Threads -> Nat]
    BY PrioritiesAreNats
  <1> QED
    BY <1>1, <1>2, <1>3, <1>4, DropKeepsHead

\* The same, in the next state: nobody else's pending events are affected.
LEMMA UnqueuedPending ==
    ASSUME KernelInv, NEW q \in Queues, NEW t \in Threads, Contains(root[q], t),
           root' = [root EXCEPT ![q] = DropLatch(@, t, td_qpec)],
           td_qpec' = DropPec(td_qpec, root[q], t),
           \A u \in Threads \ {t} : td_queue'[u] = td_queue[u]
    PROVE  /\ root' \in [Queues -> Seq(Threads \cup {SIGNALED})]
           /\ td_qpec' \in [Threads -> Nat]
           /\ \A r \in Queues : IsSignaled(root'[r]) \/ Linked(root'[r])
           /\ \A r \in Queues, u \in Threads :
                  Contains(root'[r], u) <=> (Contains(root[r], u) /\ u # t)
           /\ PendInv'
  <1>. DEFINE r == DropLatch(root[q], t, td_qpec)
  <1>1. /\ td_queue[t] = q
        /\ IsSignaled(r) \/ Linked(r)
        /\ \A u \in Threads : Contains(r, u) <=> (Contains(root[q], u) /\ u # t)
        /\ td_qpec' \in [Threads -> Nat] /\ td_qpec'[t] = 0
        /\ \A u \in Threads : ~Contains(root[q], u) => td_qpec'[u] = td_qpec[u]
        /\ \A u \in Threads : (Contains(root[q], u) /\ td_qpec'[u] > 0) =>
                                 (Linked(r) /\ r # <<>> /\ Head(r) = u)
    BY Unqueueing
  <1>2. root' = [root EXCEPT ![q] = r]
    OBVIOUS
  <1>. HIDE DEF r
  <1>3. /\ root' \in [Queues -> Seq(Threads \cup {SIGNALED})]
        /\ root'[q] = r /\ \A x \in Queues \ {q} : root'[x] = root[x]
    BY <1>1, <1>2, RootType DEF KernelInv, TypeOK
  <1>4. \A x \in Queues, u \in Threads : Contains(root[x], u) => td_queue[u] = x
    BY DEF KernelInv, QueueInv
  <1>5. \A x \in Queues : IsSignaled(root'[x]) \/ Linked(root'[x])
    BY <1>1, <1>3 DEF KernelInv, QueueInv
  <1>6. \A x \in Queues, u \in Threads :
            Contains(root'[x], u) <=> (Contains(root[x], u) /\ u # t)
    BY <1>1, <1>3, <1>4
  <1>7. PendInv'
    <2> SUFFICES ASSUME NEW u \in Threads, td_qpec'[u] > 0
                 PROVE  /\ td_queue'[u] \in Queues
                        /\ Linked(root'[td_queue'[u]]) /\ root'[td_queue'[u]] # <<>>
                        /\ Head(root'[td_queue'[u]]) = u
      BY DEF PendInv
    <2>1. u # t /\ td_queue'[u] = td_queue[u]
      BY <1>1
    <2>2. CASE Contains(root[q], u)
      BY <1>1, <1>3, <1>4, <2>1, <2>2
    <2>3. CASE ~Contains(root[q], u)
      <3>1. /\ td_queue[u] \in Queues
            /\ Linked(root[td_queue[u]]) /\ root[td_queue[u]] # <<>>
            /\ Head(root[td_queue[u]]) = u
        BY <1>1, <2>3 DEF KernelInv, PendInv
      <3>2. td_queue[u] # q
        BY <2>3, <3>1, LinkedElements
      <3> QED
        BY <1>3, <2>1, <3>1, <3>2
    <2> QED
      BY <2>2, <2>3
  <1> QED
    BY <1>1, <1>3, <1>5, <1>6, <1>7

\* A post unlinks the thread it has read, which is in transit from then on,
\* or latches the event at a root that is still without a thread.
LEMMA PostPopPreserves == ASSUME KernelInv, PostPop PROVE KernelInv'
  <1>1. /\ UNCHANGED <<runningThread, runQueue, nutThreadList, killedThread,
                       td_queue, td_timer, td_state, td_priority>>
        /\ pc[self] = "pop" /\ reg.q \in Queues
    BY DEF PostPop, At, KernelInv, LocalsInv
  <1>2. CASE reg.td = NoOne
    <2>1. root' = [root EXCEPT ![reg.q] = <<SIGNALED>>] /\ td_qpec' = td_qpec /\ PostDone
      BY <1>2 DEF PostPop
    <2>2. Unthreaded(root[reg.q]) /\ Unthreaded(<<SIGNALED>>)
      <3>1. Linked(root[reg.q]) /\ root[reg.q] # <<>> => Head(root[reg.q]) # NoOne
        BY LinkedElements, KernelAssumption
      <3> QED
        BY <1>1, <1>2, <3>1 DEF KernelInv, TransitInv, At, Unthreaded, IsSignaled
    <2>3. Calm
      BY <1>1, <2>1, <2>2, MarkCalm DEF tcb
    <2> QED
      BY <1>1, <2>1, <2>3, PostDoneMoves, CalmStep DEF Points
  <1>3. CASE reg.td # NoOne
    <2>. DEFINE t == reg.td
                q == reg.q
    <2>1. /\ root' = [root EXCEPT ![q] = DropLatch(@, t, td_qpec)]
          /\ td_qpec' = DropPec(td_qpec, root[q], t)
          /\ pc' = [pc EXCEPT ![self] = "ready"] /\ reg' = reg
      BY <1>3 DEF PostPop, Goto
    <2>2. t \in Threads /\ Contains(root[q], t) /\ td_queue[t] = q
      <3>1. Linked(root[q]) /\ root[q] # <<>> /\ t = Head(root[q])
        BY <1>1, <1>3 DEF KernelInv, TransitInv, At
      <3> QED
        BY <1>1, <3>1, LinkedElements DEF KernelInv, QueueInv
    <2>3. /\ root' \in [Queues -> Seq(Threads \cup {SIGNALED})]
          /\ td_qpec' \in [Threads -> Nat]
          /\ \A r \in Queues : IsSignaled(root'[r]) \/ Linked(root'[r])
          /\ \A r \in Queues, u \in Threads :
                 Contains(root'[r], u) <=> (Contains(root[r], u) /\ u # t)
          /\ PendInv'
      BY <1>1, <2>1, <2>2, UnqueuedPending
    <2>4. /\ self' = self /\ pc'[self] = "ready" /\ (Resuming' <=> Resuming)
          /\ \A u \in Threads \ {self} : pc'[u] = pc[u]
      BY <1>1, <2>1, AtPlace DEF self, Resuming
    <2>5. TypeOK' /\ OthersParked' /\ LocalsInv' /\ TimerInv'
      BY <1>1, <2>1, <2>3, <2>4, AtPlace
      DEF KernelInv, TypeOK, OthersParked, LocalsInv, TimerInv, At, Points
    <2>6. QueueInv'
      BY <1>1, <2>3, <2>4 DEF KernelInv, QueueInv, At
    <2>7. TransitInv'
      BY <1>1, <2>1, <2>2, <2>3, <2>4 DEF TransitInv, At
    <2>8. LiveInv'
      <3>1. \A u \in Threads : Placed(u)' <=> Placed(u)
        BY <1>1, <2>1, <2>2, <2>3, <2>4 DEF Placed, At
      <3> QED
        BY <1>1, <3>1 DEF KernelInv, LiveInv
    <2> QED
      BY <2>3, <2>5, <2>6, <2>7, <2>8 DEF KernelInv
  <1> QED
    BY <1>2, <1>3

\* A thread that is nowhere gets ready to run.
LEMMA GettingReady ==
    ASSUME KernelInv, NEW t \in Threads, MakeReady(t), UNCHANGED root,
           ~Contains(runQueue, t), \A q \in Queues : ~Contains(root[q], t)
    PROVE  /\ Linked(runQueue') /\ td_qpec' = td_qpec
           /\ \A u \in Threads : Contains(runQueue', u) <=> (u = t \/ Contains(runQueue, u))
           /\ td_queue' \in [Threads -> Queues \cup {RunQ, NoOne}]
           /\ td_state' \in [Threads -> States]
           /\ td_queue'[t] = RunQ /\ \A u \in Threads \ {t} : td_queue'[u] = td_queue[u]
           /\ PendInv'
  <1>1. td_qpec[t] = 0
    <2>1. td_qpec[t] \in Nat /\ ~(td_qpec[t] > 0)
      BY LinkedElements, PrioritiesAreNats DEF KernelInv, PendInv
    <2> QED
      BY <2>1
  <1>2. \A u \in Threads : Contains(runQueue, u) => td_qpec[u] = 0
    BY ReadyIsQuiet
  <1>3. /\ Linked(runQueue') /\ td_qpec' = [td_qpec EXCEPT ![t] = 0]
        /\ \A u \in Threads : Contains(runQueue', u) <=> (u = t \/ Contains(runQueue, u))
    BY <1>2, MakingReady, PrioritiesAreNats DEF MakeReady
  <1>4. td_qpec' = td_qpec
    BY <1>1, <1>3, PrioritiesAreNats
  <1>5. /\ td_queue' \in [Threads -> Queues \cup {RunQ, NoOne}]
        /\ td_state' \in [Threads -> States]
        /\ td_queue'[t] = RunQ /\ \A u \in Threads \ {t} : td_queue'[u] = td_queue[u]
    BY DEF MakeReady, KernelInv, TypeOK, States
  <1>6. PendInv'
    BY <1>1, <1>4, <1>5 DEF PendInv, KernelInv
  <1> QED
    BY <1>3, <1>4, <1>5, <1>6

\* A thread that gets ready leaves the queue it was in, if any; the others
\* stay where they are.
LEMMA QueuesAfterReady ==
    ASSUME KernelInv, NEW t \in Threads, Linked(runQueue'),
           UNCHANGED runningThread \/ Contains(runQueue', runningThread'),
           \A u \in Threads : Contains(runQueue', u) <=> (u = t \/ Contains(runQueue, u)),
           td_queue'[t] = RunQ, \A u \in Threads \ {t} : td_queue'[u] = td_queue[u],
           \A r \in Queues : IsSignaled(root'[r]) \/ Linked(root'[r]),
           \A r \in Queues, u \in Threads :
               Contains(root'[r], u) <=> (Contains(root[r], u) /\ u # t),
           Resuming => Resuming', ~At("link")
    PROVE  QueueInv'
  <1>1. /\ Contains(runQueue, Idle) /\ Idle \in Threads /\ self \in Threads
        /\ self' = self \/ Contains(runQueue', self')
        /\ \A u \in Threads : Contains(runQueue, u) => td_queue[u] = RunQ
        /\ \A q \in Queues, u \in Threads : Contains(root[q], u) => td_queue[u] = q
        /\ ~Resuming => Contains(runQueue, self)
    BY AtPlace, KernelAssumption DEF KernelInv, QueueInv, self
  <1>2. \A u \in Threads : Contains(runQueue', u) => td_queue'[u] = RunQ
    BY <1>1
  <1>3. \A q \in Queues, u \in Threads : Contains(root'[q], u) => td_queue'[u] = q
    BY <1>1
  <1>4. ~Resuming' => Contains(runQueue', self')
    BY <1>1
  <1>5. Contains(runQueue', Idle)
    BY <1>1
  <1> QED
    BY <1>2, <1>3, <1>4, <1>5 DEF QueueInv

\* A post makes the thread it has unlinked ready to run.
LEMMA PostReadyPreserves == ASSUME KernelInv, PostReady PROVE KernelInv'
  <1>. DEFINE t == reg.td
  <1>1. /\ UNCHANGED <<runningThread, root, nutThreadList, killedThread, td_priority>>
        /\ pc[self] = "ready" /\ reg.q \in Queues
        /\ MakeReady(t) /\ td_timer' = [td_timer EXCEPT ![t] = "none"] /\ PostDone
    BY DEF PostReady, StopTimer, At, KernelInv, LocalsInv
  <1>2. t \in Threads /\ td_queue[t] = reg.q /\ ~Contains(root[reg.q], t)
    BY <1>1 DEF KernelInv, TransitInv, At
  <1>3. ~Contains(runQueue, t) /\ \A q \in Queues : ~Contains(root[q], t)
    BY <1>1, <1>2, KernelAssumption DEF KernelInv, QueueInv
  <1>. HIDE DEF t
  <1>4. /\ Linked(runQueue') /\ td_qpec' = td_qpec
        /\ \A u \in Threads : Contains(runQueue', u) <=> (u = t \/ Contains(runQueue, u))
        /\ td_queue' \in [Threads -> Queues \cup {RunQ, NoOne}]
        /\ td_state' \in [Threads -> States]
        /\ td_queue'[t] = RunQ /\ \A u \in Threads \ {t} : td_queue'[u] = td_queue[u]
        /\ PendInv'
    BY <1>1, <1>2, <1>3, GettingReady
  <1>5. PICK p \in {"app", "yield", "scan", "bcast"} : pc' = [pc EXCEPT ![self] = p]
    BY <1>1, PostDoneMoves
  <1>6. reg' \in Regs /\ LocalsInv' /\ TransitInv' /\ (Resuming => Resuming')
    BY <1>1, PostDoneMoves
  <1>7. /\ self' = self /\ pc'[self] = p /\ ~At("link") /\ ~At("link")' /\ ~At("ready")'
        /\ \A u \in Threads \ {self} : pc'[u] = pc[u]
    BY <1>1, <1>5, AtPlace DEF self, At
  <1>8. /\ td_timer' \in [Threads -> Timers] /\ td_timer'[t] = "none"
        /\ \A u \in Threads \ {t} : td_timer'[u] = td_timer[u]
    BY <1>1, <1>2 DEF KernelInv, TypeOK, Timers
  <1>9. TypeOK'
    BY <1>1, <1>4, <1>5, <1>6, <1>8, AtPlace DEF KernelInv, TypeOK, Linked, Points
  <1>10. OthersParked' /\ TimerInv'
    BY <1>4, <1>7, <1>8 DEF KernelInv, OthersParked, TimerInv
  <1>11. QueueInv'
    <2>1. \A r \in Queues : IsSignaled(root'[r]) \/ Linked(root'[r])
      BY <1>1 DEF KernelInv, QueueInv
    <2>2. \A r \in Queues, u \in Threads :
              Contains(root'[r], u) <=> (Contains(root[r], u) /\ u # t)
      BY <1>1, <1>3
    <2> QED
      BY <1>1, <1>2, <1>4, <1>6, <1>7, <2>1, <2>2, QueuesAfterReady
  <1>12. LiveInv'
    <2>1. \A u \in Threads : Placed(u)' <=> Placed(u)
      BY <1>1, <1>4, <1>7, <1>8 DEF Placed, At, t
    <2> QED
      BY <1>1, <2>1 DEF KernelInv, LiveInv
  <1> QED
    BY <1>4, <1>6, <1>9, <1>10, <1>11, <1>12 DEF KernelInv

\* NutThreadWake: the thread that slept was in no queue.
LEMMA ThreadWakePreserves ==
    ASSUME KernelInv, NEW t \in Threads, ThreadWake(t)
    PROVE  KernelInv'
  <1>1. /\ UNCHANGED <<runningThread, root, nutThreadList, killedThread, td_priority, pc, reg>>
        /\ pc[self] = "elapsed" /\ td_timer[t] = "wake"
        /\ MakeReady(t) /\ td_timer' = [td_timer EXCEPT ![t] = "none"]
    BY DEF ThreadWake, At
  <1>2. ~Contains(runQueue, t) /\ \A q \in Queues : ~Contains(root[q], t)
    BY <1>1, KernelAssumption DEF KernelInv, QueueInv, TimerInv
  <1>3. /\ Linked(runQueue') /\ td_qpec' = td_qpec
        /\ \A u \in Threads : Contains(runQueue', u) <=> (u = t \/ Contains(runQueue, u))
        /\ td_queue' \in [Threads -> Queues \cup {RunQ, NoOne}]
        /\ td_state' \in [Threads -> States]
        /\ td_queue'[t] = RunQ /\ \A u \in Threads \ {t} : td_queue'[u] = td_queue[u]
        /\ PendInv'
    BY <1>1, <1>2, GettingReady
  <1>4. /\ self' = self /\ pc'[self] = "elapsed" /\ (Resuming' <=> Resuming)
        /\ ~At("link") /\ ~At("link")' /\ ~At("ready") /\ ~At("ready")'
    BY <1>1 DEF self, At, Resuming
  <1>5. /\ td_timer' \in [Threads -> Timers] /\ td_timer'[t] = "none"
        /\ \A u \in Threads \ {t} : td_timer'[u] = td_timer[u]
    BY <1>1 DEF KernelInv, TypeOK, Timers
  <1>6. TypeOK'
    BY <1>1, <1>3, <1>5 DEF KernelInv, TypeOK, Linked
  <1>7. OthersParked' /\ TimerInv'
    BY <1>1, <1>3, <1>4, <1>5 DEF KernelInv, OthersParked, TimerInv
  <1>8. LocalsInv' /\ TransitInv'
    BY <1>1, <1>4 DEF KernelInv, LocalsInv, TransitInv, At, Resuming
  <1>9. QueueInv'
    <2>1. \A r \in Queues : IsSignaled(root'[r]) \/ Linked(root'[r])
      BY <1>1 DEF KernelInv, QueueInv
    <2>2. \A r \in Queues, u \in Threads :
              Contains(root'[r], u) <=> (Contains(root[r], u) /\ u # t)
      BY <1>1, <1>2
    <2> QED
      BY <1>1, <1>3, <1>4, <2>1, <2>2, QueuesAfterReady
  <1>10. LiveInv'
    <2>1. \A u \in Threads : Placed(u)' <=> Placed(u)
      BY <1>1, <1>3, <1>4, <1>5 DEF Placed
    <2> QED
      BY <1>1, <2>1 DEF KernelInv, LiveInv
  <1> QED
    BY <1>3, <1>6, <1>7, <1>8, <1>9, <1>10 DEF KernelInv

\* NutEventTimeout moves the thread it finds to the run queue, and the events
\* pending there stay behind in its event queue.
LEMMA EventTimeoutPreserves ==
    ASSUME KernelInv, NEW t \in Threads, EventTimeout(t)
    PROVE  KernelInv'
  <1>. DEFINE q   == td_queue[t]
              pec == DropPec(td_qpec, root[q], t)
  <1>1. /\ UNCHANGED <<runningThread, nutThreadList, killedThread, td_priority, pc, reg>>
        /\ pc[self] = "elapsed" /\ td_timer[t] = "event" /\ Contains(root[q], t)
        /\ root' = [root EXCEPT ![q] = DropLatch(@, t, td_qpec)]
        /\ runQueue' = AddPri(runQueue, t, td_priority)
        /\ td_qpec' = AddPec(pec, runQueue, t, td_priority)
        /\ td_queue' = [td_queue EXCEPT ![t] = RunQ]
        /\ td_state' = [td_state EXCEPT ![t] = "READY"]
        /\ td_timer' = [td_timer EXCEPT ![t] = "timedout"]
    BY DEF EventTimeout, At
  <1>2. q \in Queues
    BY <1>1 DEF KernelInv, TimerInv
  <1>3. ~Contains(runQueue, t)
    BY <1>2, KernelAssumption DEF KernelInv, QueueInv
  <1>. HIDE DEF q, pec
  <1>4. pec \in [Threads -> Nat] /\ pec[t] = 0
        /\ \A u \in Threads : ~Contains(root[q], u) => pec[u] = td_qpec[u]
    BY <1>1, <1>2, Unqueueing DEF pec
  <1>5. \A u \in Threads : Contains(runQueue, u) => pec[u] = 0
    BY <1>2, <1>4, ReadyIsQuiet
  <1>6. /\ Linked(runQueue') /\ td_qpec' = [pec EXCEPT ![t] = 0]
        /\ \A u \in Threads : Contains(runQueue', u) <=> (u = t \/ Contains(runQueue, u))
    BY <1>1, <1>3, <1>4, <1>5, MakingReady, PrioritiesAreNats
  <1>7. td_qpec' = pec
    BY <1>4, <1>6
  <1>8. /\ td_queue' \in [Threads -> Queues \cup {RunQ, NoOne}]
        /\ td_state' \in [Threads -> States] /\ td_timer' \in [Threads -> Timers]
        /\ td_queue'[t] = RunQ /\ td_timer'[t] = "timedout"
        /\ \A u \in Threads \ {t} : td_queue'[u] = td_queue[u] /\ td_timer'[u] = td_timer[u]
    BY <1>1 DEF KernelInv, TypeOK, States, Timers
  <1>9. /\ root' \in [Queues -> Seq(Threads \cup {SIGNALED})]
        /\ td_qpec' \in [Threads -> Nat]
        /\ \A r \in Queues : IsSignaled(root'[r]) \/ Linked(root'[r])
        /\ \A r \in Queues, u \in Threads :
               Contains(root'[r], u) <=> (Contains(root[r], u) /\ u # t)
        /\ PendInv'
    <2>1. td_qpec' = DropPec(td_qpec, root[q], t)
      BY <1>7 DEF pec
    <2> QED
      BY <1>1, <1>2, <1>8, <2>1, UnqueuedPending
  <1>10. /\ self' = self /\ pc'[self] = "elapsed" /\ (Resuming' <=> Resuming)
         /\ ~At("link") /\ ~At("link")' /\ ~At("ready") /\ ~At("ready")'
    BY <1>1 DEF self, At, Resuming
  <1>11. TypeOK'
    BY <1>1, <1>6, <1>8, <1>9 DEF KernelInv, TypeOK, Linked
  <1>12. OthersParked' /\ TimerInv'
    BY <1>1, <1>8, <1>10 DEF KernelInv, OthersParked, TimerInv
  <1>13. LocalsInv' /\ TransitInv'
    BY <1>1, <1>10 DEF KernelInv, LocalsInv, TransitInv, At, Resuming
  <1>14. QueueInv'
    BY <1>1, <1>6, <1>8, <1>9, <1>10, QueuesAfterReady
  <1>15. LiveInv'
    <2>1. \A u \in Threads : Placed(u)' <=> Placed(u)
      BY <1>1, <1>2, <1>6, <1>8, <1>9, <1>10 DEF Placed
    <2> QED
      BY <1>1, <2>1 DEF KernelInv, LiveInv
  <1> QED
    BY <1>9, <1>11, <1>12, <1>13, <1>14, <1>15 DEF KernelInv

-----------------------------------------------------------------------------
\* Every call is over: nothing is assumed of its locals any more.
LEMMA EverybodyParked ==
    ASSUME runningThread' \in Threads, \A t \in Threads : pc'[t] \in Parked
    PROVE  /\ OthersParked' /\ LocalsInv' /\ TransitInv'
           /\ ~Resuming' /\ ~At("link")' /\ ~At("ready")'
  <1>1. pc'[self'] \in Parked /\ self' = runningThread'
    BY DEF self
  <1> QED
    BY <1>1 DEF OthersParked, LocalsInv, TransitInv, Resuming, At, Parked

\* NutThreadRemoveQueue by the running thread: its counter is 0, so nothing
\* is handed on, and the idle thread is left.
LEMMA LeavingRunQueue ==
    ASSUME KernelInv, self \in Apps, Contains(runQueue, self)
    PROVE  /\ Linked(Without(runQueue, self)) /\ Without(runQueue, self) # <<>>
           /\ \A u : Contains(Without(runQueue, self), u)
                        <=> (Contains(runQueue, u) /\ u # self)
           /\ Contains(Without(runQueue, self), Idle)
           /\ DropPec(td_qpec, runQueue, self) = td_qpec /\ td_qpec[self] = 0
           /\ \A q \in Queues : ~Contains(root[q], self)
           /\ td_timer[self] # "wake"
  <1>1. /\ Linked(Without(runQueue, self))
        /\ \A u : Contains(Without(runQueue, self), u)
                     <=> (Contains(runQueue, u) /\ u # self)
    BY WithoutLinked DEF KernelInv, QueueInv
  <1>2. Contains(Without(runQueue, self), Idle)
    BY <1>1 DEF KernelInv, QueueInv, Apps
  <1>3. Without(runQueue, self) # <<>>
    BY <1>2, EmptyLinked
  <1>4. /\ td_qpec[self] = 0 /\ td_timer[self] # "wake"
        /\ \A q \in Queues : ~Contains(root[q], self)
    BY AtPlace, ReadyIsQuiet
  <1>5. DropPec(td_qpec, runQueue, self) = td_qpec
    BY <1>4, AtPlace, PrioritiesAreNats, DropNothing
  <1> QED
    BY <1>1, <1>2, <1>3, <1>4, <1>5

\* The running thread leaves the run queue and at most enters the queue that
\* its td_queue is set to.
LEMMA QueuesAfterLeaving ==
    ASSUME KernelInv, self \in Apps, Contains(runQueue, self),
           runQueue' = Without(runQueue, self),
           \A u \in Threads \ {self} : td_queue'[u] = td_queue[u],
           \A r \in Queues : IsSignaled(root'[r]) \/ Linked(root'[r]),
           \A r \in Queues, u \in Threads : Contains(root'[r], u) =>
               (Contains(root[r], u) \/ (u = self /\ td_queue'[self] = r)),
           Resuming' \/ At("link")' \/ Contains(runQueue', self')
    PROVE  QueueInv'
  <1>1. /\ Linked(runQueue') /\ Contains(runQueue', Idle)
        /\ \A u : Contains(runQueue', u) <=> (Contains(runQueue, u) /\ u # self)
        /\ \A q \in Queues : ~Contains(root[q], self)
    BY LeavingRunQueue
  <1>2. \A u \in Threads : Contains(runQueue', u) => td_queue'[u] = RunQ
    BY <1>1 DEF KernelInv, QueueInv
  <1>3. \A q \in Queues, u \in Threads : Contains(root'[q], u) => td_queue'[u] = q
    BY <1>1 DEF KernelInv, QueueInv
  <1> QED
    BY <1>1, <1>2, <1>3 DEF QueueInv

\* The end of NutEventWait: the caller has at most a timer of its own and
\* goes on to NutThreadResume.
LEMMA FallingAsleep ==
    ASSUME KernelInv, FallAsleep, UNCHANGED runningThread
    PROVE  /\ pc' \in [Threads -> Points] /\ reg' \in Regs
           /\ pc'[self] = "scan" /\ self' = self
           /\ td_state' \in [Threads -> States] /\ td_timer' \in [Threads -> Timers]
           /\ td_timer'[self] \in {"none", "event"}
           /\ \A t \in Threads \ {self} : td_timer'[t] = td_timer[t]
           /\ OthersParked' /\ LocalsInv' /\ TransitInv' /\ Resuming'
           /\ ~At("link")' /\ ~At("ready")'
  <1>1. PICK tm \in {"none", "event"} : td_timer' = [td_timer EXCEPT ![self] = tm]
    BY DEF FallAsleep
  <1>2. /\ td_state' = [td_state EXCEPT ![self] = "SLEEP"]
        /\ pc' = [pc EXCEPT ![self] = "scan"]
        /\ reg' = [NoRegs EXCEPT !.cur = 1, !.after = "retwait"]
    BY DEF FallAsleep, Resume, Goto
  <1>3. /\ pc' \in [Threads -> Points] /\ pc'[self] = "scan" /\ self' = self
        /\ \A t \in Threads \ {self} : pc'[t] = pc[t]
    BY <1>2, AtPlace DEF self, Points
  <1>4. reg' \in Regs /\ reg'.cur = 1
    BY <1>2 DEF NoRegs, Regs
  <1>5. /\ td_state' \in [Threads -> States] /\ td_timer' \in [Threads -> Timers]
        /\ td_timer'[self] \in {"none", "event"}
        /\ \A t \in Threads \ {self} : td_timer'[t] = td_timer[t]
    BY <1>1, <1>2, AtPlace DEF KernelInv, TypeOK, States, Timers
  <1>6. OthersParked' /\ LocalsInv' /\ TransitInv' /\ Resuming' /\ ~At("link")' /\ ~At("ready")'
    BY <1>3, <1>4 DEF KernelInv, OthersParked, LocalsInv, TransitInv, Resuming, At
  <1> QED
    BY <1>3, <1>4, <1>5, <1>6

\* A thread begins to wait: in front of nobody, or on the way into the queue.
LEMMA WaitEnterPreserves == ASSUME KernelInv, WaitEnter PROVE KernelInv'
  <1>. DEFINE q == reg.q
              s == root[q]
  <1>1. /\ UNCHANGED <<runningThread, nutThreadList, killedThread, td_priority>>
        /\ pc[self] = "enter" /\ self \in Apps /\ q \in Queues
        /\ runQueue' = Without(runQueue, self)
        /\ td_queue' = [td_queue EXCEPT ![self] = q]
    BY DEF WaitEnter, At, KernelInv, LocalsInv
  <1>2. Contains(runQueue, self) /\ self \in Threads /\ self' = self
    BY <1>1, AtPlace DEF KernelInv, QueueInv, Resuming, At, self
  <1>3. /\ Linked(runQueue') /\ DropPec(td_qpec, runQueue, self) = td_qpec
        /\ \A u : Contains(runQueue', u) <=> (Contains(runQueue, u) /\ u # self)
        /\ \A r \in Queues : ~Contains(root[r], self)
        /\ td_qpec[self] = 0 /\ td_timer[self] # "wake"
    BY <1>1, <1>2, LeavingRunQueue
  <1>4. /\ td_queue' \in [Threads -> Queues \cup {RunQ, NoOne}]
        /\ td_queue'[self] = q /\ \A u \in Threads \ {self} : td_queue'[u] = td_queue[u]
    BY <1>1, <1>2 DEF KernelInv, TypeOK
  <1>5. td_qpec \in [Threads -> Nat] /\ td_priority \in [Threads -> Nat]
    BY PrioritiesAreNats
  <1>6. CASE HasThreads(s)
    <2>. DEFINE i  == PriPosition(s, self, td_priority)
                td == IF i <= Len(s) THEN s[i] ELSE NoOne
    <2>1. /\ UNCHANGED <<root, td_state, td_timer>>
          /\ td_qpec' = [td_qpec EXCEPT ![self] = 0]
          /\ pc' = [pc EXCEPT ![self] = "link"] /\ reg' = [reg EXCEPT !.td = td]
      BY <1>3, <1>6 DEF WaitEnter, Goto
    <2>2. Linked(s) /\ s # <<>>
      BY <1>1, <1>6, AtPlace
    <2>3. td = NoOne \/ (td \in Threads /\ Contains(s, td))
      <3>1. i \in 1 .. (Len(s) + 1)
        BY <1>2, <1>5, <2>2, PriPositionInRange
      <3>2. i <= Len(s) => i \in 1 .. Len(s)
        BY <2>2, <3>1, LinkedElements
      <3> QED
        BY <2>2, <3>2, LinkedElements DEF Contains
    <2>. HIDE DEF i, td
    <2>4. /\ pc' \in [Threads -> Points] /\ pc'[self] = "link" /\ reg' \in Regs
          /\ reg'.q = q /\ reg'.td = td
          /\ \A u \in Threads \ {self} : pc'[u] = pc[u]
      BY <2>1, <2>3, AtPlace DEF Regs, Points
    <2>5. td_qpec' = td_qpec
      BY <1>2, <1>3, <1>5, <2>1
    <2>6. TypeOK'
      BY <1>1, <1>3, <1>4, <2>1, <2>4, <2>5 DEF KernelInv, TypeOK, Linked
    <2>7. OthersParked' /\ LocalsInv'
      BY <1>1, <1>2, <2>4 DEF KernelInv, OthersParked, LocalsInv, Resuming, At
    <2>8. QueueInv'
      <3>1. At("link")'
        BY <1>2, <2>4 DEF At
      <3>2. \A r \in Queues : IsSignaled(root'[r]) \/ Linked(root'[r])
        BY <2>1 DEF KernelInv, QueueInv
      <3> QED
        BY <1>1, <1>2, <1>4, <2>1, <3>1, <3>2, QueuesAfterLeaving
    <2>9. TransitInv'
      BY <1>1, <1>2, <1>3, <1>4, <2>1, <2>2, <2>3, <2>4 DEF TransitInv, At
    <2>10. PendInv'
      BY <1>3, <1>4, <2>1, <2>5 DEF KernelInv, PendInv
    <2>11. LiveInv'
      <3>1. \A u \in Threads : Placed(u)' <=> Placed(u)
        BY <1>1, <1>2, <1>3, <2>1, <2>4 DEF Placed, At
      <3> QED
        BY <1>1, <3>1 DEF KernelInv, LiveInv
    <2>12. TimerInv'
      BY <1>1, <1>3, <1>4, <2>1 DEF KernelInv, TimerInv
    <2> QED
      BY <2>6, <2>7, <2>8, <2>9, <2>10, <2>11, <2>12 DEF KernelInv
  <1>7. CASE ~HasThreads(s)
    <2>1. /\ root' = [root EXCEPT ![q] = AddPri(s, self, td_priority)]
          /\ td_qpec' = AddPec(td_qpec, s, self, td_priority)
          /\ FallAsleep
      BY <1>3, <1>7 DEF WaitEnter
    <2>2. Unthreaded(s)
      BY <1>1, <1>7, AtPlace
    <2>3. /\ AddPri(s, self, td_priority) = <<self>>
          /\ td_qpec' \in [Threads -> Nat]
          /\ \A u \in Threads \ {self} : td_qpec'[u] = td_qpec[u]
      BY <1>2, <1>5, <2>1, <2>2, AddToEmpty DEF Unthreaded
    <2>4. /\ Linked(<<self>>) /\ <<self>> # <<>> /\ Head(<<self>>) = self
          /\ \A u : Contains(<<self>>, u) <=> u = self
      BY <1>2, SingleLinked
    <2>5. /\ root' \in [Queues -> Seq(Threads \cup {SIGNALED})]
          /\ root'[q] = <<self>> /\ \A r \in Queues \ {q} : root'[r] = root[r]
      BY <1>1, <2>1, <2>3, <2>4, RootType DEF KernelInv, TypeOK
    <2>. HIDE DEF q
    <2>6. /\ pc' \in [Threads -> Points] /\ reg' \in Regs /\ pc'[self] = "scan"
          /\ td_state' \in [Threads -> States] /\ td_timer' \in [Threads -> Timers]
          /\ td_timer'[self] \in {"none", "event"}
          /\ \A t \in Threads \ {self} : td_timer'[t] = td_timer[t]
          /\ OthersParked' /\ LocalsInv' /\ TransitInv' /\ Resuming'
          /\ ~At("link")' /\ ~At("ready")'
      BY <1>1, <2>1, FallingAsleep
    <2>7. TypeOK'
      BY <1>1, <1>3, <1>4, <2>3, <2>5, <2>6 DEF KernelInv, TypeOK, Linked
    <2>8. \A u \in Threads : ~Contains(s, u)
      BY <2>2, UnthreadedHoldsNobody
    <2>9. QueueInv'
      <3>1. \A r \in Queues : IsSignaled(root'[r]) \/ Linked(root'[r])
        BY <2>4, <2>5 DEF KernelInv, QueueInv
      <3>2. \A r \in Queues, u \in Threads : Contains(root'[r], u) =>
                (Contains(root[r], u) \/ (u = self /\ td_queue'[self] = r))
        BY <1>4, <2>4, <2>5
      <3> QED
        BY <1>1, <1>2, <1>4, <2>6, <3>1, <3>2, QueuesAfterLeaving
    <2>10. PendInv'
      <3> SUFFICES ASSUME NEW u \in Threads, td_qpec'[u] > 0
                   PROVE  /\ td_queue'[u] \in Queues
                          /\ Linked(root'[td_queue'[u]]) /\ root'[td_queue'[u]] # <<>>
                          /\ Head(root'[td_queue'[u]]) = u
        BY DEF PendInv
      <3>1. CASE u = self
        BY <1>1, <1>4, <2>4, <2>5, <3>1
      <3>2. CASE u # self
        <4>1. /\ td_queue[u] \in Queues
              /\ Linked(root[td_queue[u]]) /\ root[td_queue[u]] # <<>>
              /\ Head(root[td_queue[u]]) = u
          BY <2>3, <3>2 DEF KernelInv, PendInv
        <4>2. td_queue[u] # q
          BY <2>2, <4>1, UnthreadedHoldsNobody
        <4> QED
          BY <1>4, <2>5, <3>2, <4>1, <4>2
      <3> QED
        BY <3>1, <3>2
    <2>11. LiveInv'
      <3>1. \A u \in Threads : Placed(u)' <=> Placed(u)
        <4>1. /\ ~At("link") /\ ~At("ready")
              /\ \A r \in Queues : \A u \in Threads :
                    Contains(root'[r], u) <=> (Contains(root[r], u) \/ (u = self /\ r = q))
          BY <1>1, <2>4, <2>5, <2>8 DEF At
        <4> QED
          BY <1>1, <1>2, <1>3, <2>6, <4>1 DEF Placed
      <3> QED
        BY <1>1, <3>1 DEF KernelInv, LiveInv
    <2>12. TimerInv'
      BY <1>1, <1>4, <2>6 DEF KernelInv, TimerInv
    <2> QED
      BY <2>6, <2>7, <2>9, <2>10, <2>11, <2>12 DEF KernelInv
  <1> QED
    BY <1>6, <1>7

\* The thread comes in front of the one it has found, and takes over the
\* events pending there, exactly when it becomes the head of the queue.
LEMMA WaitLinkPreserves == ASSUME KernelInv, WaitLink PROVE KernelInv'
  <1>. DEFINE q  == reg.q
              s  == root[q]
              td == reg.td
              i  == IF td = NoOne THEN Len(s) + 1 ELSE Position(s, td)
  <1>1. /\ UNCHANGED <<runningThread, runQueue, nutThreadList, killedThread,
                       td_queue, td_priority>>
        /\ pc[self] = "link" /\ self \in Apps /\ q \in Queues /\ self \in Threads
        /\ root' = [root EXCEPT ![q] = InsertAt(s, i, self)]
        /\ td_qpec' = IF td = NoOne THEN td_qpec
                      ELSE [td_qpec EXCEPT ![self] = @ + td_qpec[td], ![td] = 0]
        /\ FallAsleep
    BY AtPlace DEF WaitLink, At, KernelInv, LocalsInv
  <1>2. /\ Linked(s) /\ s # <<>> /\ td_queue[self] = q /\ ~Contains(s, self)
        /\ td = NoOne \/ Contains(s, td)
    BY <1>1 DEF KernelInv, TransitInv, At
  <1>3. /\ Len(s) \in Nat /\ Len(s) >= 1
        /\ \A j, k \in 1 .. Len(s) : s[j] = s[k] => j = k
        /\ 1 \in 1 .. Len(s) /\ Head(s) = s[1] /\ Head(s) \in Threads
    BY <1>2, LinkedElements
  <1>4. /\ td # NoOne => td \in Threads /\ td # self /\ i \in 1 .. Len(s) /\ s[i] = td
        /\ td = NoOne => i = Len(s) + 1
        /\ i \in 1 .. (Len(s) + 1)
    BY <1>2, <1>3, PositionFinds, LinkedElements
  <1>. DEFINE w == InsertAt(s, i, self)
  <1>5. /\ Linked(w) /\ w # <<>> /\ Head(w) = IF i = 1 THEN self ELSE Head(s)
        /\ \A u : Contains(w, u) <=> u = self \/ Contains(s, u)
    BY <1>1, <1>2, <1>4, InsertLinked
  <1>. HIDE DEF w, i
  <1>6. /\ root' \in [Queues -> Seq(Threads \cup {SIGNALED})]
        /\ root'[q] = w /\ \A r \in Queues \ {q} : root'[r] = root[r]
    <2>1. root' = [root EXCEPT ![q] = w]
      BY <1>1 DEF w
    <2> QED
      BY <1>1, <1>5, <2>1, RootType DEF KernelInv, TypeOK
  <1>7. /\ pc' \in [Threads -> Points] /\ reg' \in Regs /\ pc'[self] = "scan" /\ self' = self
        /\ td_state' \in [Threads -> States] /\ td_timer' \in [Threads -> Timers]
        /\ td_timer'[self] \in {"none", "event"}
        /\ \A t \in Threads \ {self} : td_timer'[t] = td_timer[t]
        /\ OthersParked' /\ LocalsInv' /\ TransitInv' /\ Resuming'
        /\ ~At("link")' /\ ~At("ready")'
    BY <1>1, FallingAsleep
  <1>8. td_qpec \in [Threads -> Nat] /\ td_qpec[self] = 0
    <2>1. td_qpec \in [Threads -> Nat]
      BY PrioritiesAreNats
    <2>2. ~(td_qpec[self] > 0)
      BY <1>1, <1>2, LinkedElements DEF KernelInv, PendInv
    <2> QED
      BY <1>1, <2>1, <2>2
  <1>9. /\ td_qpec' \in [Threads -> Nat]
        /\ td = NoOne => td_qpec' = td_qpec
        /\ td # NoOne => /\ td_qpec'[self] = td_qpec[td] /\ td_qpec'[td] = 0
                        /\ \A u \in Threads \ {self, td} : td_qpec'[u] = td_qpec[u]
    <2>1. CASE td = NoOne
      BY <1>1, <1>8, <2>1
    <2>2. CASE td # NoOne
      <3>1. td_qpec[self] + td_qpec[td] = td_qpec[td] /\ td_qpec[td] \in Nat
        BY <1>4, <1>8, <2>2
      <3>2. td_qpec' = [td_qpec EXCEPT ![self] = td_qpec[td], ![td] = 0]
        BY <1>1, <2>2, <3>1
      <3> QED
        BY <1>1, <1>4, <1>8, <2>2, <3>1, <3>2
    <2> QED
      BY <2>1, <2>2
  <1>10. TypeOK'
    BY <1>1, <1>6, <1>7, <1>9 DEF KernelInv, TypeOK
  <1>11. QueueInv'
    <2>1. \A r \in Queues : IsSignaled(root'[r]) \/ Linked(root'[r])
      BY <1>5, <1>6 DEF KernelInv, QueueInv
    <2>2. \A r \in Queues, u \in Threads : Contains(root'[r], u) => td_queue[u] = r
      BY <1>2, <1>5, <1>6 DEF KernelInv, QueueInv
    <2> QED
      BY <1>1, <1>7, <2>1, <2>2 DEF KernelInv, QueueInv
  <1>12. PendInv'
    <2> SUFFICES ASSUME NEW u \in Threads, td_qpec'[u] > 0
                 PROVE  /\ td_queue[u] \in Queues
                        /\ Linked(root'[td_queue[u]]) /\ root'[td_queue[u]] # <<>>
                        /\ Head(root'[td_queue[u]]) = u
      BY <1>1 DEF PendInv
    <2>1. CASE u = self
      <3>1. td # NoOne /\ td_qpec[td] > 0
        BY <1>8, <1>9, <2>1
      <3>2. td = Head(s) /\ td_queue[td] = q
        BY <1>1, <1>2, <1>4, <3>1 DEF KernelInv, PendInv, QueueInv
      <3>3. i = 1
        BY <1>3, <1>4, <3>1, <3>2
      <3> QED
        BY <1>1, <1>2, <1>5, <1>6, <2>1, <3>3
    <2>2. CASE u # self
      <3>1. td_qpec[u] > 0 /\ u # td
        BY <1>4, <1>8, <1>9, <2>2, KernelAssumption
      <3>2. /\ td_queue[u] \in Queues
            /\ Linked(root[td_queue[u]]) /\ root[td_queue[u]] # <<>>
            /\ Head(root[td_queue[u]]) = u
        BY <3>1 DEF KernelInv, PendInv
      <3>3. CASE td_queue[u] = q
        <4>1. i # 1
          BY <1>3, <1>4, <3>1, <3>2, <3>3
        <4> QED
          BY <1>1, <1>5, <1>6, <3>2, <3>3, <4>1
      <3>4. CASE td_queue[u] # q
        BY <1>6, <3>2, <3>4
      <3> QED
        BY <3>3, <3>4
    <2> QED
      BY <2>1, <2>2
  <1>13. LiveInv'
    <2>1. \A u \in Threads : Placed(u)' <=> Placed(u)
      <3>1. \A r \in Queues : \A u \in Threads :
                Contains(root'[r], u) <=> (Contains(root[r], u) \/ (u = self /\ r = q))
        BY <1>5, <1>6
      <3>2. td_timer[self] # "wake"
        BY <1>1, <1>2, KernelAssumption DEF KernelInv, TimerInv
      <3> QED
        BY <1>1, <1>7, <3>1, <3>2 DEF Placed, At
    <2> QED
      BY <1>1, <2>1 DEF KernelInv, LiveInv
  <1>14. TimerInv'
    BY <1>1, <1>2, <1>7 DEF KernelInv, TimerInv
  <1> QED
    BY <1>7, <1>10, <1>11, <1>12, <1>13, <1>14 DEF KernelInv

-----------------------------------------------------------------------------
\* NutThreadResume ends: the CPU goes to the top of the run queue.
LEMMA DispatchPreserves == ASSUME KernelInv, Dispatch PROVE KernelInv'
  <1>1. /\ UNCHANGED <<runQueue, root, nutThreadList, killedThread,
                       td_qpec, td_queue, td_timer, td_priority>>
        /\ pc[self] = "elapsed" /\ runningThread' = Head(runQueue)
        /\ pc' = [pc EXCEPT ![self] = reg.after] /\ reg' = NoRegs
    BY DEF Dispatch, At, Goto, SwitchTo, lists
  <1>2. Linked(runQueue) /\ runQueue # <<>>
    BY EmptyLinked DEF KernelInv, QueueInv
  <1>3. runningThread' \in Threads /\ Contains(runQueue, runningThread')
    BY <1>1, <1>2, LinkedElements
  <1>4. td_state' \in [Threads -> States]
    <2>1. td_state \in [Threads -> States]
      BY DEF KernelInv, TypeOK
    <2>2. \A a \in States : (IF a = "RUNNING" THEN "READY" ELSE a) \in States
      BY DEF States
    <2>3. "RUNNING" \in States
      BY DEF States
    <2> QED
      BY <2>1, <2>2, <2>3 DEF Dispatch
  <1>5. reg' \in Regs
    BY <1>1 DEF NoRegs, Regs
  <1>6. pc' \in [Threads -> Points] /\ \A t \in Threads : pc'[t] \in Parked
    BY <1>1, AtPlace DEF Regs, Parked, Points, KernelInv, OthersParked
  <1>7. /\ OthersParked' /\ LocalsInv' /\ TransitInv'
        /\ ~Resuming' /\ ~At("link")' /\ ~At("ready")'
    BY <1>3, <1>6, EverybodyParked
  <1>8. TypeOK'
    BY <1>1, <1>3, <1>4, <1>5, <1>6 DEF KernelInv, TypeOK
  <1>9. QueueInv'
    BY <1>1, <1>3 DEF KernelInv, QueueInv, self
  <1>10. PendInv' /\ TimerInv'
    BY <1>1 DEF KernelInv, PendInv, TimerInv
  <1>11. LiveInv'
    <2>1. \A t \in Threads : Placed(t)' <=> Placed(t)
      BY <1>1, <1>7 DEF Placed, At
    <2> QED
      BY <1>1, <2>1 DEF KernelInv, LiveInv
  <1> QED
    BY <1>7, <1>8, <1>9, <1>10, <1>11 DEF KernelInv

\* NutSleep: the caller is in no queue, its timer keeps it.
LEMMA SleepPreserves == ASSUME KernelInv, Sleep PROVE KernelInv'
  <1>1. /\ UNCHANGED <<runningThread, root, nutThreadList, killedThread, td_priority>>
        /\ pc[self] = "app" /\ self \in Apps
        /\ runQueue' = Without(runQueue, self)
        /\ td_qpec' = DropPec(td_qpec, runQueue, self)
        /\ td_queue' = [td_queue EXCEPT ![self] = NoOne]
        /\ td_timer' = [td_timer EXCEPT ![self] = "wake"]
        /\ td_state' = [td_state EXCEPT ![self] = "SLEEP"]
        /\ pc' = [pc EXCEPT ![self] = "scan"]
        /\ reg' = [NoRegs EXCEPT !.cur = 1, !.after = "ret"]
    BY DEF Sleep, Free, At, Resume, Goto
  <1>2. Contains(runQueue, self) /\ self \in Threads /\ self' = self
    BY <1>1, AtPlace DEF KernelInv, QueueInv, Resuming, At, self
  <1>3. /\ Linked(runQueue') /\ td_qpec' = td_qpec /\ td_qpec[self] = 0
        /\ \A u : Contains(runQueue', u) <=> (Contains(runQueue, u) /\ u # self)
    BY <1>1, <1>2, LeavingRunQueue
  <1>4. /\ td_queue' \in [Threads -> Queues \cup {RunQ, NoOne}]
        /\ td_timer' \in [Threads -> Timers] /\ td_state' \in [Threads -> States]
        /\ td_queue'[self] = NoOne /\ td_timer'[self] = "wake"
        /\ \A u \in Threads \ {self} : td_queue'[u] = td_queue[u] /\ td_timer'[u] = td_timer[u]
    BY <1>1, <1>2 DEF KernelInv, TypeOK, Timers, States
  <1>5. reg' \in Regs /\ reg'.cur = 1
    BY <1>1 DEF NoRegs, Regs
  <1>6. /\ pc' \in [Threads -> Points] /\ pc'[self] = "scan"
        /\ \A u \in Threads \ {self} : pc'[u] = pc[u]
    BY <1>1, AtPlace DEF Points
  <1>7. TypeOK'
    BY <1>1, <1>3, <1>4, <1>5, <1>6 DEF KernelInv, TypeOK, Linked
  <1>8. OthersParked' /\ LocalsInv' /\ TransitInv' /\ Resuming'
    BY <1>2, <1>5, <1>6 DEF KernelInv, OthersParked, LocalsInv, TransitInv, Resuming, At
  <1>9. QueueInv'
    <2>1. \A r \in Queues : IsSignaled(root'[r]) \/ Linked(root'[r])
      BY <1>1 DEF KernelInv, QueueInv
    <2> QED
      BY <1>1, <1>2, <1>4, <1>8, <2>1, QueuesAfterLeaving
  <1>10. PendInv' /\ TimerInv'
    BY <1>1, <1>3, <1>4 DEF KernelInv, PendInv, TimerInv
  <1>11. LiveInv'
    <2>1. \A u \in Threads : Placed(u)' <=> Placed(u)
      BY <1>1, <1>2, <1>3, <1>4, <1>6 DEF Placed, At
    <2> QED
      BY <1>1, <2>1 DEF KernelInv, LiveInv
  <1> QED
    BY <1>7, <1>8, <1>9, <1>10, <1>11 DEF KernelInv

\* NutSleep without memory for its timer: the caller is where it was, only
\* perhaps further up.
LEMMA SleepFailsPreserves == ASSUME KernelInv, SleepFails PROVE KernelInv'
  <1>1. /\ UNCHANGED <<runningThread, root, nutThreadList, killedThread,
                       td_priority, pc, reg>>
        /\ pc[self] = "app" /\ self \in Apps
        /\ runQueue' = <<self>> \o Without(runQueue, self)
        /\ td_qpec' = DropPec(td_qpec, runQueue, self)
        /\ td_queue' = [td_queue EXCEPT ![self] = RunQ]
        /\ td_timer' = [td_timer EXCEPT ![self] = "none"]
        /\ td_state' = [td_state EXCEPT ![self] = "RUNNING"]
    BY DEF SleepFails, Free, At
  <1>2. Contains(runQueue, self) /\ self \in Threads /\ td_queue[self] = RunQ
    BY <1>1, AtPlace DEF KernelInv, QueueInv, Resuming, At
  <1>3. /\ Linked(Without(runQueue, self)) /\ td_qpec' = td_qpec
        /\ \A u : Contains(Without(runQueue, self), u) <=> (Contains(runQueue, u) /\ u # self)
        /\ td_timer[self] # "wake"
    BY <1>1, <1>2, LeavingRunQueue
  <1>4. /\ Linked(runQueue')
        /\ \A u : Contains(runQueue', u) <=> Contains(runQueue, u)
    BY <1>1, <1>2, <1>3, ConsLinked
  <1>5. Calm
    <2>1. td_queue' = td_queue /\ td_state' \in [Threads -> States]
      BY <1>1, <1>2 DEF KernelInv, TypeOK, States
    <2>2. /\ td_timer' \in [Threads -> Timers]
          /\ \A t \in Threads : td_timer'[t] = td_timer[t]
                               \/ (td_timer'[t] = "none" /\ td_timer[t] # "wake")
      BY <1>1, <1>2, <1>3 DEF KernelInv, TypeOK, Timers
    <2> QED
      BY <1>1, <1>3, <1>4, <2>1, <2>2 DEF Calm, KernelInv, TypeOK
  <1>6. pc' = [pc EXCEPT ![self] = "app"] /\ reg' \in Regs /\ self' = self
    BY <1>1, AtPlace DEF self
  <1>7. LocalsInv' /\ TransitInv'
    BY <1>1, <1>6 DEF LocalsInv, TransitInv, Resuming, At
  <1> QED
    BY <1>1, <1>5, <1>6, <1>7, CalmStep DEF Resuming, Points

\* Outside the kernel the caller is ready to run and so is everybody parked.
LEMMA OutsideTheKernel ==
    ASSUME KernelInv, pc[self] = "app"
    PROVE  /\ Contains(runQueue, self) /\ self \in Threads
           /\ \A t \in Threads : pc[t] \in Parked
           /\ ~At("link") /\ ~At("ready") /\ ~Resuming
  BY AtPlace DEF KernelInv, QueueInv, Resuming, At, OthersParked, Parked

\* NutThreadSetPriority: the same threads are ready, in another order.
LEMMA SetPriorityPreserves ==
    ASSUME KernelInv, NEW level \in Levels, SetPriority(level)
    PROVE  KernelInv'
  <1>1. /\ UNCHANGED <<root, nutThreadList, killedThread, td_timer, pc, reg>>
        /\ pc[self] = "app" /\ runningThread' = Head(runQueue')
        /\ td_priority' = [td_priority EXCEPT ![self] = level]
        /\ runQueue' = AddPri(Without(runQueue, self), self, td_priority')
        /\ td_qpec' = AddPec(DropPec(td_qpec, runQueue, self),
                             Without(runQueue, self), self, td_priority')
        /\ td_queue' = [td_queue EXCEPT ![self] = RunQ]
    BY DEF SetPriority, Free, At, SwitchTo
  <1>2. /\ Contains(runQueue, self) /\ self \in Threads
        /\ \A t \in Threads : pc[t] \in Parked
        /\ ~At("link") /\ ~At("ready") /\ ~Resuming
    BY <1>1, OutsideTheKernel
  <1>3. td_priority' \in [Threads -> 0 .. 255]
    <2>1. level \in 0 .. 255
      BY KernelAssumption DEF IdlePriority
    <2> QED
      BY <1>1, <2>1 DEF KernelInv, TypeOK
  <1>4. td_priority' \in [Threads -> Nat]
    <2>1. 0 .. 255 \subseteq Nat
      OBVIOUS
    <2> QED
      BY <1>3, <2>1
  <1>5. /\ Linked(runQueue') /\ runQueue' # <<>>
        /\ \A u \in Threads : Contains(runQueue', u) <=> Contains(runQueue, u)
        /\ td_qpec' = td_qpec /\ td_queue' = td_queue
    BY <1>1, <1>2, <1>4, Requeueing
  <1>6. runningThread' \in Threads /\ Contains(runQueue', runningThread')
    BY <1>1, <1>5, LinkedElements
  <1>7. td_state' \in [Threads -> States]
    BY DEF SetPriority, KernelInv, TypeOK, States
  <1>8. /\ OthersParked' /\ LocalsInv' /\ TransitInv'
        /\ ~Resuming' /\ ~At("link")' /\ ~At("ready")'
    BY <1>1, <1>2, <1>6, EverybodyParked
  <1>9. TypeOK'
    BY <1>1, <1>3, <1>5, <1>6, <1>7 DEF KernelInv, TypeOK, Linked
  <1>10. QueueInv'
    BY <1>1, <1>5, <1>6, KernelAssumption DEF KernelInv, QueueInv, self
  <1>11. PendInv' /\ TimerInv'
    BY <1>1, <1>5 DEF KernelInv, PendInv, TimerInv
  <1>12. LiveInv'
    <2>1. \A t \in Threads : Placed(t)' <=> Placed(t)
      BY <1>1, <1>2, <1>5, <1>8 DEF Placed
    <2> QED
      BY <1>1, <2>1 DEF KernelInv, LiveInv
  <1> QED
    BY <1>8, <1>9, <1>10, <1>11, <1>12 DEF KernelInv

\* NutThreadExit: the caller leaves the list of living threads and its queue
\* together.
LEMMA ExitPreserves == ASSUME KernelInv, Exit PROVE KernelInv'
  <1>1. /\ UNCHANGED <<root, td_timer, reg>>
        /\ pc[self] = "app" /\ self \in Apps /\ runningThread' = Head(runQueue')
        /\ runQueue' = Without(runQueue, self)
        /\ td_qpec' = DropPec(td_qpec, runQueue, self)
        /\ td_queue' = [td_queue EXCEPT ![self] = NoOne]
        /\ td_priority' = [td_priority EXCEPT ![self] = 255]
        /\ nutThreadList' = Without(nutThreadList, self)
        /\ killedThread' = self
        /\ pc' = [pc EXCEPT ![self] = "dead"]
    BY DEF Exit, Free, At, SwitchTo, Goto
  <1>2. /\ Contains(runQueue, self) /\ self \in Threads
        /\ \A t \in Threads : pc[t] \in Parked
        /\ ~At("link") /\ ~At("ready") /\ ~Resuming
    BY <1>1, OutsideTheKernel
  <1>3. /\ Linked(runQueue') /\ runQueue' # <<>> /\ td_qpec' = td_qpec
        /\ \A u : Contains(runQueue', u) <=> (Contains(runQueue, u) /\ u # self)
        /\ \A q \in Queues : ~Contains(root[q], self)
        /\ td_qpec[self] = 0 /\ td_timer[self] # "wake"
    BY <1>1, <1>2, LeavingRunQueue
  <1>4. runningThread' \in Threads /\ Contains(runQueue', runningThread')
    BY <1>1, <1>3, LinkedElements
  <1>5. /\ td_queue' \in [Threads -> Queues \cup {RunQ, NoOne}]
        /\ td_priority' \in [Threads -> 0 .. 255] /\ td_state' \in [Threads -> States]
        /\ td_queue'[self] = NoOne
        /\ \A u \in Threads \ {self} : td_queue'[u] = td_queue[u]
    <2>1. td_state' \in [Threads -> States]
      BY DEF Exit, KernelInv, TypeOK, States
    <2>2. td_priority' \in [Threads -> 0 .. 255]
      <3>1. 255 \in 0 .. 255
        OBVIOUS
      <3> QED
        BY <1>1, <3>1 DEF KernelInv, TypeOK
    <2> QED
      BY <1>1, <1>2, <2>1, <2>2 DEF KernelInv, TypeOK
  <1>6. /\ pc' \in [Threads -> Points] /\ \A t \in Threads : pc'[t] \in Parked
    BY <1>1, <1>2, AtPlace DEF Points, Parked
  <1>7. /\ OthersParked' /\ LocalsInv' /\ TransitInv'
        /\ ~Resuming' /\ ~At("link")' /\ ~At("ready")'
    BY <1>4, <1>6, EverybodyParked
  <1>8. /\ Linked(nutThreadList')
        /\ \A u : Contains(nutThreadList', u) <=> (Contains(nutThreadList, u) /\ u # self)
    BY <1>1, WithoutLinked DEF KernelInv, LiveInv
  <1>9. TypeOK'
    <2>1. /\ runQueue' \in Seq(Threads) /\ nutThreadList' \in Seq(Threads)
          /\ killedThread' \in Threads \cup {NoOne}
      BY <1>1, <1>2, <1>3, <1>8 DEF Linked
    <2>2. /\ td_qpec' \in [Threads -> Nat] /\ td_timer' \in [Threads -> Timers]
          /\ root' \in [Queues -> Seq(Threads \cup {SIGNALED})] /\ reg' \in Regs
      BY <1>1, <1>3 DEF KernelInv, TypeOK
    <2> QED
      BY <1>4, <1>5, <1>6, <2>1, <2>2 DEF TypeOK
  <1>10. QueueInv'
    <2>1. \A r \in Queues : IsSignaled(root'[r]) \/ Linked(root'[r])
      BY <1>1 DEF KernelInv, QueueInv
    <2>2. Contains(runQueue', self')
      BY <1>4 DEF self
    <2> QED
      BY <1>1, <1>2, <1>5, <2>1, <2>2, QueuesAfterLeaving
  <1>11. PendInv' /\ TimerInv'
    <2>1. td_timer[self] \notin {"wake", "event"}
      BY <1>2, ReadyIsQuiet
    <2> QED
      BY <1>1, <1>3, <1>5, <2>1 DEF KernelInv, PendInv, TimerInv
  <1>12. LiveInv'
    <2>1. \A u \in Threads : Placed(u)' <=> (Placed(u) /\ u # self)
      BY <1>1, <1>2, <1>3, <1>7 DEF Placed
    <2> QED
      BY <1>8, <2>1 DEF KernelInv, LiveInv
  <1> QED
    BY <1>7, <1>9, <1>10, <1>11, <1>12 DEF KernelInv

\* NutThreadCreate: the new thread is nowhere before and ready afterwards.
LEMMA CreatePreserves ==
    ASSUME KernelInv, NEW t \in Threads, Create(t)
    PROVE  KernelInv'
  <1>1. /\ UNCHANGED <<root, killedThread, reg>>
        /\ pc[self] = "app" /\ runningThread' = Head(runQueue') /\ t \notin Live
        /\ nutThreadList' = <<t>> \o nutThreadList
        /\ td_priority' = [td_priority EXCEPT ![t] = DefaultPriority]
        /\ td_timer' = [td_timer EXCEPT ![t] = "none"]
        /\ runQueue' = AddPri(runQueue, t, td_priority')
        /\ td_qpec' = AddPec(td_qpec, runQueue, t, td_priority')
        /\ td_queue' = [td_queue EXCEPT ![t] = RunQ]
        /\ pc' = [pc EXCEPT ![t] = "app"]
    BY DEF Create, Free, At, SwitchTo
  <1>2. /\ Contains(runQueue, self) /\ self \in Threads
        /\ \A u \in Threads : pc[u] \in Parked
        /\ ~At("link") /\ ~At("ready") /\ ~Resuming
    BY <1>1, OutsideTheKernel
  <1>3. ~Contains(nutThreadList, t)
    BY <1>1 DEF Live, ToSet, Contains
  <1>4. /\ ~Contains(runQueue, t) /\ \A q \in Queues : ~Contains(root[q], t)
        /\ td_timer[t] # "wake"
    BY <1>3 DEF KernelInv, LiveInv, Placed
  <1>5. td_qpec[t] = 0
    <2>1. td_qpec[t] \in Nat /\ ~(td_qpec[t] > 0)
      BY <1>4, LinkedElements, PrioritiesAreNats DEF KernelInv, PendInv
    <2> QED
      BY <2>1
  <1>6. td_priority' \in [Threads -> 0 .. 255] /\ td_priority' \in [Threads -> Nat]
    <2>1. 0 .. 255 \subseteq Nat /\ DefaultPriority \in 0 .. 255
      BY DEF DefaultPriority
    <2>2. td_priority' \in [Threads -> 0 .. 255]
      BY <1>1, <2>1 DEF KernelInv, TypeOK
    <2> QED
      BY <2>1, <2>2
  <1>7. /\ Linked(runQueue') /\ td_qpec' = td_qpec
        /\ \A u \in Threads : Contains(runQueue', u) <=> (u = t \/ Contains(runQueue, u))
    <2>1. \A u \in Threads : Contains(runQueue, u) => td_qpec[u] = 0
      BY ReadyIsQuiet
    <2>2. td_qpec \in [Threads -> Nat]
      BY PrioritiesAreNats
    <2>3. /\ Linked(runQueue') /\ td_qpec' = [td_qpec EXCEPT ![t] = 0]
          /\ \A u \in Threads : Contains(runQueue', u) <=> (u = t \/ Contains(runQueue, u))
      BY <1>1, <1>4, <1>6, <2>1, <2>2, MakingReady
    <2> QED
      BY <1>5, <2>2, <2>3
  <1>8. runningThread' \in Threads /\ Contains(runQueue', runningThread')
    <2>1. runQueue' # <<>>
      BY <1>7, EmptyLinked
    <2> QED
      BY <1>1, <1>7, <2>1, LinkedElements
  <1>9. /\ td_queue' \in [Threads -> Queues \cup {RunQ, NoOne}]
        /\ td_timer' \in [Threads -> Timers]
        /\ td_queue'[t] = RunQ /\ td_timer'[t] = "none"
        /\ \A u \in Threads \ {t} : td_queue'[u] = td_queue[u] /\ td_timer'[u] = td_timer[u]
    BY <1>1 DEF KernelInv, TypeOK, Timers
  <1>10. td_state' \in [Threads -> States]
    BY DEF Create, KernelInv, TypeOK, States
  <1>11. pc' \in [Threads -> Points] /\ \A u \in Threads : pc'[u] \in Parked
    BY <1>1, <1>2, AtPlace DEF Points, Parked
  <1>12. /\ OthersParked' /\ LocalsInv' /\ TransitInv'
         /\ ~Resuming' /\ ~At("link")' /\ ~At("ready")'
    BY <1>8, <1>11, EverybodyParked
  <1>13. /\ Linked(nutThreadList')
         /\ \A u : Contains(nutThreadList', u) <=> (u = t \/ Contains(nutThreadList, u))
    BY <1>1, <1>3, ConsLinked DEF KernelInv, LiveInv
  <1>14. TypeOK'
    BY <1>1, <1>6, <1>7, <1>8, <1>9, <1>10, <1>11, <1>13 DEF KernelInv, TypeOK, Linked
  <1>15. QueueInv'
    <2>1. \A r \in Queues : IsSignaled(root'[r]) \/ Linked(root'[r])
      BY <1>1 DEF KernelInv, QueueInv
    <2>2. \A r \in Queues, u \in Threads :
              Contains(root'[r], u) <=> (Contains(root[r], u) /\ u # t)
      BY <1>1, <1>4
    <2> QED
      BY <1>2, <1>7, <1>8, <1>9, <2>1, <2>2, QueuesAfterReady
  <1>16. PendInv' /\ TimerInv'
    BY <1>1, <1>5, <1>7, <1>9 DEF KernelInv, PendInv, TimerInv
  <1>17. LiveInv'
    <2>1. \A u \in Threads : Placed(u)' <=> (u = t \/ Placed(u))
      BY <1>1, <1>2, <1>7, <1>9, <1>12 DEF Placed
    <2> QED
      BY <1>13, <2>1 DEF KernelInv, LiveInv
  <1> QED
    BY <1>12, <1>14, <1>15, <1>16, <1>17 DEF KernelInv

-----------------------------------------------------------------------------
\* Every step preserves the invariant: one lemma for each action.
LEMMA KernelNext == KernelInv /\ [Next]_vars => KernelInv'
  <1> SUFFICES ASSUME KernelInv, [Next]_vars PROVE KernelInv'
    OBVIOUS
  <1>1. CASE Call
    <2>1. ASSUME NEW q \in Queues, NEW ms \in BOOLEAN, EventWait(q, ms) \/ EventWaitNext(q, ms)
          PROVE  KernelInv'
      BY <2>1, EventWaitPreserves
    <2>2. ASSUME NEW q \in Queues, NEW async \in BOOLEAN,
                 EventPost(q, async) \/ EventBroadcast(q, async)
          PROVE  KernelInv'
      BY <2>2, EventPostPreserves, EventBroadcastPreserves
    <2>3. CASE Sleep \/ SleepFails
      BY <2>3, SleepPreserves, SleepFailsPreserves
    <2>4. ASSUME NEW level \in Levels, SetPriority(level) PROVE KernelInv'
      BY <2>4, SetPriorityPreserves
    <2>5. CASE Exit
      BY <2>5, ExitPreserves
    <2>6. ASSUME NEW t \in Threads, Create(t) PROVE KernelInv'
      BY <2>6, CreatePreserves
    <2> QED
      BY <1>1, <2>1, <2>2, <2>3, <2>4, <2>5, <2>6 DEF Call
  <1>2. CASE Kernel
    <2>1. CASE WaitRead \/ WaitClear \/ WaitEnter \/ WaitLink
      BY <2>1, WaitReadPreserves, WaitClearPreserves, WaitEnterPreserves, WaitLinkPreserves
    <2>2. CASE BroadcastNext \/ PostRead \/ PostPop \/ PostReady
      BY <2>2, BroadcastNextPreserves, PostReadPreserves, PostPopPreserves, PostReadyPreserves
    <2>3. CASE Yield \/ Scan \/ ScanTake
      BY <2>3, YieldPreserves, ScanPreserves, ScanTakePreserves
    <2>4. CASE Dispatch \/ Return \/ IdleDestroy
      BY <2>4, DispatchPreserves, ReturnPreserves, IdleDestroyPreserves
    <2> QED
      BY <1>2, <2>1, <2>2, <2>3, <2>4 DEF Kernel
  <1>3. CASE Elapse
    BY <1>3, EventTimeoutPreserves, ThreadWakePreserves DEF Elapse
  <1>4. CASE Irq
    BY <1>4, PostFromIrqPreserves DEF Irq
  <1>5. CASE UNCHANGED vars
    <2>1. UNCHANGED <<runningThread, runQueue, root, nutThreadList, killedThread,
                      td_qpec, td_queue, td_timer, td_state, td_priority, pc, reg>>
      BY <1>5 DEF vars, lists, tcb
    <2>2. self' = self /\ (Resuming' <=> Resuming) /\ \A p : At(p)' <=> At(p)
      BY <2>1 DEF self, Resuming, At
    <2>3. TypeOK' /\ OthersParked' /\ LocalsInv'
      BY <2>1, <2>2 DEF KernelInv, TypeOK, OthersParked, LocalsInv
    <2>4. QueueInv' /\ TransitInv' /\ PendInv' /\ TimerInv'
      BY <2>1, <2>2 DEF KernelInv, QueueInv, TransitInv, PendInv, TimerInv
    <2>5. LiveInv'
      <3>1. \A t \in Threads : Placed(t)' <=> Placed(t)
        BY <2>1, <2>2 DEF Placed
      <3> QED
        BY <2>1, <3>1 DEF KernelInv, LiveInv
    <2> QED
      BY <2>3, <2>4, <2>5 DEF KernelInv
  <1> QED
    BY <1>1, <1>2, <1>3, <1>4, <1>5 DEF Next

\* The kernel keeps its invariant whatever is called, whatever elapses and
\* whatever interrupts do.
THEOREM KernelInvariance == Spec => []KernelInv
  <1>1. Init => KernelInv
    BY KernelInit
  <1>2. KernelInv /\ [Next]_vars => KernelInv'
    BY KernelNext
  <1> QED
    BY <1>1, <1>2, PTL DEF Spec

\* Every variable of the kernel keeps its type.
THEOREM KernelTypes == Spec => []TypeOK
  <1>1. KernelInv => TypeOK
    BY DEF KernelInv
  <1> QED
    BY <1>1, KernelInvariance, PTL

\* The mark SIGNALED never hides threads that wait, nor ends up behind one.
THEOREM KernelRoots == Spec => []RootsWellFormed
  <1>1. KernelInv => RootsWellFormed
    BY DEF KernelInv, QueueInv, RootsWellFormed, Linked
  <1> QED
    BY <1>1, KernelInvariance, PTL

\* Pending events are only counted where NutThreadResume finds them.
THEOREM KernelPending == Spec => []PendingOnHead
  <1>1. KernelInv => PendingOnHead
    <2> SUFFICES ASSUME KernelInv, NEW t \in Threads, td_qpec[t] > 0
                 PROVE  /\ t \in Live
                        /\ td_queue[t] \in Queues
                        /\ HasThreads(root[td_queue[t]])
                        /\ Head(root[td_queue[t]]) = t
      BY DEF PendingOnHead
    <2>1. /\ td_queue[t] \in Queues
          /\ Linked(root[td_queue[t]]) /\ root[td_queue[t]] # <<>>
          /\ Head(root[td_queue[t]]) = t
      BY DEF KernelInv, PendInv
    <2>2. HasThreads(root[td_queue[t]]) /\ Contains(root[td_queue[t]], t)
      BY <2>1, LinkedElements DEF HasThreads
    <2>3. Contains(nutThreadList, t)
      BY <2>1, <2>2 DEF KernelInv, LiveInv, Placed
    <2> QED
      BY <2>1, <2>2, <2>3 DEF Live, ToSet, Contains
  <1> QED
    BY <1>1, KernelInvariance, PTL

\* A thread occurs once in a queue it is in and not at all in any other.
LEMMA OccursOnce ==
    ASSUME NEW s, IsSignaled(s) \/ Linked(s), NEW t \in Threads
    PROVE  Occurrences(s, t) = IF Contains(s, t) THEN 1 ELSE 0
  <1>. DEFINE P == {i \in DOMAIN s : s[i] = t}
  <1>1. CASE Contains(s, t)
    <2>1. Linked(s)
      BY <1>1, MarkHoldsNobody
    <2>2. PICK i \in DOMAIN s : s[i] = t
      BY <1>1 DEF Contains
    <2>3. P = {i}
      BY <2>1, <2>2 DEF Linked, IsInjective
    <2> QED
      BY <1>1, <2>3, FS_Singleton DEF Occurrences
  <1>2. CASE ~Contains(s, t)
    <2>1. P = {}
      BY <1>2 DEF Contains
    <2> QED
      BY <1>2, <2>1, FS_EmptySet DEF Occurrences
  <1> QED
    BY <1>1, <1>2

\* No thread is lost or queued twice.
THEOREM KernelPlaces == Spec => []ThreadsInOnePlace
  <1>1. KernelInv => ThreadsInOnePlace
    <2> SUFFICES ASSUME KernelInv, NEW t \in Threads
                 PROVE  LET inq == {q \in Queues : Contains(root[q], t)}
                            away == t \notin Live \/ t \in Transit \/ td_timer[t] = "wake"
                        IN  /\ \A q \in Queues : Occurrences(root[q], t) <= 1
                            /\ Occurrences(runQueue, t) + Cardinality(inq)
                                 = IF away THEN 0 ELSE 1
      BY DEF ThreadsInOnePlace
    <2>. DEFINE inq == {q \in Queues : Contains(root[q], t)}
                away == t \notin Live \/ t \in Transit \/ td_timer[t] = "wake"
    <2>1. \A q \in Queues : Occurrences(root[q], t) <= 1
      <3> SUFFICES ASSUME NEW q \in Queues PROVE Occurrences(root[q], t) <= 1
        OBVIOUS
      <3>1. IsSignaled(root[q]) \/ Linked(root[q])
        BY DEF KernelInv, QueueInv
      <3> QED
        BY <3>1, OccursOnce
    <2>2. Occurrences(runQueue, t) = IF Contains(runQueue, t) THEN 1 ELSE 0
      BY OccursOnce DEF KernelInv, QueueInv
    <2>3. /\ Contains(runQueue, t) => td_queue[t] = RunQ
          /\ \A q \in Queues : Contains(root[q], t) => td_queue[t] = q
      BY DEF KernelInv, QueueInv
    <2>4. t \in Live <=> Placed(t)
      BY DEF KernelInv, LiveInv, Live, ToSet, Contains
    <2>5. t \in Transit \/ td_timer[t] = "wake" =>
             ~Contains(runQueue, t) /\ \A q \in Queues : ~Contains(root[q], t)
      <3>1. CASE td_timer[t] = "wake"
        BY <2>3, <3>1, KernelAssumption DEF KernelInv, TimerInv
      <3>2. CASE t \in Transit
        <4>1. /\ reg.q \in Queues /\ td_queue[t] = reg.q /\ ~Contains(root[reg.q], t)
          BY <3>2 DEF Transit, At, KernelInv, TransitInv, LocalsInv
        <4> QED
          BY <2>3, <4>1, KernelAssumption
      <3> QED
        BY <3>1, <3>2
    <2>6. CASE Contains(runQueue, t)
      <3>1. inq = {}
        BY <2>3, <2>6, KernelAssumption
      <3>2. ~away
        BY <2>4, <2>5, <2>6 DEF Placed
      <3> QED
        BY <2>1, <2>2, <2>6, <3>1, <3>2, FS_EmptySet
    <2>7. CASE ~Contains(runQueue, t) /\ \E q \in Queues : Contains(root[q], t)
      <3>1. inq = {td_queue[t]}
        BY <2>3, <2>7
      <3>2. ~away
        BY <2>4, <2>5, <2>7 DEF Placed
      <3>3. Cardinality(inq) = 1
        BY <3>1, FS_Singleton
      <3> QED
        BY <2>1, <2>2, <2>7, <3>2, <3>3
    <2>8. CASE ~Contains(runQueue, t) /\ ~\E q \in Queues : Contains(root[q], t)
      <3>1. inq = {}
        BY <2>8
      <3>2. away
        BY <2>4, <2>8 DEF Placed, Transit
      <3> QED
        BY <2>1, <2>2, <2>8, <3>1, <3>2, FS_EmptySet
    <2> QED
      BY <2>6, <2>7, <2>8
  <1> QED
    BY <1>1, KernelInvariance, PTL

-----------------------------------------------------------------------------
(***************************************************************************)
(* 3. The timeouts.  A timer that is armed for a wait says where its       *)
(* thread is: alive, asleep and on its way through a NutEventWait, and a   *)
(* wait that timed out has its mark only until NutEventWait returns.       *)
(***************************************************************************)

\* The thread will come back from the NutThreadResume of a NutEventWait.
Awaits(t) == pc[t] = "retwait" \/ (t = self /\ Resuming /\ reg.after = "retwait")

\* ... and will see now whether it timed out.
Due(t) == pc[t] = "retwait" \/ (t = self /\ At("elapsed") /\ reg.after = "retwait")

TimeoutOf(t) ==
    /\ td_timer[t] = "event" =>
          td_state[t] = "SLEEP" /\ Contains(nutThreadList, t) /\ Awaits(t)
    /\ td_timer[t] = "timedout" => td_state[t] # "SLEEP" /\ Due(t)

TimeoutInv == \A t \in Threads : TimeoutOf(t)

\* A thread that is ready, or outside NutEventWait, has no timeout.
LEMMA WithoutTimeout ==
    ASSUME KernelInv, TimeoutInv, NEW t \in Threads
    PROVE  /\ Contains(runQueue, t) => td_timer[t] # "event"
           /\ ~Awaits(t) => td_timer[t] \notin {"event", "timedout"}
           /\ pc[t] # "retwait" /\ ~(t = self /\ At("elapsed")) => td_timer[t] # "timedout"
  <1>1. Contains(runQueue, t) => td_timer[t] # "event"
    BY KernelAssumption DEF KernelInv, QueueInv, TimerInv
  <1>2. Due(t) => Awaits(t)
    BY DEF Due, Awaits, Resuming, At
  <1> QED
    BY <1>1, <1>2 DEF TimeoutInv, TimeoutOf, Due

\* A step that clears a thread's timer, or leaves the thread where it is in
\* its wait, keeps what is said of it.
LEMMA TimeoutsKept ==
    ASSUME TimeoutInv,
           \A t \in Threads :
              \/ td_timer'[t] \in {"none", "wake"}
              \/ /\ td_timer'[t] = td_timer[t] /\ td_state'[t] = td_state[t]
                 /\ Contains(nutThreadList, t) => Contains(nutThreadList', t)
                 /\ Awaits(t) => Awaits(t)'
                 /\ Due(t) => Due(t)'
    PROVE  TimeoutInv'
  <1> SUFFICES ASSUME NEW t \in Threads PROVE TimeoutOf(t)'
    BY DEF TimeoutInv
  <1> QED
    BY DEF TimeoutInv, TimeoutOf

\* The running thread moves through its call, outside of the wait or on
\* inside its NutThreadResume.
LEMMA MovesOn ==
    ASSUME KernelInv, TimeoutInv, UNCHANGED <<runningThread, nutThreadList>>,
           pc[self] \notin {"retwait", "elapsed"},
           \A t \in Threads : t # self => pc'[t] = pc[t],
           Resuming => Resuming' /\ reg'.after = reg.after,
           \A t \in Threads : td_timer'[t] \in {"none", "wake"}
                              \/ (td_timer'[t] = td_timer[t] /\ td_state'[t] = td_state[t])
    PROVE  TimeoutInv'
  <1>1. self' = self
    BY DEF self
  <1>2. ASSUME NEW t \in Threads
        PROVE  (Awaits(t) => Awaits(t)') /\ (Due(t) => Due(t)')
    <2>1. CASE t = self
      BY <1>1, <2>1 DEF Awaits, Due, At
    <2>2. CASE t # self
      BY <1>1, <2>2 DEF Awaits, Due
    <2> QED
      BY <2>1, <2>2
  <1> QED
    BY <1>2, TimeoutsKept

\* NutEventWait arms the timer and puts the caller to sleep.
LEMMA FallsAsleep ==
    ASSUME KernelInv, TimeoutInv, pc[self] \in {"enter", "link"}, FallAsleep,
           UNCHANGED <<runningThread, nutThreadList>>
    PROVE  TimeoutInv'
  <1>1. self' = self /\ self \in Threads
    BY AtPlace DEF self
  <1>2. /\ pc' = [pc EXCEPT ![self] = "scan"] /\ reg'.after = "retwait"
        /\ td_state' = [td_state EXCEPT ![self] = "SLEEP"]
    BY DEF FallAsleep, Resume, Goto, NoRegs
  <1>3. PICK tm \in {"event", "none"} : td_timer' = [td_timer EXCEPT ![self] = tm]
    BY DEF FallAsleep
  <1>4. /\ pc'[self] = "scan" /\ td_timer'[self] \in {"event", "none"} /\ td_state'[self] = "SLEEP"
        /\ \A t \in Threads : t # self => /\ pc'[t] = pc[t] /\ td_timer'[t] = td_timer[t]
                                          /\ td_state'[t] = td_state[t]
    BY <1>1, <1>2, <1>3 DEF KernelInv, TypeOK
  <1>5. Contains(nutThreadList, self)
    <2>1. Placed(self)
      BY DEF KernelInv, QueueInv, Placed, Resuming, At
    <2> QED
      BY <1>1, <2>1 DEF KernelInv, LiveInv
  <1>6. TimeoutOf(self)'
    BY <1>1, <1>2, <1>4, <1>5 DEF TimeoutOf, Awaits, Resuming
  <1>7. ASSUME NEW t \in Threads, t # self
        PROVE  TimeoutOf(t)'
    BY <1>1, <1>4, <1>7 DEF TimeoutInv, TimeoutOf, Awaits, Due
  <1> SUFFICES ASSUME NEW t \in Threads PROVE TimeoutOf(t)'
    BY DEF TimeoutInv
  <1>8. CASE t = self
    BY <1>1, <1>6, <1>8 DEF TimeoutOf, Awaits, Due, Resuming, At
  <1>9. CASE t # self
    BY <1>7, <1>9
  <1> QED
    BY <1>8, <1>9

\* A call outside NutEventWait that may give the CPU to another thread: who
\* gets it is ready, and nobody else's timer is touched.
LEMMA GivesUpCpu ==
    ASSUME KernelInv, KernelInv', TimeoutInv, pc[self] = "app",
           \A t \in Threads : t # self => pc'[t] = pc[t] \/ td_timer'[t] = "none",
           \A t \in Threads : td_timer'[t] = "none" \/ td_timer'[t] = td_timer[t],
           \A t \in Threads : t # self => (Contains(nutThreadList, t) => Contains(nutThreadList', t)),
           runningThread' = Head(runQueue'),
           \A t \in Threads : td_timer'[t] = "none" \/ td_state'[t] = td_state[t]
                              \/ (td_state'[t] # "SLEEP" /\ (t = self \/ t = Head(runQueue')))
    PROVE  TimeoutInv'
  <1>1. self \in Threads /\ ~Awaits(self)
    BY AtPlace DEF Awaits, Resuming
  <1>2. td_timer[self] \notin {"event", "timedout"}
    BY <1>1, WithoutTimeout
  <1>3. td_timer'[Head(runQueue')] # "event"
    <2>1. Linked(runQueue') /\ runQueue' # <<>>
      BY EmptyLinked DEF KernelInv, QueueInv
    <2>2. Head(runQueue') \in Threads /\ Contains(runQueue', Head(runQueue'))
      BY <2>1, LinkedElements
    <2> QED
      BY <2>2, KernelAssumption DEF KernelInv, QueueInv, TimerInv
  <1>4. ASSUME NEW t \in Threads, td_timer'[t] = "event"
        PROVE  td_state'[t] = "SLEEP" /\ Contains(nutThreadList', t) /\ Awaits(t)'
    <2>1. t # self /\ td_timer[t] = "event" /\ t # Head(runQueue')
      BY <1>2, <1>3, <1>4
    <2>2. td_state[t] = "SLEEP" /\ Contains(nutThreadList, t) /\ pc[t] = "retwait"
      BY <2>1 DEF TimeoutInv, TimeoutOf, Awaits
    <2> QED
      BY <1>4, <2>1, <2>2 DEF Awaits
  <1>5. ASSUME NEW t \in Threads, td_timer'[t] = "timedout"
        PROVE  td_state'[t] # "SLEEP" /\ Due(t)'
    <2>1. t # self /\ td_timer[t] = "timedout"
      BY <1>2, <1>5
    <2>2. td_state[t] # "SLEEP" /\ pc[t] = "retwait"
      BY <2>1 DEF TimeoutInv, TimeoutOf, Due
    <2> QED
      BY <1>5, <2>1, <2>2 DEF Due
  <1> QED
    BY <1>4, <1>5 DEF TimeoutInv, TimeoutOf

\* Every call keeps the timeouts.
LEMMA CallTimeouts ==
    ASSUME KernelInv, KernelInv', TimeoutInv, Call
    PROVE  TimeoutInv'
  <1>0. self \in Threads /\ td_timer \in [Threads -> Timers] /\ td_state \in [Threads -> States]
        /\ pc \in [Threads -> Points]
    BY AtPlace DEF KernelInv, TypeOK
  <1>1. ASSUME NEW q \in Queues, NEW b \in BOOLEAN,
               EventWait(q, b) \/ EventWaitNext(q, b) \/ EventPost(q, b) \/ EventBroadcast(q, b)
        PROVE  TimeoutInv'
    <2>1. /\ pc[self] = "app" /\ UNCHANGED <<runningThread, nutThreadList, td_timer, td_state>>
          /\ \E p : pc' = [pc EXCEPT ![self] = p]
      BY <1>1 DEF EventWait, EventWaitNext, EventPost, EventBroadcast, Free, At, Goto, lists, tcb
    <2>2. ~Resuming /\ \A t \in Threads : t # self => pc'[t] = pc[t]
      BY <1>0, <2>1 DEF Resuming
    <2> QED
      BY <2>1, <2>2, MovesOn
  <1>2. CASE Sleep
    <2>1. /\ pc[self] = "app" /\ UNCHANGED <<runningThread, nutThreadList>>
          /\ pc' = [pc EXCEPT ![self] = "scan"]
          /\ td_timer' = [td_timer EXCEPT ![self] = "wake"]
          /\ td_state' = [td_state EXCEPT ![self] = "SLEEP"]
      BY <1>2 DEF Sleep, Free, At, Resume, Goto
    <2>2. ~Resuming /\ \A t \in Threads : t # self => pc'[t] = pc[t]
      BY <1>0, <2>1 DEF Resuming
    <2>3. \A t \in Threads : td_timer'[t] \in {"none", "wake"}
                             \/ (td_timer'[t] = td_timer[t] /\ td_state'[t] = td_state[t])
      BY <1>0, <2>1
    <2> QED
      BY <2>1, <2>2, <2>3, MovesOn
  <1>3. CASE SleepFails
    <2>1. /\ pc[self] = "app" /\ UNCHANGED <<runningThread, nutThreadList, pc, reg>>
          /\ td_timer' = [td_timer EXCEPT ![self] = "none"]
          /\ td_state' = [td_state EXCEPT ![self] = "RUNNING"]
      BY <1>3 DEF SleepFails, Free, At
    <2>2. ~Resuming
      BY <2>1 DEF Resuming
    <2>3. \A t \in Threads : td_timer'[t] \in {"none", "wake"}
                             \/ (td_timer'[t] = td_timer[t] /\ td_state'[t] = td_state[t])
      BY <1>0, <2>1
    <2> QED
      BY <2>1, <2>2, <2>3, MovesOn
  <1>4. ASSUME NEW level \in Levels, SetPriority(level)
        PROVE  TimeoutInv'
    <2>1. /\ pc[self] = "app" /\ UNCHANGED <<nutThreadList, td_timer, pc>>
          /\ runningThread' = Head(runQueue')
      BY <1>4 DEF SetPriority, Free, At, SwitchTo
    <2>2. \A t \in Threads : td_state'[t] = td_state[t]
                             \/ (td_state'[t] # "SLEEP" /\ (t = self \/ t = Head(runQueue')))
      BY <1>0, <1>4 DEF SetPriority
    <2> QED
      BY <2>1, <2>2, GivesUpCpu
  <1>5. CASE Exit
    <2>1. /\ pc[self] = "app" /\ UNCHANGED td_timer
          /\ pc' = [pc EXCEPT ![self] = "dead"]
          /\ runningThread' = Head(runQueue') /\ nutThreadList' = Without(nutThreadList, self)
          /\ td_state' = [td_state EXCEPT ![self] = "READY", ![Head(runQueue')] = "RUNNING"]
      BY <1>5 DEF Exit, Free, At, SwitchTo, Goto
    <2>2. \A t \in Threads : td_state'[t] = td_state[t]
                             \/ (td_state'[t] # "SLEEP" /\ (t = self \/ t = Head(runQueue')))
      BY <1>0, <2>1
    <2>3. \A t \in Threads : t # self => (Contains(nutThreadList, t) => Contains(nutThreadList', t))
      BY <2>1, WithoutLinked DEF KernelInv, LiveInv
    <2>4. \A t \in Threads : t # self => pc'[t] = pc[t]
      BY <1>0, <2>1
    <2> QED
      BY <2>1, <2>2, <2>3, <2>4, GivesUpCpu
  <1>6. ASSUME NEW u \in Threads, Create(u)
        PROVE  TimeoutInv'
    <2>1. /\ pc[self] = "app" /\ u \notin Live
          /\ td_timer' = [td_timer EXCEPT ![u] = "none"]
          /\ pc' = [pc EXCEPT ![u] = "app"]
          /\ runningThread' = Head(runQueue') /\ nutThreadList' = <<u>> \o nutThreadList
      BY <1>6 DEF Create, Free, At, SwitchTo
    <2>2. \A t \in Threads : td_timer'[t] = "none" \/ td_state'[t] = td_state[t]
                             \/ (td_state'[t] # "SLEEP" /\ (t = self \/ t = Head(runQueue')))
      BY <1>0, <1>6 DEF Create
    <2>3. \A t \in Threads : Contains(nutThreadList, t) => Contains(nutThreadList', t)
      <3>1. Linked(nutThreadList) /\ ~Contains(nutThreadList, u)
        BY <2>1 DEF KernelInv, LiveInv, Live, ToSet, Contains
      <3> QED
        BY <2>1, <3>1, ConsLinked
    <2>4. \A t \in Threads : td_timer'[t] = "none" \/ td_timer'[t] = td_timer[t]
      BY <1>0, <2>1
    <2>5. \A t \in Threads : t # self /\ t # u => pc'[t] = pc[t]
      BY <1>0, <2>1
    <2>6. \A t \in Threads : t # self => pc'[t] = pc[t] \/ td_timer'[t] = "none"
      BY <1>0, <2>1, <2>5
    <2> QED
      BY <2>1, <2>2, <2>3, <2>4, <2>6, GivesUpCpu
  <1> QED
    BY <1>1, <1>2, <1>3, <1>4, <1>5, <1>6 DEF Call

\* A post made for the scan of NutThreadResume goes back to the scan.
LEMMA AfterIsKept ==
    ASSUME self \in Threads, pc \in [Threads -> Points], reg \in Regs,
           pc[self] \in {"post", "pop", "ready"}, UNCHANGED runningThread,
           \/ PostDone
           \/ \E p \in {"pop", "ready"} : \E td :
                 pc' = [pc EXCEPT ![self] = p] /\ reg' = [reg EXCEPT !.td = td],
           Resuming
    PROVE  Resuming' /\ reg'.after = reg.after
  <1>0. reg.ret = "scan" /\ self' = self
    BY DEF Resuming, self
  <1>1. CASE PostDone
    <2>1. pc' = [pc EXCEPT ![self] = "scan"]
          /\ reg' = [NoRegs EXCEPT !.cur = reg.cur + 1, !.after = reg.after]
      BY <1>0, <1>1 DEF PostDone, Goto
    <2> QED
      BY <1>0, <2>1 DEF Resuming, NoRegs
  <1>2. CASE \E p \in {"pop", "ready"} : \E td :
                pc' = [pc EXCEPT ![self] = p] /\ reg' = [reg EXCEPT !.td = td]
    BY <1>0, <1>2 DEF Resuming, Regs
  <1> QED
    BY <1>1, <1>2

\* The thread that gets the CPU is ready, so it waits for nothing; the one
\* that loses it goes on into the end of its wait.
LEMMA DispatchTimeouts ==
    ASSUME KernelInv, TimeoutInv, Dispatch
    PROVE  TimeoutInv'
  <1>0. self \in Threads /\ td_timer \in [Threads -> Timers] /\ td_state \in [Threads -> States]
        /\ pc \in [Threads -> Points]
    BY AtPlace DEF KernelInv, TypeOK
  <1>1. /\ UNCHANGED <<nutThreadList, td_timer>> /\ pc[self] = "elapsed"
        /\ pc' = [pc EXCEPT ![self] = reg.after]
    BY DEF Dispatch, At, Goto, lists
  <1>2. Contains(runQueue, Head(runQueue)) /\ Head(runQueue) \in Threads
    BY EmptyLinked, LinkedElements DEF KernelInv, QueueInv
  <1>3. td_timer[Head(runQueue)] # "event"
    BY <1>2, WithoutTimeout
  <1> SUFFICES ASSUME NEW t \in Threads PROVE TimeoutOf(t)'
    BY DEF TimeoutInv
  <1>4. /\ Awaits(t) => pc'[t] = "retwait"
        /\ Due(t) => pc'[t] = "retwait"
    <2>1. CASE t = self
      BY <1>0, <1>1, <2>1 DEF Awaits, Due
    <2>2. CASE t # self
      BY <1>0, <1>1, <2>2 DEF Awaits, Due
    <2> QED
      BY <2>1, <2>2
  <1>5. td_timer[t] = "event" /\ td_state[t] = "SLEEP" => td_state'[t] = "SLEEP"
    BY <1>0, <1>3 DEF Dispatch
  <1>6. td_state[t] # "SLEEP" => td_state'[t] # "SLEEP"
    BY <1>0, <1>2 DEF Dispatch
  <1> QED
    BY <1>1, <1>4, <1>5, <1>6 DEF TimeoutInv, TimeoutOf, Awaits, Due

\* NutEventWait returns, and takes the mark of its timeout with it.
LEMMA ReturnTimeouts ==
    ASSUME KernelInv, TimeoutInv, Return
    PROVE  TimeoutInv'
  <1>0. self \in Threads /\ td_timer \in [Threads -> Timers] /\ pc \in [Threads -> Points]
    BY AtPlace DEF KernelInv, TypeOK
  <1>1. /\ UNCHANGED <<runningThread, nutThreadList, td_state>> /\ self' = self
        /\ pc[self] \in {"ret", "retwait"} /\ pc' = [pc EXCEPT ![self] = "app"]
        /\ td_timer' = IF pc[self] = "retwait" /\ td_timer[self] = "timedout"
                       THEN [td_timer EXCEPT ![self] = "none"] ELSE td_timer
    BY DEF Return, At, Goto, lists, self
  <1>2. Contains(runQueue, self)
    BY <1>1 DEF KernelInv, QueueInv, Resuming, At
  <1>3. td_timer[self] # "event"
    BY <1>0, <1>2, WithoutTimeout
  <1>4. pc[self] = "ret" => td_timer[self] # "timedout"
    BY <1>0, <1>1, WithoutTimeout DEF At
  <1>5. td_timer'[self] \in {"none", "wake"}
    BY <1>0, <1>1, <1>3, <1>4 DEF Timers
  <1>6. ASSUME NEW t \in Threads, t # self
        PROVE  /\ td_timer'[t] = td_timer[t]
               /\ (Awaits(t) => Awaits(t)') /\ (Due(t) => Due(t)')
    BY <1>0, <1>1, <1>6 DEF Awaits, Due
  <1> QED
    BY <1>1, <1>5, <1>6, TimeoutsKept

\* A step inside the kernel that neither switches nor touches a timer.
LEMMA KernelTimeouts ==
    ASSUME KernelInv, KernelInv', TimeoutInv, Kernel
    PROVE  TimeoutInv'
  <1>0. self \in Threads /\ td_timer \in [Threads -> Timers] /\ td_state \in [Threads -> States]
        /\ pc \in [Threads -> Points] /\ reg \in Regs
    BY AtPlace DEF KernelInv, TypeOK
  <1>1. CASE WaitRead \/ WaitClear \/ BroadcastNext \/ IdleDestroy
    <2>1. /\ pc[self] \in {"wait", "clear", "bcast", "destroy"}
          /\ UNCHANGED <<runningThread, nutThreadList, td_timer, td_state>>
          /\ \E p : pc' = [pc EXCEPT ![self] = p]
      BY <1>1 DEF WaitRead, WaitClear, BroadcastNext, IdleDestroy, At, Goto, lists, tcb
    <2>2. ~Resuming /\ \A t \in Threads : t # self => pc'[t] = pc[t]
      BY <1>0, <2>1 DEF Resuming
    <2> QED
      BY <2>1, <2>2, MovesOn
  <1>2. CASE WaitEnter
    <2>1. pc[self] = "enter" /\ UNCHANGED <<runningThread, nutThreadList>> /\ ~Resuming
      BY <1>2 DEF WaitEnter, At, Resuming
    <2>2. CASE HasThreads(root[reg.q])
      <3>1. UNCHANGED <<td_timer, td_state>> /\ pc' = [pc EXCEPT ![self] = "link"]
        BY <1>2, <2>2 DEF WaitEnter, Goto
      <3>2. \A t \in Threads : t # self => pc'[t] = pc[t]
        BY <1>0, <3>1
      <3> QED
        BY <2>1, <3>1, <3>2, MovesOn
    <2>3. CASE ~HasThreads(root[reg.q])
      BY <1>2, <2>1, <2>3, FallsAsleep DEF WaitEnter
    <2> QED
      BY <2>2, <2>3
  <1>3. CASE WaitLink
    BY <1>3, FallsAsleep DEF WaitLink, At
  <1>4. CASE PostRead \/ PostPop
    <2>1. /\ pc[self] \in {"post", "pop"}
          /\ UNCHANGED <<runningThread, nutThreadList, td_timer, td_state>>
          /\ \/ PostDone
             \/ \E p \in {"pop", "ready"} : \E td :
                   pc' = [pc EXCEPT ![self] = p] /\ reg' = [reg EXCEPT !.td = td]
      <3>1. reg = [reg EXCEPT !.td = reg.td]
        BY <1>0 DEF Regs
      <3> QED
        BY <1>4, <3>1 DEF PostRead, PostPop, At, Goto, lists, tcb
    <2>2. Resuming => Resuming' /\ reg'.after = reg.after
      BY <1>0, <2>1, AfterIsKept
    <2>3. \A t \in Threads : t # self => pc'[t] = pc[t]
      BY <1>0, <2>1 DEF PostDone, Goto
    <2> QED
      BY <2>1, <2>2, <2>3, MovesOn
  <1>5. CASE PostReady
    <2>1. /\ pc[self] = "ready" /\ PostDone /\ UNCHANGED <<runningThread, nutThreadList>>
          /\ td_timer' = [td_timer EXCEPT ![reg.td] = "none"]
          /\ td_state' = [td_state EXCEPT ![reg.td] = "READY"]
      BY <1>5 DEF PostReady, At, MakeReady, StopTimer
    <2>2. Resuming => Resuming' /\ reg'.after = reg.after
      BY <1>0, <2>1, AfterIsKept
    <2>3. \A t \in Threads : t # self => pc'[t] = pc[t]
      BY <1>0, <2>1 DEF PostDone, Goto
    <2>4. \A t \in Threads : td_timer'[t] \in {"none", "wake"}
                             \/ (td_timer'[t] = td_timer[t] /\ td_state'[t] = td_state[t])
      BY <1>0, <2>1
    <2> QED
      BY <2>1, <2>2, <2>3, <2>4, MovesOn
  <1>6. CASE Yield
    <2>1. /\ pc[self] \in {"yield", "app"} /\ UNCHANGED <<runningThread, nutThreadList>>
          /\ UNCHANGED <<td_timer, td_state>> /\ pc' = [pc EXCEPT ![self] = "scan"]
      BY <1>6 DEF Yield, At, Resume, Goto
    <2>2. ~Resuming /\ \A t \in Threads : t # self => pc'[t] = pc[t]
      BY <1>0, <2>1 DEF Resuming
    <2> QED
      BY <2>1, <2>2, MovesOn
  <1>7. CASE Scan
    <2>1. /\ pc[self] = "scan" /\ UNCHANGED <<runningThread, nutThreadList, td_timer, td_state>>
          /\ \/ \E p \in {"elapsed", "take"} : pc' = [pc EXCEPT ![self] = p] /\ reg' = reg
             \/ pc' = pc /\ reg' = [reg EXCEPT !.cur = @ + 1]
      BY <1>7 DEF Scan, At, Goto, lists, tcb
    <2>2. Resuming' /\ reg'.after = reg.after
      BY <1>0, <2>1 DEF Resuming, Regs, self
    <2>3. \A t \in Threads : t # self => pc'[t] = pc[t]
      BY <1>0, <2>1
    <2> QED
      BY <2>1, <2>2, <2>3, MovesOn
  <1>8. CASE ScanTake
    <2>1. PICK q : /\ pc[self] = "take"
                   /\ UNCHANGED <<runningThread, nutThreadList, td_timer, td_state>>
                   /\ \/ /\ pc' = [pc EXCEPT ![self] = "scan"]
                         /\ reg' = [reg EXCEPT !.cur = @ + 1]
                      \/ /\ pc' = [pc EXCEPT ![self] = "post"]
                         /\ reg' = [reg EXCEPT !.q = q, !.ret = "scan"]
      BY <1>8 DEF ScanTake, At, Goto, lists, tcb
    <2>2. Resuming' /\ reg'.after = reg.after
      BY <1>0, <2>1 DEF Resuming, Regs, self
    <2>3. \A t \in Threads : t # self => pc'[t] = pc[t]
      BY <1>0, <2>1
    <2> QED
      BY <2>1, <2>2, <2>3, MovesOn
  <1>9. CASE Dispatch
    BY <1>9, DispatchTimeouts
  <1>10. CASE Return
    BY <1>10, ReturnTimeouts
  <1> QED
    BY <1>1, <1>2, <1>3, <1>4, <1>5, <1>6, <1>7, <1>8, <1>9, <1>10 DEF Kernel

\* A timer elapses for a thread that awaits it, and then is due.
LEMMA ElapseTimeouts ==
    ASSUME KernelInv, TimeoutInv, Elapse
    PROVE  TimeoutInv'
  <1>0. self \in Threads /\ td_timer \in [Threads -> Timers] /\ td_state \in [Threads -> States]
    BY AtPlace DEF KernelInv, TypeOK
  <1>1. PICK u \in Threads : EventTimeout(u) \/ ThreadWake(u)
    BY DEF Elapse
  <1>2. /\ pc[self] = "elapsed" /\ UNCHANGED <<runningThread, nutThreadList, pc, reg>>
        /\ td_state' = [td_state EXCEPT ![u] = "READY"] /\ self' = self
    BY <1>1 DEF EventTimeout, ThreadWake, At, MakeReady, self
  <1>3. \A t \in Threads : /\ Awaits(t)' <=> Awaits(t)
                           /\ Due(t)' <=> Due(t)
    BY <1>2 DEF Awaits, Due, Resuming, At
  <1>4. CASE EventTimeout(u)
    <2>1. td_timer[u] = "event" /\ td_timer' = [td_timer EXCEPT ![u] = "timedout"]
      BY <1>4 DEF EventTimeout
    <2>2. Due(u)'
      BY <1>2, <1>3, <2>1 DEF TimeoutInv, TimeoutOf, Awaits, Due, At
    <2>3. TimeoutOf(u)'
      BY <1>0, <1>2, <2>1, <2>2 DEF TimeoutOf
    <2>4. ASSUME NEW t \in Threads, t # u PROVE TimeoutOf(t)'
      BY <1>0, <1>2, <1>3, <2>1, <2>4 DEF TimeoutInv, TimeoutOf
    <2> QED
      BY <2>3, <2>4 DEF TimeoutInv
  <1>5. CASE ThreadWake(u)
    <2>1. td_timer' = [td_timer EXCEPT ![u] = "none"]
      BY <1>5 DEF ThreadWake
    <2> QED
      BY <1>0, <1>2, <1>3, <2>1, TimeoutsKept
  <1> QED
    BY <1>1, <1>4, <1>5

\* Every step keeps the timeouts.
LEMMA TimeoutNext == KernelInv /\ KernelInv' /\ TimeoutInv /\ [Next]_vars => TimeoutInv'
  <1> SUFFICES ASSUME KernelInv, KernelInv', TimeoutInv, [Next]_vars PROVE TimeoutInv'
    OBVIOUS
  <1>1. CASE Irq \/ UNCHANGED vars
    <2>1. UNCHANGED <<runningThread, nutThreadList, td_timer, td_state, pc, reg>>
      BY <1>1 DEF Irq, PostFromIrq, vars, lists, tcb
    <2>2. \A t \in Threads : (Awaits(t)' <=> Awaits(t)) /\ (Due(t)' <=> Due(t))
      BY <2>1 DEF Awaits, Due, Resuming, At, self
    <2> QED
      BY <2>1, <2>2, TimeoutsKept
  <1> QED
    BY <1>1, CallTimeouts, KernelTimeouts, ElapseTimeouts DEF Next

\* A timeout never fires for a thread that has stopped waiting, and no
\* thread takes the mark of an old timeout into its next wait.
THEOREM KernelTimers == Spec => []TimeoutsBelongToWaiters
  <1>1. Init => TimeoutInv
    BY DEF Init, TimeoutInv, TimeoutOf
  <1>2. KernelInv /\ KernelInv' /\ TimeoutInv /\ [Next]_vars => TimeoutInv'
    BY TimeoutNext
  <1>3. KernelInv /\ TimeoutInv => TimeoutsBelongToWaiters
    <2> SUFFICES ASSUME KernelInv, TimeoutInv, NEW t \in Threads
                 PROVE  /\ td_timer[t] = "event" =>
                              /\ td_state[t] = "SLEEP"
                              /\ t \in Transit \/ Contains(root[td_queue[t]], t)
                        /\ td_timer[t] = "timedout" => td_state[t] # "SLEEP" /\ Due(t)
      BY DEF TimeoutsBelongToWaiters, Due
    <2>1. td_timer[t] = "event" => t \in Transit \/ Contains(root[td_queue[t]], t)
      <3> SUFFICES ASSUME td_timer[t] = "event"
                   PROVE  t \in Transit \/ Contains(root[td_queue[t]], t)
        OBVIOUS
      <3>1. Placed(t) /\ ~Contains(runQueue, t)
        BY WithoutTimeout DEF TimeoutInv, TimeoutOf, KernelInv, LiveInv
      <3>2. \A q \in Queues : Contains(root[q], t) => td_queue[t] = q
        BY DEF KernelInv, QueueInv
      <3> QED
        BY <3>1, <3>2 DEF Placed, Transit
    <2> QED
      BY <2>1 DEF TimeoutInv, TimeoutOf
  <1> QED
    BY <1>1, <1>2, <1>3, KernelInvariance, PTL DEF Spec

-----------------------------------------------------------------------------
(***************************************************************************)
(* 4. The order of the queues.                                             *)
(***************************************************************************)

\* A chain whose threads come by priority, the most urgent (the smallest
\* number) first.
Ordered(s, pri) == \A i, j \in DOMAIN s : i < j => pri[s[i]] <= pri[s[j]]

\* A chain that ends with e.
EndsWith(s, e) == s # <<>> /\ s[Len(s)] = e

\* The elements of a chain after one of them is unlinked.
LEMMA WithoutElements ==
    ASSUME NEW s, Linked(s), NEW t, Contains(s, t)
    PROVE  /\ Position(s, t) \in 1 .. Len(s)
           /\ Len(Without(s, t)) = Len(s) - 1
           /\ DOMAIN Without(s, t) = 1 .. (Len(s) - 1)
           /\ \A j \in 1 .. (Len(s) - 1) :
                  Without(s, t)[j] = IF j < Position(s, t) THEN s[j] ELSE s[j + 1]
  <1>. DEFINE p == Position(s, t)
              w == Without(s, t)
  <1>1. p \in 1 .. Len(s)
    BY PositionFinds
  <1>2. w = RemoveAt(s, p)
    BY DEF Without
  <1>3. s \in Seq(Threads)
    BY DEF Linked
  <1>. HIDE DEF p, w
  <1>4. /\ w \in Seq(Threads) /\ Len(w) = Len(s) - 1
        /\ \A j \in 1 .. (Len(s) - 1) : w[j] = IF j < p THEN s[j] ELSE s[j + 1]
    BY <1>1, <1>2, <1>3, RemoveAtElements
  <1>5. DOMAIN w = 1 .. (Len(s) - 1)
    BY <1>4, LenProperties
  <1> QED
    BY <1>1, <1>4, <1>5 DEF p, w

\* Unlinking a thread keeps the others in their order ...
LEMMA WithoutOrdered ==
    ASSUME NEW s, Linked(s), NEW t, NEW pri, Ordered(s, pri)
    PROVE  Ordered(Without(s, t), pri)
  <1>1. CASE ~Contains(s, t)
    BY <1>1 DEF Without
  <1>2. CASE Contains(s, t)
    <2>. DEFINE w == Without(s, t)
    <2>1. /\ Position(s, t) \in 1 .. Len(s) /\ Len(s) \in Nat
          /\ DOMAIN w = 1 .. (Len(s) - 1) /\ DOMAIN s = 1 .. Len(s)
          /\ \A j \in 1 .. (Len(s) - 1) :
                 w[j] = IF j < Position(s, t) THEN s[j] ELSE s[j + 1]
      BY <1>2, WithoutElements, LinkedElements
    <2>. HIDE DEF w
    <2> SUFFICES ASSUME NEW i \in DOMAIN w, NEW j \in DOMAIN w, i < j
                 PROVE  pri[w[i]] <= pri[w[j]]
      BY DEF Ordered, w
    <2>. DEFINE O(k) == IF k < Position(s, t) THEN k ELSE k + 1
    <2>2. /\ O(i) \in 1 .. Len(s) /\ O(j) \in 1 .. Len(s) /\ O(i) < O(j)
          /\ w[i] = s[O(i)] /\ w[j] = s[O(j)]
      BY <2>1
    <2>. HIDE DEF O
    <2> QED
      BY <2>1, <2>2 DEF Ordered
  <1> QED
    BY <1>1, <1>2

\* ... and the last one last.
LEMMA WithoutLast ==
    ASSUME NEW s, Linked(s), NEW t, NEW e, e # t, EndsWith(s, e)
    PROVE  EndsWith(Without(s, t), e)
  <1>1. CASE ~Contains(s, t)
    BY <1>1 DEF Without
  <1>2. CASE Contains(s, t)
    <2>. DEFINE w == Without(s, t)
    <2>1. /\ Position(s, t) \in 1 .. Len(s) /\ Len(s) \in Nat /\ Len(w) = Len(s) - 1
          /\ \A j \in 1 .. (Len(s) - 1) :
                 w[j] = IF j < Position(s, t) THEN s[j] ELSE s[j + 1]
      BY <1>2, WithoutElements, LinkedElements
    <2>2. s[Position(s, t)] = t
      BY <1>2, PositionFinds
    <2>3. Position(s, t) # Len(s)
      BY <2>2 DEF EndsWith
    <2>4. Len(w) \in 1 .. (Len(s) - 1) /\ ~(Len(w) < Position(s, t)) /\ Len(w) + 1 = Len(s)
      BY <2>1, <2>3
    <2>5. w[Len(w)] = s[Len(w) + 1]
      BY <2>1, <2>4
    <2>6. w # <<>>
      BY <2>1, <2>3
    <2> QED
      BY <2>4, <2>5, <2>6 DEF EndsWith
  <1> QED
    BY <1>1, <1>2

\* The elements of a chain after a thread is linked into it.
LEMMA InsertElements ==
    ASSUME NEW s, Linked(s), NEW i \in 1 .. (Len(s) + 1), NEW t \in Threads
    PROVE  /\ Len(InsertAt(s, i, t)) = Len(s) + 1
           /\ DOMAIN InsertAt(s, i, t) = 1 .. (Len(s) + 1)
           /\ \A j \in 1 .. (Len(s) + 1) :
                  InsertAt(s, i, t)[j] = IF j < i THEN s[j] ELSE IF j = i THEN t ELSE s[j - 1]
  <1>. DEFINE w == InsertAt(s, i, t)
  <1>1. s \in Seq(Threads)
    BY DEF Linked
  <1>2. w \in Seq(Threads) /\ Len(w) = Len(s) + 1
    BY <1>1, InsertAtElements
  <1>3. \A j \in 1 .. (Len(s) + 1) :
            w[j] = IF j < i THEN s[j] ELSE IF j = i THEN t ELSE s[j - 1]
    BY <1>1, InsertAtElements
  <1>. HIDE DEF w
  <1>4. DOMAIN w = 1 .. (Len(s) + 1)
    BY <1>2, LenProperties
  <1> QED
    BY <1>2, <1>3, <1>4 DEF w

\* A thread linked behind everybody who is as urgent and in front of one who
\* is not keeps the chain in order.
LEMMA InsertOrdered ==
    ASSUME NEW s, Linked(s), NEW pri \in [Threads -> Nat], Ordered(s, pri),
           NEW t \in Threads, NEW i \in 1 .. (Len(s) + 1),
           \A j \in 1 .. (i - 1) : pri[s[j]] <= pri[t],
           i <= Len(s) => pri[s[i]] > pri[t]
    PROVE  Ordered(InsertAt(s, i, t), pri)
  <1>. DEFINE w == InsertAt(s, i, t)
  <1>1. /\ DOMAIN w = 1 .. (Len(s) + 1)
        /\ \A j \in 1 .. (Len(s) + 1) :
               w[j] = IF j < i THEN s[j] ELSE IF j = i THEN t ELSE s[j - 1]
    BY InsertElements
  <1>2. Len(s) \in Nat /\ DOMAIN s = 1 .. Len(s) /\ \A j \in 1 .. Len(s) : pri[s[j]] \in Nat
    BY LinkedElements
  <1>3. pri[t] \in Nat
    OBVIOUS
  <1>. HIDE DEF w
  <1>4. ASSUME NEW j \in 1 .. Len(s), j >= i PROVE pri[s[j]] > pri[t]
    <2>1. i \in 1 .. Len(s) /\ pri[s[i]] > pri[t]
      BY <1>2, <1>4
    <2>2. i = j \/ pri[s[i]] <= pri[s[j]]
      BY <1>2, <1>4, <2>1 DEF Ordered
    <2> QED
      BY <1>2, <1>3, <2>1, <2>2
  <1> SUFFICES ASSUME NEW j \in 1 .. (Len(s) + 1), NEW k \in 1 .. (Len(s) + 1), j < k
               PROVE  pri[w[j]] <= pri[w[k]]
    BY <1>1 DEF Ordered, w
  <1>5. CASE k < i
    <2>1. j \in 1 .. Len(s) /\ k \in 1 .. Len(s) /\ w[j] = s[j] /\ w[k] = s[k]
      BY <1>1, <1>2, <1>5
    <2> QED
      BY <1>2, <2>1 DEF Ordered
  <1>6. CASE k = i
    <2>1. j \in 1 .. (i - 1) /\ w[j] = s[j] /\ w[k] = t
      BY <1>1, <1>2, <1>6
    <2> QED
      BY <2>1
  <1>7. CASE k > i
    <2>1. k - 1 \in 1 .. Len(s) /\ k - 1 >= i /\ w[k] = s[k - 1]
      BY <1>1, <1>2, <1>7
    <2>2. CASE j < i
      <3>1. j \in 1 .. Len(s) /\ j < k - 1 /\ w[j] = s[j]
        BY <1>1, <1>2, <1>7, <2>2
      <3>2. pri[s[j]] <= pri[s[k - 1]]
        BY <1>2, <2>1, <3>1 DEF Ordered
      <3> QED
        BY <2>1, <3>1, <3>2
    <2>3. CASE j = i
      <3>1. w[j] = t /\ pri[s[k - 1]] > pri[t] /\ pri[s[k - 1]] \in Nat
        BY <1>1, <1>2, <1>4, <2>1, <2>3
      <3> QED
        BY <1>3, <2>1, <3>1
    <2>4. CASE j > i
      <3>1. j - 1 \in 1 .. Len(s) /\ j - 1 < k - 1 /\ w[j] = s[j - 1]
        BY <1>1, <1>2, <1>7, <2>4
      <3>2. pri[s[j - 1]] <= pri[s[k - 1]]
        BY <1>2, <2>1, <3>1 DEF Ordered
      <3> QED
        BY <2>1, <3>1, <3>2
    <2> QED
      BY <2>2, <2>3, <2>4
  <1> QED
    BY <1>5, <1>6, <1>7

\* NutThreadAddPriQueue keeps a queue in order.
LEMMA AddPriOrdered ==
    ASSUME NEW s, Linked(s), NEW pri \in [Threads -> Nat], Ordered(s, pri), NEW t \in Threads
    PROVE  Ordered(AddPri(s, t, pri), pri)
  <1>1. ~IsSignaled(s)
    BY LinkedElements
  <1>. DEFINE i == PriPosition(s, t, pri)
  <1>2. /\ i \in 1 .. (Len(s) + 1)
        /\ \A j \in 1 .. (i - 1) : pri[s[j]] <= pri[t]
        /\ i <= Len(s) => pri[s[i]] > pri[t]
    BY PriPositionInRange
  <1>3. AddPri(s, t, pri) = InsertAt(s, i, t)
    BY <1>1 DEF AddPri
  <1>. HIDE DEF i
  <1> QED
    BY <1>2, <1>3, InsertOrdered

\* NutThreadAddPriQueue never passes a last thread that is less urgent.
LEMMA AddPriLast ==
    ASSUME NEW s, Linked(s), NEW pri \in [Threads -> Nat], NEW t \in Threads,
           NEW e, EndsWith(s, e), pri[t] < pri[e]
    PROVE  EndsWith(AddPri(s, t, pri), e)
  <1>1. ~IsSignaled(s) /\ Len(s) \in Nat /\ \A j \in 1 .. Len(s) : s[j] \in Threads
    BY LinkedElements
  <1>. DEFINE i == PriPosition(s, t, pri)
              w == InsertAt(s, i, t)
  <1>2. /\ i \in 1 .. (Len(s) + 1)
        /\ \A j \in 1 .. (i - 1) : pri[s[j]] <= pri[t]
    BY PriPositionInRange
  <1>3. AddPri(s, t, pri) = w
    BY <1>1 DEF AddPri
  <1>. HIDE DEF i
  <1>4. Len(w) = Len(s) + 1
        /\ \A j \in 1 .. (Len(s) + 1) :
               w[j] = IF j < i THEN s[j] ELSE IF j = i THEN t ELSE s[j - 1]
    BY <1>2, InsertElements
  <1>. HIDE DEF w
  <1>5. i # Len(s) + 1
    <2> SUFFICES ASSUME i = Len(s) + 1 PROVE FALSE
      OBVIOUS
    <2>1. Len(s) \in 1 .. (i - 1)
      BY <1>1, EmptySeq DEF EndsWith, Linked
    <2>2. pri[e] <= pri[t] /\ e \in Threads
      BY <1>1, <1>2, <2>1 DEF EndsWith
    <2>3. pri[e] \in Nat /\ pri[t] \in Nat
      BY <2>2
    <2> QED
      BY <2>2, <2>3
  <1>6. Len(w) \in 1 .. (Len(s) + 1) /\ ~(Len(w) < i) /\ Len(w) # i /\ Len(w) - 1 = Len(s)
    BY <1>1, <1>2, <1>4, <1>5
  <1>7. w[Len(w)] = s[Len(w) - 1]
    BY <1>4, <1>6
  <1>8. w # <<>>
    BY <1>1, <1>4
  <1> QED
    BY <1>3, <1>6, <1>7, <1>8 DEF EndsWith

\* The order of a chain depends on the priorities of its own threads only.
LEMMA SamePriorities ==
    ASSUME NEW s, Linked(s), NEW pri, NEW new, Ordered(s, pri),
           \A u \in Threads : Contains(s, u) => new[u] = pri[u]
    PROVE  Ordered(s, new)
  BY LinkedElements DEF Ordered, Contains

\* What is left of a queue that a thread is taken out of.
LEMMA DropOrdered ==
    ASSUME NEW s, Linked(s), NEW t, NEW pec, NEW pri, Ordered(s, pri),
           IsSignaled(DropLatch(s, t, pec)) \/ Linked(DropLatch(s, t, pec))
    PROVE  IsSignaled(DropLatch(s, t, pec)) \/ Ordered(DropLatch(s, t, pec), pri)
  <1>1. DropLatch(s, t, pec) = Without(s, t) \/ DropLatch(s, t, pec) = Append(Without(s, t), SIGNALED)
    BY DEF DropLatch
  <1>2. CASE DropLatch(s, t, pec) = Without(s, t)
    BY <1>2, WithoutOrdered
  <1>3. CASE DropLatch(s, t, pec) = Append(Without(s, t), SIGNALED)
    <2>. DEFINE w == Without(s, t)
                a == Append(w, SIGNALED)
    <2>1. w \in Seq(Threads)
      BY WithoutLinked DEF Linked
    <2>. HIDE DEF w
    <2>2. /\ Len(w) \in Nat /\ Len(a) = Len(w) + 1 /\ a[Len(w) + 1] = SIGNALED
          /\ a \in Seq(Threads \cup {SIGNALED})
      BY <2>1
    <2>3. Linked(a) => FALSE
      <3>1. Len(w) + 1 \in 1 .. Len(a)
        BY <2>2
      <3> QED
        BY <2>2, <3>1, LinkedElements, SignaledIsNoThread
    <2> QED
      BY <1>3, <2>3 DEF w
  <1> QED
    BY <1>1, <1>2, <1>3

\* A thread put on top leaves the last one last.
LEMMA ConsLast ==
    ASSUME NEW s, Linked(s), NEW t \in Threads, NEW e, EndsWith(s, e)
    PROVE  EndsWith(<<t>> \o s, e)
  <1>1. s \in Seq(Threads) /\ Len(s) \in Nat /\ Len(s) # 0
    BY LinkedElements, EmptySeq DEF Linked, EndsWith
  <1>2. /\ Len(<<t>> \o s) = Len(s) + 1 /\ (<<t>> \o s)[Len(s) + 1] = s[Len(s)]
        /\ <<t>> \o s # <<>>
    BY <1>1
  <1> QED
    BY <1>2 DEF EndsWith

-----------------------------------------------------------------------------
\* What keeps the queues in order, step by step.
EventOrder == \A q \in Queues : IsSignaled(root[q]) \/ Ordered(root[q], td_priority)

\* The place that the walk of NutThreadAddPriQueue has found stays the right
\* one until the caller is linked.
LinkPlace ==
    At("link") =>
        /\ \A j \in 1 .. Len(root[reg.q]) :
               reg.td = NoOne \/ j < Position(root[reg.q], reg.td)
                   => td_priority[root[reg.q][j]] <= td_priority[self]
        /\ reg.td # NoOne => td_priority[reg.td] > td_priority[self]

\* The idle thread is the least urgent of the living threads.
PriorityInv ==
    /\ td_priority[Idle] = IdlePriority
    /\ \A t \in Apps : Contains(nutThreadList, t) => td_priority[t] < IdlePriority

\* The run queue ends with the idle thread whatever happens, and is in order
\* unless NutSleep has failed.
RunOk(s, pri) == EndsWith(s, Idle) /\ (HeapMayFail \/ Ordered(s, pri))

OrderInv ==
    /\ EventOrder /\ LinkPlace /\ PriorityInv
    /\ RunOk(runQueue, td_priority)

\* The state NutIdle leaves behind.
LEMMA OrderInit == Init => OrderInv
  <1> SUFFICES ASSUME Init PROVE OrderInv
    OBVIOUS
  <1>. USE KernelAssumption
  <1>1. EventOrder
    BY DEF Init, EventOrder, Ordered
  <1>2. LinkPlace
    BY DEF Init, LinkPlace, At, self
  <1>3. PriorityInv
    BY DEF Init, PriorityInv, Apps, IdlePriority, DefaultPriority
  <1>4. RunOk(runQueue, td_priority)
    BY DEF Init, RunOk, EndsWith, Ordered, IdlePriority, DefaultPriority
  <1> QED
    BY <1>1, <1>2, <1>3, <1>4 DEF OrderInv

\* A thread more urgent than the idle thread gets ready.
LEMMA RunAdd ==
    ASSUME NEW s, Linked(s), NEW pri \in [Threads -> Nat], RunOk(s, pri),
           NEW t \in Threads, pri[t] < pri[Idle]
    PROVE  RunOk(AddPri(s, t, pri), pri)
  BY AddPriLast, AddPriOrdered DEF RunOk

\* A thread other than the idle thread leaves the run queue.
LEMMA RunDrop ==
    ASSUME NEW s, Linked(s), NEW t, t # Idle, NEW pri, RunOk(s, pri)
    PROVE  RunOk(Without(s, t), pri)
  BY WithoutLast, WithoutOrdered DEF RunOk

\* Threads that wait, sleep or are being moved are application threads that
\* live, and so are all ready threads but the idle thread.
LEMMA MoreUrgent ==
    ASSUME KernelInv, PriorityInv, NEW t \in Threads,
           \/ \E q \in Queues : Contains(root[q], t)
           \/ td_timer[t] = "wake"
           \/ At("ready") /\ t = reg.td
           \/ t # Idle /\ Contains(runQueue, t)
    PROVE  t \in Apps /\ td_priority[t] < td_priority[Idle]
  <1>1. Idle \in Threads /\ RunQ \notin Queues /\ RunQ # NoOne
    BY KernelAssumption
  <1>2. td_queue[Idle] = RunQ
    BY <1>1 DEF KernelInv, QueueInv
  <1>3. t # Idle
    BY <1>1, <1>2 DEF KernelInv, QueueInv, TimerInv, TransitInv, LocalsInv, At
  <1>4. Contains(nutThreadList, t)
    BY DEF KernelInv, LiveInv, Placed
  <1> QED
    BY <1>3, <1>4 DEF PriorityInv, Apps

\* After a step of the running thread that does not leave it between the
\* two critical sections of AddPriQueue.
LEMMA NotLinking ==
    ASSUME KernelInv, UNCHANGED runningThread, NEW p, p # "link",
           pc' = [pc EXCEPT ![self] = p]
    PROVE  ~At("link")'
  BY AtPlace DEF At, self

\* Most steps change no priority and no list of living threads: it is left
\* to see that the queues they touch stay in order.
LEMMA OrderKept ==
    ASSUME OrderInv, UNCHANGED <<nutThreadList, td_priority>>, ~At("link")',
           \A q \in Queues : \/ root'[q] = root[q] \/ Unthreaded(root'[q])
                             \/ Ordered(root'[q], td_priority),
           RunOk(runQueue', td_priority)
    PROVE  OrderInv'
  <1>1. Ordered(<<>>, td_priority)
    BY DEF Ordered
  <1>2. EventOrder'
    BY <1>1 DEF OrderInv, EventOrder, Unthreaded
  <1>3. LinkPlace' /\ PriorityInv'
    BY DEF OrderInv, LinkPlace, PriorityInv
  <1> QED
    BY <1>2, <1>3 DEF OrderInv

\* Kernel calls that begin, read, or end without moving a thread.
LEMMA CallsKeepOrder ==
    ASSUME KernelInv, OrderInv,
           \/ \E q \in Queues, ms \in BOOLEAN : EventWait(q, ms) \/ EventWaitNext(q, ms)
           \/ \E q \in Queues, async \in BOOLEAN : EventPost(q, async) \/ EventBroadcast(q, async)
           \/ WaitRead \/ WaitClear \/ BroadcastNext \/ PostRead \/ Scan \/ ScanTake
           \/ Return \/ IdleDestroy
    PROVE  OrderInv'
  <1>1. UNCHANGED <<runningThread, runQueue, nutThreadList, td_priority>>
    BY DEF EventWait, EventWaitNext, EventPost, EventBroadcast, WaitRead, WaitClear,
           BroadcastNext, PostRead, Scan, ScanTake, Return, IdleDestroy, lists, tcb
  <1>2. \A q \in Queues : root'[q] = root[q] \/ Unthreaded(root'[q])
    BY AtPlace DEF EventWait, EventWaitNext, EventPost, EventBroadcast, WaitRead, WaitClear,
           BroadcastNext, PostRead, Scan, ScanTake, Return, IdleDestroy, lists, Unthreaded
  <1>3. PICK p \in Points \ {"link"} : pc' = [pc EXCEPT ![self] = p]
    <2>1. ASSUME UNCHANGED pc, ~At("link")
          PROVE  \E p \in Points \ {"link"} : pc' = [pc EXCEPT ![self] = p]
      BY <2>1, AtPlace DEF At
    <2>2. CASE PostRead
      BY <2>2 DEF PostRead, PostDone, Goto, Points
    <2>3. CASE Scan \/ ScanTake
      BY <2>1, <2>3 DEF Scan, ScanTake, Goto, Points, At
    <2>4. CASE Return \/ IdleDestroy \/ WaitRead \/ WaitClear \/ BroadcastNext
      BY <2>4 DEF Return, IdleDestroy, WaitRead, WaitClear, BroadcastNext, Goto, Points
    <2>5. ASSUME NEW q \in Queues, NEW b \in BOOLEAN,
                 \/ EventWait(q, b) \/ EventWaitNext(q, b)
                 \/ EventPost(q, b) \/ EventBroadcast(q, b)
          PROVE  \E p \in Points \ {"link"} : pc' = [pc EXCEPT ![self] = p]
      BY <2>5 DEF EventWait, EventWaitNext, EventPost, EventBroadcast, Goto, Points
    <2> QED
      BY <2>2, <2>3, <2>4, <2>5
  <1>4. ~At("link")'
    BY <1>1, <1>3, NotLinking
  <1> QED
    BY <1>1, <1>2, <1>4, OrderKept DEF OrderInv

\* An interrupt marks only a queue in which nobody waits, so it does not
\* disturb a walk that is over.
LEMMA IrqKeepsOrder ==
    ASSUME KernelInv, OrderInv, NEW q \in Queues, PostFromIrq(q)
    PROVE  OrderInv'
  <1>1. UNCHANGED <<runningThread, runQueue, nutThreadList, td_priority, pc, reg>>
    BY DEF PostFromIrq
  <1>2. root' = root \/ (root[q] = <<>> /\ root' = [root EXCEPT ![q] = <<SIGNALED>>])
    BY DEF PostFromIrq
  <1>3. \A r \in Queues : root'[r] = root[r] \/ (root[r] = <<>> /\ IsSignaled(root'[r]))
    BY <1>2, AtPlace DEF IsSignaled
  <1>4. EventOrder'
    BY <1>1, <1>3 DEF OrderInv, EventOrder
  <1>5. LinkPlace'
    <2>1. At("link")' <=> At("link")
      BY <1>1 DEF At, self
    <2>2. At("link") => root'[reg.q] = root[reg.q]
      BY <1>3 DEF KernelInv, LocalsInv, TransitInv, At
    <2> QED
      BY <1>1, <2>1, <2>2 DEF OrderInv, LinkPlace, self
  <1> QED
    BY <1>1, <1>4, <1>5 DEF OrderInv, PriorityInv

\* A post unlinks the head: the others stay in order.
LEMMA PostPopKeepsOrder == ASSUME KernelInv, OrderInv, PostPop PROVE OrderInv'
  <1>1. /\ UNCHANGED <<runningThread, runQueue, nutThreadList, td_priority>>
        /\ pc[self] = "pop" /\ reg.q \in Queues
    BY DEF PostPop, At, KernelInv, LocalsInv
  <1>2. PICK p \in Points \ {"link"} : pc' = [pc EXCEPT ![self] = p]
    BY DEF PostPop, PostDone, Goto, Points
  <1>3. ~At("link")'
    BY <1>1, <1>2, NotLinking
  <1>4. CASE reg.td = NoOne
    <2>1. root' = [root EXCEPT ![reg.q] = <<SIGNALED>>]
      BY <1>4 DEF PostPop
    <2>2. \A r \in Queues : root'[r] = root[r] \/ Unthreaded(root'[r])
      BY <1>1, <2>1, AtPlace DEF Unthreaded, IsSignaled
    <2> QED
      BY <1>1, <1>3, <2>2, OrderKept DEF OrderInv
  <1>5. CASE reg.td # NoOne
    <2>. DEFINE s == root[reg.q]
                r == DropLatch(s, reg.td, td_qpec)
    <2>1. root' = [root EXCEPT ![reg.q] = r]
      BY <1>5 DEF PostPop
    <2>2. Linked(s) /\ s # <<>> /\ reg.td = Head(s)
      BY <1>1, <1>5 DEF KernelInv, TransitInv, At
    <2>3. reg.td \in Threads /\ Contains(s, reg.td)
      BY <2>2, LinkedElements
    <2>4. IsSignaled(r) \/ Linked(r)
      BY <1>1, <2>3, Unqueueing
    <2>5. Ordered(s, td_priority)
      BY <1>1, <2>2, LinkedElements DEF OrderInv, EventOrder
    <2>6. IsSignaled(r) \/ Ordered(r, td_priority)
      BY <2>2, <2>4, <2>5, DropOrdered
    <2>. HIDE DEF r, s
    <2>7. \A x \in Queues : \/ root'[x] = root[x] \/ Unthreaded(root'[x])
                            \/ Ordered(root'[x], td_priority)
      BY <1>1, <2>1, <2>6, AtPlace DEF Unthreaded
    <2> QED
      BY <1>1, <1>3, <2>7, OrderKept DEF OrderInv
  <1> QED
    BY <1>4, <1>5

\* A post or a timer makes a thread ready.
LEMMA ReadyKeepsOrder ==
    ASSUME KernelInv, OrderInv, PostReady \/ \E t \in Threads : ThreadWake(t)
    PROVE  OrderInv'
  <1>1. PICK t \in Threads :
           /\ runQueue' = AddPri(runQueue, t, td_priority)
           /\ td_timer[t] = "wake" \/ (At("ready") /\ t = reg.td)
    BY DEF PostReady, ThreadWake, MakeReady, KernelInv, TransitInv
  <1>2. UNCHANGED <<runningThread, root, nutThreadList, td_priority>>
    BY DEF PostReady, ThreadWake
  <1>3. ~At("link")'
    <2>1. CASE PostReady
      <3>1. \E p \in Points \ {"link"} : pc' = [pc EXCEPT ![self] = p]
        BY <2>1 DEF PostReady, PostDone, Goto, Points
      <3> QED
        BY <1>2, <3>1, NotLinking
    <2>2. CASE \E u \in Threads : ThreadWake(u)
      BY <2>2 DEF ThreadWake, At, self
    <2> QED
      BY <2>1, <2>2
  <1>4. td_priority[t] < td_priority[Idle]
    BY <1>1, MoreUrgent DEF OrderInv
  <1>5. RunOk(runQueue', td_priority)
    BY <1>1, <1>4, PrioritiesAreNats, RunAdd DEF OrderInv, KernelInv, QueueInv
  <1> QED
    BY <1>2, <1>3, <1>5, OrderKept

\* A timeout takes its thread out of the middle of a queue.
LEMMA TimeoutKeepsOrder ==
    ASSUME KernelInv, OrderInv, NEW t \in Threads, EventTimeout(t)
    PROVE  OrderInv'
  <1>. DEFINE q == td_queue[t]
              s == root[q]
              r == DropLatch(s, t, td_qpec)
  <1>1. /\ UNCHANGED <<runningThread, nutThreadList, td_priority, pc, reg>>
        /\ pc[self] = "elapsed" /\ td_timer[t] = "event" /\ Contains(s, t)
        /\ root' = [root EXCEPT ![q] = r]
        /\ runQueue' = AddPri(runQueue, t, td_priority)
    BY DEF EventTimeout, At
  <1>2. q \in Queues
    BY <1>1 DEF KernelInv, TimerInv
  <1>3. Linked(s) /\ (IsSignaled(r) \/ Linked(r))
    BY <1>1, <1>2, Unqueueing, MarkHoldsNobody DEF KernelInv, QueueInv
  <1>4. Ordered(s, td_priority)
    BY <1>2, <1>3, LinkedElements DEF OrderInv, EventOrder
  <1>5. IsSignaled(r) \/ Ordered(r, td_priority)
    BY <1>3, <1>4, DropOrdered
  <1>6. td_priority[t] < td_priority[Idle]
    BY <1>1, <1>2, MoreUrgent DEF OrderInv
  <1>7. RunOk(runQueue', td_priority)
    BY <1>1, <1>6, PrioritiesAreNats, RunAdd DEF OrderInv, KernelInv, QueueInv
  <1>. HIDE DEF q, r, s
  <1>8. \A x \in Queues : \/ root'[x] = root[x] \/ Unthreaded(root'[x])
                          \/ Ordered(root'[x], td_priority)
    BY <1>1, <1>2, <1>5, AtPlace DEF Unthreaded
  <1>9. ~At("link")'
    BY <1>1 DEF At, self
  <1> QED
    BY <1>1, <1>7, <1>8, <1>9, OrderKept

\* The idle thread is the last: it has nobody to yield to.
LEMMA IdleHasNoSuccessor ==
    ASSUME NEW s, Linked(s), EndsWith(s, Idle)
    PROVE  ~HasSuccessor(s, Idle)
  <1>1. Len(s) \in 1 .. Len(s) /\ DOMAIN s = 1 .. Len(s)
    BY LinkedElements, EmptySeq DEF EndsWith, Linked
  <1>2. Contains(s, Idle)
    BY <1>1 DEF EndsWith, Contains
  <1>3. Position(s, Idle) = Len(s)
    BY <1>1, <1>2, PositionFinds, LinkedElements DEF EndsWith
  <1> QED
    BY <1>1, <1>3 DEF HasSuccessor

\* NutThreadYield puts the caller behind those who are as urgent.
LEMMA YieldKeepsOrder == ASSUME KernelInv, OrderInv, Yield PROVE OrderInv'
  <1>1. /\ UNCHANGED <<runningThread, root, nutThreadList, td_priority>>
        /\ Requeue /\ pc' = [pc EXCEPT ![self] = "scan"]
    BY DEF Yield, Resume, Goto
  <1>2. ~At("link")'
    BY <1>1, NotLinking
  <1>3. RunOk(runQueue', td_priority)
    <2>1. CASE ~HasSuccessor(runQueue, self)
      BY <1>1, <2>1 DEF Requeue, OrderInv
    <2>2. CASE HasSuccessor(runQueue, self)
      <3>. DEFINE s == Without(runQueue, self)
      <3>1. Contains(runQueue, self) /\ self # Idle /\ Linked(runQueue)
        BY <2>2, IdleHasNoSuccessor DEF HasSuccessor, OrderInv, RunOk, KernelInv, QueueInv
      <3>2. td_priority[self] < td_priority[Idle] /\ self \in Threads
        BY <3>1, AtPlace, MoreUrgent DEF OrderInv
      <3>3. RunOk(s, td_priority) /\ Linked(s)
        BY <3>1, RunDrop, WithoutLinked DEF OrderInv
      <3>4. runQueue' = AddPri(s, self, td_priority)
        BY <1>1, <2>2 DEF Requeue
      <3>. HIDE DEF s
      <3> QED
        BY <3>2, <3>3, <3>4, PrioritiesAreNats, RunAdd
    <2> QED
      BY <2>1, <2>2
  <1> QED
    BY <1>1, <1>2, <1>3, OrderKept

\* NutSleep, with and without memory for the timer.
LEMMA SleepKeepsOrder == ASSUME KernelInv, OrderInv, Sleep \/ SleepFails PROVE OrderInv'
  <1>1. /\ UNCHANGED <<runningThread, root, nutThreadList, td_priority>>
        /\ self \in Apps /\ pc[self] = "app"
    BY DEF Sleep, SleepFails, Free, At
  <1>2. self # Idle /\ Linked(runQueue) /\ Linked(Without(runQueue, self)) /\ self \in Threads
    BY <1>1, AtPlace, WithoutLinked DEF Apps, KernelInv, QueueInv
  <1>3. RunOk(Without(runQueue, self), td_priority)
    BY <1>2, RunDrop DEF OrderInv
  <1>4. RunOk(runQueue', td_priority)
    <2>1. CASE Sleep
      BY <1>3, <2>1 DEF Sleep
    <2>2. CASE SleepFails
      BY <1>2, <1>3, <2>2, ConsLast DEF SleepFails, RunOk
    <2> QED
      BY <2>1, <2>2
  <1>5. ~At("link")'
    <2>1. CASE Sleep
      <3>1. pc' = [pc EXCEPT ![self] = "scan"]
        BY <2>1 DEF Sleep, Resume, Goto
      <3> QED
        BY <1>1, <3>1, NotLinking
    <2>2. CASE SleepFails
      BY <1>1, <2>2 DEF SleepFails, At, self
    <2> QED
      BY <2>1, <2>2
  <1> QED
    BY <1>1, <1>4, <1>5, OrderKept

\* The switch to another thread moves nobody.
LEMMA DispatchKeepsOrder == ASSUME KernelInv, KernelInv', OrderInv, Dispatch PROVE OrderInv'
  <1>1. /\ UNCHANGED <<runQueue, root, nutThreadList, td_priority>>
        /\ pc' = [pc EXCEPT ![self] = reg.after]
    BY DEF Dispatch, Goto, lists
  <1>2. \A t \in Threads : pc'[t] # "link"
    BY <1>1, AtPlace DEF Regs, KernelInv, OthersParked, Parked
  <1>3. ~At("link")'
    BY <1>2, AtPlace DEF At, KernelInv, TypeOK, self
  <1> QED
    BY <1>1, <1>3, OrderKept DEF OrderInv

\* NutEventWait leaves the run queue, and either is the only one in the
\* queue or has found its place.
LEMMA WaitEnterKeepsOrder == ASSUME KernelInv, OrderInv, WaitEnter PROVE OrderInv'
  <1>. DEFINE q == reg.q
              s == root[q]
  <1>1. /\ UNCHANGED <<runningThread, nutThreadList, td_priority>>
        /\ pc[self] = "enter" /\ self \in Apps /\ q \in Queues /\ self \in Threads
        /\ runQueue' = Without(runQueue, self)
    BY AtPlace DEF WaitEnter, At, KernelInv, LocalsInv
  <1>2. RunOk(runQueue', td_priority)
    BY <1>1, RunDrop DEF OrderInv, KernelInv, QueueInv, Apps
  <1>3. CASE HasThreads(s)
    <2>. DEFINE i  == PriPosition(s, self, td_priority)
                td == IF i <= Len(s) THEN s[i] ELSE NoOne
    <2>1. /\ root' = root
          /\ pc' = [pc EXCEPT ![self] = "link"] /\ reg' = [reg EXCEPT !.td = td]
      BY <1>3 DEF WaitEnter, Goto
    <2>2. Linked(s) /\ s # <<>>
      BY <1>1, <1>3, AtPlace
    <2>3. /\ i \in 1 .. (Len(s) + 1)
          /\ \A j \in 1 .. (i - 1) : td_priority[s[j]] <= td_priority[self]
          /\ i <= Len(s) => td_priority[s[i]] > td_priority[self]
      BY <1>1, <2>2, PriPositionInRange, PrioritiesAreNats
    <2>. HIDE DEF i
    <2>4. CASE i <= Len(s)
      <3>1. i \in 1 .. Len(s) /\ td = s[i] /\ td \in Threads /\ Contains(s, td)
        BY <2>2, <2>3, <2>4, LinkedElements DEF Contains
      <3>2. Position(s, td) = i
        BY <2>2, <3>1, PositionFinds, LinkedElements
      <3>3. td # NoOne
        BY <3>1, KernelAssumption
      <3>. HIDE DEF td
      <3>4. \A j \in 1 .. Len(s) : j < Position(s, td) => td_priority[s[j]] <= td_priority[self]
        BY <2>3, <3>1, <3>2
      <3>5. reg'.td = td /\ reg'.q = q /\ self' = self
        BY <1>1, <2>1, AtPlace DEF Regs, self
      <3>6. LinkPlace'
        BY <1>1, <2>1, <2>3, <2>4, <3>1, <3>3, <3>4, <3>5 DEF LinkPlace
      <3> QED
        BY <1>1, <1>2, <2>1, <3>6 DEF OrderInv, EventOrder, PriorityInv
    <2>5. CASE ~(i <= Len(s))
      <3>1. td = NoOne
        BY <2>5
      <3>. HIDE DEF td
      <3>2. \A j \in 1 .. Len(s) : td_priority[s[j]] <= td_priority[self]
        <4>1. i = Len(s) + 1 /\ Len(s) \in Nat
          BY <2>2, <2>3, <2>5, LinkedElements
        <4> QED
          BY <2>3, <4>1
      <3>3. reg'.td = NoOne /\ reg'.q = q /\ self' = self
        BY <1>1, <2>1, <3>1, AtPlace DEF Regs, self
      <3>4. LinkPlace'
        BY <1>1, <2>1, <3>2, <3>3 DEF LinkPlace
      <3> QED
        BY <1>1, <1>2, <2>1, <3>4 DEF OrderInv, EventOrder, PriorityInv
    <2> QED
      BY <2>4, <2>5
  <1>4. CASE ~HasThreads(s)
    <2>1. /\ root' = [root EXCEPT ![q] = AddPri(s, self, td_priority)]
          /\ pc' = [pc EXCEPT ![self] = "scan"]
      BY <1>4 DEF WaitEnter, FallAsleep, Resume, Goto
    <2>2. AddPri(s, self, td_priority) = <<self>>
      <3>1. IsSignaled(s) \/ s = <<>>
        BY <1>1, <1>4, AtPlace DEF Unthreaded
      <3>. HIDE DEF s
      <3> QED
        BY <1>1, <3>1, AddToEmpty, PrioritiesAreNats
    <2>3. Ordered(<<self>>, td_priority)
      BY DEF Ordered
    <2>. HIDE DEF q
    <2>4. \A x \in Queues : root'[x] = root[x] \/ Ordered(root'[x], td_priority)
      BY <1>1, <2>1, <2>2, <2>3, AtPlace
    <2>5. ~At("link")'
      BY <1>1, <2>1, NotLinking
    <2> QED
      BY <1>1, <1>2, <2>4, <2>5, OrderKept
  <1> QED
    BY <1>3, <1>4

\* The place found by the walk is still the right one when the caller is
\* linked, whatever interrupts came in between.
LEMMA WaitLinkKeepsOrder == ASSUME KernelInv, OrderInv, WaitLink PROVE OrderInv'
  <1>. DEFINE q  == reg.q
              s  == root[q]
              td == reg.td
              i  == IF td = NoOne THEN Len(s) + 1 ELSE Position(s, td)
  <1>1. /\ UNCHANGED <<runningThread, runQueue, nutThreadList, td_priority>>
        /\ pc[self] = "link" /\ self \in Apps /\ q \in Queues /\ self \in Threads
        /\ root' = [root EXCEPT ![q] = InsertAt(s, i, self)]
        /\ pc' = [pc EXCEPT ![self] = "scan"]
    BY AtPlace DEF WaitLink, At, KernelInv, LocalsInv, FallAsleep, Resume, Goto
  <1>2. Linked(s) /\ s # <<>> /\ (td = NoOne \/ Contains(s, td))
    BY <1>1 DEF KernelInv, TransitInv, At
  <1>3. Len(s) \in Nat
    BY <1>2, LinkedElements
  <1>4. /\ td # NoOne => i \in 1 .. Len(s) /\ s[i] = td /\ i = Position(s, td)
        /\ td = NoOne => i = Len(s) + 1
        /\ i \in 1 .. (Len(s) + 1)
    BY <1>2, <1>3, PositionFinds
  <1>. HIDE DEF i
  <1>5. /\ \A j \in 1 .. Len(s) :
               (td = NoOne \/ j < Position(s, td)) => td_priority[s[j]] <= td_priority[self]
        /\ td # NoOne => td_priority[td] > td_priority[self]
    BY <1>1 DEF OrderInv, LinkPlace, At
  <1>6. /\ \A j \in 1 .. (i - 1) : td_priority[s[j]] <= td_priority[self]
        /\ i <= Len(s) => td_priority[s[i]] > td_priority[self]
    <2>1. CASE td = NoOne
      BY <1>3, <1>4, <1>5, <2>1
    <2>2. CASE td # NoOne
      BY <1>3, <1>4, <1>5, <2>2
    <2> QED
      BY <2>1, <2>2
  <1>7. Ordered(s, td_priority)
    BY <1>1, <1>2, LinkedElements DEF OrderInv, EventOrder
  <1>8. Ordered(InsertAt(s, i, self), td_priority)
    BY <1>1, <1>2, <1>4, <1>6, <1>7, InsertOrdered, PrioritiesAreNats
  <1>9. \A x \in Queues : root'[x] = root[x] \/ Ordered(root'[x], td_priority)
    <2>. DEFINE w == InsertAt(s, i, self)
    <2>1. root' = [root EXCEPT ![q] = w] /\ Ordered(w, td_priority)
      BY <1>1, <1>8 DEF i
    <2>. HIDE DEF w, q
    <2> QED
      BY <1>1, <2>1, AtPlace
  <1>10. ~At("link")'
    BY <1>1, NotLinking
  <1> QED
    BY <1>1, <1>9, <1>10, OrderKept DEF OrderInv

\* A thread whose priority changes while it waits in no queue, and everybody
\* is parked: the event queues stay in order.
LEMMA ReprioritizeKeepsOrder ==
    ASSUME KernelInv, OrderInv, NEW t \in Apps, UNCHANGED root,
           NEW p, td_priority' = [td_priority EXCEPT ![t] = p],
           \A q \in Queues : ~Contains(root[q], t),
           \A u \in Threads : u # t /\ Contains(nutThreadList', u) => Contains(nutThreadList, u),
           Contains(nutThreadList', t) => p < IdlePriority,
           ~At("link")', RunOk(runQueue', td_priority')
    PROVE  OrderInv'
  <1>1. t \in Threads /\ t # Idle /\ Idle \in Threads
    BY KernelAssumption DEF Apps
  <1>2. \A u \in Threads : td_priority'[u] = IF u = t THEN p ELSE td_priority[u]
    BY PrioritiesAreNats
  <1>3. EventOrder'
    <2> SUFFICES ASSUME NEW q \in Queues, ~IsSignaled(root[q])
                 PROVE  Ordered(root[q], td_priority')
      BY DEF EventOrder
    <2>1. Linked(root[q]) /\ Ordered(root[q], td_priority)
      BY DEF KernelInv, QueueInv, OrderInv, EventOrder
    <2>2. \A u \in Threads : Contains(root[q], u) => td_priority'[u] = td_priority[u]
      BY <1>2
    <2> QED
      BY <2>1, <2>2, SamePriorities
  <1>4. PriorityInv'
    BY <1>1, <1>2 DEF OrderInv, PriorityInv, Apps
  <1> QED
    BY <1>3, <1>4 DEF OrderInv, LinkPlace

\* NutThreadSetPriority takes the caller out before it puts it in with its
\* new priority.
LEMMA SetPriorityKeepsOrder ==
    ASSUME KernelInv, KernelInv', OrderInv, NEW level \in Levels, SetPriority(level)
    PROVE  OrderInv'
  <1>1. /\ UNCHANGED <<root, nutThreadList, pc>> /\ self \in Apps /\ pc[self] = "app"
        /\ td_priority' = [td_priority EXCEPT ![self] = level]
        /\ runQueue' = AddPri(Without(runQueue, self), self, td_priority')
    BY DEF SetPriority, Free, At
  <1>2. /\ Contains(runQueue, self) /\ self \in Threads /\ self # Idle
        /\ \A t \in Threads : pc[t] \in Parked
    BY <1>1, OutsideTheKernel DEF Apps
  <1>3. level \in Nat /\ level < IdlePriority /\ td_priority' \in [Threads -> Nat]
    <2>1. level \in 0 .. 253
      BY KernelAssumption DEF IdlePriority
    <2>2. level \in Nat /\ level < IdlePriority
      BY <2>1 DEF IdlePriority
    <2> QED
      BY <1>1, <2>2, PrioritiesAreNats
  <1>4. /\ Linked(Without(runQueue, self))
        /\ \A u : Contains(Without(runQueue, self), u) <=> (Contains(runQueue, u) /\ u # self)
    BY WithoutLinked DEF KernelInv, QueueInv
  <1>. DEFINE s == Without(runQueue, self)
  <1>5. RunOk(s, td_priority)
    BY <1>2, RunDrop DEF OrderInv, KernelInv, QueueInv
  <1>6. \A u \in Threads : Contains(s, u) => td_priority'[u] = td_priority[u]
    BY <1>1, <1>4
  <1>. HIDE DEF s
  <1>7. RunOk(s, td_priority')
    BY <1>4, <1>5, <1>6, SamePriorities DEF RunOk, s
  <1>8. td_priority'[self] < td_priority'[Idle]
    BY <1>1, <1>2, <1>3, KernelAssumption, PrioritiesAreNats DEF OrderInv, PriorityInv
  <1>9. RunOk(runQueue', td_priority')
    BY <1>1, <1>2, <1>3, <1>4, <1>7, <1>8, RunAdd DEF s
  <1>10. \A q \in Queues : ~Contains(root[q], self)
    BY <1>2, ReadyIsQuiet
  <1>11. ~At("link")'
    BY <1>1, <1>2 DEF At, self, Parked, KernelInv, TypeOK
  <1> QED
    BY <1>1, <1>3, <1>9, <1>10, <1>11, ReprioritizeKeepsOrder

\* NutThreadExit lowers the priority of the caller, which is in no queue any
\* more.
LEMMA ExitKeepsOrder == ASSUME KernelInv, KernelInv', OrderInv, Exit PROVE OrderInv'
  <1>1. /\ UNCHANGED root /\ self \in Apps /\ pc[self] = "app"
        /\ td_priority' = [td_priority EXCEPT ![self] = 255]
        /\ runQueue' = Without(runQueue, self)
        /\ nutThreadList' = Without(nutThreadList, self)
        /\ pc' = [pc EXCEPT ![self] = "dead"]
    BY DEF Exit, Free, At, Goto
  <1>2. /\ Contains(runQueue, self) /\ self \in Threads /\ self # Idle
        /\ \A t \in Threads : pc[t] \in Parked
    BY <1>1, OutsideTheKernel DEF Apps
  <1>3. /\ Linked(runQueue')
        /\ \A u : Contains(runQueue', u) <=> (Contains(runQueue, u) /\ u # self)
        /\ \A u : Contains(nutThreadList', u) <=> (Contains(nutThreadList, u) /\ u # self)
    BY <1>1, WithoutLinked DEF KernelInv, QueueInv, LiveInv
  <1>4. RunOk(runQueue', td_priority)
    BY <1>1, <1>2, RunDrop DEF OrderInv, KernelInv, QueueInv
  <1>5. \A u \in Threads : Contains(runQueue', u) => td_priority'[u] = td_priority[u]
    BY <1>1, <1>3
  <1>6. RunOk(runQueue', td_priority')
    BY <1>3, <1>4, <1>5, SamePriorities DEF RunOk
  <1>7. \A q \in Queues : ~Contains(root[q], self)
    BY <1>2, ReadyIsQuiet
  <1>8. ~At("link")'
    BY <1>1, <1>2, AtPlace DEF At, self, Parked, KernelInv, TypeOK
  <1> QED
    BY <1>1, <1>3, <1>6, <1>7, <1>8, ReprioritizeKeepsOrder

\* NutThreadCreate gives a priority to a structure that was in no queue.
LEMMA CreateKeepsOrder ==
    ASSUME KernelInv, KernelInv', OrderInv, NEW t \in Threads, Create(t)
    PROVE  OrderInv'
  <1>1. /\ UNCHANGED root /\ t \notin Live /\ pc[self] = "app"
        /\ nutThreadList' = <<t>> \o nutThreadList
        /\ td_priority' = [td_priority EXCEPT ![t] = DefaultPriority]
        /\ runQueue' = AddPri(runQueue, t, td_priority')
        /\ pc' = [pc EXCEPT ![t] = "app"]
    BY DEF Create, Free, At
  <1>2. ~Contains(nutThreadList, t)
    BY <1>1 DEF Live, ToSet, Contains
  <1>3. ~Contains(runQueue, t) /\ \A q \in Queues : ~Contains(root[q], t)
    BY <1>2 DEF KernelInv, LiveInv, Placed
  <1>4. t # Idle /\ t \in Apps
    BY <1>3 DEF KernelInv, QueueInv, Apps
  <1>5. DefaultPriority < IdlePriority /\ td_priority' \in [Threads -> Nat]
    BY <1>1, PrioritiesAreNats DEF DefaultPriority, IdlePriority
  <1>6. \A u \in Threads : Contains(runQueue, u) => td_priority'[u] = td_priority[u]
    BY <1>1, <1>3
  <1>7. RunOk(runQueue, td_priority') /\ Linked(runQueue)
    BY <1>6, SamePriorities DEF OrderInv, RunOk, KernelInv, QueueInv
  <1>8. td_priority'[t] < td_priority'[Idle]
    BY <1>1, <1>4, <1>5, KernelAssumption, PrioritiesAreNats DEF OrderInv, PriorityInv
  <1>9. RunOk(runQueue', td_priority')
    BY <1>1, <1>5, <1>7, <1>8, RunAdd
  <1>10. \A u : Contains(nutThreadList', u) <=> (u = t \/ Contains(nutThreadList, u))
    BY <1>1, <1>2, ConsLinked DEF KernelInv, LiveInv
  <1>11. ~At("link")'
    <2>1. \A u \in Threads : pc[u] \in Parked
      BY <1>1, OutsideTheKernel
    <2> QED
      BY <1>1, <2>1, AtPlace DEF At, self, Parked, KernelInv, TypeOK
  <1> QED
    BY <1>1, <1>3, <1>4, <1>5, <1>9, <1>10, <1>11, ReprioritizeKeepsOrder

-----------------------------------------------------------------------------
\* Every step keeps the order.
LEMMA OrderNext == KernelInv /\ KernelInv' /\ OrderInv /\ [Next]_vars => OrderInv'
  <1> SUFFICES ASSUME KernelInv, KernelInv', OrderInv, [Next]_vars PROVE OrderInv'
    OBVIOUS
  <1>1. CASE Call
    <2>1. CASE \/ \E q \in Queues, ms \in BOOLEAN : EventWait(q, ms) \/ EventWaitNext(q, ms)
               \/ \E q \in Queues, async \in BOOLEAN :
                      EventPost(q, async) \/ EventBroadcast(q, async)
      BY <2>1, CallsKeepOrder
    <2>2. CASE Sleep \/ SleepFails
      BY <2>2, SleepKeepsOrder
    <2>3. ASSUME NEW level \in Levels, SetPriority(level) PROVE OrderInv'
      BY <2>3, SetPriorityKeepsOrder
    <2>4. CASE Exit
      BY <2>4, ExitKeepsOrder
    <2>5. ASSUME NEW t \in Threads, Create(t) PROVE OrderInv'
      BY <2>5, CreateKeepsOrder
    <2> QED
      BY <1>1, <2>1, <2>2, <2>3, <2>4, <2>5 DEF Call
  <1>2. CASE Kernel
    <2>1. CASE \/ WaitRead \/ WaitClear \/ BroadcastNext \/ PostRead \/ Scan \/ ScanTake
               \/ Return \/ IdleDestroy
      BY <2>1, CallsKeepOrder
    <2>2. CASE WaitEnter \/ WaitLink
      BY <2>2, WaitEnterKeepsOrder, WaitLinkKeepsOrder
    <2>3. CASE PostPop \/ PostReady
      BY <2>3, PostPopKeepsOrder, ReadyKeepsOrder
    <2>4. CASE Yield \/ Dispatch
      BY <2>4, YieldKeepsOrder, DispatchKeepsOrder
    <2> QED
      BY <1>2, <2>1, <2>2, <2>3, <2>4 DEF Kernel
  <1>3. CASE Elapse
    BY <1>3, TimeoutKeepsOrder, ReadyKeepsOrder DEF Elapse
  <1>4. CASE Irq
    BY <1>4, IrqKeepsOrder DEF Irq
  <1>5. CASE UNCHANGED vars
    <2>1. UNCHANGED <<runningThread, runQueue, root, nutThreadList, td_priority, pc, reg>>
      BY <1>5 DEF vars, lists, tcb
    <2>2. At("link")' <=> At("link")
      BY <2>1 DEF At, self
    <2> QED
      BY <2>1, <2>2 DEF OrderInv, EventOrder, LinkPlace, PriorityInv, self
  <1> QED
    BY <1>1, <1>2, <1>3, <1>4, <1>5 DEF Next

\* The kernel keeps its queues in order.
LEMMA OrderInvariance == Spec => [](KernelInv /\ OrderInv)
  <1>1. Init => KernelInv /\ OrderInv
    BY KernelInit, OrderInit
  <1>2. KernelInv /\ OrderInv /\ [Next]_vars => (KernelInv /\ OrderInv)'
    BY KernelNext, OrderNext
  <1> QED
    BY <1>1, <1>2, PTL DEF Spec

\* Waiting threads are ordered by priority whatever happens, and the idle
\* thread is always the last of those that are ready: also when the heap
\* fails.
THEOREM KernelWaiters == Spec => [](EventQueuesOrdered /\ IdleLast)
  <1>1. KernelInv /\ OrderInv => EventQueuesOrdered /\ IdleLast
    <2> SUFFICES ASSUME KernelInv, OrderInv PROVE EventQueuesOrdered /\ IdleLast
      OBVIOUS
    <2>1. EventQueuesOrdered
      BY DEF OrderInv, EventOrder, Ordered, EventQueuesOrdered
    <2>2. IdleLast
      BY DEF OrderInv, RunOk, EndsWith, IdleLast, Last
    <2> QED
      BY <2>1, <2>2
  <1> QED
    BY <1>1, OrderInvariance, PTL

\* As long as NutSleep gets the memory for its timers, all queues that the
\* kernel takes the first thread of are in their order.
THEOREM KernelOrder == ASSUME ~HeapMayFail PROVE Spec => []QueuesOrdered
  <1>1. KernelInv /\ OrderInv => RunQueueOrdered
    BY DEF OrderInv, RunOk, Ordered, RunQueueOrdered
  <1>2. EventQueuesOrdered /\ IdleLast /\ RunQueueOrdered => QueuesOrdered
    BY DEF QueuesOrdered
  <1> QED
    BY <1>1, <1>2, OrderInvariance, KernelWaiters, PTL

\* ... so NutThreadResume gives the CPU to a thread of the highest priority
\* among those that are ready.
THEOREM KernelDispatch == ASSUME ~HeapMayFail PROVE Spec => DispatchesHighest
  <1>. DEFINE Highest ==
         (At("elapsed") /\ pc'[self] # "elapsed") =>
             \A t \in Live : Contains(runQueue, t)
                               => td_priority[runningThread'] <= td_priority[t]
  <1>1. KernelInv /\ OrderInv /\ [Next]_vars => [Highest]_vars
    <2> SUFFICES ASSUME KernelInv, OrderInv, Next, At("elapsed"), pc'[self] # "elapsed",
                        NEW t \in Live, Contains(runQueue, t)
                 PROVE  td_priority[runningThread'] <= td_priority[t]
      OBVIOUS
    <2>1. Dispatch
      <3>1. ~Irq /\ ~Elapse
        BY DEF Irq, Elapse, PostFromIrq, EventTimeout, ThreadWake, At
      <3>2. ~Call
        BY DEF Call, EventWait, EventWaitNext, EventPost, EventBroadcast, Sleep, SleepFails,
               SetPriority, Exit, Create, Free, At
      <3> QED
        BY <3>1, <3>2 DEF Next, Kernel, WaitRead, WaitClear, WaitEnter, WaitLink, BroadcastNext,
               PostRead, PostPop, PostReady, Yield, Scan, ScanTake, Return, IdleDestroy, At
    <2>2. Linked(runQueue) /\ Ordered(runQueue, td_priority)
      BY DEF KernelInv, QueueInv, OrderInv, RunOk
    <2>3. runQueue # <<>>
      BY DEF OrderInv, RunOk, EndsWith
    <2>4. runningThread' = runQueue[1] /\ 1 \in DOMAIN runQueue /\ runQueue[1] \in Threads
      BY <2>1, <2>2, <2>3, LinkedElements DEF Dispatch, SwitchTo
    <2>5. PICK i \in DOMAIN runQueue : runQueue[i] = t
      BY <2>2, LinkedElements DEF Contains
    <2>6. i \in Nat /\ i >= 1 /\ td_priority[runQueue[1]] \in Nat
      BY <2>2, <2>4, <2>5, LinkedElements, PrioritiesAreNats
    <2> QED
      BY <2>2, <2>4, <2>5, <2>6 DEF Ordered
  <1> QED
    BY <1>1, OrderInvariance, PTL DEF Spec, DispatchesHighest

-----------------------------------------------------------------------------
(***************************************************************************)
(* 5. The kernel implements the abstract event queues.                     *)
(***************************************************************************)

(* What the kernel shows of its queues: who waits, how many events are not *)
(* delivered, which waits have timed out.                                  *)
Waiters(q) == {t \in Threads : Contains(root[q], t)}
Pend(q) == IF IsSignaled(root[q]) THEN 1
           ELSE IF root[q] = <<>> THEN 0 ELSE td_qpec[Head(root[q])]
Late == {t \in Threads : td_timer[t] = "timedout"}

\* The scan of NutThreadResume posts only to a queue in which somebody waits,
\* and until the post is over nobody leaves that queue.
ScanInv ==
    (At("post") \/ At("pop")) /\ reg.ret = "scan" => HasThreads(root[reg.q])

\* A wait that timed out has its thread in the run queue.
LateInv == \A t \in Late : Contains(runQueue, t)

EventInv == KernelInv /\ TimeoutInv /\ OrderInv /\ ScanInv /\ LateInv

\* The sum over the waiting threads is the counter of the first of them.
LEMMA PendingSum ==
    ASSUME KernelInv, ScanInv, NEW q \in Queues
    PROVE  /\ Members(root[q]) = Waiters(q)
           /\ (IF IsSignaled(root[q]) THEN 1 ELSE SumPec(Members(root[q])) + InFlight(q))
                = Pend(q) + InFlight(q)
           /\ Pend(q) \in Nat /\ InFlight(q) \in {0, 1}
           /\ Waiters(q) = {} => Pend(q) \in {0, 1} /\ InFlight(q) = 0
           /\ Waiters(q) = {} <=> Unthreaded(root[q])
  <1>. DEFINE s == root[q]
  <1>1. InFlight(q) \in {0, 1}
    BY DEF InFlight
  <1>2. CASE Unthreaded(s)
    <2>1. ~HasThreads(s) /\ Waiters(q) = {}
      BY <1>2, UnthreadedHoldsNobody DEF Waiters
    <2>2. InFlight(q) = 0
      BY <2>1 DEF InFlight, ScanInv
    <2>3. Members(s) = {}
      BY <1>2 DEF Unthreaded, IsSignaled, Members, ToSet
    <2>4. CASE IsSignaled(s)
      BY <1>2, <2>1, <2>2, <2>3, <2>4 DEF Pend
    <2>5. CASE ~IsSignaled(s)
      <3>1. s = <<>>
        BY <1>2, <2>5 DEF Unthreaded
      <3>2. SumPec({}) = 0
        <4>1. IsFiniteSet({}) /\ 0 \in Int
          BY FS_EmptySet
        <4>2. PICK h : td_qpec[h] \in Int
          BY AtPlace, PrioritiesAreNats
        <4> QED
          BY <4>1, <4>2, FoldSumsOne DEF SumPec
      <3> QED
        BY <1>2, <2>1, <2>2, <2>3, <2>5, <3>1, <3>2 DEF Pend
    <2> QED
      BY <2>4, <2>5
  <1>3. CASE ~Unthreaded(s)
    <2>1. Linked(s) /\ s # <<>> /\ ~IsSignaled(s)
      BY <1>3, AtPlace DEF Unthreaded
    <2>2. /\ s \in Seq(Threads) /\ DOMAIN s = 1 .. Len(s)
          /\ Contains(s, Head(s)) /\ Head(s) \in Threads
      BY <2>1, LinkedElements DEF Linked
    <2>3. Members(s) = Waiters(q)
      BY <2>1, <2>2, LinkedElements, SignaledIsNoThread DEF Members, ToSet, Waiters, Contains
    <2>4. IsFiniteSet(Waiters(q))
      <3>1. ToSet(s) = Waiters(q)
        BY <2>1, <2>2, LinkedElements DEF ToSet, Waiters, Contains
      <3>2. IsFiniteSet(DOMAIN s)
        BY <2>1, <2>2, LinkedElements, FS_Interval
      <3>3. s \in Surjection(DOMAIN s, ToSet(s))
        BY <2>2 DEF ToSet, Surjection
      <3> QED
        BY <3>1, <3>2, <3>3, FS_Surjection
    <2>5. \A u \in Waiters(q) : u # Head(s) => td_qpec[u] = 0
      <3> SUFFICES ASSUME NEW u \in Threads, Contains(s, u), td_qpec[u] > 0 PROVE u = Head(s)
        BY PrioritiesAreNats DEF Waiters
      <3> QED
        BY DEF KernelInv, QueueInv, PendInv
    <2>6. td_qpec[Head(s)] \in Nat
      BY <2>2, PrioritiesAreNats
    <2>7. Head(s) \in Waiters(q)
      BY <2>2 DEF Waiters
    <2>8. SumPec(Waiters(q)) = td_qpec[Head(s)]
      <3>. DEFINE W == Waiters(q)
                  h == Head(s)
      <3>1. /\ IsFiniteSet(W) /\ h \in W /\ td_qpec[h] \in Int
            /\ \A u \in W : u # h => td_qpec[u] = 0
        BY <2>4, <2>5, <2>6, <2>7
      <3>. HIDE DEF W, h
      <3>2. FoldFunctionOnSet(+, 0, td_qpec, W) = td_qpec[h]
        BY <3>1, FoldSumsOne
      <3> QED
        BY <3>2 DEF SumPec, W, h
    <2>9. Pend(q) = td_qpec[Head(s)]
      BY <2>1 DEF Pend
    <2> QED
      BY <1>1, <1>3, <2>1, <2>3, <2>6, <2>7, <2>8, <2>9
  <1> QED
    BY <1>2, <1>3

\* The state functions that the refinement mapping is made of.
ShownWaiting == [q \in Queues |-> Members(root[q])]
ShownEvents == [q \in Queues |-> IF IsSignaled(root[q]) THEN 1
                                 ELSE SumPec(Members(root[q])) + InFlight(q)]

Count(q) == Pend(q) + InFlight(q)

ShownRight ==
    /\ ShownWaiting = [q \in Queues |-> Waiters(q)]
    /\ ShownEvents = [q \in Queues |-> Count(q)]
    /\ \A q \in Queues : /\ Count(q) \in Nat
                         /\ Waiters(q) = {} => Count(q) \in {0, 1}

\* The mapping of NutKernel shows the waiting threads and the count of every
\* queue, in this state ...
LEMMA Seen == KernelInv /\ ScanInv => ShownRight
  BY PendingSum DEF ShownRight, ShownWaiting, ShownEvents, Count

\* ... and in the next one.
LEMMA SeenNext == (KernelInv /\ ScanInv)' => ShownRight'
  BY Seen, PTL

\* Steps of the abstract queues, in terms of what the kernel shows.
LEMMA StutterSeen ==
    ASSUME ShownRight, ShownRight',
           \A q \in Queues : Waiters(q)' = Waiters(q) /\ Count(q)' = Count(q),
           Late' = Late, td_priority' = td_priority
    PROVE  UNCHANGED Events!evars
  <1>1. ShownWaiting' = ShownWaiting /\ ShownEvents' = ShownEvents
    BY DEF ShownRight
  <1> QED
    BY <1>1 DEF Events!evars, Late, ShownWaiting, ShownEvents

\* An event arrives in q: it is counted, or latched if nobody waits.
LEMMA ArriveSeen ==
    ASSUME ShownRight, ShownRight', NEW q \in Queues,
           \A r \in Queues : Waiters(r)' = Waiters(r),
           \A r \in Queues \ {q} : Count(r)' = Count(r),
           Count(q)' = IF Waiters(q) = {} THEN 1 ELSE Count(q) + 1,
           Late' = Late, td_priority' = td_priority
    PROVE  Events!Next
  <1>1. ShownWaiting' = ShownWaiting /\ ShownWaiting[q] = Waiters(q) /\ ShownEvents[q] = Count(q)
    BY DEF ShownRight
  <1>2. ShownEvents' = [ShownEvents EXCEPT ![q] = Events!Keep(@ + 1, ShownWaiting[q])]
    <2>1. Events!Keep(Count(q) + 1, Waiters(q)) = Count(q)'
      BY DEF Events!Keep, ShownRight
    <2> QED
      BY <1>1, <2>1 DEF ShownRight
  <1>3. Events!Arrive(q)
    BY <1>1, <1>2 DEF Events!Arrive, Late, ShownWaiting, ShownEvents
  <1> QED
    BY <1>3 DEF Events!Next

\* The latched event of q is taken or discarded.
LEMMA ConsumeSeen ==
    ASSUME ShownRight, ShownRight', NEW q \in Queues,
           \A r \in Queues : Waiters(r)' = Waiters(r),
           \A r \in Queues \ {q} : Count(r)' = Count(r),
           Waiters(q) = {}, Count(q)' = 0,
           Late' = Late, td_priority' = td_priority
    PROVE  Events!Next
  <1>1. ShownWaiting' = ShownWaiting /\ ShownWaiting[q] = {}
    BY DEF ShownRight
  <1>2. ShownEvents' = [ShownEvents EXCEPT ![q] = 0]
    BY DEF ShownRight
  <1>3. Events!Consume(q)
    BY <1>1, <1>2 DEF Events!Consume, Late, ShownWaiting, ShownEvents
  <1> QED
    BY <1>3 DEF Events!Next

\* A thread that waits nowhere starts to wait in q.
LEMMA JoinSeen ==
    ASSUME ShownRight, ShownRight', NEW q \in Queues, NEW t \in Threads,
           \A r \in Queues : t \notin Waiters(r), t \notin Late,
           \A r \in Queues \ {q} : Waiters(r)' = Waiters(r),
           Waiters(q)' = Waiters(q) \cup {t},
           \A r \in Queues : Count(r)' = Count(r),
           Late' = Late, td_priority' = td_priority
    PROVE  Events!Next
  <1>1. /\ \A r \in Queues : t \notin ShownWaiting[r]
        /\ ShownEvents' = ShownEvents
    BY DEF ShownRight
  <1>2. ShownWaiting' = [ShownWaiting EXCEPT ![q] = @ \cup {t}]
    BY DEF ShownRight
  <1>3. Events!Join(q, t)
    BY <1>1, <1>2 DEF Events!Join, Late, ShownWaiting, ShownEvents
  <1> QED
    BY <1>3 DEF Events!Next

\* A thread leaves a queue: by an event that was pending (Wake), by a post
\* (Hand) or without any (Timeout).
LEMMA LeaveSeen ==
    ASSUME ShownRight, ShownRight', NEW q \in Queues, NEW t \in Threads, t \in Waiters(q),
           NEW n \in Nat,
           \A r \in Queues \ {q} : Waiters(r)' = Waiters(r),
           Waiters(q)' = Waiters(q) \ {t},
           \A r \in Queues \ {q} : Count(r)' = Count(r),
           Count(q)' = IF Waiters(q) = {t} /\ n > 1 THEN 1 ELSE n,
           td_priority' = td_priority,
           \/ /\ n = Count(q) - 1 /\ Late' = Late
              /\ \A u \in Waiters(q) : td_priority[t] <= td_priority[u]
           \/ /\ n = Count(q) /\ Late' = Late
              /\ \A u \in Waiters(q) : td_priority[t] <= td_priority[u]
           \/ n = Count(q) /\ Late' = Late \cup {t}
    PROVE  Events!Next
  <1>1. /\ ShownWaiting[q] = Waiters(q) /\ ShownEvents[q] = Count(q) /\ Count(q) \in Nat
        /\ ShownWaiting' = [ShownWaiting EXCEPT ![q] = ShownWaiting[q] \ {t}]
    BY DEF ShownRight
  <1>2. ShownEvents' = [ShownEvents EXCEPT ![q] = Events!Keep(n, ShownWaiting[q] \ {t})]
    <2>1. Waiters(q) \ {t} = {} <=> Waiters(q) = {t}
      OBVIOUS
    <2>2. Events!Keep(n, Waiters(q) \ {t}) = Count(q)'
      BY <2>1 DEF Events!Keep
    <2> QED
      BY <1>1, <2>2 DEF ShownRight
  <1>3. Events!Leaves(q, t, n)
    BY <1>1, <1>2 DEF Events!Leaves, ShownWaiting, ShownEvents
  <1>4. CASE /\ n = Count(q) - 1 /\ Late' = Late
             /\ \A u \in Waiters(q) : td_priority[t] <= td_priority[u]
    <2>1. /\ t \in ShownWaiting[q] /\ \A u \in ShownWaiting[q] : td_priority[t] <= td_priority[u]
          /\ ShownEvents[q] > 0 /\ n = ShownEvents[q] - 1
      BY <1>1, <1>4
    <2>2. Events!Wake(q, t)
      BY <1>3, <1>4, <2>1 DEF Events!Wake, Events!Foremost, Late, ShownWaiting, ShownEvents
    <2> QED
      BY <2>2 DEF Events!Next
  <1>5. CASE /\ n = Count(q) /\ Late' = Late
             /\ \A u \in Waiters(q) : td_priority[t] <= td_priority[u]
    <2>1. /\ t \in ShownWaiting[q] /\ \A u \in ShownWaiting[q] : td_priority[t] <= td_priority[u]
          /\ n = ShownEvents[q]
      BY <1>1, <1>5
    <2>2. Events!Hand(q, t)
      BY <1>3, <1>5, <2>1 DEF Events!Hand, Events!Foremost, Late, ShownWaiting, ShownEvents
    <2> QED
      BY <2>2 DEF Events!Next
  <1>6. CASE n = Count(q) /\ Late' = Late \cup {t}
    <2>1. t \in ShownWaiting[q] /\ n = ShownEvents[q]
      BY <1>1, <1>6
    <2>2. Events!Timeout(q, t)
      BY <1>3, <1>6, <2>1 DEF Events!Timeout, Late, ShownWaiting, ShownEvents
    <2> QED
      BY <2>2 DEF Events!Next
  <1> QED
    BY <1>4, <1>5, <1>6

\* A wait that timed out is reported.
LEMMA ReportSeen ==
    ASSUME ShownRight, ShownRight', NEW t \in Late, Late' = Late \ {t},
           \A q \in Queues : Waiters(q)' = Waiters(q) /\ Count(q)' = Count(q),
           td_priority' = td_priority
    PROVE  Events!Next
  <1>1. ShownWaiting' = ShownWaiting /\ ShownEvents' = ShownEvents /\ t \in Threads
    BY DEF ShownRight, Late
  <1>2. Events!Report(t)
    BY <1>1 DEF Events!Report, Late, ShownWaiting, ShownEvents
  <1> QED
    BY <1>1, <1>2 DEF Events!Next

\* A thread that waits nowhere gets another priority.
LEMMA ReprioritizeSeen ==
    ASSUME ShownRight, ShownRight', NEW t \in Threads, NEW p \in 0 .. 255,
           td_priority' = [td_priority EXCEPT ![t] = p], \A q \in Queues : t \notin Waiters(q),
           \A q \in Queues : Waiters(q)' = Waiters(q) /\ Count(q)' = Count(q),
           Late' = Late
    PROVE  Events!Next
  <1>1. /\ ShownWaiting' = ShownWaiting /\ ShownEvents' = ShownEvents
        /\ \A q \in Queues : t \notin ShownWaiting[q]
    BY DEF ShownRight
  <1>2. Events!Reprioritize(t)
    BY <1>1 DEF Events!Reprioritize, Late, ShownWaiting, ShownEvents
  <1> QED
    BY <1>2 DEF Events!Next

-----------------------------------------------------------------------------
\* A step of the kernel keeps what the mapping needs, and is a step of the
\* abstract queues or changes nothing that they show.
Refines == ScanInv' /\ LateInv' /\ [Events!Next]_Events!evars

\* No event is between its counter and its queue.
NoFlight == ~((At("post") \/ At("pop")) /\ reg.ret = "scan")

\* Then every event is in a counter or in a root, in this state ...
LEMMA NothingInFlight == NoFlight => ScanInv /\ \A q \in Queues : InFlight(q) = 0
  BY DEF NoFlight, ScanInv, InFlight

\* ... and in the next one.
LEMMA NothingInFlightNext == NoFlight' => (ScanInv /\ \A q \in Queues : InFlight(q) = 0)'
  BY NothingInFlight, PTL

\* The running thread goes on to a place outside of a post.
LEMMA LandsOutside ==
    ASSUME KernelInv, UNCHANGED runningThread, NEW p \in Points \ {"post", "pop"},
           pc' = [pc EXCEPT ![self] = p]
    PROVE  NoFlight'
  BY AtPlace DEF NoFlight, At, self

\* Steps that touch no event queue and no pending event.
LEMMA QuietStep ==
    ASSUME EventInv, KernelInv', UNCHANGED <<root, td_qpec, td_priority>>,
           NoFlight, NoFlight', Late' = Late, \A t \in Late : Contains(runQueue', t)
    PROVE  Refines
  <1>1. ScanInv' /\ LateInv'
    BY NothingInFlightNext DEF LateInv
  <1>2. ShownRight /\ ShownRight'
    BY <1>1, Seen, SeenNext DEF EventInv
  <1>3. \A q \in Queues : Waiters(q)' = Waiters(q) /\ Count(q)' = Count(q)
    BY NothingInFlight, NothingInFlightNext DEF Waiters, Pend, Count
  <1> QED
    BY <1>1, <1>2, <1>3, StutterSeen DEF Refines

\* A thread that is on its way into a wait, or in no wait, has not timed out.
LEMMA NotLate ==
    ASSUME EventInv, pc[self] \notin {"retwait", "elapsed"}
    PROVE  self \notin Late
  BY AtPlace, WithoutTimeout DEF EventInv, Late, At

\* Calls that begin, and steps that only read.
LEMMA ReadsRefine ==
    ASSUME EventInv, KernelInv',
           \/ \E q \in Queues, ms \in BOOLEAN : EventWait(q, ms)
           \/ \E q \in Queues, async \in BOOLEAN : EventPost(q, async)
           \/ WaitRead \/ BroadcastNext \/ Scan \/ IdleDestroy
    PROVE  Refines
  <1>1. UNCHANGED <<runningThread, runQueue, root, td_qpec, td_priority, td_timer>>
    BY DEF EventWait, EventPost, WaitRead, BroadcastNext, Scan, IdleDestroy, lists, tcb
  <1>2. NoFlight
    BY DEF EventWait, EventPost, WaitRead, BroadcastNext, Scan, IdleDestroy, Free, At, NoFlight
  <1>3. NoFlight'
    <2>1. CASE \E q \in Queues, async \in BOOLEAN : EventPost(q, async)
      BY <2>1, AtPlace DEF EventPost, NoFlight, NoRegs
    <2>2. CASE BroadcastNext
      <3>1. reg.ret # "scan"
        BY <2>2 DEF BroadcastNext, EventInv, KernelInv, LocalsInv, At
      <3> QED
        BY <2>2, <3>1 DEF BroadcastNext, NoFlight, NoRegs
    <2>3. CASE Scan
      <3>1. \E p \in {"scan", "elapsed", "take"} : pc' = [pc EXCEPT ![self] = p]
        BY <2>3, AtPlace DEF Scan, Goto, At, EventInv
      <3> QED
        BY <1>1, <3>1, LandsOutside DEF EventInv, Points
    <2>4. CASE WaitRead \/ IdleDestroy \/ \E q \in Queues, ms \in BOOLEAN : EventWait(q, ms)
      <3>1. \E p \in {"wait", "clear", "enter", "app"} : pc' = [pc EXCEPT ![self] = p]
        BY <2>4 DEF WaitRead, IdleDestroy, EventWait, Goto
      <3> QED
        BY <1>1, <3>1, LandsOutside DEF EventInv, Points
    <2> QED
      BY <2>1, <2>2, <2>3, <2>4
  <1>4. Late' = Late /\ \A t \in Late : Contains(runQueue', t)
    BY <1>1 DEF Late, EventInv, LateInv
  <1> QED
    BY <1>1, <1>2, <1>3, <1>4, QuietStep

\* NutThreadYield, NutSleep, NutThreadWake and the end of a post move
\* threads from and to the run queue, where nobody has events pending.
LEMMA YieldRefines == ASSUME EventInv, KernelInv', Yield PROVE Refines
  <1>1. /\ UNCHANGED <<runningThread, root, td_priority, td_timer>>
        /\ pc[self] \in {"yield", "app"} /\ Requeue
        /\ pc' = [pc EXCEPT ![self] = "scan"]
    BY DEF Yield, At, Resume, Goto
  <1>2. Contains(runQueue, self)
    BY <1>1 DEF EventInv, KernelInv, QueueInv, Resuming, At
  <1>3. /\ td_qpec' = td_qpec
        /\ \A t \in Threads : Contains(runQueue', t) <=> Contains(runQueue, t)
    BY <1>1, <1>2, Requeueing, PrioritiesAreNats DEF Requeue, EventInv
  <1>4. NoFlight /\ NoFlight'
    BY <1>1, LandsOutside DEF NoFlight, At, EventInv, Points
  <1>5. Late' = Late /\ \A t \in Late : Contains(runQueue', t)
    BY <1>1, <1>3 DEF Late, EventInv, LateInv
  <1> QED
    BY <1>1, <1>3, <1>4, <1>5, QuietStep

\* NutSleep takes its caller from the run queue, or puts it back on top.
LEMMA SleepRefines == ASSUME EventInv, KernelInv', Sleep \/ SleepFails PROVE Refines
  <1>1. /\ UNCHANGED <<runningThread, root, td_priority>>
        /\ pc[self] = "app" /\ self \in Apps
        /\ \E tm \in {"wake", "none"} : td_timer' = [td_timer EXCEPT ![self] = tm]
        /\ \E p \in {"scan", "app"} : pc' = [pc EXCEPT ![self] = p]
        /\ td_qpec' = DropPec(td_qpec, runQueue, self)
        /\ runQueue' \in {Without(runQueue, self), <<self>> \o Without(runQueue, self)}
    <2>1. pc = [pc EXCEPT ![self] = pc[self]]
      BY AtPlace DEF EventInv
    <2> QED
      BY <2>1 DEF Sleep, SleepFails, Free, At, Resume, Goto
  <1>2. Contains(runQueue, self) /\ self \in Threads
    BY <1>1, OutsideTheKernel DEF EventInv
  <1>3. /\ td_qpec' = td_qpec
        /\ \A t \in Threads : t # self /\ Contains(runQueue, t) => Contains(runQueue', t)
    <2>1. /\ td_qpec' = td_qpec /\ Linked(Without(runQueue, self))
          /\ \A u : Contains(Without(runQueue, self), u) <=> (Contains(runQueue, u) /\ u # self)
      BY <1>1, <1>2, LeavingRunQueue DEF EventInv
    <2>2. \A u : Contains(<<self>> \o Without(runQueue, self), u) <=> Contains(runQueue, u)
      <3>. DEFINE w == Without(runQueue, self)
      <3>1. Linked(w) /\ ~Contains(w, self)
        BY <2>1
      <3>. HIDE DEF w
      <3>2. \A u : Contains(<<self>> \o w, u) <=> (u = self \/ Contains(w, u))
        BY <1>2, <3>1, ConsLinked
      <3> QED
        BY <1>2, <2>1, <3>2 DEF w
    <2> QED
      BY <1>1, <2>1, <2>2
  <1>4. NoFlight /\ NoFlight'
    BY <1>1, LandsOutside DEF NoFlight, At, EventInv, Points
  <1>5. self \notin Late /\ self \notin Late'
    BY <1>1, NotLate DEF Late, EventInv, KernelInv, TypeOK
  <1>6. Late' = Late
    BY <1>1, <1>5 DEF Late, EventInv, KernelInv, TypeOK
  <1>7. \A t \in Late : Contains(runQueue', t)
    BY <1>3, <1>5 DEF Late, EventInv, LateInv
  <1> QED
    BY <1>1, <1>3, <1>4, <1>6, <1>7, QuietStep

\* The thread is in no queue when it gets ready, and so has not timed out.
LEMMA ReadyRefines ==
    ASSUME EventInv, KernelInv', PostReady \/ \E t \in Threads : ThreadWake(t)
    PROVE  Refines
  <1>1. PICK t \in Threads :
           /\ MakeReady(t) /\ td_timer' = [td_timer EXCEPT ![t] = "none"]
           /\ \/ At("ready") /\ t = reg.td /\ PostDone
              \/ At("elapsed") /\ td_timer[t] = "wake" /\ UNCHANGED <<pc, reg>>
    BY DEF PostReady, ThreadWake, StopTimer, EventInv, KernelInv, TransitInv
  <1>2. UNCHANGED <<runningThread, root, td_priority>>
    BY DEF PostReady, ThreadWake
  <1>3. td_queue[t] # RunQ /\ \A q \in Queues : ~Contains(root[q], t)
    <2>1. CASE At("ready") /\ t = reg.td
      <3>1. reg.q \in Queues /\ td_queue[t] = reg.q /\ ~Contains(root[reg.q], t)
        BY <2>1 DEF EventInv, KernelInv, TransitInv, LocalsInv, At
      <3> QED
        BY <3>1, KernelAssumption DEF EventInv, KernelInv, QueueInv
    <2>2. CASE td_timer[t] = "wake"
      <3>1. td_queue[t] = NoOne
        BY <2>2 DEF EventInv, KernelInv, TimerInv
      <3> QED
        BY <3>1, KernelAssumption DEF EventInv, KernelInv, QueueInv
    <2> QED
      BY <1>1, <2>1, <2>2
  <1>4. ~Contains(runQueue, t)
    BY <1>3 DEF EventInv, KernelInv, QueueInv
  <1>5. /\ td_qpec' = td_qpec
        /\ \A u \in Threads : Contains(runQueue', u) <=> (u = t \/ Contains(runQueue, u))
    BY <1>1, <1>2, <1>3, <1>4, GettingReady DEF EventInv
  <1>6. NoFlight /\ NoFlight'
    <2>1. CASE At("ready") /\ PostDone
      <3>1. PICK p \in {"app", "yield", "scan", "bcast"} : pc' = [pc EXCEPT ![self] = p]
        BY <2>1 DEF PostDone, Goto
      <3> QED
        BY <1>2, <2>1, <3>1, LandsOutside DEF EventInv, Points, NoFlight, At
    <2>2. CASE At("elapsed") /\ UNCHANGED <<pc, reg>>
      BY <1>2, <2>2 DEF NoFlight, At, self
    <2> QED
      BY <1>1, <2>1, <2>2
  <1>7. t \notin Late
    BY <1>4 DEF EventInv, LateInv
  <1>8. Late' = Late
    BY <1>1, <1>7 DEF Late, EventInv, KernelInv, TypeOK
  <1>9. \A u \in Late : Contains(runQueue', u)
    BY <1>5 DEF Late, EventInv, LateInv
  <1> QED
    BY <1>2, <1>5, <1>6, <1>8, <1>9, QuietStep

\* The switch to another thread.
LEMMA DispatchRefines == ASSUME EventInv, KernelInv', Dispatch PROVE Refines
  <1>1. /\ UNCHANGED <<runQueue, root, td_qpec, td_timer, td_priority>> /\ At("elapsed")
        /\ pc' = [pc EXCEPT ![self] = reg.after]
    BY DEF Dispatch, Goto, lists
  <1>2. \A t \in Threads : pc'[t] \notin {"post", "pop"}
    BY <1>1, AtPlace DEF Regs, EventInv, KernelInv, OthersParked, Parked
  <1>3. NoFlight /\ NoFlight'
    BY <1>1, <1>2 DEF NoFlight, At, KernelInv, TypeOK, self
  <1>4. Late' = Late /\ \A t \in Late : Contains(runQueue', t)
    BY <1>1 DEF Late, EventInv, LateInv
  <1> QED
    BY <1>1, <1>3, <1>4, QuietStep

\* An interrupt's event arrives: it is counted in the first thread that
\* waits, or latched if nobody does.
LEMMA IrqRefines ==
    ASSUME EventInv, KernelInv', NEW q \in Queues, PostFromIrq(q)
    PROVE  Refines
  <1>1. /\ UNCHANGED <<runningThread, runQueue, td_timer, td_priority, pc, reg>>
        /\ (At("post") \/ At("pop"))' <=> (At("post") \/ At("pop"))
        /\ \A r \in Queues : InFlight(r)' = InFlight(r)
    BY DEF PostFromIrq, At, self, InFlight
  <1>2. Late' = Late /\ LateInv'
    BY <1>1 DEF Late, EventInv, LateInv
  <1>3. ScanInv /\ KernelInv /\ root \in [Queues -> Seq(Threads \cup {SIGNALED})]
    BY DEF EventInv, KernelInv, TypeOK
  <1>4. CASE HasThreads(root[q])
    <2>. DEFINE h == Head(root[q])
    <2>1. /\ Linked(root[q]) /\ root[q] # <<>> /\ ~IsSignaled(root[q])
          /\ h \in Threads /\ Contains(root[q], h)
      BY <1>3, <1>4, AtPlace, LinkedElements
    <2>2. root' = root /\ td_qpec' = [td_qpec EXCEPT ![h] = @ + 1]
      BY <1>4, <2>1 DEF PostFromIrq
    <2>3. ScanInv'
      BY <1>1, <1>3, <2>2 DEF ScanInv
    <2>4. ShownRight /\ ShownRight'
      BY <1>3, <2>3, Seen, SeenNext
    <2>5. \A r \in Queues : Waiters(r)' = Waiters(r)
      BY <2>2 DEF Waiters
    <2>6. Pend(q)' = Pend(q) + 1 /\ Pend(q) \in Nat
      BY <2>1, <2>2, PrioritiesAreNats, <1>3 DEF Pend
    <2>7. ASSUME NEW r \in Queues, r # q
          PROVE  Pend(r)' = Pend(r)
      <3>1. CASE Unthreaded(root[r])
        BY <2>2, <3>1 DEF Pend, Unthreaded
      <3>2. CASE ~Unthreaded(root[r])
        <4>1. Linked(root[r]) /\ root[r] # <<>> /\ Head(root[r]) \in Threads
              /\ Contains(root[r], Head(root[r]))
          BY <1>3, <3>2, AtPlace, LinkedElements
        <4>2. Head(root[r]) # h
          BY <1>3, <2>1, <2>7, <4>1 DEF KernelInv, QueueInv
        <4> QED
          BY <2>1, <2>2, <4>1, <4>2, <1>3, PrioritiesAreNats DEF Pend
      <3> QED
        BY <3>1, <3>2
    <2>8. Waiters(q) # {}
      BY <2>1 DEF Waiters
    <2>. HIDE DEF h
    <2>9. /\ \A r \in Queues \ {q} : Count(r)' = Count(r)
          /\ Count(q)' = Count(q) + 1
      BY <1>1, <2>6, <2>7 DEF Count, InFlight
    <2>10. Events!Next
      BY <1>1, <1>2, <2>4, <2>5, <2>8, <2>9, ArriveSeen
    <2> QED
      BY <1>2, <2>3, <2>10 DEF Refines
  <1>5. CASE ~HasThreads(root[q])
    <2>1. Unthreaded(root[q])
      BY <1>3, <1>5, AtPlace
    <2>2. /\ IsSignaled(root'[q]) /\ \A r \in Queues \ {q} : root'[r] = root[r]
          /\ td_qpec' = td_qpec
      BY <1>3, <1>5, <2>1 DEF PostFromIrq, Unthreaded, IsSignaled
    <2>3. ScanInv'
      BY <1>1, <1>3, <1>5, <2>2 DEF ScanInv, EventInv, KernelInv, LocalsInv, At
    <2>4. ShownRight /\ ShownRight'
      BY <1>3, <2>3, Seen, SeenNext
    <2>5. Waiters(q) = {} /\ \A r \in Queues : Waiters(r)' = Waiters(r)
      BY <2>1, <2>2, UnthreadedHoldsNobody DEF Waiters, Unthreaded
    <2>6. Pend(q)' = 1 /\ InFlight(q) = 0 /\ \A r \in Queues \ {q} : Pend(r)' = Pend(r)
      BY <1>3, <2>2, <2>5, PendingSum DEF Pend
    <2>7. /\ \A r \in Queues \ {q} : Count(r)' = Count(r)
          /\ Count(q)' = 1
      BY <1>1, <2>6 DEF Count
    <2>8. Events!Next
      BY <1>1, <1>2, <2>4, <2>5, <2>7, ArriveSeen
    <2> QED
      BY <1>2, <2>3, <2>8 DEF Refines
  <1> QED
    BY <1>4, <1>5

\* A latched event is taken by a wait, or forgotten.
LEMMA ForgetRefines ==
    ASSUME EventInv, KernelInv',
           UNCHANGED <<runningThread, runQueue, td_qpec, td_timer, td_priority>>,
           NEW q \in Queues, root' = [root EXCEPT ![q] = IF IsSignaled(@) THEN <<>> ELSE @],
           NoFlight, NoFlight'
    PROVE  Refines
  <1>1. Late' = Late /\ \A t \in Late : Contains(runQueue', t)
    BY DEF Late, EventInv, LateInv
  <1>2. ScanInv' /\ LateInv'
    BY <1>1, NothingInFlightNext DEF LateInv
  <1>3. CASE IsSignaled(root[q])
    <2>1. root'[q] = <<>> /\ \A r \in Queues \ {q} : root'[r] = root[r]
      BY <1>3, AtPlace DEF EventInv
    <2>2. ShownRight /\ ShownRight'
      BY <1>2, Seen, SeenNext DEF EventInv
    <2>3. Waiters(q) = {} /\ \A r \in Queues : Waiters(r)' = Waiters(r)
      BY <1>3, <2>1, UnthreadedHoldsNobody, EmptyLinked DEF Waiters, Unthreaded
    <2>4. Pend(q)' = 0 /\ \A r \in Queues \ {q} : Pend(r)' = Pend(r)
      BY <2>1 DEF Pend, IsSignaled
    <2>5. /\ \A r \in Queues \ {q} : Count(r)' = Count(r)
          /\ Count(q)' = 0
      BY <2>4, NothingInFlight, NothingInFlightNext DEF Count
    <2>6. Events!Next
      BY <1>1, <2>2, <2>3, <2>5, ConsumeSeen
    <2> QED
      BY <1>2, <2>6 DEF Refines
  <1>4. CASE ~IsSignaled(root[q])
    <2>1. root' = root
      BY <1>4 DEF EventInv, KernelInv, TypeOK
    <2> QED
      BY <1>1, <2>1, QuietStep
  <1> QED
    BY <1>3, <1>4

\* NutEventWait takes a latched event; NutEventWaitNext and
\* NutEventBroadcast discard it.
LEMMA TakesRefine ==
    ASSUME EventInv, KernelInv',
           \/ \E q \in Queues, ms \in BOOLEAN : EventWaitNext(q, ms)
           \/ \E q \in Queues, async \in BOOLEAN : EventBroadcast(q, async)
           \/ WaitClear
    PROVE  Refines
  <1>1. PICK q \in Queues :
           /\ UNCHANGED <<runningThread, runQueue, td_qpec, td_timer, td_priority>>
           /\ root' = [root EXCEPT ![q] = IF IsSignaled(@) THEN <<>> ELSE @]
           /\ pc[self] \in {"app", "clear"}
    <2>1. CASE WaitClear
      <3>1. reg.q \in Queues /\ IsSignaled(root[reg.q])
        BY <2>1 DEF WaitClear, EventInv, KernelInv, LocalsInv, TransitInv, At
      <3>2. root' = [root EXCEPT ![reg.q] = IF IsSignaled(@) THEN <<>> ELSE @]
        BY <2>1, <3>1 DEF WaitClear
      <3> QED
        BY <2>1, <3>1, <3>2 DEF WaitClear, At, tcb
    <2>2. CASE ~WaitClear
      BY <2>2 DEF EventWaitNext, EventBroadcast, Free, At, tcb
    <2> QED
      BY <2>1, <2>2
  <1>2. NoFlight
    BY <1>1 DEF NoFlight, At
  <1>3. NoFlight'
    <2>1. CASE \E x \in Queues, async \in BOOLEAN : EventBroadcast(x, async)
      <3>1. PICK x \in Queues, async \in BOOLEAN : EventBroadcast(x, async)
        BY <2>1
      <3>2. CASE HasThreads(root[x])
        <4>1. reg'.ret = IF async THEN "bcastasync" ELSE "bcast"
          BY <3>1, <3>2 DEF EventBroadcast, NoRegs
        <4> QED
          BY <4>1 DEF NoFlight
      <3>3. CASE ~HasThreads(root[x])
        <4>1. \E p \in {"app", "yield"} : pc' = [pc EXCEPT ![self] = p]
          BY <3>1, <3>3 DEF EventBroadcast, Goto
        <4> QED
          BY <1>1, <4>1, LandsOutside DEF EventInv, Points
      <3> QED
        BY <3>2, <3>3
    <2>2. CASE WaitClear \/ \E x \in Queues, ms \in BOOLEAN : EventWaitNext(x, ms)
      <3>1. \E p \in {"wait", "yield"} : pc' = [pc EXCEPT ![self] = p]
        BY <2>2 DEF WaitClear, EventWaitNext, Goto
      <3> QED
        BY <1>1, <3>1, LandsOutside DEF EventInv, Points
    <2> QED
      BY <2>1, <2>2
  <1> QED
    BY <1>1, <1>2, <1>3, ForgetRefines

\* What the root and the counters show after t has left the queue s: the
\* pending events go on to the new first thread, or one of them is latched.
LEMMA LeavingPending ==
    ASSUME NEW s, Linked(s), s # <<>>, NEW t \in Threads, Contains(s, t),
           NEW pec \in [Threads -> Nat],
           \A u \in Threads : Contains(s, u) /\ pec[u] > 0 => u = Head(s)
    PROVE  LET r == DropLatch(s, t, pec)
               n == pec[Head(s)]
           IN  (IF IsSignaled(r) THEN 1
                ELSE IF r = <<>> THEN 0 ELSE DropPec(pec, s, t)[Head(r)])
                  = IF (\A u \in Threads : Contains(s, u) => u = t) /\ n > 1 THEN 1 ELSE n
  <1>. DEFINE w == Without(s, t)
              alone == \A u \in Threads : Contains(s, u) => u = t
              n == pec[Head(s)]
  <1>1. /\ Head(s) \in Threads /\ Contains(s, Head(s)) /\ n \in Nat
        /\ \A u \in Threads : Contains(s, u) => pec[u] \in Nat
    BY LinkedElements
  <1>2. Linked(w) /\ ~IsSignaled(w) /\ \A u : Contains(w, u) <=> (Contains(s, u) /\ u # t)
    BY WithoutLinked, LinkedElements
  <1>3. CASE pec[t] = 0
    <2>1. DropLatch(s, t, pec) = w /\ DropPec(pec, s, t) = pec
      BY <1>3, DropNothing DEF DropLatch
    <2>2. CASE Head(s) # t
      <3>1. w # <<>> /\ Head(w) = Head(s) /\ ~alone
        BY <1>1, <2>2, WithoutHead
      <3> QED
        BY <1>2, <2>1, <3>1
    <2>3. CASE Head(s) = t
      <3>1. n = 0
        BY <1>3, <2>3
      <3>2. w # <<>> => pec[Head(w)] = 0
        <4> SUFFICES ASSUME w # <<>> PROVE pec[Head(w)] = 0
          OBVIOUS
        <4>1. Head(w) \in Threads /\ Contains(w, Head(w))
          BY <1>2, LinkedElements
        <4>2. Contains(s, Head(w)) /\ Head(w) # Head(s)
          BY <1>2, <2>3, <4>1
        <4> QED
          BY <4>1, <4>2
      <3> QED
        BY <1>2, <2>1, <3>1, <3>2
    <2> QED
      BY <2>2, <2>3
  <1>4. CASE pec[t] > 0
    <2>1. Head(s) = t
      BY <1>4
    <2>2. CASE HasSuccessor(s, t)
      <3>1. /\ w # <<>> /\ Head(w) = Successor(s, t)
            /\ Contains(s, Successor(s, t)) /\ Successor(s, t) # t
        BY <2>1, <2>2, WithoutHead
      <3>2. Successor(s, t) \in Threads /\ ~alone
        BY <3>1, LinkedElements
      <3>3. DropLatch(s, t, pec) = w
        BY <2>2 DEF DropLatch
      <3>4. DropPec(pec, s, t)[Successor(s, t)] = pec[t]
        BY <1>4, <2>2, <3>1, <3>2 DEF DropPec
      <3> QED
        BY <1>2, <2>1, <3>1, <3>2, <3>3, <3>4
    <2>3. CASE ~HasSuccessor(s, t)
      <3>1. w = <<>>
        BY <2>1, <2>3, WithoutHead
      <3>2. DropLatch(s, t, pec) = <<SIGNALED>>
        BY <1>4, <2>3, <3>1 DEF DropLatch
      <3>3. alone
        BY <1>2, <3>1, EmptyLinked
      <3> QED
        BY <1>1, <1>4, <2>1, <3>2, <3>3 DEF IsSignaled
    <2> QED
      BY <2>2, <2>3
  <1> QED
    BY <1>1, <1>3, <1>4

\* A thread leaves its queue: what the kernel shows of the queues then.
LEMMA LeavingQueue ==
    ASSUME EventInv, NEW q \in Queues, NEW t \in Threads, Contains(root[q], t),
           root' = [root EXCEPT ![q] = DropLatch(@, t, td_qpec)],
           td_qpec' = DropPec(td_qpec, root[q], t)
    PROVE  /\ Waiters(q)' = Waiters(q) \ {t} /\ t \in Waiters(q)
           /\ Pend(q)' = IF Waiters(q) = {t} /\ Pend(q) > 1 THEN 1 ELSE Pend(q)
           /\ \A r \in Queues \ {q} : Waiters(r)' = Waiters(r) /\ Pend(r)' = Pend(r)
  <1>. DEFINE s == root[q]
              d == DropLatch(s, t, td_qpec)
              pec == DropPec(td_qpec, s, t)
  <1>0. KernelInv
    BY DEF EventInv
  <1>1. /\ root'[q] = d /\ \A r \in Queues \ {q} : root'[r] = root[r]
        /\ td_qpec' = pec
    BY <1>0, AtPlace
  <1>2. Linked(s) /\ s # <<>> /\ ~IsSignaled(s)
    BY <1>0, AtPlace, UnthreadedHoldsNobody, LinkedElements
  <1>3. /\ \A u \in Threads : Contains(d, u) <=> (Contains(s, u) /\ u # t)
        /\ \A u \in Threads : ~Contains(s, u) => pec[u] = td_qpec[u]
    BY <1>0, Unqueueing
  <1>4. \A u \in Threads : Contains(s, u) /\ td_qpec[u] > 0 => u = Head(s)
    BY <1>0 DEF KernelInv, QueueInv, PendInv
  <1>5. td_qpec \in [Threads -> Nat]
    BY <1>0, PrioritiesAreNats
  <1>6. (IF IsSignaled(d) THEN 1 ELSE IF d = <<>> THEN 0 ELSE pec[Head(d)])
          = IF (\A u \in Threads : Contains(s, u) => u = t) /\ td_qpec[Head(s)] > 1
            THEN 1 ELSE td_qpec[Head(s)]
    BY <1>2, <1>4, <1>5, LeavingPending
  <1>. HIDE DEF d, pec
  <1>7. Waiters(q)' = Waiters(q) \ {t} /\ t \in Waiters(q)
    BY <1>1, <1>3 DEF Waiters
  <1>8. Pend(q)' = IF Waiters(q) = {t} /\ Pend(q) > 1 THEN 1 ELSE Pend(q)
    <2>1. Pend(q) = td_qpec[Head(s)]
      BY <1>2 DEF Pend
    <2>2. Pend(q)' = IF IsSignaled(d) THEN 1 ELSE IF d = <<>> THEN 0 ELSE pec[Head(d)]
      BY <1>1 DEF Pend
    <2>3. Waiters(q) = {t} <=> \A u \in Threads : Contains(s, u) => u = t
      BY DEF Waiters
    <2> QED
      BY <1>6, <2>1, <2>2, <2>3
  <1>9. ASSUME NEW r \in Queues \ {q}
        PROVE  Waiters(r)' = Waiters(r) /\ Pend(r)' = Pend(r)
    <2>1. CASE Unthreaded(root[r])
      BY <1>1, <2>1 DEF Unthreaded, Pend, Waiters
    <2>2. CASE ~Unthreaded(root[r])
      <3>1. /\ Linked(root[r]) /\ root[r] # <<>>
            /\ Contains(root[r], Head(root[r])) /\ Head(root[r]) \in Threads
        BY <1>0, <2>2, AtPlace, LinkedElements
      <3>2. ~Contains(s, Head(root[r]))
        BY <1>0, <3>1 DEF KernelInv, QueueInv
      <3> QED
        BY <1>1, <1>3, <3>1, <3>2 DEF Pend, Waiters
    <2> QED
      BY <2>1, <2>2
  <1> QED
    BY <1>7, <1>8, <1>9

\* NutEventPostAsync reads the root and then takes the first thread off, or
\* latches the event; a post of the scan delivers a pending event.
LEMMA PostReadRefines == ASSUME EventInv, KernelInv', PostRead PROVE Refines
  <1>0. KernelInv /\ ScanInv /\ reg.q \in Queues
    BY DEF EventInv, KernelInv, LocalsInv, PostRead, At
  <1>1. /\ UNCHANGED <<runningThread, runQueue, root, td_qpec, td_priority, td_timer>>
        /\ pc[self] = "post"
    BY DEF PostRead, At, lists, tcb
  <1>2. Late' = Late /\ \A t \in Late : Contains(runQueue', t)
    BY <1>1 DEF Late, EventInv, LateInv
  <1>3. CASE IsSignaled(root[reg.q])
    <2>1. reg.ret # "scan"
      BY <1>0, <1>1, <1>3 DEF ScanInv, At, HasThreads
    <2>2. PICK p \in {"app", "yield", "bcast"} : pc' = [pc EXCEPT ![self] = p]
      BY <1>3, <2>1 DEF PostRead, PostDone, Goto
    <2>3. NoFlight /\ NoFlight'
      BY <1>0, <1>1, <2>1, <2>2, LandsOutside DEF NoFlight, Points
    <2> QED
      BY <1>1, <1>2, <2>3, QuietStep
  <1>4. CASE ~IsSignaled(root[reg.q])
    <2>1. /\ pc' = [pc EXCEPT ![self] = "pop"]
          /\ \E td : reg' = [reg EXCEPT !.td = td]
      BY <1>4 DEF PostRead, Goto
    <2>2. /\ pc'[self] = "pop" /\ self' = self
          /\ reg'.q = reg.q /\ reg'.ret = reg.ret
      BY <1>0, <1>1, <2>1, AtPlace DEF Regs, self
    <2>3. ScanInv' /\ \A r \in Queues : InFlight(r)' = InFlight(r)
      BY <1>0, <1>1, <2>2 DEF ScanInv, InFlight, At
    <2>4. LateInv'
      BY <1>2 DEF LateInv
    <2>5. ShownRight /\ ShownRight'
      BY <1>0, <2>3, Seen, SeenNext
    <2>6. \A r \in Queues : Waiters(r)' = Waiters(r) /\ Count(r)' = Count(r)
      BY <1>1, <2>3 DEF Waiters, Pend, Count
    <2> QED
      BY <1>1, <1>2, <2>3, <2>4, <2>5, <2>6, StutterSeen DEF Refines
  <1> QED
    BY <1>3, <1>4

\* The thread that the root named leaves the queue: woken by a pending event
\* if NutThreadResume posts, handed a new one otherwise; with nobody waiting
\* the event is latched.
LEMMA PostPopRefines == ASSUME EventInv, KernelInv', PostPop PROVE Refines
  <1>1A. KernelInv /\ ScanInv /\ OrderInv /\ reg.q \in Queues
    BY DEF EventInv, KernelInv, LocalsInv, PostPop, At
  <1>1B. PICK q \in Queues : q = reg.q
    BY <1>1A
  <1>1C. PICK t : t = reg.td
    OBVIOUS
  <1>0. KernelInv /\ ScanInv /\ OrderInv /\ q = reg.q /\ t = reg.td
    BY <1>1A, <1>1B, <1>1C
  <1>1. /\ UNCHANGED <<runningThread, runQueue, td_priority, td_timer>>
        /\ pc[self] = "pop"
    BY DEF PostPop, At
  <1>2. Late' = Late /\ LateInv'
    BY <1>1 DEF Late, EventInv, LateInv
  <1>3. CASE t = NoOne
    <2>1. Unthreaded(root[q])
      <3>1. t \notin Threads
        BY <1>3, KernelAssumption
      <3> QED
        BY <1>0, <1>1, <3>1, LinkedElements DEF KernelInv, TransitInv, At, Unthreaded
    <2>2. reg.ret # "scan"
      BY <1>0, <1>1, <2>1, UnthreadedHoldsNobody DEF ScanInv, At
    <2>3. root' = [root EXCEPT ![q] = <<SIGNALED>>] /\ td_qpec' = td_qpec /\ PostDone
      BY <1>0, <1>3 DEF PostPop
    <2>4. PICK p \in {"app", "yield", "bcast"} : pc' = [pc EXCEPT ![self] = p]
      BY <2>2, <2>3 DEF PostDone, Goto
    <2>5. NoFlight /\ NoFlight'
      BY <1>0, <1>1, <2>2, <2>4, LandsOutside DEF NoFlight, Points
    <2>6. ScanInv'
      BY <2>5, NothingInFlightNext
    <2>7. ShownRight /\ ShownRight'
      BY <1>0, <2>6, Seen, SeenNext
    <2>8. IsSignaled(root'[q]) /\ \A r \in Queues \ {q} : root'[r] = root[r]
      BY <1>0, <2>3, AtPlace DEF IsSignaled
    <2>9. Waiters(q) = {} /\ \A r \in Queues : Waiters(r)' = Waiters(r)
      BY <2>1, <2>8, UnthreadedHoldsNobody DEF Waiters, Unthreaded
    <2>10. Pend(q)' = 1 /\ \A r \in Queues \ {q} : Pend(r)' = Pend(r)
      BY <2>3, <2>8 DEF Pend
    <2>11. Count(q)' = 1 /\ \A r \in Queues \ {q} : Count(r)' = Count(r)
      BY <1>0, <2>5, <2>10, NothingInFlight, NothingInFlightNext DEF Count
    <2>12. Events!Next
      BY <1>0, <1>1, <1>2, <2>7, <2>9, <2>11, ArriveSeen
    <2> QED
      BY <1>2, <2>6, <2>12 DEF Refines
  <1>4. CASE t # NoOne
    <2>1. Linked(root[q]) /\ root[q] # <<>> /\ t = Head(root[q])
      BY <1>0, <1>1, <1>4 DEF KernelInv, TransitInv, At
    <2>2. t \in Threads /\ Contains(root[q], t)
      BY <2>1, LinkedElements
    <2>3. /\ root' = [root EXCEPT ![q] = DropLatch(@, t, td_qpec)]
          /\ td_qpec' = DropPec(td_qpec, root[q], t)
          /\ pc' = [pc EXCEPT ![self] = "ready"] /\ reg' = reg
      BY <1>0, <1>4 DEF PostPop, Goto
    <2>4. NoFlight' /\ ScanInv' /\ \A r \in Queues : InFlight(r)' = 0
      BY <1>0, <1>1, <2>3, LandsOutside, NothingInFlightNext DEF Points
    <2>5. ShownRight /\ ShownRight'
      BY <1>0, <2>4, Seen, SeenNext
    <2>6. /\ InFlight(q) = IF reg.ret = "scan" THEN 1 ELSE 0
          /\ \A r \in Queues \ {q} : InFlight(r) = 0
      BY <1>0, <1>1 DEF InFlight, At
    <2>7. \A u \in Waiters(q) : td_priority[t] <= td_priority[u]
      <3> SUFFICES ASSUME NEW u \in Threads, Contains(root[q], u)
                   PROVE  td_priority[t] <= td_priority[u]
        BY DEF Waiters
      <3>1. Ordered(root[q], td_priority)
        BY <1>0, <2>1, LinkedElements DEF OrderInv, EventOrder
      <3>2. /\ DOMAIN root[q] = 1 .. Len(root[q]) /\ 1 \in 1 .. Len(root[q])
            /\ t = root[q][1]
        BY <2>1, LinkedElements
      <3>3. PICK i \in 1 .. Len(root[q]) : root[q][i] = u
        BY <2>1, <3>2 DEF Contains
      <3>4. i = 1 \/ 1 < i
        BY <3>3
      <3>5. td_priority[t] \in Nat
        BY <1>0, <2>2, PrioritiesAreNats
      <3> QED
        BY <3>1, <3>2, <3>3, <3>4, <3>5 DEF Ordered
    <2>8. /\ Waiters(q)' = Waiters(q) \ {t} /\ t \in Waiters(q)
          /\ Pend(q)' = IF Waiters(q) = {t} /\ Pend(q) > 1 THEN 1 ELSE Pend(q)
          /\ \A r \in Queues \ {q} : Waiters(r)' = Waiters(r) /\ Pend(r)' = Pend(r)
      BY <1>0, <2>2, <2>3, LeavingQueue
    <2>. DEFINE n == Pend(q)
    <2>9. /\ n \in Nat /\ Pend(q)' \in Nat
          /\ \A r \in Queues : Pend(r) \in Nat
      <3>1. \A r \in Queues : Pend(r) \in Nat
        BY <1>0, PendingSum
      <3> QED
        BY <1>0, <2>8, <3>1
    <2>10. /\ \A r \in Queues \ {q} : Count(r)' = Count(r)
           /\ Count(q)' = IF Waiters(q) = {t} /\ n > 1 THEN 1 ELSE n
      <3>1. \A r \in Queues : Count(r)' = Pend(r)' + 0
        BY <2>4 DEF Count
      <3>2. \A r \in Queues \ {q} : Count(r) = Pend(r) + 0
        BY <2>6 DEF Count
      <3> QED
        BY <1>0, <2>8, <2>9, <3>1, <3>2
    <2>11. n = Count(q) - 1 \/ n = Count(q)
      BY <2>6, <2>9 DEF Count
    <2>. HIDE DEF n
    <2>12. Events!Next
      BY <1>0, <1>1, <1>2, <2>2, <2>5, <2>7, <2>8, <2>9, <2>10, <2>11, LeaveSeen
    <2> QED
      BY <1>2, <2>4, <2>12 DEF Refines
  <1> QED
    BY <1>3, <1>4

\* NutThreadResume takes one pending event off its counter: it is still
\* there, on its way to the queue.
LEMMA ScanTakeRefines == ASSUME EventInv, KernelInv', ScanTake PROVE Refines
  <1>0. KernelInv /\ ScanInv /\ td_qpec \in [Threads -> Nat]
    BY PrioritiesAreNats DEF EventInv
  <1>1. /\ UNCHANGED <<runningThread, runQueue, root, td_priority, td_timer>>
        /\ pc[self] = "take" /\ self' = self
    BY DEF ScanTake, At, lists, self
  <1>2. Late' = Late /\ LateInv'
    BY <1>1 DEF Late, EventInv, LateInv
  <1>3. PICK td : td = nutThreadList[reg.cur]
    OBVIOUS
  <1>4. td \in Threads /\ td_qpec[td] > 0
    BY <1>0, <1>1, <1>3, LinkedElements DEF KernelInv, LocalsInv, LiveInv, At
  <1>5. PICK q \in Queues : /\ q = td_queue[td] /\ q # RunQ
                            /\ Linked(root[q]) /\ root[q] # <<>> /\ Head(root[q]) = td
    BY <1>0, <1>4, KernelAssumption DEF KernelInv, PendInv
  <1>6. HasThreads(root[q]) /\ ~IsSignaled(root[q]) /\ Contains(root[q], td)
    BY <1>5, LinkedElements DEF HasThreads
  <1>7. /\ td_qpec' = [td_qpec EXCEPT ![td] = @ - 1]
        /\ pc' = [pc EXCEPT ![self] = "post"]
        /\ reg' = [reg EXCEPT !.q = q, !.ret = "scan"]
    BY <1>3, <1>5, <1>6 DEF ScanTake, Goto
  <1>8. pc'[self] = "post" /\ reg'.q = q /\ reg'.ret = "scan"
    BY <1>0, <1>7, AtPlace DEF Regs
  <1>9. ScanInv'
    BY <1>1, <1>6, <1>8 DEF ScanInv
  <1>10. ShownRight /\ ShownRight'
    BY <1>0, <1>9, Seen, SeenNext
  <1>11. \A r \in Queues : /\ InFlight(r) = 0 /\ Waiters(r)' = Waiters(r)
                           /\ InFlight(r)' = IF r = q THEN 1 ELSE 0
    BY <1>1, <1>8 DEF InFlight, At, Waiters
  <1>12. Pend(q)' = Pend(q) - 1 /\ Pend(q) \in Nat
    BY <1>0, <1>1, <1>4, <1>5, <1>6, <1>7 DEF Pend
  <1>13. ASSUME NEW r \in Queues, r # q PROVE Pend(r)' = Pend(r)
    <2>1. CASE Unthreaded(root[r])
      BY <1>1, <2>1 DEF Unthreaded, Pend
    <2>2. CASE ~Unthreaded(root[r])
      <3>1. Contains(root[r], Head(root[r])) /\ Head(root[r]) \in Threads
        BY <1>0, <2>2, AtPlace, LinkedElements
      <3>2. Head(root[r]) # td
        BY <1>0, <1>4, <1>6, <1>13, <3>1 DEF KernelInv, QueueInv
      <3> QED
        BY <1>0, <1>1, <1>7, <3>1, <3>2 DEF Pend
    <2> QED
      BY <2>1, <2>2
  <1>14. \A r \in Queues : Count(r)' = Count(r)
    <2>1. Count(q)' = Count(q)
      BY <1>11, <1>12 DEF Count
    <2>2. \A r \in Queues : r # q => Count(r)' = Count(r)
      BY <1>11, <1>13 DEF Count
    <2> QED
      BY <2>1, <2>2
  <1> QED
    BY <1>1, <1>2, <1>9, <1>10, <1>11, <1>14, StutterSeen DEF Refines

\* NutEventWait puts its caller into the queue, as the first thread of an
\* empty or signaled root ...
LEMMA WaitEnterRefines == ASSUME EventInv, KernelInv', WaitEnter PROVE Refines
  <1>0. KernelInv /\ ScanInv /\ self \in Apps /\ self \in Threads /\ pc[self] = "enter"
    BY AtPlace DEF EventInv, KernelInv, LocalsInv, WaitEnter, At
  <1>1. PICK q \in Queues : q = reg.q
    BY <1>0 DEF KernelInv, LocalsInv
  <1>2. PICK t \in Threads : t = self
    BY <1>0
  <1>3. /\ UNCHANGED <<runningThread, td_priority>> /\ self' = self
        /\ runQueue' = Without(runQueue, t)
    BY <1>2 DEF WaitEnter, self
  <1>4. Contains(runQueue, t)
    BY <1>0, <1>2 DEF KernelInv, QueueInv, Resuming, At
  <1>5. /\ \A u : Contains(runQueue', u) <=> (Contains(runQueue, u) /\ u # t)
        /\ DropPec(td_qpec, runQueue, t) = td_qpec /\ td_qpec[t] = 0
        /\ \A r \in Queues : ~Contains(root[r], t)
    BY <1>0, <1>2, <1>3, <1>4, LeavingRunQueue
  <1>6. t \notin Late
    BY <1>0, <1>2, NotLate
  <1>7. td_qpec \in [Threads -> Nat] /\ td_priority \in [Threads -> Nat]
    BY <1>0, PrioritiesAreNats
  <1>8. \A u \in Late : Contains(runQueue', u)
    BY <1>5, <1>6 DEF EventInv, LateInv, Late
  <1>9. NoFlight
    BY <1>0 DEF NoFlight, At
  <1>10. CASE HasThreads(root[q])
    <2>1. /\ UNCHANGED <<root, td_timer>> /\ pc' = [pc EXCEPT ![self] = "link"]
          /\ td_qpec' = [td_qpec EXCEPT ![t] = 0]
      BY <1>1, <1>2, <1>5, <1>10 DEF WaitEnter, Goto
    <2>2. td_qpec' = td_qpec
      BY <1>5, <1>7, <2>1
    <2>3. NoFlight' /\ Late' = Late
      BY <1>0, <1>3, <2>1, LandsOutside DEF Points, Late
    <2> QED
      BY <1>3, <1>8, <1>9, <2>1, <2>2, <2>3, QuietStep
  <1>11. CASE ~HasThreads(root[q])
    <2>1. Unthreaded(root[q])
      BY <1>0, <1>11, AtPlace
    <2>2. /\ root' = [root EXCEPT ![q] = AddPri(@, t, td_priority)]
          /\ td_qpec' = AddPec(td_qpec, root[q], t, td_priority)
          /\ FallAsleep
      BY <1>1, <1>2, <1>5, <1>11 DEF WaitEnter
    <2>3. AddPri(root[q], t, td_priority) = <<t>>
      BY <1>7, <2>1, AddToEmpty DEF Unthreaded
    <2>4. td_qpec' = [td_qpec EXCEPT ![t] = IF IsSignaled(root[q]) THEN 1 ELSE 0]
      <3>1. CASE IsSignaled(root[q])
        BY <2>2, <3>1 DEF AddPec
      <3>2. CASE ~IsSignaled(root[q])
        <4>1. root[q] = <<>>
          BY <2>1, <3>2 DEF Unthreaded
        <4>2. AddPec(td_qpec, <<>>, t, td_priority) = [td_qpec EXCEPT ![t] = 0]
          <5>1. Linked(<<>>) /\ ~Contains(<<>>, t)
            BY EmptyLinked
          <5>2. \A u \in Threads : Contains(<<>>, u) => td_qpec[u] = 0
            BY EmptyLinked
          <5> QED
            BY <1>7, <5>1, <5>2, AddToQuietQueue
        <4> QED
          BY <2>2, <3>2, <4>1, <4>2
      <3> QED
        BY <3>1, <3>2
    <2>5. /\ root'[q] = <<t>> /\ \A r \in Queues \ {q} : root'[r] = root[r]
      BY <1>0, <2>2, <2>3, AtPlace
    <2>6. /\ td_timer'[t] \in {"none", "event"}
          /\ \A u \in Threads \ {t} : td_timer'[u] = td_timer[u]
          /\ pc' = [pc EXCEPT ![self] = "scan"]
      BY <1>0, <1>2, <1>3, <2>2, FallingAsleep DEF FallAsleep, Resume, Goto
    <2>7. Late' = Late
      BY <1>6, <2>6 DEF Late
    <2>8. NoFlight'
      BY <1>0, <1>3, <2>6, LandsOutside DEF Points
    <2>9. ScanInv' /\ LateInv'
      BY <1>8, <2>7, <2>8, NothingInFlightNext DEF LateInv
    <2>10. ShownRight /\ ShownRight'
      BY <1>0, <2>9, Seen, SeenNext
    <2>11. /\ \A r \in Queues \ {q} : Waiters(r)' = Waiters(r)
           /\ Waiters(q)' = Waiters(q) \cup {t}
           /\ \A r \in Queues : t \notin Waiters(r)
      <3>1. \A u \in Threads : ~Contains(root[q], u)
        BY <2>1, UnthreadedHoldsNobody
      <3>2. \A u \in Threads : Contains(<<t>>, u) <=> u = t
        BY SingleLinked
      <3> QED
        BY <1>5, <2>5, <3>1, <3>2 DEF Waiters
    <2>12. Pend(q)' = Pend(q)
      <3>1. ~IsSignaled(<<t>>) /\ <<t>> # <<>> /\ Head(<<t>>) = t
        BY SingleLinked, LinkedElements
      <3>2. td_qpec'[t] = IF IsSignaled(root[q]) THEN 1 ELSE 0
        BY <1>7, <2>4
      <3> QED
        BY <2>1, <2>5, <3>1, <3>2 DEF Pend, Unthreaded
    <2>13. ASSUME NEW r \in Queues \ {q} PROVE Pend(r)' = Pend(r)
      <3>1. CASE Unthreaded(root[r])
        BY <2>5, <3>1 DEF Unthreaded, Pend
      <3>2. CASE ~Unthreaded(root[r])
        <4>1. Contains(root[r], Head(root[r])) /\ Head(root[r]) \in Threads
          BY <1>0, <3>2, AtPlace, LinkedElements
        <4> QED
          BY <1>5, <1>7, <2>4, <2>5, <4>1 DEF Pend
      <3> QED
        BY <3>1, <3>2
    <2>14. \A r \in Queues : Count(r)' = Count(r)
      BY <1>9, <2>8, <2>12, <2>13, NothingInFlight, NothingInFlightNext DEF Count
    <2>15. Events!Next
      BY <1>3, <1>6, <2>7, <2>10, <2>11, <2>14, JoinSeen
    <2> QED
      BY <2>9, <2>15 DEF Refines
  <1> QED
    BY <1>10, <1>11

\* ... or behind the threads of its priority, taking over the pending events
\* of the thread it comes in front of.
LEMMA WaitLinkRefines == ASSUME EventInv, KernelInv', WaitLink PROVE Refines
  <1>0. KernelInv /\ ScanInv /\ self \in Threads /\ pc[self] = "link"
    BY AtPlace DEF EventInv, WaitLink, At
  <1>1. PICK q \in Queues : q = reg.q
    BY <1>0 DEF KernelInv, LocalsInv
  <1>2. PICK t \in Threads : t = self
    BY <1>0
  <1>3. PICK td : td = reg.td
    OBVIOUS
  <1>4. PICK s : s = root[q]
    OBVIOUS
  <1>5. PICK i : i = IF td = NoOne THEN Len(s) + 1 ELSE Position(s, td)
    OBVIOUS
  <1>6. /\ UNCHANGED <<runningThread, runQueue, td_priority>> /\ self' = self
        /\ root' = [root EXCEPT ![q] = InsertAt(s, i, t)]
        /\ td_qpec' = IF td = NoOne THEN td_qpec
                      ELSE [td_qpec EXCEPT ![t] = @ + td_qpec[td], ![td] = 0]
        /\ FallAsleep
    BY <1>1, <1>2, <1>3, <1>4, <1>5 DEF WaitLink, self
  <1>7. /\ Linked(s) /\ s # <<>> /\ (td = NoOne \/ Contains(s, td))
        /\ td_queue[t] = q /\ ~Contains(s, t)
    BY <1>0, <1>1, <1>2, <1>3, <1>4 DEF KernelInv, TransitInv, At
  <1>8. /\ Len(s) \in Nat /\ Len(s) > 0 /\ ~IsSignaled(s) /\ Head(s) = s[1]
        /\ 1 \in 1 .. Len(s) /\ Head(s) \in Threads /\ Contains(s, Head(s))
    BY <1>7, LinkedElements
  <1>9. /\ td # NoOne => i \in 1 .. Len(s) /\ s[i] = td /\ td \in Threads
        /\ td = NoOne => i = Len(s) + 1
        /\ i \in 1 .. (Len(s) + 1)
    BY <1>5, <1>7, <1>8, PositionFinds, LinkedElements
  <1>10. td_qpec \in [Threads -> Nat]
    BY <1>0, PrioritiesAreNats
  <1>11. td_qpec[t] = 0 /\ \A r \in Queues : ~Contains(root[r], t)
    BY <1>0, <1>4, <1>7, <1>8, <1>10 DEF KernelInv, PendInv, QueueInv
  <1>12. t \notin Late
    BY <1>0, <1>2, NotLate
  <1>13. /\ root'[q] = InsertAt(s, i, t) /\ \A r \in Queues \ {q} : root'[r] = root[r]
    BY <1>0, <1>6, AtPlace
  <1>14. /\ Linked(InsertAt(s, i, t)) /\ InsertAt(s, i, t) # <<>>
         /\ Head(InsertAt(s, i, t)) = IF i = 1 THEN t ELSE Head(s)
         /\ \A u : Contains(InsertAt(s, i, t), u) <=> (u = t \/ Contains(s, u))
    BY <1>7, <1>9, InsertLinked
  <1>15. /\ td_timer'[t] \in {"none", "event"}
         /\ \A u \in Threads \ {t} : td_timer'[u] = td_timer[u]
         /\ pc' = [pc EXCEPT ![self] = "scan"]
    BY <1>0, <1>2, <1>6, FallingAsleep DEF FallAsleep, Resume, Goto
  <1>16. Late' = Late
    BY <1>12, <1>15 DEF Late
  <1>17. NoFlight /\ NoFlight'
    BY <1>0, <1>6, <1>15, LandsOutside DEF Points, NoFlight, At
  <1>18. ScanInv' /\ LateInv'
    BY <1>6, <1>16, <1>17, NothingInFlightNext DEF LateInv, EventInv
  <1>19. ShownRight /\ ShownRight'
    BY <1>0, <1>18, Seen, SeenNext
  <1>20. /\ \A r \in Queues \ {q} : Waiters(r)' = Waiters(r)
         /\ Waiters(q)' = Waiters(q) \cup {t}
         /\ \A r \in Queues : t \notin Waiters(r)
    BY <1>4, <1>11, <1>13, <1>14 DEF Waiters
  <1>21. Pend(q)' = Pend(q)
    <2>1. Pend(q) = td_qpec[Head(s)]
      BY <1>4, <1>7, <1>8 DEF Pend
    <2>2. Pend(q)' = td_qpec'[IF i = 1 THEN t ELSE Head(s)]
      BY <1>13, <1>14, LinkedElements DEF Pend
    <2>3. CASE i = 1
      <3>1. td # NoOne /\ td = Head(s) /\ td # t
        BY <1>7, <1>8, <1>9, <2>3
      <3>2. td_qpec'[t] = 0 + td_qpec[td]
        BY <1>6, <1>8, <1>10, <1>11, <3>1
      <3> QED
        BY <1>8, <1>10, <2>1, <2>2, <2>3, <3>1, <3>2
    <2>4. CASE i # 1
      <3>1. Head(s) # t
        BY <1>7, <1>8
      <3>2. td # NoOne => td # Head(s)
        BY <1>7, <1>8, <1>9, <2>4, LinkedElements
      <3>3. td_qpec'[Head(s)] = td_qpec[Head(s)]
        BY <1>6, <1>8, <1>10, <3>1, <3>2
      <3> QED
        BY <2>1, <2>2, <2>4, <3>3
    <2> QED
      BY <2>3, <2>4
  <1>22. ASSUME NEW r \in Queues \ {q} PROVE Pend(r)' = Pend(r)
    <2>1. CASE Unthreaded(root[r])
      BY <1>13, <2>1 DEF Unthreaded, Pend
    <2>2. CASE ~Unthreaded(root[r])
      <3>1. Contains(root[r], Head(root[r])) /\ Head(root[r]) \in Threads
        BY <1>0, <2>2, AtPlace, LinkedElements
      <3>2. Head(root[r]) # t
        BY <1>11, <3>1
      <3>3. td # NoOne => Head(root[r]) # td
        BY <1>0, <1>4, <1>7, <1>9, <3>1 DEF KernelInv, QueueInv
      <3>4. td_qpec'[Head(root[r])] = td_qpec[Head(root[r])]
        BY <1>6, <1>10, <3>1, <3>2, <3>3
      <3> QED
        BY <1>13, <3>4 DEF Pend
    <2> QED
      BY <2>1, <2>2
  <1>23. \A r \in Queues : Count(r)' = Count(r)
    BY <1>17, <1>21, <1>22, NothingInFlight, NothingInFlightNext DEF Count
  <1>24. Events!Next
    BY <1>6, <1>12, <1>16, <1>19, <1>20, <1>23, JoinSeen
  <1> QED
    BY <1>18, <1>24 DEF Refines

\* NutEventTimeout takes its thread out of the queue; the event stays.
LEMMA TimeoutRefines ==
    ASSUME EventInv, KernelInv', NEW t \in Threads, EventTimeout(t)
    PROVE  Refines
  <1>0. /\ KernelInv /\ ScanInv /\ td_timer[t] = "event" /\ pc[self] = "elapsed"
        /\ UNCHANGED <<runningThread, td_priority, pc, reg>> /\ self' = self
    BY DEF EventInv, EventTimeout, At, self
  <1>1. PICK q \in Queues : q = td_queue[t]
    BY <1>0 DEF KernelInv, TimerInv
  <1>2. /\ Contains(root[q], t)
        /\ root' = [root EXCEPT ![q] = DropLatch(@, t, td_qpec)]
        /\ runQueue' = AddPri(runQueue, t, td_priority)
        /\ td_qpec' = AddPec(DropPec(td_qpec, root[q], t), runQueue, t, td_priority)
        /\ td_timer' = [td_timer EXCEPT ![t] = "timedout"]
    BY <1>1 DEF EventTimeout
  <1>3. ~Contains(runQueue, t)
    BY <1>0, <1>2, ReadyIsQuiet
  <1>4. /\ \A u \in Threads : Contains(runQueue', u) <=> (u = t \/ Contains(runQueue, u))
        /\ td_qpec' = DropPec(td_qpec, root[q], t)
    <2>. DEFINE pec == DropPec(td_qpec, root[q], t)
    <2>1. /\ pec \in [Threads -> Nat] /\ pec[t] = 0
          /\ \A u \in Threads : ~Contains(root[q], u) => pec[u] = td_qpec[u]
      BY <1>0, <1>2, Unqueueing
    <2>2. \A u \in Threads : Contains(runQueue, u) => td_qpec[u] = 0 /\ ~Contains(root[q], u)
      BY <1>0, ReadyIsQuiet
    <2>. HIDE DEF pec
    <2>3. \A u \in Threads : Contains(runQueue, u) => pec[u] = 0
      BY <2>1, <2>2
    <2>4. td_priority \in [Threads -> Nat]
      BY <1>0, PrioritiesAreNats
    <2>5. /\ \A u \in Threads : Contains(AddPri(runQueue, t, td_priority), u)
                                   <=> (u = t \/ Contains(runQueue, u))
          /\ AddPec(pec, runQueue, t, td_priority) = [pec EXCEPT ![t] = 0]
      BY <1>0, <1>3, <2>1, <2>3, <2>4, MakingReady
    <2>6. [pec EXCEPT ![t] = 0] = pec
      BY <2>1
    <2> QED
      BY <1>2, <2>5, <2>6 DEF pec
  <1>5. Late' = Late \cup {t}
    BY <1>0, <1>2 DEF Late, KernelInv, TypeOK
  <1>6. NoFlight /\ NoFlight'
    BY <1>0 DEF NoFlight, At
  <1>7. ScanInv' /\ LateInv'
    BY <1>4, <1>5, <1>6, NothingInFlightNext DEF EventInv, LateInv, Late
  <1>8. ShownRight /\ ShownRight'
    BY <1>0, <1>7, Seen, SeenNext
  <1>9. /\ Waiters(q)' = Waiters(q) \ {t} /\ t \in Waiters(q)
        /\ Pend(q)' = IF Waiters(q) = {t} /\ Pend(q) > 1 THEN 1 ELSE Pend(q)
        /\ \A r \in Queues \ {q} : Waiters(r)' = Waiters(r) /\ Pend(r)' = Pend(r)
    BY <1>2, <1>4, LeavingQueue
  <1>10. \A r \in Queues : Count(r) = Pend(r) + 0 /\ Count(r)' = Pend(r)' + 0
    BY <1>6, NothingInFlight, NothingInFlightNext DEF Count
  <1>11. Count(q) \in Nat /\ Pend(q) \in Nat
    BY <1>0, <1>8, PendingSum DEF ShownRight
  <1>12. Count(q) = Pend(q)
    BY <1>10, <1>11
  <1>13. /\ \A r \in Queues \ {q} : Count(r)' = Count(r)
         /\ Count(q)' = IF Waiters(q) = {t} /\ Count(q) > 1 THEN 1 ELSE Count(q)
    BY <1>9, <1>10, <1>11, <1>12
  <1>14. Events!Next
    <2>1. PICK n \in Nat : n = Count(q)
      BY <1>11
    <2> QED
      BY <1>0, <1>5, <1>8, <1>9, <1>13, <2>1, LeaveSeen
  <1> QED
    BY <1>7, <1>14 DEF Refines

\* A wait that timed out is reported to its caller.
LEMMA ReturnRefines == ASSUME EventInv, KernelInv', Return PROVE Refines
  <1>0. /\ KernelInv /\ ScanInv /\ self \in Threads
        /\ UNCHANGED <<runningThread, runQueue, root, td_qpec, td_priority>>
        /\ pc[self] \in {"ret", "retwait"} /\ pc' = [pc EXCEPT ![self] = "app"]
    BY AtPlace DEF EventInv, Return, At, Goto, lists
  <1>1. NoFlight /\ NoFlight'
    BY <1>0, LandsOutside DEF NoFlight, At, Points
  <1>2. CASE td_timer' = td_timer
    <2>1. Late' = Late /\ \A t \in Late : Contains(runQueue', t)
      BY <1>0, <1>2 DEF Late, EventInv, LateInv
    <2> QED
      BY <1>0, <1>1, <2>1, QuietStep
  <1>3. CASE td_timer' # td_timer
    <2>1. PICK t \in Threads : t = self
      BY <1>0
    <2>2. td_timer[t] = "timedout" /\ td_timer' = [td_timer EXCEPT ![t] = "none"]
      BY <1>3, <2>1 DEF Return
    <2>3. t \in Late /\ Late' = Late \ {t}
      BY <1>0, <2>1, <2>2 DEF Late, KernelInv, TypeOK
    <2>4. ScanInv' /\ LateInv'
      BY <1>0, <1>1, <2>3, NothingInFlightNext DEF EventInv, LateInv, Late
    <2>5. ShownRight /\ ShownRight'
      BY <1>0, <2>4, Seen, SeenNext
    <2>6. \A q \in Queues : Waiters(q)' = Waiters(q) /\ Count(q)' = Count(q)
      BY <1>0, <1>1, NothingInFlight, NothingInFlightNext DEF Waiters, Pend, Count
    <2>7. Events!Next
      BY <1>0, <2>3, <2>5, <2>6, ReportSeen
    <2> QED
      BY <2>4, <2>7 DEF Refines
  <1> QED
    BY <1>2, <1>3

\* A thread that is in no event queue changes its priority.
LEMMA NewPriorityRefines ==
    ASSUME EventInv, KernelInv', UNCHANGED <<root, td_qpec>>, pc[self] = "app",
           runningThread' \in Threads, \A u \in Threads : pc'[u] \in Parked,
           NEW t \in Threads, NEW p \in 0 .. 255, td_priority' = [td_priority EXCEPT ![t] = p],
           \A q \in Queues : ~Contains(root[q], t),
           Late' = Late, \A u \in Late : Contains(runQueue', u)
    PROVE  Refines
  <1>1. NoFlight
    BY DEF NoFlight, At
  <1>2. NoFlight'
    BY DEF NoFlight, At, self, Parked
  <1>3. ScanInv' /\ LateInv'
    BY <1>2, NothingInFlightNext DEF LateInv
  <1>4. ShownRight /\ ShownRight'
    BY <1>3, Seen, SeenNext DEF EventInv
  <1>5. /\ \A q \in Queues : Waiters(q)' = Waiters(q) /\ Count(q)' = Count(q)
        /\ \A q \in Queues : t \notin Waiters(q)
    BY <1>1, <1>2, NothingInFlight, NothingInFlightNext DEF Waiters, Pend, Count
  <1>6. Events!Next
    BY <1>4, <1>5, ReprioritizeSeen
  <1> QED
    BY <1>3, <1>6 DEF Refines

\* NutThreadSetPriority moves its caller within the run queue.
LEMMA SetPriorityRefines ==
    ASSUME EventInv, KernelInv', NEW level \in Levels, SetPriority(level)
    PROVE  Refines
  <1>0. KernelInv /\ level \in 0 .. 255 /\ level \in Nat
    <2>1. level \in 0 .. 253
      BY KernelAssumption DEF IdlePriority
    <2> QED
      BY <2>1 DEF EventInv
  <1>1. /\ UNCHANGED <<root, pc, td_timer>> /\ pc[self] = "app"
        /\ td_priority' = [td_priority EXCEPT ![self] = level]
        /\ runQueue' = AddPri(Without(runQueue, self), self, td_priority')
        /\ td_qpec' = AddPec(DropPec(td_qpec, runQueue, self), Without(runQueue, self), self,
                             td_priority')
    BY DEF SetPriority, Free, At
  <1>2. /\ Contains(runQueue, self) /\ self \in Threads
        /\ \A u \in Threads : pc'[u] \in Parked
    BY <1>0, <1>1, OutsideTheKernel
  <1>3. td_priority' \in [Threads -> Nat]
    BY <1>0, <1>1, PrioritiesAreNats
  <1>4. /\ td_qpec' = td_qpec
        /\ \A u \in Threads : Contains(runQueue', u) <=> Contains(runQueue, u)
    BY <1>0, <1>1, <1>2, <1>3, Requeueing
  <1>5. \A q \in Queues : ~Contains(root[q], self)
    BY <1>0, <1>2, ReadyIsQuiet
  <1>6. Late' = Late /\ \A u \in Late : Contains(runQueue', u)
    BY <1>1, <1>4 DEF Late, EventInv, LateInv
  <1>7. runningThread' \in Threads
    BY DEF KernelInv, TypeOK
  <1>8. PICK t \in Threads : t = self
    BY <1>2
  <1> QED
    BY <1>0, <1>1, <1>2, <1>4, <1>5, <1>6, <1>7, <1>8, NewPriorityRefines

\* NutThreadExit takes its caller, which waits nowhere, out of every queue.
LEMMA ExitRefines == ASSUME EventInv, KernelInv', Exit PROVE Refines
  <1>0. KernelInv /\ self \in Apps
    BY DEF EventInv, Exit, Free
  <1>1. /\ UNCHANGED <<root, td_timer>> /\ pc[self] = "app"
        /\ td_priority' = [td_priority EXCEPT ![self] = 255]
        /\ runQueue' = Without(runQueue, self)
        /\ td_qpec' = DropPec(td_qpec, runQueue, self)
        /\ pc' = [pc EXCEPT ![self] = "dead"]
    BY DEF Exit, Free, At, Goto
  <1>2. /\ Contains(runQueue, self) /\ self \in Threads
        /\ \A u \in Threads : pc[u] \in Parked
    BY <1>0, <1>1, OutsideTheKernel
  <1>3. \A u \in Threads : pc'[u] \in Parked
    BY <1>0, <1>1, <1>2, AtPlace DEF Parked
  <1>4. /\ td_qpec' = td_qpec /\ \A q \in Queues : ~Contains(root[q], self)
        /\ \A u : Contains(runQueue', u) <=> (Contains(runQueue, u) /\ u # self)
    BY <1>0, <1>1, <1>2, LeavingRunQueue
  <1>5. self \notin Late
    BY <1>1, NotLate
  <1>6. Late' = Late /\ \A u \in Late : Contains(runQueue', u)
    BY <1>1, <1>4, <1>5 DEF Late, EventInv, LateInv
  <1>7. runningThread' \in Threads
    BY DEF KernelInv, TypeOK
  <1>8. PICK t \in Threads : t = self
    BY <1>2
  <1>9. /\ 255 \in 0 .. 255 /\ td_priority' = [td_priority EXCEPT ![t] = 255]
        /\ \A q \in Queues : ~Contains(root[q], t)
    BY <1>1, <1>4, <1>8
  <1> QED
    BY <1>1, <1>3, <1>4, <1>6, <1>7, <1>9, NewPriorityRefines

\* NutThreadCreate: the new thread waits nowhere and has nothing pending.
LEMMA CreateRefines ==
    ASSUME EventInv, KernelInv', NEW t \in Threads, Create(t)
    PROVE  Refines
  <1>0. KernelInv
    BY DEF EventInv
  <1>1. /\ UNCHANGED root /\ pc[self] = "app" /\ t \notin Live
        /\ td_priority' = [td_priority EXCEPT ![t] = DefaultPriority]
        /\ td_timer' = [td_timer EXCEPT ![t] = "none"]
        /\ runQueue' = AddPri(runQueue, t, td_priority')
        /\ td_qpec' = AddPec(td_qpec, runQueue, t, td_priority')
        /\ pc' = [pc EXCEPT ![t] = "app"]
    BY DEF Create, Free, At
  <1>2. \A u \in Threads : pc[u] \in Parked
    BY <1>0, <1>1, OutsideTheKernel
  <1>3. \A u \in Threads : pc'[u] \in Parked
    BY <1>0, <1>1, <1>2, AtPlace DEF Parked
  <1>4. ~Contains(nutThreadList, t)
    BY <1>1 DEF Live, ToSet, Contains
  <1>5. ~Contains(runQueue, t) /\ \A q \in Queues : ~Contains(root[q], t)
    BY <1>0, <1>4 DEF KernelInv, LiveInv, Placed
  <1>6. /\ td_priority' \in [Threads -> Nat] /\ td_qpec \in [Threads -> Nat]
        /\ DefaultPriority \in 0 .. 255
    BY <1>0, <1>1, PrioritiesAreNats DEF DefaultPriority
  <1>7. \A u \in Threads : Contains(runQueue, u) => td_qpec[u] = 0
    BY <1>0, ReadyIsQuiet
  <1>8. /\ \A u \in Threads : Contains(runQueue', u) <=> (u = t \/ Contains(runQueue, u))
        /\ td_qpec' = [td_qpec EXCEPT ![t] = 0]
    BY <1>0, <1>1, <1>5, <1>6, <1>7, MakingReady
  <1>9. td_qpec' = td_qpec
    <2>1. td_qpec[t] = 0
      <3> SUFFICES ASSUME td_qpec[t] > 0 PROVE FALSE
        BY <1>6
      <3>1. td_queue[t] \in Queues /\ Contains(root[td_queue[t]], t)
        BY <1>0, LinkedElements DEF KernelInv, PendInv
      <3> QED
        BY <1>5, <3>1
    <2> QED
      BY <1>6, <1>8, <2>1
  <1>10. t \notin Late
    BY <1>5 DEF EventInv, LateInv
  <1>11. Late' = Late /\ \A u \in Late : Contains(runQueue', u)
    BY <1>0, <1>1, <1>8, <1>10 DEF Late, EventInv, LateInv, KernelInv, TypeOK
  <1>12. runningThread' \in Threads
    BY DEF KernelInv, TypeOK
  <1> QED
    BY <1>1, <1>3, <1>5, <1>6, <1>9, <1>11, <1>12, NewPriorityRefines

-----------------------------------------------------------------------------
\* Every step of the kernel and of an interrupt keeps the invariant of the
\* mapping and is a step of the abstract queues, or changes nothing they show.
LEMMA EventStep ==
    EventInv /\ KernelInv' /\ [Next]_vars => Refines
  <1> SUFFICES ASSUME EventInv, KernelInv', [Next]_vars PROVE Refines
    OBVIOUS
  <1>1. CASE Call
    <2>1. ASSUME NEW q \in Queues, NEW b \in BOOLEAN,
                 EventWait(q, b) \/ EventPost(q, b)
          PROVE  Refines
      BY <2>1, ReadsRefine
    <2>2. ASSUME NEW q \in Queues, NEW b \in BOOLEAN,
                 EventWaitNext(q, b) \/ EventBroadcast(q, b)
          PROVE  Refines
      BY <2>2, TakesRefine
    <2>3. CASE Sleep \/ SleepFails
      BY <2>3, SleepRefines
    <2>4. ASSUME NEW level \in Levels, SetPriority(level) PROVE Refines
      BY <2>4, SetPriorityRefines
    <2>5. CASE Exit
      BY <2>5, ExitRefines
    <2>6. ASSUME NEW t \in Threads, Create(t) PROVE Refines
      BY <2>6, CreateRefines
    <2> QED
      BY <1>1, <2>1, <2>2, <2>3, <2>4, <2>5, <2>6 DEF Call
  <1>2. CASE Kernel
    <2>1. CASE WaitRead \/ BroadcastNext \/ Scan \/ IdleDestroy
      BY <2>1, ReadsRefine
    <2>2. CASE WaitClear
      BY <2>2, TakesRefine
    <2>3. CASE WaitEnter \/ WaitLink
      BY <2>3, WaitEnterRefines, WaitLinkRefines
    <2>4. CASE PostRead \/ PostPop \/ PostReady
      BY <2>4, PostReadRefines, PostPopRefines, ReadyRefines
    <2>5. CASE Yield \/ ScanTake \/ Dispatch \/ Return
      BY <2>5, YieldRefines, ScanTakeRefines, DispatchRefines, ReturnRefines
    <2> QED
      BY <1>2, <2>1, <2>2, <2>3, <2>4, <2>5 DEF Kernel
  <1>3. CASE Elapse
    BY <1>3, TimeoutRefines, ReadyRefines DEF Elapse
  <1>4. CASE Irq
    BY <1>4, IrqRefines DEF Irq
  <1>5. CASE UNCHANGED vars
    <2>1. UNCHANGED <<runningThread, runQueue, root, td_qpec, td_priority, td_timer, pc, reg>>
          /\ self' = self
      BY <1>5 DEF vars, lists, tcb, self
    <2>2. Late' = Late /\ LateInv'
      BY <2>1 DEF Late, EventInv, LateInv
    <2>3. ScanInv' /\ \A q \in Queues : InFlight(q)' = InFlight(q)
      BY <2>1 DEF EventInv, ScanInv, InFlight, At
    <2>4. ShownRight /\ ShownRight'
      BY <2>3, Seen, SeenNext DEF EventInv
    <2>5. \A q \in Queues : Waiters(q)' = Waiters(q) /\ Count(q)' = Count(q)
      BY <2>1, <2>3 DEF Waiters, Pend, Count
    <2> QED
      BY <2>1, <2>2, <2>3, <2>4, <2>5, StutterSeen DEF Refines
  <1> QED
    BY <1>1, <1>2, <1>3, <1>4, <1>5 DEF Next

\* Nobody waits and nothing is pending at the start.
LEMMA EventStart == Init => EventInv /\ Events!Init
  <1> SUFFICES ASSUME Init PROVE EventInv /\ Events!Init
    OBVIOUS
  <1>1. KernelInv /\ OrderInv
    BY KernelInit, OrderInit
  <1>2. TimeoutInv
    BY DEF Init, TimeoutInv, TimeoutOf
  <1>3. NoFlight /\ Late = {}
    BY KernelAssumption DEF Init, NoFlight, At, self, Late
  <1>4. ScanInv /\ LateInv
    BY <1>3, NothingInFlight DEF LateInv
  <1>5. ShownRight
    BY <1>1, <1>4, Seen
  <1>6. \A q \in Queues : Waiters(q) = {} /\ Count(q) = 0
    <2>1. \A q \in Queues : root[q] = <<>> /\ InFlight(q) = 0
      BY <1>3, NothingInFlight DEF Init
    <2>2. \A q \in Queues : ~IsSignaled(root[q])
      BY <2>1 DEF IsSignaled
    <2> QED
      BY <2>1, <2>2, EmptyLinked DEF Waiters, Pend, Count
  <1>7. ShownWaiting = [q \in Queues |-> {}] /\ ShownEvents = [q \in Queues |-> 0]
    BY <1>5, <1>6 DEF ShownRight
  <1>8. td_priority \in [Threads -> 0 .. 255]
    BY <1>1 DEF KernelInv, TypeOK
  <1>9. Events!Init
    BY <1>3, <1>7, <1>8 DEF Events!Init, ShownWaiting, ShownEvents, Late
  <1> QED
    BY <1>1, <1>2, <1>4, <1>9 DEF EventInv

\* The kernel implements the abstract event queues of NutEvents, whatever
\* the order of posts, interrupts, timeouts and waits: no event is lost or
\* delivered twice, it wakes a thread of the highest priority waiting, and a
\* wait is reported as timed out only if it left its queue without an event.
THEOREM KernelImplements == Spec => ImplementsEvents
  <1>1. Init => EventInv /\ Events!Init
    BY EventStart
  <1>2. EventInv /\ [Next]_vars => EventInv' /\ [Events!Next]_Events!evars
    BY KernelNext, TimeoutNext, OrderNext, EventStep DEF EventInv, Refines
  <1> QED
    BY <1>1, <1>2, PTL DEF Spec, ImplementsEvents, Events!Spec

=============================================================================
