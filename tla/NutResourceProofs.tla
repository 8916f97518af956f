-------------------------- MODULE NutResourceProofs --------------------------
(***************************************************************************)
(* What threads take and give back: the mutex, the semaphore and memory.   *)
(*                                                                         *)
(* Mutex: for any width of the count and any nesting the width can hold,   *)
(* threads that unlock only what they have locked exclude each other, and  *)
(* no wakeup is lost.  The invariant is MutexInv.  Mutual exclusion alone  *)
(* is not inductive: a thread that the owner field still names skips the   *)
(* wait, so one has to know that nobody else can hold the mutex then       *)
(* (CountIsDepth).                                                         *)
(*                                                                         *)
(* Semaphore: for any initial value, a negative value is the number of the *)
(* waiting threads, a post always finds the thread the value promises, and *)
(* units are neither lost nor made.  SemInv is inductive; that the units   *)
(* are conserved is inductive only relative to it, because a post that     *)
(* found nobody to hand its unit to would leave the unit in no account.    *)
(*                                                                         *)
(* Heap: for any regions and any sizes of requests the free list stays     *)
(* ordered and joined, what callers get are blocks that do not overlap,    *)
(* and no byte is lost or counted twice.  The invariant is HeapInv.        *)
(***************************************************************************)
EXTENDS NutMutex, NutSemaphore, NutHeap, ListLemmas

-----------------------------------------------------------------------------
(* The mutex                                                               *)

\* The count of the owner is its own nesting depth plus or minus one, without
\* wrapping.
LEMMA CountDoesNotWrap ==
    ASSUME MutexInv
    PROVE  /\ count < MaxDepth => Deeper = count + 1
           /\ count > 0 => (count - 1) % CountModulus = count - 1
  <1> USE MutexAssumption
  <1>1. count \in 0 .. (CountModulus - 1) /\ CountModulus \in Nat /\ CountModulus > 0
    BY DEF MutexInv, TypeOK
  <1>0. \A x \in 0 .. (CountModulus - 1) : x % CountModulus = x
    BY <1>1, ModSmall
  <1>2. ASSUME count < MaxDepth PROVE Deeper = count + 1
    <2>1. count + 1 \in 0 .. (CountModulus - 1)
      BY <1>1, <1>2
    <2> QED
      BY <1>0, <2>1 DEF Deeper
  <1>3. ASSUME count > 0 PROVE (count - 1) % CountModulus = count - 1
    <2>1. count - 1 \in 0 .. (CountModulus - 1)
      BY <1>1, <1>3
    <2> QED
      BY <1>0, <2>1
  <1> QED
    BY <1>2, <1>3

\* A thread that passes the test of NutMutexLock or NutMutexTrylock is the
\* only one that can hold the mutex, and the count is its depth.
LEMMA CountIsOwnDepth ==
    ASSUME MutexInv, NEW t \in Threads, thread = t \/ count = 0
    PROVE  /\ count = holds[t]
           /\ \A u \in Threads \ {t} : holds[u] = 0
  <1>1. count \in Nat /\ \A u \in Threads : holds[u] \in Nat
    BY MutexAssumption DEF MutexInv, TypeOK
  <1> QED
    BY <1>1 DEF MutexInv, CountIsDepth

\* The initial state.
LEMMA MutexInit == Init => MutexInv
  <1> USE MutexAssumption
  <1> SUFFICES ASSUME Init PROVE MutexInv
    OBVIOUS
  <1>1. \A t \in Threads : holds[t] = 0 /\ pc[t] = "app"
    BY DEF Init
  <1>2. TypeOK
    <2>1. pc \in [Threads -> {"app", "waiting", "woken"}]
      BY DEF Init
    <2>2. holds \in [Threads -> Nat]
      BY DEF Init
    <2>3. count \in 0 .. (CountModulus - 1)
      BY DEF Init
    <2> QED
      BY <2>1, <2>2, <2>3 DEF Init, TypeOK
  <1>3. CountIsDepth /\ WaitersHoldNothing
    BY <1>1 DEF Init, CountIsDepth, WaitersHoldNothing
  <1>4. DepthBounded /\ NoLostWakeup
    BY <1>1 DEF Init, DepthBounded, NoLostWakeup
  <1> QED
    BY <1>2, <1>3, <1>4 DEF MutexInv

\* Taking the mutex.
LEMMA AcquirePreserves ==
    ASSUME MutexInv, NEW t \in Threads,
           pc[t] \in {"app", "woken"}, holds[t] < MaxDepth,
           thread = t \/ count = 0, Acquire(t)
    PROVE  MutexInv'
  <1> USE MutexAssumption
  <1>1. TypeOK
    BY DEF MutexInv
  <1>2. count = holds[t] /\ \A u \in Threads \ {t} : holds[u] = 0
    BY CountIsOwnDepth
  <1>3. count' = count + 1 /\ count' > 0 /\ count' \in 0 .. MaxDepth
    BY <1>1, <1>2, CountDoesNotWrap DEF Acquire, TypeOK
  <1>4. TypeOK'
    BY <1>1, <1>3 DEF Acquire, TypeOK
  <1>5. CountIsDepth'
    BY <1>1, <1>2, <1>3 DEF Acquire, TypeOK, CountIsDepth
  <1>6. WaitersHoldNothing'
    <2>1. t \notin waiting
      BY DEF MutexInv, WaitersHoldNothing
    <2> QED
      BY <1>1, <2>1 DEF Acquire, TypeOK, MutexInv, WaitersHoldNothing
  <1>7. DepthBounded'
    BY <1>1, <1>2, <1>3 DEF Acquire, TypeOK, MutexInv, DepthBounded
  <1>8. NoLostWakeup'
    BY <1>3 DEF NoLostWakeup
  <1> QED
    BY <1>4, <1>5, <1>6, <1>7, <1>8 DEF MutexInv

\* Waiting for it.
LEMMA WaitPreserves ==
    ASSUME MutexInv, NEW t \in Threads, holds[t] = 0, count # 0,
           WaitNext(t), UNCHANGED <<thread, count, holds>>
    PROVE  MutexInv'
  <1> USE MutexAssumption
  <1>1. TypeOK'
    BY DEF MutexInv, TypeOK, WaitNext
  <1>2. CountIsDepth' /\ DepthBounded' /\ NoLostWakeup'
    BY DEF MutexInv, CountIsDepth, DepthBounded, NoLostWakeup
  <1>3. WaitersHoldNothing'
    BY DEF MutexInv, TypeOK, WaitersHoldNothing, WaitNext
  <1> QED
    BY <1>1, <1>2, <1>3 DEF MutexInv

\* Giving it back: a thread that holds the mutex unlocks it.
LEMMA UnlockPreserves ==
    ASSUME Disciplined, MutexInv, NEW t \in Threads, Unlock(t)
    PROVE  MutexInv'
  <1> USE MutexAssumption
  <1>1. TypeOK /\ holds[t] > 0 /\ pc[t] = "app"
    BY DEF MutexInv, Unlock
  <1>2. count = holds[t] /\ \A u \in Threads \ {t} : holds[u] = 0
    BY CountIsOwnDepth DEF Unlock
  <1>3. count' = count - 1 /\ count \in 1 .. MaxDepth
    BY <1>1, <1>2, CountDoesNotWrap DEF Unlock, TypeOK, MutexInv, DepthBounded
  <1>4. holds' = [holds EXCEPT ![t] = count'] /\ thread' = t /\ thread = t
    BY <1>1, <1>2, <1>3 DEF Unlock, TypeOK
  <1>5. CASE count' = 0 /\ waiting # {}
    <2>1. PICK w \in waiting : /\ waiting' = waiting \ {w}
                               /\ pc' = [pc EXCEPT ![w] = "woken"]
      BY <1>5 DEF Unlock, Post
    <2>2. UNCHANGED signaled /\ w \in Threads /\ w # t
      BY <1>1, <1>5, <2>1 DEF Unlock, Post, TypeOK, MutexInv, WaitersHoldNothing
    <2>3. TypeOK'
      BY <1>1, <1>3, <1>4, <2>1, <2>2 DEF TypeOK
    <2>4. CountIsDepth' /\ DepthBounded'
      BY <1>1, <1>2, <1>3, <1>4, <1>5 DEF TypeOK, MutexInv, CountIsDepth, DepthBounded
    <2>5. WaitersHoldNothing'
      BY <1>1, <1>2, <1>4, <2>1, <2>2 DEF TypeOK, MutexInv, WaitersHoldNothing
    <2>6. NoLostWakeup'
      BY <1>1, <2>1, <2>2 DEF TypeOK, NoLostWakeup
    <2> QED
      BY <2>3, <2>4, <2>5, <2>6 DEF MutexInv
  <1>6. CASE ~(count' = 0 /\ waiting # {})
    <2>1. UNCHANGED <<waiting, pc>> /\ signaled' \in BOOLEAN
      BY <1>1, <1>6 DEF Unlock, Post, TypeOK
    <2>2. TypeOK'
      BY <1>1, <1>3, <1>4, <2>1 DEF TypeOK
    <2>3. CountIsDepth' /\ DepthBounded'
      BY <1>1, <1>2, <1>3, <1>4 DEF TypeOK, MutexInv, CountIsDepth, DepthBounded
    <2>4. WaitersHoldNothing'
      BY <1>1, <1>2, <1>4, <2>1 DEF TypeOK, MutexInv, WaitersHoldNothing
    <2>5. NoLostWakeup'
      BY <1>6, <2>1 DEF NoLostWakeup
    <2> QED
      BY <2>2, <2>3, <2>4, <2>5 DEF MutexInv
  <1> QED
    BY <1>5, <1>6

\* Every step.
LEMMA MutexStep ==
    ASSUME Disciplined, MutexInv, [Next]_vars
    PROVE  MutexInv'
  <1> USE MutexAssumption
  <1>1. ASSUME NEW t \in Threads, Lock(t) PROVE MutexInv'
    <2>1. CASE thread # t /\ MustWait(t)
      <3>1. holds[t] = 0
        BY <2>1 DEF MutexInv, TypeOK, CountIsDepth
      <3> QED
        BY <1>1, <2>1, <3>1, WaitPreserves DEF Lock, MustWait
    <2>2. CASE ~(thread # t /\ MustWait(t))
      BY <1>1, <2>2, AcquirePreserves DEF Lock, MustWait
    <2> QED
      BY <2>1, <2>2
  <1>2. ASSUME NEW t \in Threads, Relock(t) PROVE MutexInv'
    <2>1. holds[t] = 0 /\ pc[t] = "woken" /\ holds[t] < MaxDepth
      BY <1>2 DEF Relock, MutexInv, WaitersHoldNothing
    <2>2. CASE MustWait(t)
      BY <1>2, <2>1, <2>2, WaitPreserves DEF Relock, MustWait
    <2>3. CASE ~MustWait(t)
      BY <1>2, <2>1, <2>3, AcquirePreserves DEF Relock, MustWait
    <2> QED
      BY <2>2, <2>3
  <1>3. ASSUME NEW t \in Threads, Trylock(t) PROVE MutexInv'
    BY <1>3, AcquirePreserves DEF Trylock
  <1>4. ASSUME NEW t \in Threads, Unlock(t) PROVE MutexInv'
    BY <1>4, UnlockPreserves
  <1>5. ASSUME UNCHANGED vars PROVE MutexInv'
    BY <1>5 DEF vars, MutexInv, TypeOK, CountIsDepth, WaitersHoldNothing,
                DepthBounded, NoLostWakeup
  <1> QED
    BY <1>1, <1>2, <1>3, <1>4, <1>5 DEF Next

\* The count of a disciplined mutex is the nesting depth of its owner and
\* never wraps, the event queue holds exactly the threads that wait, and a
\* free mutex with waiting threads has woken one of them.
THEOREM MutexInvariance == ASSUME Disciplined PROVE Spec => []MutexInv
  <1>1. Init => MutexInv
    BY MutexInit
  <1>2. MutexInv /\ [Next]_vars => MutexInv'
    BY MutexStep
  <1> QED
    BY <1>1, <1>2, PTL DEF Spec

\* Two threads are never between NutMutexLock and NutMutexUnlock at once.
THEOREM MutexExcludes == ASSUME Disciplined PROVE Spec => []MutualExclusion
  <1>1. MutexInv => MutualExclusion
    BY DEF MutexInv, CountIsDepth, MutualExclusion
  <1> QED
    BY <1>1, MutexInvariance, PTL

\* No sequence of locks and unlocks leaves a free mutex with every thread
\* asleep on it.
THEOREM MutexWakes == ASSUME Disciplined PROVE Spec => []NoLostWakeup
  <1>1. MutexInv => NoLostWakeup
    BY DEF MutexInv
  <1> QED
    BY <1>1, MutexInvariance, PTL

-----------------------------------------------------------------------------
(* The semaphore                                                           *)

\* The waiting threads and those on their way out are finitely many.
LEMMA FewThreads ==
    ASSUME SemTypeOK
    PROVE  /\ IsFiniteSet(waiting) /\ Cardinality(waiting) \in Nat
           /\ IsFiniteSet(WokenThreads) /\ Cardinality(WokenThreads) \in Nat
  <1>1. IsFiniteSet(Threads) /\ waiting \in SUBSET Threads /\ WokenThreads \in SUBSET Threads
    BY SemaphoreAssumption DEF SemTypeOK, WokenThreads
  <1>2. IsFiniteSet(waiting) /\ IsFiniteSet(WokenThreads)
    BY <1>1, FS_Subset
  <1> QED
    BY <1>2, FS_CardinalityType

\* The initial state: all units are in the value.
LEMMA SemStarts == SemInit => SemInv /\ UnitsConserved
  <1> SUFFICES ASSUME SemInit PROVE SemInv /\ UnitsConserved
    OBVIOUS
  <1>1. InitialValue \in Nat
    BY SemaphoreAssumption
  <1>2. \A t \in Threads : pc[t] = "app"
    BY DEF SemInit
  <1>3. pc \in [Threads -> {"app", "waiting", "woken"}]
    BY DEF SemInit
  <1>4. SemTypeOK
    <2>1. value \in Int /\ taken \in Int
      BY <1>1 DEF SemInit
    <2>2. signaled \in BOOLEAN
      BY Zenon DEF SemInit
    <2>3. waiting \subseteq Threads /\ trying \subseteq Threads
      BY DEF SemInit
    <2> QED
      BY <1>3, <2>1, <2>2, <2>3 DEF SemTypeOK
  <1>5. PcMatches /\ NoLatchedEvent
    BY <1>2 DEF SemInit, PcMatches, NoLatchedEvent
  <1>6. Cardinality(waiting) = 0 /\ value >= 0
    BY <1>1, FS_EmptySet DEF SemInit
  <1>7. ValueCountsWaiters
    BY <1>1, <1>6 DEF SemInit, ValueCountsWaiters
  <1>8. WokenThreads = {}
    BY <1>2 DEF WokenThreads
  <1>9. UnitsConserved
    BY <1>1, <1>8, FS_EmptySet DEF SemInit, UnitsConserved
  <1> QED
    BY <1>4, <1>5, <1>7, <1>9 DEF SemInv

\* A thread takes a unit or joins the waiting threads the value counts.
LEMMA TakePreserves ==
    ASSUME SemInv, UnitsConserved, NEW t \in Threads, Take(t), trying' \subseteq Threads
    PROVE  SemInv' /\ UnitsConserved'
  <1>1. SemTypeOK /\ value' = value - 1 /\ pc[t] = "app" /\ value \in Int
    BY DEF SemInv, SemTypeOK, Take
  <1>2. /\ IsFiniteSet(waiting) /\ Cardinality(waiting) \in Nat
        /\ IsFiniteSet(WokenThreads) /\ Cardinality(WokenThreads) \in Nat
    BY <1>1, FewThreads
  <1>3. WokenThreads' = WokenThreads
    BY <1>1 DEF Take, WaitNext, SemTypeOK, WokenThreads
  <1>4. CASE value' < 0
    <2>1. /\ waiting' = waiting \cup {t} /\ signaled' = FALSE /\ taken' = taken
          /\ pc' = [pc EXCEPT ![t] = "waiting"]
      BY <1>4 DEF Take, NoUnit, WaitNext
    <2>2. t \notin waiting
      BY <1>1 DEF SemInv, PcMatches
    <2>3. Cardinality(waiting') = Cardinality(waiting) + 1
      BY <1>2, <2>1, <2>2, FS_AddElement
    <2>4. SemTypeOK' /\ PcMatches' /\ NoLatchedEvent'
      <3>1. SemTypeOK'
        <4>1. signaled' \in BOOLEAN
          BY <2>1, Zenon
        <4> QED
          BY <1>1, <2>1, <4>1 DEF SemTypeOK
      <3>2. PcMatches'
        BY <1>1, <2>1 DEF SemInv, SemTypeOK, PcMatches
      <3>3. NoLatchedEvent'
        BY <2>1 DEF NoLatchedEvent
      <3> QED
        BY <3>1, <3>2, <3>3
    <2>5. ValueCountsWaiters'
      BY <1>1, <1>2, <1>4, <2>3 DEF SemInv, ValueCountsWaiters
    <2>6. UnitsConserved'
      BY <1>1, <1>3, <1>4, <2>1 DEF UnitsConserved
    <2> QED
      BY <2>4, <2>5, <2>6 DEF SemInv
  <1>5. CASE ~(value' < 0)
    <2>1. taken' = taken + 1 /\ UNCHANGED <<waiting, signaled, pc>>
      BY <1>5 DEF Take, NoUnit, WaitNext
    <2>2. SemTypeOK' /\ PcMatches' /\ NoLatchedEvent'
      BY <1>1, <2>1 DEF SemInv, SemTypeOK, PcMatches, NoLatchedEvent
    <2>3. ValueCountsWaiters'
      BY <1>1, <1>5, <2>1 DEF SemInv, ValueCountsWaiters
    <2>4. UnitsConserved'
      BY <1>1, <1>2, <1>3, <1>5, <2>1 DEF SemTypeOK, UnitsConserved
    <2> QED
      BY <2>2, <2>3, <2>4 DEF SemInv
  <1> QED
    BY <1>4, <1>5

\* A woken thread leaves NutSemWait with the unit it was woken for.
LEMMA WokenPreserves ==
    ASSUME SemInv, UnitsConserved, NEW t \in Threads, Woken(t)
    PROVE  SemInv' /\ UnitsConserved'
  <1>1. SemTypeOK /\ pc[t] = "woken" /\ pc' = [pc EXCEPT ![t] = "app"] /\ taken' = taken + 1
        /\ UNCHANGED <<value, waiting, signaled, trying>>
    BY DEF SemInv, Woken
  <1>2. IsFiniteSet(WokenThreads) /\ Cardinality(WokenThreads) \in Nat
    BY <1>1, FewThreads
  <1>3. WokenThreads' = WokenThreads \ {t} /\ t \in WokenThreads
    BY <1>1 DEF SemTypeOK, WokenThreads
  <1>4. Cardinality(WokenThreads') = Cardinality(WokenThreads) - 1
    BY <1>2, <1>3, FS_RemoveElement
  <1>5. SemInv'
    BY <1>1 DEF SemInv, SemTypeOK, PcMatches, ValueCountsWaiters, NoLatchedEvent
  <1>6. UnitsConserved'
    BY <1>1, <1>2, <1>4 DEF SemTypeOK, UnitsConserved
  <1> QED
    BY <1>5, <1>6

\* A post puts its unit into the value or hands it to a waiting thread.
LEMMA PostPreserves ==
    ASSUME SemInv, UnitsConserved, NEW t \in Threads, SemPost(t)
    PROVE  SemInv' /\ UnitsConserved'
  <1>1. /\ SemTypeOK /\ value \in Int /\ value' = value + 1 /\ taken' = taken - 1
        /\ trying' = trying
    BY DEF SemInv, SemTypeOK, SemPost
  <1>2. /\ IsFiniteSet(waiting) /\ Cardinality(waiting) \in Nat
        /\ IsFiniteSet(WokenThreads) /\ Cardinality(WokenThreads) \in Nat
    BY <1>1, FewThreads
  <1>3. CASE value' <= 0
    <2>1. Cardinality(waiting) = 0 - value /\ waiting # {}
      BY <1>1, <1>3, FS_EmptySet DEF SemInv, ValueCountsWaiters
    <2>2. PICK w \in waiting : /\ waiting' = waiting \ {w}
                               /\ pc' = [pc EXCEPT ![w] = "woken"]
      BY <1>3, <2>1 DEF SemPost, SomebodyWaits, Post
    <2>3. signaled' = signaled
      BY <1>3, <2>1 DEF SemPost, SomebodyWaits, Post
    <2>4. w \in Threads /\ pc[w] = "waiting"
      BY <1>1 DEF SemInv, SemTypeOK, PcMatches
    <2>5. Cardinality(waiting') = Cardinality(waiting) - 1
      BY <1>2, <2>2, FS_RemoveElement
    <2>6. WokenThreads' = WokenThreads \cup {w} /\ w \notin WokenThreads
      BY <1>1, <2>2, <2>4 DEF SemTypeOK, WokenThreads
    <2>7. Cardinality(WokenThreads') = Cardinality(WokenThreads) + 1
      BY <1>2, <2>6, FS_AddElement
    <2>8. SemTypeOK' /\ PcMatches' /\ NoLatchedEvent'
      BY <1>1, <2>2, <2>3, <2>4 DEF SemInv, SemTypeOK, PcMatches, NoLatchedEvent
    <2>9. ValueCountsWaiters'
      BY <1>1, <1>3, <2>1, <2>5 DEF ValueCountsWaiters
    <2>10. UnitsConserved'
      BY <1>1, <1>2, <1>3, <2>7 DEF SemTypeOK, UnitsConserved
    <2> QED
      BY <2>8, <2>9, <2>10 DEF SemInv
  <1>4. CASE ~(value' <= 0)
    <2>1. UNCHANGED <<waiting, signaled, pc>>
      BY <1>4 DEF SemPost, SomebodyWaits, Post
    <2>2. WokenThreads' = WokenThreads
      BY <2>1 DEF WokenThreads
    <2>3. SemTypeOK' /\ PcMatches' /\ NoLatchedEvent'
      BY <1>1, <2>1 DEF SemInv, SemTypeOK, PcMatches, NoLatchedEvent
    <2>4. ValueCountsWaiters'
      BY <1>1, <1>4, <2>1 DEF SemInv, ValueCountsWaiters
    <2>5. UnitsConserved'
      BY <1>1, <1>2, <1>4, <2>2 DEF SemTypeOK, UnitsConserved
    <2> QED
      BY <2>3, <2>4, <2>5 DEF SemInv
  <1> QED
    BY <1>3, <1>4

\* Every step.
LEMMA SemStep ==
    ASSUME SemInv, UnitsConserved, [SemNext]_semVars
    PROVE  SemInv' /\ UnitsConserved'
  <1>1. ASSUME NEW t \in Threads, SemWait(t) PROVE SemInv' /\ UnitsConserved'
    <2>1. trying' \subseteq Threads
      BY <1>1 DEF SemWait, SemInv, SemTypeOK
    <2> QED
      BY <1>1, <2>1, TakePreserves DEF SemWait
  <1>2. ASSUME NEW t \in Threads, SemTryWait(t) PROVE SemInv' /\ UnitsConserved'
    <2>1. trying' \subseteq Threads
      BY <1>2 DEF SemTryWait, SemInv, SemTypeOK
    <2> QED
      BY <1>2, <2>1, TakePreserves DEF SemTryWait
  <1>3. ASSUME NEW t \in Threads, Woken(t) PROVE SemInv' /\ UnitsConserved'
    BY <1>3, WokenPreserves
  <1>4. ASSUME NEW t \in Threads, SemPost(t) PROVE SemInv' /\ UnitsConserved'
    BY <1>4, PostPreserves
  <1>5. ASSUME UNCHANGED semVars PROVE SemInv' /\ UnitsConserved'
    BY <1>5 DEF semVars, SemInv, SemTypeOK, PcMatches, ValueCountsWaiters, NoLatchedEvent,
                UnitsConserved, WokenThreads
  <1> QED
    BY <1>1, <1>2, <1>3, <1>4, <1>5 DEF SemNext

\* A negative value counts the waiting threads, nobody waits while units are
\* left, and no post ever latches an event that a later wait would discard.
THEOREM SemaphoreInvariance == SemSpec => []SemInv
  <1>1. SemInit => SemInv /\ UnitsConserved
    BY SemStarts
  <1>2. SemInv /\ UnitsConserved /\ [SemNext]_semVars => (SemInv /\ UnitsConserved)'
    BY SemStep
  <1> QED
    BY <1>1, <1>2, PTL DEF SemSpec

\* Units are neither lost nor made, whoever waits, tries, posts or is woken.
THEOREM SemaphoreConserves == SemSpec => []UnitsConserved
  <1>1. SemInit => SemInv /\ UnitsConserved
    BY SemStarts
  <1>2. SemInv /\ UnitsConserved /\ [SemNext]_semVars => (SemInv /\ UnitsConserved)'
    BY SemStep
  <1> QED
    BY <1>1, <1>2, PTL DEF SemSpec

-----------------------------------------------------------------------------
(* The heap                                                                *)

NodeType == [addr : Nat, size : Nat \ {0}]

\* The byte at a belongs to a node, or to a node of a list.
In(a, n) == n.addr <= a /\ a < End(n)
Holds(list, a) == \E i \in 1 .. Len(list) : In(a, list[i])

\* A free list as the code needs it.
Ordered(list) == \A i, j \in 1 .. Len(list) : i < j => End(list[i]) < list[j].addr
FreeList(list) == list \in Seq(NodeType) /\ Ordered(list)

-----------------------------------------------------------------------------
(* Lists of nodes                                                           *)

\* What there is to know about the nodes of a list.
LEMMA NodesOf ==
    ASSUME NEW list \in Seq(NodeType)
    PROVE  /\ Len(list) \in Nat /\ DOMAIN list = 1 .. Len(list)
           /\ \A i \in 1 .. Len(list) :
                /\ list[i] \in NodeType
                /\ list[i].addr \in Nat /\ list[i].size \in Nat /\ list[i].size > 0
                /\ End(list[i]) \in Nat /\ End(list[i]) = list[i].addr + list[i].size
  <1>1. Len(list) \in Nat /\ DOMAIN list = 1 .. Len(list)
        /\ \A i \in 1 .. Len(list) : list[i] \in NodeType
    BY LenProperties, ElementOfSeq
  <1>2. \A n \in NodeType : /\ n.addr \in Nat /\ n.size \in Nat /\ n.size > 0
                            /\ End(n) \in Nat /\ End(n) = n.addr + n.size
    BY DEF NodeType, End
  <1> QED
    BY <1>1, <1>2

\* A node that is written is one of the list's, of the address and size given.
LEMMA NodeMade ==
    ASSUME NEW addr \in Nat, NEW size \in Nat \ {0}
    PROVE  /\ Node(addr, size) \in NodeType /\ Node(addr, size).addr = addr
           /\ Node(addr, size).size = size /\ End(Node(addr, size)) = addr + size
  BY DEF Node, NodeType, End

\* One node of a list is changed.
LEMMA NodeChanged ==
    ASSUME NEW list \in Seq(NodeType), NEW i \in 1 .. Len(list), NEW n \in NodeType
    PROVE  /\ [list EXCEPT ![i] = n] \in Seq(NodeType)
           /\ Len([list EXCEPT ![i] = n]) = Len(list)
           /\ \A j \in 1 .. Len(list) :
                [list EXCEPT ![i] = n][j] = IF j = i THEN n ELSE list[j]
  BY ExceptSeq

\* The node is enlarged: NutHeapFree adds to hn_size.
LEMMA NodeGrows ==
    ASSUME NEW n \in NodeType, NEW k \in Nat
    PROVE  [n EXCEPT !.size = @ + k] = Node(n.addr, n.size + k)
  BY DEF NodeType, Node

-----------------------------------------------------------------------------
(* Where a block goes and where it comes from                               *)

\* The walk of NutHeapFree passes nodes that end before the block and stops
\* at the first that does not, or behind the last node.
LEMMA StopPlace ==
    ASSUME NEW list \in Seq(NodeType), NEW f
    PROVE  /\ Stop(list, f) \in 1 .. Len(list) + 1
           /\ \A j \in 1 .. Stop(list, f) - 1 : ~Stops(list[j], f)
           /\ Stop(list, f) <= Len(list) => Stops(list[Stop(list, f)], f)
  <1>. DEFINE Halt(i) == i <= Len(list) => Stops(list[i], f)
              T == {i \in 1 .. Len(list) + 1 : Halt(i)}
  <1>0. Len(list) \in Nat
    BY NodesOf
  <1>1. T \in SUBSET Nat /\ Len(list) + 1 \in T
    BY <1>0
  <1>2. PICK i \in T : \A j \in T : i <= j
    BY <1>1, LeastIndex
  <1>3. ASSUME NEW j \in 1 .. i - 1
        PROVE  ~Stops(list[j], f)
    <2>1. i \in 1 .. Len(list) + 1
      BY <1>2
    <2>2. j \in 1 .. Len(list) + 1 /\ ~(i <= j) /\ j <= Len(list)
      BY <1>0, <2>1
    <2> QED
      BY <1>2, <2>2
  <1>4. /\ i \in 1 .. Len(list) + 1
        /\ \A j \in 1 .. i - 1 : ~Stops(list[j], f)
        /\ i <= Len(list) => Stops(list[i], f)
    BY <1>2, <1>3
  <1> QED
    BY <1>4 DEF Stop

\* The search of NutHeapAlloc finds a node that fits if there is one.
LEMMA BestFitFits ==
    ASSUME NEW list \in Seq(NodeType), NEW size, Fits(list, size) # {}
    PROVE  BestFit(list, size) \in Fits(list, size)
  <1>. DEFINE F == Fits(list, size)
              S == {list[i].size : i \in F}
  <1>1. \A i \in F : i \in Nat /\ list[i].size \in Nat
    BY NodesOf DEF Fits
  <1>2. S \in SUBSET Nat /\ S # {}
    BY <1>1
  <1>. HIDE DEF F
  <1>3. PICK x \in S : \A y \in S : x <= y
    BY <1>2, LeastIndex
  <1>. DEFINE T == {i \in F : list[i].size = x}
  <1>4. T \in SUBSET Nat /\ T # {}
    BY <1>1
  <1>5. PICK i \in T : \A j \in T : i <= j
    BY <1>4, LeastIndex
  <1>6. i \in F /\ \A j \in F : \/ list[i].size < list[j].size
                                \/ list[i].size = list[j].size /\ i <= j
    <2>1. i \in F /\ list[i].size = x
      BY <1>5
    <2>2. ASSUME NEW j \in F
          PROVE  \/ list[i].size < list[j].size
                 \/ list[i].size = list[j].size /\ i <= j
      <3>1. list[j].size \in S /\ x <= list[j].size /\ list[j].size \in Nat /\ x \in Nat
        BY <1>1, <1>2, <1>3
      <3>2. CASE list[j].size = x
        BY <1>5, <2>1, <3>2
      <3>3. CASE list[j].size # x
        BY <2>1, <3>1, <3>3
      <3> QED
        BY <3>2, <3>3
    <2> QED
      BY <2>1, <2>2
  <1> QED
    BY <1>6 DEF BestFit, F

-----------------------------------------------------------------------------
(* NutHeapFree                                                              *)

\* A node that stands for two neighbours has the bytes of both.
LEMMA NodesJoin ==
    ASSUME NEW n \in NodeType, NEW m \in NodeType, NEW l,
           l.addr = n.addr, End(l) = End(m), End(n) = m.addr
    PROVE  \A a \in Nat : In(a, l) <=> In(a, n) \/ In(a, m)
  <1>1. /\ n.addr \in Nat /\ m.addr \in Nat /\ n.size \in Nat /\ m.size \in Nat
        /\ End(n) = n.addr + n.size /\ End(m) = m.addr + m.size
    BY DEF NodeType, End
  <1>2. n.addr <= m.addr /\ m.addr <= End(m) /\ End(m) \in Nat
    <2>1. m.addr = n.addr + n.size
      BY <1>1
    <2>2. n.addr <= m.addr
      BY <1>1, <2>1
    <2>3. m.addr <= End(m) /\ End(m) \in Nat
      BY <1>1 DEF End
    <2> QED
      BY <2>2, <2>3
  <1>. TAKE a \in Nat
  <1>3. In(a, l) <=> n.addr <= a /\ a < End(m)
    BY DEF In
  <1>4. In(a, n) <=> n.addr <= a /\ a < m.addr
    BY DEF In
  <1>5. In(a, m) <=> m.addr <= a /\ a < End(m)
    BY DEF In
  <1> QED
    BY <1>1, <1>2, <1>3, <1>4, <1>5

\* A node begins before it ends.
LEMMA NodeSpans ==
    ASSUME NEW n \in NodeType
    PROVE  n.addr \in Nat /\ End(n) \in Nat /\ n.addr < End(n)
  <1>1. /\ n.addr \in Nat /\ n.size \in Nat /\ n.size > 0
        /\ End(n) = n.addr + n.size
    BY DEF NodeType, End
  <1> QED
    BY <1>1

\* Two nodes of a free list.
LEMMA TwoNodes ==
    ASSUME NEW list, FreeList(list),
           NEW j \in 1 .. Len(list), NEW k \in 1 .. Len(list), j < k
    PROVE  /\ End(list[j]) < list[k].addr
           /\ list[j].addr \in Nat /\ End(list[j]) \in Nat /\ list[j].addr < End(list[j])
           /\ list[k].addr \in Nat /\ End(list[k]) \in Nat /\ list[k].addr < End(list[k])
  <1>1. list \in Seq(NodeType) /\ End(list[j]) < list[k].addr
    BY DEF FreeList, Ordered
  <1>2. list[j] \in NodeType /\ list[k] \in NodeType
    BY <1>1, NodesOf
  <1> QED
    BY <1>1, <1>2, NodeSpans

\* Nodes without a common byte lie one behind the other.
LEMMA NodesApart ==
    ASSUME NEW n \in NodeType, NEW m \in NodeType,
           \A a \in Nat : ~(In(a, n) /\ In(a, m))
    PROVE  End(n) <= m.addr \/ End(m) <= n.addr
  <1>1. /\ n.addr \in Nat /\ m.addr \in Nat /\ n.size \in Nat /\ m.size \in Nat
        /\ n.size > 0 /\ m.size > 0
    BY DEF NodeType
  <1>2. ~(In(n.addr, n) /\ In(n.addr, m)) /\ ~(In(m.addr, n) /\ In(m.addr, m))
    BY <1>1
  <1> QED
    BY <1>1, <1>2 DEF In, End

\* A list that is ordered and joined, but for its node i which may end where
\* the next one begins.
OrderedBut(list, i) ==
  \A j, k \in 1 .. Len(list) :
    j < k => \/ End(list[j]) < list[k].addr
             \/ j = i /\ k = i + 1 /\ End(list[j]) = list[k].addr

\* Joining the two makes a free list of it, and no byte is lost.
LEMMA JoinedBehindOrders ==
    ASSUME NEW list \in Seq(NodeType), NEW i \in 1 .. Len(list), OrderedBut(list, i)
    PROVE  /\ FreeList(JoinedBehind(list, i))
           /\ \A a \in Nat : Holds(JoinedBehind(list, i), a) <=> Holds(list, a)
  <1>0. Len(list) \in Nat /\ i \in Nat /\ i >= 1 /\ i <= Len(list)
    BY NodesOf
  <1>1. CASE i < Len(list) /\ Before(list[i], list[i + 1])
    <2>. DEFINE n == Node(list[i].addr, list[i].size + list[i + 1].size)
                grown == [list EXCEPT ![i] = n]
                new == RemoveAt(grown, i + 1)
    <2>0. i + 1 \in 1 .. Len(list) /\ End(list[i]) = list[i + 1].addr
      BY <1>0, <1>1 DEF Before
    <2>1. n \in NodeType /\ n.addr = list[i].addr /\ End(n) = End(list[i + 1])
      <3>1. /\ list[i].addr \in Nat /\ list[i].size \in Nat /\ list[i].size > 0
            /\ list[i + 1].size \in Nat /\ list[i + 1].addr \in Nat
            /\ End(list[i]) = list[i].addr + list[i].size
            /\ End(list[i + 1]) = list[i + 1].addr + list[i + 1].size
        BY <2>0, NodesOf
      <3>. DEFINE sum == list[i].size + list[i + 1].size
      <3>2. sum \in Nat \ {0} /\ list[i].addr + sum = End(list[i + 1])
        <4>1. sum \in Nat \ {0}
          BY <3>1
        <4>2. list[i + 1].addr = list[i].addr + list[i].size
          BY <2>0, <3>1
        <4> QED
          BY <3>1, <4>1, <4>2
      <3>. HIDE DEF sum
      <3>3. /\ Node(list[i].addr, sum) \in NodeType /\ Node(list[i].addr, sum).addr = list[i].addr
            /\ End(Node(list[i].addr, sum)) = list[i].addr + sum
        BY <3>1, <3>2, NodeMade
      <3> QED
        BY <3>2, <3>3 DEF sum
    <2>2. JoinedBehind(list, i) = new
      <3>1. list[i + 1].size \in Nat
        BY <2>0, NodesOf
      <3>2. [list EXCEPT ![i].size = @ + list[i + 1].size] = grown
        <4>1. [list[i] EXCEPT !.size = @ + list[i + 1].size] = n
          BY <3>1, NodesOf, NodeGrows
        <4> QED
          BY <4>1
      <3>. HIDE DEF grown
      <3> QED
        BY <1>1, <3>2 DEF JoinedBehind
    <2>. HIDE DEF n
    <2>3. /\ grown \in Seq(NodeType) /\ Len(grown) = Len(list)
          /\ \A j \in 1 .. Len(list) : grown[j] = IF j = i THEN n ELSE list[j]
      BY <2>1, NodeChanged
    <2>. HIDE DEF grown
    <2>4. /\ new \in Seq(NodeType) /\ Len(new) = Len(list) - 1
          /\ \A j \in 1 .. (Len(list) - 1) :
               new[j] = IF j < i + 1 THEN grown[j] ELSE grown[j + 1]
      <3>1. i + 1 \in 1 .. Len(grown)
        BY <2>0, <2>3
      <3>2. /\ new \in Seq(NodeType) /\ Len(new) = Len(grown) - 1
            /\ \A j \in 1 .. (Len(grown) - 1) :
                 new[j] = IF j < i + 1 THEN grown[j] ELSE grown[j + 1]
        BY <2>3, <3>1, RemoveAtElements
      <3> QED
        BY <2>3, <3>2
    <2>. HIDE DEF new
    <2>5. \A j \in 1 .. (Len(list) - 1) :
            new[j] = IF j < i THEN list[j] ELSE IF j = i THEN n ELSE list[j + 1]
      <3> SUFFICES ASSUME NEW j \in 1 .. (Len(list) - 1)
                   PROVE  new[j] = IF j < i THEN list[j] ELSE IF j = i THEN n ELSE list[j + 1]
        OBVIOUS
      <3>1. /\ j \in 1 .. Len(list) /\ j + 1 \in 1 .. Len(list)
            /\ j <= i => j < i + 1
            /\ j > i => ~(j < i + 1) /\ j + 1 # i
        BY <1>0
      <3>2. CASE j <= i
        BY <1>0, <2>3, <2>4, <3>1, <3>2
      <3>3. CASE j > i
        BY <1>0, <2>3, <2>4, <3>1, <3>3
      <3> QED
        BY <1>0, <3>2, <3>3
    <2>6. Ordered(new)
      <3>1. SUFFICES ASSUME NEW j \in 1 .. Len(new), NEW k \in 1 .. Len(new), j < k
                     PROVE  End(new[j]) < new[k].addr
        BY DEF Ordered
      <3>2. /\ j \in 1 .. Len(list) /\ k \in 1 .. Len(list) /\ j + 1 \in 1 .. Len(list)
            /\ k + 1 \in 1 .. Len(list)
            /\ j \in 1 .. (Len(list) - 1) /\ k \in 1 .. (Len(list) - 1)
        BY <1>0, <2>4
      <3>. DEFINE l == IF j < i THEN j ELSE j + 1
                  m == IF k <= i THEN k ELSE k + 1
      <3>3. l \in 1 .. Len(list) /\ m \in 1 .. Len(list) /\ l < m /\ l # i
        BY <1>0, <3>1, <3>2
      <3>4. End(new[j]) = End(list[l])
        BY <1>0, <2>1, <2>5, <3>2
      <3>5. new[k].addr = list[m].addr
        BY <1>0, <2>1, <2>5, <3>2
      <3>. HIDE DEF l, m
      <3> QED
        BY <3>3, <3>4, <3>5 DEF OrderedBut
    <2>7. ASSUME NEW a \in Nat
          PROVE  Holds(new, a) <=> Holds(list, a)
      <3>0. In(a, n) <=> In(a, list[i]) \/ In(a, list[i + 1])
        <4>1. list[i] \in NodeType /\ list[i + 1] \in NodeType
          BY <2>0, NodesOf
        <4> QED
          BY <2>0, <2>1, <4>1, NodesJoin
      <3>1. ASSUME NEW j \in 1 .. Len(new), In(a, new[j])
            PROVE  Holds(list, a)
        <4>1. /\ j \in 1 .. Len(list) /\ j + 1 \in 1 .. Len(list)
              /\ j \in 1 .. (Len(list) - 1)
          BY <1>0, <2>4
        <4> QED
          BY <1>0, <2>0, <2>5, <3>0, <3>1, <4>1 DEF Holds
      <3>2. ASSUME NEW j \in 1 .. Len(list), In(a, list[j])
            PROVE  Holds(new, a)
        <4>0. i \in 1 .. Len(new) /\ new[i] = n
          BY <1>0, <1>1, <2>4, <2>5
        <4>1. CASE j = i \/ j = i + 1
          BY <3>0, <3>2, <4>0, <4>1 DEF Holds
        <4>2. CASE j < i
          <5>1. j \in 1 .. Len(new) /\ new[j] = list[j]
            BY <1>0, <1>1, <2>4, <2>5, <4>2
          <5> QED
            BY <3>2, <5>1 DEF Holds
        <4>3. CASE j > i + 1
          <5>1. j - 1 \in 1 .. Len(new) /\ new[j - 1] = list[(j - 1) + 1]
            BY <1>0, <1>1, <2>4, <2>5, <4>3
          <5>2. (j - 1) + 1 = j
            OBVIOUS
          <5> QED
            BY <3>2, <5>1, <5>2 DEF Holds
        <4> QED
          BY <1>0, <4>1, <4>2, <4>3
      <3> QED
        BY <3>1, <3>2 DEF Holds
    <2> QED
      BY <2>2, <2>4, <2>6, <2>7 DEF FreeList
  <1>2. CASE ~(i < Len(list) /\ Before(list[i], list[i + 1]))
    <2>1. JoinedBehind(list, i) = list
      BY <1>2 DEF JoinedBehind
    <2>2. Ordered(list)
      BY <1>0, <1>2, <2>1 DEF OrderedBut, Ordered, Before
    <2> QED
      BY <2>1, <2>2 DEF FreeList
  <1> QED
    BY <1>1, <1>2

\* What the walk knows where it stops, if no byte of the block is free: the
\* nodes passed end before it, the others begin behind it, but for the one at
\* which the walk stops, which may end where the block begins.
LEMMA StopSplits ==
    ASSUME NEW list, FreeList(list), NEW f \in NodeType,
           \A a \in Nat : ~(Holds(list, a) /\ In(a, f)),
           NEW i, i = Stop(list, f)
    PROVE  /\ i \in 1 .. Len(list) + 1
           /\ \A j \in 1 .. Len(list) :
                /\ j < i => End(list[j]) < f.addr
                /\ j > i => End(f) <= list[j].addr
                /\ j = i => \/ Before(list[j], f)
                            \/ ~Before(list[j], f) /\ End(f) < End(list[j]) /\ End(f) <= list[j].addr
  <1>0. /\ list \in Seq(NodeType) /\ Ordered(list)
        /\ Len(list) \in Nat /\ f.addr \in Nat /\ f.size \in Nat /\ f.size > 0
        /\ End(f) = f.addr + f.size
    BY NodesOf DEF FreeList, NodeType, End
  <1>1. /\ i \in 1 .. Len(list) + 1
        /\ \A j \in 1 .. i - 1 : ~Stops(list[j], f)
        /\ i <= Len(list) => Stops(list[i], f)
    BY <1>0, StopPlace
  <1>2. ASSUME NEW j \in 1 .. Len(list)
        PROVE  /\ list[j].addr \in Nat /\ End(list[j]) \in Nat /\ list[j].addr < End(list[j])
               /\ End(list[j]) <= f.addr \/ End(f) <= list[j].addr
    <2>1. /\ list[j] \in NodeType /\ list[j].addr \in Nat /\ list[j].size \in Nat
          /\ list[j].size > 0 /\ End(list[j]) = list[j].addr + list[j].size
      BY <1>0, NodesOf
    <2>2. \A a \in Nat : ~(In(a, list[j]) /\ In(a, f))
      BY DEF Holds
    <2>3. End(list[j]) <= f.addr \/ End(f) <= list[j].addr
      BY <2>1, <2>2, NodesApart
    <2> QED
      BY <2>1, <2>3
  <1>3. ASSUME NEW j \in 1 .. Len(list), j < i
        PROVE  End(list[j]) < f.addr
    <2>1. ~Stops(list[j], f)
      BY <1>0, <1>1, <1>3
    <2> QED
      BY <1>0, <1>2, <2>1 DEF Stops, Before
  <1>4. ASSUME NEW j \in 1 .. Len(list), j = i
        PROVE  \/ Before(list[j], f)
               \/ ~Before(list[j], f) /\ End(f) < End(list[j]) /\ End(f) <= list[j].addr
    <2>1. Stops(list[j], f)
      BY <1>0, <1>1, <1>4
    <2> QED
      BY <1>0, <1>2, <2>1 DEF Stops, Before
  <1>5. ASSUME NEW j \in 1 .. Len(list), j > i
        PROVE  End(f) <= list[j].addr
    <2>1. i \in 1 .. Len(list) /\ End(list[i]) < list[j].addr
      BY <1>0, <1>1, <1>5 DEF Ordered
    <2>2. f.addr <= End(list[i])
      BY <1>0, <1>2, <1>4, <2>1 DEF Before
    <2> QED
      BY <1>0, <1>2, <2>1, <2>2
  <1> QED
    BY <1>0, <1>1, <1>3, <1>4, <1>5

\* A block that is not free is linked in where it belongs and joined with its
\* neighbours; the list holds its bytes in addition.
LEMMA LinkedJoins ==
    ASSUME NEW list, FreeList(list), NEW f \in NodeType,
           \A a \in Nat : ~(Holds(list, a) /\ In(a, f))
    PROVE  /\ ~IsFree(list, f)
           /\ FreeList(Linked(list, f))
           /\ \A a \in Nat : Holds(Linked(list, f), a) <=> Holds(list, a) \/ In(a, f)
  <1>. DEFINE i == Stop(list, f)
  <1>0. /\ list \in Seq(NodeType) /\ Ordered(list) /\ Len(list) \in Nat
        /\ f.addr \in Nat /\ f.size \in Nat /\ f.size > 0 /\ End(f) = f.addr + f.size
    BY NodesOf DEF FreeList, NodeType, End
  <1>1. /\ i \in 1 .. Len(list) + 1
        /\ \A j \in 1 .. Len(list) :
             /\ j < i => End(list[j]) < f.addr
             /\ j > i => End(f) <= list[j].addr
             /\ j = i => \/ Before(list[j], f)
                         \/ ~Before(list[j], f) /\ End(f) < End(list[j]) /\ End(f) <= list[j].addr
    BY StopSplits
  <1>2. ~IsFree(list, f)
    <2>1. SUFFICES ASSUME i <= Len(list) PROVE ~Twice(list[i], f)
      BY DEF IsFree
    <2>2. i \in 1 .. Len(list) /\ list[i].addr \in Nat
      BY <1>0, <1>1, <2>1, NodesOf
    <2>3. \/ Before(list[i], f)
          \/ End(f) <= list[i].addr
      BY <1>1, <2>2
    <2> QED
      BY <1>0, <2>2, <2>3 DEF Twice
  <1>3. CASE i <= Len(list) /\ Before(list[i], f)
    <2>0. /\ i \in 1 .. Len(list) /\ End(list[i]) = f.addr
          /\ list[i] \in NodeType /\ list[i].addr \in Nat /\ list[i].size \in Nat
          /\ list[i].size > 0 /\ End(list[i]) = list[i].addr + list[i].size
      BY <1>0, <1>1, <1>3, NodesOf DEF Before
    <2>. DEFINE n == Node(list[i].addr, list[i].size + f.size)
                grown == [list EXCEPT ![i] = n]
    <2>1. n \in NodeType /\ n.addr = list[i].addr /\ End(n) = End(f)
      <3>. DEFINE sum == list[i].size + f.size
      <3>1. sum \in Nat \ {0} /\ list[i].addr + sum = End(f)
        <4>1. sum \in Nat \ {0}
          BY <1>0, <2>0
        <4>2. f.addr = list[i].addr + list[i].size
          BY <2>0
        <4> QED
          BY <1>0, <2>0, <4>1, <4>2
      <3>. HIDE DEF sum
      <3>2. /\ Node(list[i].addr, sum) \in NodeType /\ Node(list[i].addr, sum).addr = list[i].addr
            /\ End(Node(list[i].addr, sum)) = list[i].addr + sum
        BY <2>0, <3>1, NodeMade
      <3> QED
        BY <3>1, <3>2 DEF sum
    <2>2. Linked(list, f) = JoinedBehind(grown, i)
      <3>1. [list[i] EXCEPT !.size = @ + f.size] = n
        BY <1>0, <2>0, NodeGrows
      <3>2. [list EXCEPT ![i].size = @ + f.size] = grown
        BY <3>1
      <3>. HIDE DEF grown
      <3> QED
        BY <1>3, <3>2 DEF Linked
    <2>. HIDE DEF n
    <2>3. /\ grown \in Seq(NodeType) /\ Len(grown) = Len(list)
          /\ \A j \in 1 .. Len(list) : grown[j] = IF j = i THEN n ELSE list[j]
      BY <1>0, <2>0, <2>1, NodeChanged
    <2>. HIDE DEF grown, i
    <2>4. OrderedBut(grown, i)
      <3>1. SUFFICES ASSUME NEW j \in 1 .. Len(grown), NEW k \in 1 .. Len(grown), j < k
                     PROVE  \/ End(grown[j]) < grown[k].addr
                            \/ j = i /\ k = i + 1 /\ End(grown[j]) = grown[k].addr
        BY DEF OrderedBut
      <3>2. /\ j \in 1 .. Len(list) /\ k \in 1 .. Len(list) /\ i \in Int
            /\ End(list[j]) \in Nat /\ list[k].addr \in Nat /\ End(list[j]) < list[k].addr
        BY <2>0, <2>3, <3>1, TwoNodes
      <3>3. CASE j # i
        BY <2>1, <2>3, <3>2, <3>3
      <3>4. CASE j = i
        <4>1. grown[j] = n /\ grown[k] = list[k]
          BY <2>3, <3>1, <3>2, <3>4
        <4>2. End(f) <= list[k].addr
          BY <1>1, <3>1, <3>2, <3>4
        <4>3. CASE k = i + 1
          BY <1>0, <2>1, <3>2, <3>4, <4>1, <4>2, <4>3
        <4>4. CASE k # i + 1
          <5>1. i + 1 \in 1 .. Len(list) /\ i + 1 > i /\ i + 1 < k
            BY <1>0, <2>0, <3>1, <3>2, <3>4, <4>4
          <5>2. End(f) <= list[i + 1].addr
            BY <1>1, <5>1
          <5>3. /\ End(list[i + 1]) < list[k].addr /\ list[i + 1].addr < End(list[i + 1])
                /\ list[i + 1].addr \in Nat /\ End(list[i + 1]) \in Nat
            BY <3>2, <5>1, TwoNodes
          <5>4. End(f) \in Nat /\ End(grown[j]) = End(f) /\ grown[k].addr = list[k].addr
            BY <1>0, <2>1, <4>1
          <5>5. End(f) < list[k].addr
            BY <3>2, <5>2, <5>3, <5>4
          <5> QED
            BY <5>4, <5>5
        <4> QED
          BY <4>3, <4>4
      <3> QED
        BY <3>3, <3>4
    <2>5. /\ FreeList(JoinedBehind(grown, i))
          /\ \A a \in Nat : Holds(JoinedBehind(grown, i), a) <=> Holds(grown, a)
      BY <2>0, <2>3, <2>4, JoinedBehindOrders
    <2>6. ASSUME NEW a \in Nat
          PROVE  Holds(grown, a) <=> Holds(list, a) \/ In(a, f)
      <3>1. In(a, n) <=> In(a, list[i]) \/ In(a, f)
        BY <2>0, <2>1, NodesJoin
      <3>2. Holds(grown, a) <=> \E j \in 1 .. Len(list) : In(a, IF j = i THEN n ELSE list[j])
        BY <2>3 DEF Holds
      <3> QED
        BY <2>0, <3>1, <3>2 DEF Holds
    <2> QED
      BY <1>2, <2>2, <2>5, <2>6
  <1>4. CASE ~(i <= Len(list) /\ Before(list[i], f))
    <2>. DEFINE new == InsertAt(list, i, f)
    <2>1. Linked(list, f) = JoinedBehind(new, i)
      BY <1>4 DEF Linked
    <2>2. /\ new \in Seq(NodeType) /\ Len(new) = Len(list) + 1
          /\ \A j \in 1 .. (Len(list) + 1) :
               new[j] = IF j < i THEN list[j] ELSE IF j = i THEN f ELSE list[j - 1]
      <3>. HIDE DEF i
      <3> QED
        BY <1>0, <1>1, InsertAtElements
    <2>3. \A j \in 1 .. Len(list) : /\ j < i => End(list[j]) < f.addr
                                    /\ j >= i => End(f) <= list[j].addr
      <3>1. SUFFICES ASSUME NEW j \in 1 .. Len(list), j = i
                     PROVE  End(f) <= list[j].addr
        BY <1>0, <1>1
      <3>2. ~Before(list[j], f)
        BY <1>4, <3>1
      <3> QED
        BY <1>1, <3>1, <3>2
    <2>. HIDE DEF new, i
    <2>4. OrderedBut(new, i)
      <3>1. SUFFICES ASSUME NEW j \in 1 .. Len(new), NEW k \in 1 .. Len(new), j < k
                     PROVE  \/ End(new[j]) < new[k].addr
                            \/ j = i /\ k = i + 1 /\ End(new[j]) = new[k].addr
        BY DEF OrderedBut
      <3>2. /\ j \in 1 .. (Len(list) + 1) /\ k \in 1 .. (Len(list) + 1) /\ i \in Int
            /\ j \in Int /\ k \in Int
        BY <1>0, <1>1, <2>2
      <3>3. CASE j < i /\ k < i
        <4>1. /\ j \in 1 .. Len(list) /\ k \in 1 .. Len(list)
              /\ new[j] = list[j] /\ new[k] = list[k]
          BY <1>0, <1>1, <2>2, <3>2, <3>3
        <4> QED
          BY <1>0, <3>1, <4>1 DEF Ordered
      <3>4. CASE j < i /\ k = i
        <4>1. j \in 1 .. Len(list) /\ new[j] = list[j] /\ new[k] = f
          BY <1>0, <1>1, <2>2, <3>2, <3>4
        <4> QED
          BY <2>3, <3>4, <4>1
      <3>5. CASE j < i /\ k > i
        <4>1. /\ j \in 1 .. Len(list) /\ k - 1 \in 1 .. Len(list) /\ j < k - 1
              /\ new[j] = list[j] /\ new[k] = list[k - 1]
          BY <1>0, <1>1, <2>2, <3>2, <3>5
        <4> QED
          BY <1>0, <4>1 DEF Ordered
      <3>6. CASE j = i
        <4>1. /\ i \in 1 .. Len(list) /\ k - 1 \in 1 .. Len(list) /\ i <= k - 1
              /\ new[j] = f /\ new[k] = list[k - 1]
          BY <1>0, <1>1, <2>2, <3>1, <3>2, <3>6
        <4>2. CASE k - 1 = i
          <5>1. k = i + 1 /\ new[k] = list[i]
            BY <3>2, <4>1, <4>2
          <5>2. End(f) <= list[i].addr /\ list[i].addr \in Nat
            <6>1. i >= i
              BY <3>2
            <6> QED
              BY <1>0, <2>3, <4>1, <6>1, NodesOf
          <5>3. End(f) < list[i].addr \/ End(f) = list[i].addr
            BY <1>0, <5>2
          <5> QED
            BY <3>6, <4>1, <5>1, <5>3
        <4>3. CASE k - 1 # i
          <5>1. End(f) <= list[i].addr /\ i < k - 1
            BY <2>3, <3>2, <4>1, <4>3
          <5>2. /\ End(list[i]) < list[k - 1].addr /\ list[i].addr < End(list[i])
                /\ list[i].addr \in Nat /\ End(list[i]) \in Nat /\ list[k - 1].addr \in Nat
            BY <4>1, <5>1, TwoNodes
          <5>3. list[i].addr < list[k - 1].addr
            BY <5>2
          <5>4. End(f) \in Nat
            BY <1>0
          <5>5. End(f) < list[k - 1].addr
            BY <5>1, <5>2, <5>3, <5>4
          <5> QED
            BY <4>1, <5>5
        <4> QED
          BY <4>2, <4>3
      <3>7. CASE j > i
        <4>1. /\ j - 1 \in 1 .. Len(list) /\ k - 1 \in 1 .. Len(list) /\ j - 1 < k - 1
              /\ new[j] = list[j - 1] /\ new[k] = list[k - 1]
          BY <1>0, <1>1, <2>2, <3>1, <3>2, <3>7
        <4> QED
          BY <1>0, <4>1 DEF Ordered
      <3> QED
        BY <3>1, <3>2, <3>3, <3>4, <3>5, <3>6, <3>7
    <2>5. i \in 1 .. Len(new)
      BY <1>0, <1>1, <2>2
    <2>6. /\ FreeList(JoinedBehind(new, i))
          /\ \A a \in Nat : Holds(JoinedBehind(new, i), a) <=> Holds(new, a)
      BY <2>2, <2>4, <2>5, JoinedBehindOrders
    <2>7. ASSUME NEW a \in Nat
          PROVE  Holds(new, a) <=> Holds(list, a) \/ In(a, f)
      <3>1. ASSUME NEW j \in 1 .. Len(new), In(a, new[j])
            PROVE  Holds(list, a) \/ In(a, f)
        <4>1. \/ j \in 1 .. Len(list) /\ new[j] = list[j]
              \/ new[j] = f
              \/ j - 1 \in 1 .. Len(list) /\ new[j] = list[j - 1]
          BY <1>0, <1>1, <2>2
        <4> QED
          BY <3>1, <4>1 DEF Holds
      <3>2. ASSUME NEW j \in 1 .. Len(list), In(a, list[j])
            PROVE  Holds(new, a)
        <4>1. CASE j < i
          <5>1. j \in 1 .. Len(new) /\ new[j] = list[j]
            BY <1>0, <1>1, <2>2, <4>1
          <5> QED
            BY <3>2, <5>1 DEF Holds
        <4>2. CASE j >= i
          <5>1. j + 1 \in 1 .. Len(new) /\ new[j + 1] = list[(j + 1) - 1] /\ (j + 1) - 1 = j
            BY <1>0, <1>1, <2>2, <4>2
          <5> QED
            BY <3>2, <5>1 DEF Holds
        <4> QED
          BY <1>1, <4>1, <4>2
      <3>3. In(a, f) => Holds(new, a)
        <4>1. new[i] = f
          BY <1>1, <2>2
        <4> QED
          BY <2>5, <4>1 DEF Holds
      <3> QED
        BY <3>1, <3>2, <3>3 DEF Holds
    <2> QED
      BY <1>2, <2>1, <2>6, <2>7
  <1> QED
    BY <1>3, <1>4

\* A block with a byte in a free node is found to be free: the walk cannot
\* stop before that node, and does not pass it.
LEMMA FreeIsFound ==
    ASSUME NEW list, FreeList(list), NEW f, f.addr \in Nat, Holds(list, f.addr)
    PROVE  IsFree(list, f)
  <1>. DEFINE i == Stop(list, f)
  <1>0. list \in Seq(NodeType) /\ Len(list) \in Nat
    BY NodesOf DEF FreeList
  <1>1. /\ i \in 1 .. Len(list) + 1
        /\ \A j \in 1 .. i - 1 : ~Stops(list[j], f)
        /\ i <= Len(list) => Stops(list[i], f)
    BY <1>0, StopPlace
  <1>2. PICK k \in 1 .. Len(list) : In(f.addr, list[k])
    BY DEF Holds
  <1>3. /\ list[k].addr \in Nat /\ End(list[k]) \in Nat
        /\ list[k].addr <= f.addr /\ f.addr < End(list[k])
    BY <1>0, <1>2, NodesOf DEF In
  <1>4. Stops(list[k], f) /\ Twice(list[k], f)
    BY <1>3 DEF Stops, Twice, Before
  <1>. HIDE DEF i
  <1>5. i <= k
    <2>1. SUFFICES ASSUME i > k PROVE FALSE
      BY <1>0, <1>1
    <2>2. k \in 1 .. i - 1
      BY <1>0, <1>1, <2>1
    <2> QED
      BY <1>1, <1>4, <2>2
  <1>6. ~(i < k)
    <2>1. SUFFICES ASSUME i < k PROVE FALSE
      OBVIOUS
    <2>2. i \in 1 .. Len(list) /\ i <= Len(list)
      BY <1>0, <1>1, <2>1
    <2>3. /\ End(list[i]) < list[k].addr /\ list[i].addr < End(list[i])
          /\ list[i].addr \in Nat /\ End(list[i]) \in Nat
      BY <2>1, <2>2, TwoNodes
    <2>4. Stops(list[i], f)
      BY <1>1, <2>2
    <2>5. End(list[i]) < f.addr /\ list[i].addr < f.addr
      BY <1>3, <2>3
    <2> QED
      BY <1>3, <2>3, <2>4, <2>5 DEF Stops, Before
  <1>7. i = k /\ i <= Len(list)
    BY <1>0, <1>1, <1>5, <1>6
  <1> QED
    BY <1>4, <1>7 DEF IsFree, i

-----------------------------------------------------------------------------
(* NutHeapAlloc                                                             *)

\* What is taken from a node of the list is at least what was asked for, and
\* the bytes of the list are divided between what is taken and what stays.
LEMMA UnlinkedDivides ==
    ASSUME NEW list, FreeList(list), NEW i \in 1 .. Len(list),
           NEW size \in Nat \ {0}, list[i].size >= size
    PROVE  /\ Taken(list[i], size) \in NodeType /\ Taken(list[i], size).size >= size
           /\ FreeList(Unlinked(list, i, size))
           /\ \A a \in Nat :
                /\ Holds(list, a) <=> Holds(Unlinked(list, i, size), a)
                                      \/ In(a, Taken(list[i], size))
                /\ ~(Holds(Unlinked(list, i, size), a) /\ In(a, Taken(list[i], size)))
  <1>. DEFINE n == list[i]
              new == Unlinked(list, i, size)
              fit == Taken(n, size)
  <1>0. /\ list \in Seq(NodeType) /\ Len(list) \in Nat /\ i \in Int
        /\ n \in NodeType /\ n.addr \in Nat /\ n.size \in Nat /\ n.size > 0
        /\ End(n) = n.addr + n.size
    BY NodesOf DEF FreeList
  <1>1. \A a \in Nat, j, k \in 1 .. Len(list) :
          In(a, list[j]) /\ In(a, list[k]) => j = k
    <2>1. SUFFICES ASSUME NEW a \in Nat, NEW j \in 1 .. Len(list), NEW k \in 1 .. Len(list),
                          j < k, In(a, list[j]), In(a, list[k])
                   PROVE  FALSE
      BY <1>0
    <2>2. /\ End(list[j]) < list[k].addr /\ End(list[j]) \in Nat /\ list[k].addr \in Nat
      BY <2>1, TwoNodes
    <2> QED
      BY <2>1, <2>2 DEF In
  <1>2. CASE Splits(n, size)
    <2>. DEFINE left == Left(n, size)
    <2>0. NodeSize \in Nat /\ Threshold \in Nat
      BY HeapAssumption
    <2>1. n.size - size \in Nat \ {0} /\ n.addr + size \in Nat
      BY <1>0, <1>2, <2>0 DEF Splits
    <2>2. /\ left \in NodeType /\ left.addr = n.addr + size
          /\ End(left) = (n.addr + size) + (n.size - size)
      BY <2>1, NodeMade DEF Left
    <2>3. End(left) = End(n)
      BY <1>0, <2>2
    <2>4. /\ fit = Node(n.addr, size)
          /\ fit \in NodeType /\ fit.addr = n.addr /\ fit.size = size /\ End(fit) = n.addr + size
      BY <1>0, <1>2, NodeMade DEF Taken
    <2>5. /\ new \in Seq(NodeType) /\ Len(new) = Len(list)
          /\ \A j \in 1 .. Len(list) : new[j] = IF j = i THEN left ELSE list[j]
      <3>. HIDE DEF left
      <3>1. [list EXCEPT ![i] = left] = new
        BY <1>2 DEF Unlinked, left
      <3>. HIDE DEF new, n
      <3>2. /\ [list EXCEPT ![i] = left] \in Seq(NodeType)
            /\ Len([list EXCEPT ![i] = left]) = Len(list)
            /\ \A j \in 1 .. Len(list) :
                 [list EXCEPT ![i] = left][j] = IF j = i THEN left ELSE list[j]
        BY <1>0, <2>2, NodeChanged
      <3> QED
        BY <3>1, <3>2
    <2>. HIDE DEF left, new, fit
    <2>6. Ordered(new)
      <3>1. SUFFICES ASSUME NEW j \in 1 .. Len(new), NEW k \in 1 .. Len(new), j < k
                     PROVE  End(new[j]) < new[k].addr
        BY DEF Ordered
      <3>2. /\ j \in 1 .. Len(list) /\ k \in 1 .. Len(list)
            /\ End(list[j]) < list[k].addr /\ End(list[j]) \in Nat /\ list[k].addr \in Nat
        BY <2>5, <3>1, TwoNodes
      <3>3. End(new[j]) = End(list[j])
        BY <2>3, <2>5, <3>2
      <3>4. new[k].addr \in Nat /\ new[k].addr >= list[k].addr
        BY <1>0, <2>2, <2>5, <3>2
      <3> QED
        BY <3>2, <3>3, <3>4
    <2>7. ASSUME NEW a \in Nat
          PROVE  /\ In(a, n) <=> In(a, left) \/ In(a, fit)
                 /\ ~(In(a, left) /\ In(a, fit))
      <3>1. In(a, n) <=> In(a, fit) \/ In(a, left)
        BY <2>2, <2>3, <2>4, NodesJoin
      <3>2. ~(In(a, left) /\ In(a, fit))
        <4>1. End(fit) = left.addr /\ left.addr \in Nat
          BY <2>1, <2>2, <2>4
        <4> QED
          BY <4>1 DEF In
      <3> QED
        BY <3>1, <3>2
    <2>8. ASSUME NEW a \in Nat
          PROVE  /\ Holds(list, a) <=> Holds(new, a) \/ In(a, fit)
                 /\ ~(Holds(new, a) /\ In(a, fit))
      <3>1. Holds(new, a) <=> \E j \in 1 .. Len(list) : In(a, IF j = i THEN left ELSE list[j])
        BY <2>5 DEF Holds
      <3>2. Holds(list, a) <=> Holds(new, a) \/ In(a, fit)
        BY <2>7, <3>1 DEF Holds
      <3>3. ~(Holds(new, a) /\ In(a, fit))
        BY <1>1, <2>7, <3>1
      <3> QED
        BY <3>2, <3>3
    <2> QED
      BY <2>4, <2>5, <2>6, <2>8 DEF new, fit, FreeList
  <1>3. CASE ~Splits(n, size)
    <2>1. new = RemoveAt(list, i) /\ fit = n
      BY <1>3 DEF Unlinked, Taken
    <2>2. /\ new \in Seq(NodeType) /\ Len(new) = Len(list) - 1
          /\ \A j \in 1 .. (Len(list) - 1) :
               new[j] = IF j < i THEN list[j] ELSE list[j + 1]
      <3>. HIDE DEF n, new
      <3>1. /\ RemoveAt(list, i) \in Seq(NodeType) /\ Len(RemoveAt(list, i)) = Len(list) - 1
            /\ \A j \in 1 .. (Len(list) - 1) :
                 RemoveAt(list, i)[j] = IF j < i THEN list[j] ELSE list[j + 1]
        BY <1>0, RemoveAtElements
      <3> QED
        BY <2>1, <3>1
    <2>. HIDE DEF new, fit
    <2>3. Ordered(new)
      <3>1. SUFFICES ASSUME NEW j \in 1 .. Len(new), NEW k \in 1 .. Len(new), j < k
                     PROVE  End(new[j]) < new[k].addr
        BY DEF Ordered
      <3>2. j \in 1 .. (Len(list) - 1) /\ k \in 1 .. (Len(list) - 1)
        BY <2>2, <3>1
      <3>. DEFINE u == IF j < i THEN j ELSE j + 1
                  v == IF k < i THEN k ELSE k + 1
      <3>3. u \in 1 .. Len(list) /\ v \in 1 .. Len(list) /\ u < v
        BY <1>0, <3>1, <3>2
      <3>4. new[j] = list[u] /\ new[k] = list[v]
        BY <2>2, <3>2
      <3>. HIDE DEF u, v
      <3> QED
        BY <3>3, <3>4, TwoNodes
    <2>4. ASSUME NEW a \in Nat
          PROVE  /\ Holds(list, a) <=> Holds(new, a) \/ In(a, fit)
                 /\ ~(Holds(new, a) /\ In(a, fit))
      <3>1. ASSUME NEW j \in 1 .. Len(new), In(a, new[j])
            PROVE  Holds(list, a) /\ ~In(a, list[i])
        <4>1. \/ j \in 1 .. Len(list) /\ j # i /\ new[j] = list[j]
              \/ j + 1 \in 1 .. Len(list) /\ j + 1 # i /\ new[j] = list[j + 1]
          BY <1>0, <2>2
        <4> QED
          BY <1>1, <3>1, <4>1 DEF Holds
      <3>2. ASSUME NEW j \in 1 .. Len(list), In(a, list[j]), j # i
            PROVE  Holds(new, a)
        <4>1. CASE j < i
          <5>1. j \in 1 .. Len(new) /\ new[j] = list[j]
            BY <1>0, <2>2, <4>1
          <5> QED
            BY <3>2, <5>1 DEF Holds
        <4>2. CASE j > i
          <5>1. j - 1 \in 1 .. Len(new) /\ new[j - 1] = list[(j - 1) + 1] /\ (j - 1) + 1 = j
            BY <1>0, <2>2, <4>2
          <5> QED
            BY <3>2, <5>1 DEF Holds
        <4> QED
          BY <1>0, <3>2, <4>1, <4>2
      <3>3. Holds(list, a) <=> Holds(new, a) \/ In(a, fit)
        BY <2>1, <3>1, <3>2 DEF Holds
      <3>4. ~(Holds(new, a) /\ In(a, fit))
        BY <2>1, <3>1 DEF Holds
      <3> QED
        BY <3>3, <3>4
    <2>5. fit \in NodeType /\ fit.size >= size
      BY <1>0, <2>1
    <2> QED
      BY <2>2, <2>3, <2>4, <2>5 DEF new, fit, FreeList
  <1> QED
    BY <1>2, <1>3

-----------------------------------------------------------------------------
(* The invariant                                                            *)

BlockType == [addr : Nat, size : Nat \ {0}, want : Nat \ {0}]

\* Every byte is in at most one place: the free list, an allocated block or
\* a region that is still to be added; and all of them are given memory.
FreeApart == \A b \in used, a \in Nat : In(a, b) => a \in Memory /\ ~Holds(heapFreeList, a)
UsedApart == \A b, c \in used, a \in Nat : In(a, b) /\ In(a, c) => b = c
Waiting(a) == \E i \in DOMAIN Regions : i > added /\ In(a, Regions[i])
WaitingApart == \A a \in Nat : Waiting(a) => ~Holds(heapFreeList, a)
                                             /\ \A b \in used : ~In(a, b)

HeapInv == /\ added \in 0 .. Len(Regions)
           /\ FreeList(heapFreeList)
           /\ used \subseteq BlockType
           /\ \A b \in used : b.want + Overhead <= b.size
           /\ \A a \in Nat : Holds(heapFreeList, a) => a \in Memory
           /\ FreeApart /\ UsedApart /\ WaitingApart

\* The assumption about the regions, region by region.
LEMMA RegionsGiven ==
    /\ Len(Regions) \in Nat /\ DOMAIN Regions = 1 .. Len(Regions)
    /\ \A i \in DOMAIN Regions :
         /\ Regions[i] \in NodeType
         /\ \A a \in Nat : In(a, Regions[i]) => a \in Memory
    /\ \A i, j \in DOMAIN Regions, a \in Nat :
         In(a, Regions[i]) /\ In(a, Regions[j]) => i = j
  <1>1. /\ Len(Regions) \in Nat /\ DOMAIN Regions = 1 .. Len(Regions)
        /\ \A i \in DOMAIN Regions : Regions[i] \in [addr : Nat, size : Nat]
    <2>1. Regions \in Seq([addr : Nat, size : Nat])
      BY HeapAssumption
    <2> QED
      BY <2>1, LenProperties, ElementOfSeq
  <1>2. ASSUME NEW i \in DOMAIN Regions
        PROVE  /\ Regions[i] \in NodeType
               /\ Regions[i].addr \in Nat /\ Regions[i].size \in Nat
               /\ End(Regions[i]) = Regions[i].addr + Regions[i].size
    <2>1. NodeSize \in Nat \ {0} /\ Regions[i].size >= NodeSize
      BY HeapAssumption
    <2>2. Regions[i] \in [addr : Nat, size : Nat]
      BY <1>1
    <2>3. Regions[i].size \in Nat \ {0}
      BY <2>1, <2>2
    <2> QED
      BY <2>2, <2>3 DEF NodeType, End
  <1>3. ASSUME NEW i \in DOMAIN Regions, NEW a \in Nat, In(a, Regions[i])
        PROVE  a \in Memory
    <2>1. a \in Regions[i].addr .. End(Regions[i]) - 1
      BY <1>2, <1>3 DEF In
    <2> QED
      BY <2>1 DEF Memory
  <1>4. ASSUME NEW i \in DOMAIN Regions, NEW j \in DOMAIN Regions, i # j,
               NEW a \in Nat, In(a, Regions[i]), In(a, Regions[j])
        PROVE  FALSE
    <2>1. \/ End(Regions[i]) <= Regions[j].addr
          \/ End(Regions[j]) <= Regions[i].addr
      BY <1>4, HeapAssumption
    <2>2. /\ Regions[i].addr <= a /\ a < End(Regions[i]) /\ End(Regions[i]) \in Nat
          /\ Regions[j].addr <= a /\ a < End(Regions[j]) /\ End(Regions[j]) \in Nat
      BY <1>2, <1>4 DEF In
    <2>3. Regions[i].addr \in Nat /\ Regions[j].addr \in Nat
      BY <1>2
    <2> QED
      BY <2>1, <2>2, <2>3
  <1> QED
    BY <1>1, <1>2, <1>3, <1>4

\* A block and the node it is released as have the same bytes.
LEMMA BlockNode ==
    ASSUME NEW b \in BlockType
    PROVE  /\ Node(b.addr, b.size) \in NodeType
           /\ \A a \in Nat : In(a, Node(b.addr, b.size)) <=> In(a, b)
  <1>1. b.addr \in Nat /\ b.size \in Nat \ {0}
    BY DEF BlockType
  <1>2. /\ Node(b.addr, b.size) \in NodeType /\ Node(b.addr, b.size).addr = b.addr
        /\ End(Node(b.addr, b.size)) = b.addr + b.size
    BY <1>1, NodeMade
  <1> QED
    BY <1>2 DEF In, End

\* The initial state.
LEMMA HeapBegins == HeapInit => HeapInv
  <1>1. SUFFICES ASSUME HeapInit PROVE HeapInv
    OBVIOUS
  <1>2. heapFreeList = <<>> /\ used = {} /\ added = 0 /\ Len(heapFreeList) = 0
    BY <1>1 DEF HeapInit
  <1>3. FreeList(heapFreeList)
    BY <1>2 DEF FreeList, Ordered
  <1>4. \A a \in Nat : ~Holds(heapFreeList, a)
    BY <1>2 DEF Holds
  <1> QED
    BY <1>2, <1>3, <1>4, RegionsGiven DEF HeapInv, FreeApart, UsedApart, WaitingApart

\* NutHeapAdd: the region's bytes become free.
LEMMA HeapAdd ==
    ASSUME HeapInv, Add
    PROVE  HeapInv'
  <1>. DEFINE r == Regions[added + 1]
  <1>0. /\ added \in 0 .. Len(Regions) /\ FreeList(heapFreeList) /\ used \subseteq BlockType
        /\ added < Len(Regions) /\ added' = added + 1 /\ HeapFree(r) /\ used' = used
    BY DEF HeapInv, Add
  <1>1. added + 1 \in DOMAIN Regions /\ r \in NodeType /\ \A a \in Nat : In(a, r) => a \in Memory
    BY <1>0, RegionsGiven
  <1>2. \A a \in Nat : In(a, r) => Waiting(a)
    BY <1>0, <1>1, RegionsGiven DEF Waiting
  <1>. HIDE DEF r
  <1>3. /\ heapFreeList' = Linked(heapFreeList, r)
        /\ FreeList(heapFreeList')
        /\ \A a \in Nat : Holds(heapFreeList', a) <=> Holds(heapFreeList, a) \/ In(a, r)
    <2>1. \A a \in Nat : ~(Holds(heapFreeList, a) /\ In(a, r))
      BY <1>2 DEF HeapInv, WaitingApart
    <2> QED
      BY <1>0, <1>1, <2>1, LinkedJoins DEF HeapFree
  <1>4. ASSUME NEW a \in Nat
        PROVE  Waiting(a)' <=> Waiting(a) /\ ~In(a, r)
    <2>1. Waiting(a)' <=> \E i \in DOMAIN Regions : i > added + 1 /\ In(a, Regions[i])
      BY <1>0 DEF Waiting
    <2>2. \A i \in DOMAIN Regions : i \in Int
      BY RegionsGiven
    <2>3. Waiting(a)' => Waiting(a) /\ ~In(a, r)
      BY <1>0, <1>1, <2>1, <2>2, RegionsGiven DEF Waiting, r
    <2>4. Waiting(a) /\ ~In(a, r) => Waiting(a)'
      BY <1>0, <2>1, <2>2 DEF Waiting, r
    <2> QED
      BY <2>3, <2>4
  <1>5. added' \in 0 .. Len(Regions)
    BY <1>0, RegionsGiven
  <1>6. \A b \in used, a \in Nat : ~(In(a, b) /\ In(a, r))
    BY <1>2 DEF HeapInv, WaitingApart
  <1>7. FreeApart'
    BY <1>0, <1>3, <1>6 DEF HeapInv, FreeApart, Memory
  <1>8. WaitingApart'
    BY <1>0, <1>3, <1>4 DEF HeapInv, WaitingApart
  <1>9. \A a \in Nat : Holds(heapFreeList', a) => a \in Memory
    BY <1>1, <1>3 DEF HeapInv
  <1> QED
    BY <1>0, <1>3, <1>5, <1>7, <1>8, <1>9 DEF HeapInv, UsedApart

\* A block is released: its bytes become free.
LEMMA HeapReleased ==
    ASSUME HeapInv, NEW b \in used, Free(b)
    PROVE  HeapInv'
  <1>. DEFINE f == Node(b.addr, b.size)
  <1>0. /\ FreeList(heapFreeList) /\ b \in BlockType /\ HeapFree(f)
        /\ used' = used \ {b} /\ added' = added
    BY DEF HeapInv, Free
  <1>1. f \in NodeType /\ \A a \in Nat : In(a, f) <=> In(a, b)
    BY <1>0, BlockNode
  <1>. HIDE DEF f
  <1>2. /\ heapFreeList' = Linked(heapFreeList, f)
        /\ FreeList(heapFreeList')
        /\ \A a \in Nat : Holds(heapFreeList', a) <=> Holds(heapFreeList, a) \/ In(a, b)
    <2>1. \A a \in Nat : ~(Holds(heapFreeList, a) /\ In(a, f))
      BY <1>1 DEF HeapInv, FreeApart
    <2> QED
      BY <1>0, <1>1, <2>1, LinkedJoins DEF HeapFree
  <1>3. FreeApart'
    BY <1>0, <1>2 DEF HeapInv, FreeApart, UsedApart, Memory
  <1>4. UsedApart'
    BY <1>0 DEF HeapInv, UsedApart
  <1>5. WaitingApart'
    BY <1>0, <1>2 DEF HeapInv, WaitingApart, Waiting
  <1>6. \A a \in Nat : Holds(heapFreeList', a) => a \in Memory
    BY <1>2 DEF HeapInv, FreeApart
  <1> QED
    BY <1>0, <1>2, <1>3, <1>4, <1>5, <1>6 DEF HeapInv

\* What NutHeapAlloc hands out.
LEMMA Allocated ==
    ASSUME HeapInv, NEW want \in Sizes, Alloc(want)
    PROVE  \E b \in BlockType :
             /\ b.want = want /\ want + Overhead <= b.size
             /\ used' = used \cup {b} /\ added' = added
             /\ FreeList(heapFreeList')
             /\ \A a \in Nat :
                  /\ Holds(heapFreeList, a) <=> Holds(heapFreeList', a) \/ In(a, b)
                  /\ ~(Holds(heapFreeList', a) /\ In(a, b))
  <1>. DEFINE size == Gross(want)
              i == BestFit(heapFreeList, size)
              fit == Taken(heapFreeList[i], size)
              b == [addr |-> fit.addr, size |-> fit.size, want |-> want]
  <1>0. /\ FreeList(heapFreeList) /\ heapFreeList \in Seq(NodeType)
        /\ Fits(heapFreeList, size) # {} /\ added' = added
        /\ heapFreeList' = Unlinked(heapFreeList, i, size)
        /\ used' = used \cup {b}
    BY DEF HeapInv, FreeList, Alloc
  <1>1. size \in Nat \ {0} /\ want + Overhead <= size /\ want \in Nat \ {0} /\ Overhead \in Nat
    <2>1. want \in Nat \ {0} /\ Overhead \in Nat \ {0} /\ NodeSize \in Nat \ {0}
      BY HeapAssumption
    <2> QED
      BY <2>1 DEF Gross
  <1>. HIDE DEF size
  <1>2. i \in Fits(heapFreeList, size)
    BY <1>0, BestFitFits
  <1>3. i \in 1 .. Len(heapFreeList) /\ heapFreeList[i].size >= size
    BY <1>0, <1>2, NodesOf DEF Fits
  <1>. HIDE DEF i
  <1>4. /\ fit \in NodeType /\ fit.size >= size /\ FreeList(heapFreeList')
        /\ \A a \in Nat : /\ Holds(heapFreeList, a) <=> Holds(heapFreeList', a) \/ In(a, fit)
                          /\ ~(Holds(heapFreeList', a) /\ In(a, fit))
    BY <1>0, <1>1, <1>3, UnlinkedDivides
  <1>. HIDE DEF fit
  <1>5. fit.addr \in Nat /\ fit.size \in Nat \ {0}
    BY <1>4 DEF NodeType
  <1>6. b \in BlockType /\ b.want = want /\ b.size = fit.size /\ b.addr = fit.addr
    BY <1>1, <1>5 DEF BlockType
  <1>7. want + Overhead <= b.size
    BY <1>1, <1>4, <1>5, <1>6
  <1>8. \A a \in Nat : In(a, b) <=> In(a, fit)
    BY <1>6 DEF In, End
  <1> QED
    BY <1>0, <1>4, <1>6, <1>7, <1>8

\* NutHeapAlloc, with and without a split of the node it takes.
LEMMA HeapAlloc ==
    ASSUME HeapInv, NEW want \in Sizes, Alloc(want)
    PROVE  HeapInv'
  <1>1. PICK b \in BlockType :
          /\ b.want = want /\ want + Overhead <= b.size
          /\ used' = used \cup {b} /\ added' = added
          /\ FreeList(heapFreeList')
          /\ \A a \in Nat :
               /\ Holds(heapFreeList, a) <=> Holds(heapFreeList', a) \/ In(a, b)
               /\ ~(Holds(heapFreeList', a) /\ In(a, b))
    BY Allocated
  <1>2. FreeApart'
    BY <1>1 DEF HeapInv, FreeApart, Memory
  <1>3. UsedApart'
    BY <1>1 DEF HeapInv, FreeApart, UsedApart
  <1>4. WaitingApart'
    BY <1>1 DEF HeapInv, WaitingApart, Waiting
  <1> QED
    BY <1>1, <1>2, <1>3, <1>4 DEF HeapInv, Memory

\* A block that is free already is refused.
LEMMA ReleasedTwice ==
    ASSUME HeapInv, NEW addr \in InFree, NEW size \in Sizes, FreeAgain(addr, size)
    PROVE  UNCHANGED heapVars
  <1>0. FreeList(heapFreeList) /\ heapFreeList \in Seq(NodeType)
    BY DEF HeapInv, FreeList
  <1>1. PICK i \in DOMAIN heapFreeList : addr \in heapFreeList[i].addr .. End(heapFreeList[i]) - 1
    BY DEF InFree
  <1>2. /\ i \in 1 .. Len(heapFreeList)
        /\ heapFreeList[i].addr \in Nat /\ End(heapFreeList[i]) \in Nat
    BY <1>0, <1>1, NodesOf
  <1>3. addr \in Nat /\ Holds(heapFreeList, addr)
    BY <1>1, <1>2 DEF Holds, In
  <1>4. Node(addr, size).addr = addr
    BY DEF Node
  <1>5. IsFree(heapFreeList, Node(addr, size))
    BY <1>0, <1>3, <1>4, FreeIsFound
  <1> QED
    BY <1>5 DEF FreeAgain, HeapFree, heapVars

\* Every step.
LEMMA HeapStep == HeapInv /\ [HeapNext]_heapVars => HeapInv'
  <1>1. SUFFICES ASSUME HeapInv, [HeapNext]_heapVars PROVE HeapInv'
    OBVIOUS
  <1>2. CASE Add
    BY <1>1, <1>2, HeapAdd
  <1>3. CASE \E want \in Sizes : Alloc(want)
    BY <1>1, <1>3, HeapAlloc
  <1>4. CASE \E b \in used : Free(b)
    BY <1>1, <1>4, HeapReleased
  <1>5. CASE UNCHANGED heapVars
    BY <1>1, <1>5 DEF heapVars, HeapInv, FreeApart, UsedApart, WaitingApart, Waiting, Memory
  <1>6. CASE \E addr \in InFree, size \in Sizes : FreeAgain(addr, size)
    BY <1>1, <1>5, <1>6, ReleasedTwice
  <1> QED
    BY <1>1, <1>2, <1>3, <1>4, <1>5, <1>6 DEF HeapNext

(***************************************************************************)
(* For any regions and requests the free list of os/heap.c is ordered by   *)
(* address and its nodes are joined: NutHeapFree finds every block that is *)
(* free already, and leaves no two neighbours apart.                       *)
(***************************************************************************)
THEOREM HeapJoined == HeapSpec => []FreeListJoined
  <1>1. HeapInv => FreeListJoined
    <2>1. SUFFICES ASSUME HeapInv PROVE FreeListJoined
      OBVIOUS
    <2>2. DOMAIN heapFreeList = 1 .. Len(heapFreeList) /\ Ordered(heapFreeList)
      BY <2>1, NodesOf DEF HeapInv, FreeList
    <2> QED
      BY <2>2 DEF FreeListJoined, Ordered
  <1> QED
    BY <1>1, HeapBegins, HeapStep, PTL DEF HeapSpec

-----------------------------------------------------------------------------
(* What callers see                                                         *)

\* The block that the caller gets of an allocated node.
Seen(b) == [at |-> b.addr + SizeField, len |-> b.want]

\* It lies inside the node.
LEMMA SeenInside ==
    ASSUME NEW b \in BlockType, b.want + Overhead <= b.size
    PROVE  /\ Seen(b).at \in A!Cells(Seen(b))
           /\ \A a \in A!Cells(Seen(b)) : a \in Nat /\ In(a, b)
  <1>1. /\ b.addr \in Nat /\ b.size \in Nat /\ b.want \in Nat /\ b.want > 0
        /\ SizeField \in Nat /\ Overhead \in Nat /\ SizeField < Overhead
    BY HeapAssumption DEF BlockType
  <1>2. A!Cells(Seen(b)) = b.addr + SizeField .. b.addr + SizeField + b.want - 1
    BY DEF A!Cells, Seen
  <1>3. Seen(b).at = b.addr + SizeField
    BY DEF Seen
  <1>4. b.addr + SizeField \in b.addr + SizeField .. b.addr + SizeField + b.want - 1
    BY <1>1
  <1>5. ASSUME NEW a \in b.addr + SizeField .. b.addr + SizeField + b.want - 1
        PROVE  a \in Nat /\ b.addr <= a /\ a < b.addr + b.size
    BY <1>1
  <1> QED
    BY <1>2, <1>3, <1>4, <1>5 DEF In, End

\* Every step of the heap is one of the abstract allocator, or changes
\* nothing that it sees.
LEMMA StepAllocates ==
    ASSUME HeapInv, [HeapNext]_heapVars
    PROVE  [A!Next]_(A!avars)
  <1>. DEFINE blocks == {[at |-> b.addr + SizeField, len |-> b.want] : b \in used}
  <1>0. /\ \A b \in used : b \in BlockType /\ b.want + Overhead <= b.size
        /\ blocks = {Seen(b) : b \in used}
    BY DEF HeapInv, Seen
  <1>1. used' = used => UNCHANGED A!avars
    BY DEF A!avars
  <1>2. ASSUME NEW want \in Sizes, Alloc(want)
        PROVE  A!Next
    <2>1. PICK b \in BlockType :
            /\ b.want = want /\ want + Overhead <= b.size
            /\ used' = used \cup {b}
            /\ \A a \in Nat : Holds(heapFreeList, a) <=> Holds(heapFreeList', a) \/ In(a, b)
      BY <1>2, Allocated
    <2>2. \A a \in Nat : In(a, b) => a \in Memory /\ \A d \in used : ~In(a, d)
      BY <2>1 DEF HeapInv, FreeApart
    <2>3. /\ Seen(b).at \in A!Cells(Seen(b))
          /\ \A a \in A!Cells(Seen(b)) : a \in Nat /\ In(a, b)
      BY <2>1, SeenInside
    <2>4. A!Cells(Seen(b)) \subseteq Memory /\ Seen(b).at \in Memory
      BY <2>2, <2>3
    <2>5. \A c \in blocks : A!Cells(Seen(b)) \cap A!Cells(c) = {}
      <3>1. SUFFICES ASSUME NEW d \in used, NEW a \in A!Cells(Seen(b)), a \in A!Cells(Seen(d))
                     PROVE  FALSE
        BY <1>0
      <3>2. a \in Nat /\ In(a, b) /\ In(a, d)
        BY <1>0, <2>3, <3>1, SeenInside
      <3> QED
        BY <2>2, <3>2
    <2>6. blocks' = blocks \cup {Seen(b)}
      BY <2>1 DEF Seen
    <2>7. Seen(b) = [at |-> Seen(b).at, len |-> want]
      BY <2>1 DEF Seen
    <2>. HIDE DEF blocks
    <2>8. A!Hand(want)
      BY <2>4, <2>5, <2>6, <2>7 DEF A!Hand, blocks
    <2> QED
      BY <2>8 DEF A!Next
  <1>3. ASSUME NEW b \in used, Free(b)
        PROVE  A!Next
    <2>1. used' = used \ {b}
      BY <1>3 DEF Free
    <2>2. ASSUME NEW d \in used, Seen(d) = Seen(b)
          PROVE  d = b
      <3>1. /\ Seen(b).at \in A!Cells(Seen(b)) /\ Seen(b).at \in A!Cells(Seen(d))
        BY <1>0, <2>2, SeenInside
      <3>2. Seen(b).at \in Nat /\ In(Seen(b).at, b) /\ In(Seen(b).at, d)
        BY <1>0, <3>1, SeenInside
      <3> QED
        BY <3>2 DEF HeapInv, UsedApart
    <2>3. blocks' = {Seen(d) : d \in used \ {b}}
      BY <2>1 DEF Seen
    <2>4. blocks' = blocks \ {Seen(b)} /\ Seen(b) \in blocks
      BY <1>0, <2>2, <2>3
    <2> QED
      BY <2>4 DEF A!Next, A!Release
  <1>4. Add => used' = used
    BY DEF Add
  <1>5. ASSUME NEW addr \in InFree, NEW size \in Sizes, FreeAgain(addr, size)
        PROVE  used' = used
    BY <1>5 DEF FreeAgain
  <1>6. UNCHANGED heapVars => used' = used
    BY DEF heapVars
  <1> QED
    BY <1>1, <1>2, <1>3, <1>4, <1>5, <1>6 DEF HeapNext

(***************************************************************************)
(* The heap of os/heap.c implements module Allocator, for any regions and  *)
(* requests: the block of a caller lies in the given memory and shares no  *)
(* byte with any other, until NutHeapFree takes it back.                   *)
(***************************************************************************)
THEOREM HeapAllocates == HeapSpec => ImplementsAllocator
  <1>1. HeapInit => A!Init
    BY DEF HeapInit, A!Init
  <1>2. HeapInv /\ [HeapNext]_heapVars => [A!Next]_(A!avars)
    BY StepAllocates
  <1> QED
    BY <1>1, <1>2, HeapBegins, HeapStep, PTL DEF HeapSpec, ImplementsAllocator, A!Spec

-----------------------------------------------------------------------------
(* The bytes of the free nodes                                              *)

\* What NothingLost counts.
FreeBytes(list) == FoldSeq(LAMBDA n, sum : n.size + sum, 0, list)

\* The sizes of the nodes of a list.
NodeSizes(list) == [i \in 1 .. Len(list) |-> list[i].size]

\* The fold adds up the sizes, in whatever order it takes them.
LEMMA FreeBytesSum ==
    ASSUME NEW list \in Seq(NodeType)
    PROVE  \E g : /\ SumsUp(g, NodeSizes(list), 1 .. Len(list))
                  /\ FreeBytes(list) = g[1 .. Len(list)]
  <1>. DEFINE S == 1 .. Len(list)
              Sum(g) == [s \in SUBSET S |->
                           IF s = {} THEN 0 ELSE list[Element(s)].size + g[s \ {Element(s)}]]
              h == CHOOSE g : g = Sum(g)
  <1>1. Len(list) \in Nat /\ DOMAIN list = S
    BY NodesOf
  <1>2. FreeBytes(list) = h[S]
    BY <1>1 DEF FreeBytes, FoldSeq, FoldFunction, FoldFunctionOnSet, MapThenFoldSet, Element
  <1>3. ASSUME NEW g
        PROVE  g = Sum(g) <=> SumsUp(g, NodeSizes(list), S)
    <2>. DEFINE Other(k) == [s \in SUBSET S |->
                  IF s = {} THEN 0 ELSE NodeSizes(list)[Element(s)] + k[s \ {Element(s)}]]
    <2>1. \A s \in SUBSET S : s # {} => Element(s) \in S
      BY DEF Element
    <2>2. \A x \in S : NodeSizes(list)[x] = list[x].size
      BY DEF NodeSizes
    <2>3. Sum(g) = Other(g)
      BY <2>1, <2>2
    <2> QED
      BY <2>3 DEF SumsUp
  <1>4. IsFiniteSet(S)
    BY <1>1, FS_Interval
  <1>. HIDE DEF S
  <1>5. PICK g : SumsUp(g, NodeSizes(list), S)
    BY <1>4, SumsExist
  <1>. HIDE DEF Sum
  <1>6. h = Sum(h)
    BY <1>3, <1>5
  <1>. HIDE DEF h
  <1>7. SumsUp(h, NodeSizes(list), S)
    BY <1>3, <1>6
  <1> QED
    BY <1>2, <1>7 DEF S

\* So they are the last of the partial sums.
LEMMA FreeBytesOf ==
    ASSUME NEW list \in Seq(NodeType)
    PROVE  \E p : /\ PartialSums(p, NodeSizes(list), Len(list))
                  /\ FreeBytes(list) = p[Len(list)] /\ FreeBytes(list) \in Int
  <1>1. PICK g : /\ SumsUp(g, NodeSizes(list), 1 .. Len(list))
                 /\ FreeBytes(list) = g[1 .. Len(list)]
    BY FreeBytesSum
  <1>2. Len(list) \in Nat /\ \A i \in 1 .. Len(list) : NodeSizes(list)[i] \in Int
    BY NodesOf DEF NodeSizes
  <1>3. PICK p : PartialSums(p, NodeSizes(list), Len(list)) /\ p[Len(list)] = g[1 .. Len(list)]
    BY <1>1, <1>2, SumsInOrder
  <1>4. p[Len(list)] \in Int
    BY <1>2, <1>3 DEF PartialSums
  <1> QED
    BY <1>1, <1>3, <1>4

\* No node, no bytes.
LEMMA NoBytes == FreeBytes(<<>>) = 0
  <1>1. <<>> \in Seq(NodeType) /\ Len(<<>>) = 0
    OBVIOUS
  <1>2. PICK p : PartialSums(p, NodeSizes(<<>>), 0) /\ FreeBytes(<<>>) = p[0]
    BY <1>1, FreeBytesOf
  <1> QED
    BY <1>2 DEF PartialSums

\* A node is put in.
LEMMA BytesPutIn ==
    ASSUME NEW list \in Seq(NodeType), NEW i \in 1 .. (Len(list) + 1), NEW n \in NodeType
    PROVE  FreeBytes(InsertAt(list, i, n)) = FreeBytes(list) + n.size
  <1>. DEFINE new == InsertAt(list, i, n)
              f == NodeSizes(list)
              h == NodeSizes(new)
  <1>1. /\ new \in Seq(NodeType) /\ Len(new) = Len(list) + 1
        /\ \A j \in 1 .. (Len(list) + 1) :
             new[j] = IF j < i THEN list[j] ELSE IF j = i THEN n ELSE list[j - 1]
    BY InsertAtElements
  <1>. HIDE DEF new
  <1>2. PICK p : PartialSums(p, f, Len(list)) /\ FreeBytes(list) = p[Len(list)]
    BY FreeBytesOf
  <1>3. PICK q : PartialSums(q, h, Len(list) + 1) /\ FreeBytes(new) = q[Len(list) + 1]
    BY <1>1, FreeBytesOf
  <1>4. Len(list) \in Nat /\ n.size \in Int /\ \A j \in 1 .. Len(list) : f[j] \in Int
    BY NodesOf DEF NodeSizes, NodeType
  <1>5. \A j \in 1 .. (Len(list) + 1) :
          h[j] = IF j < i THEN f[j] ELSE IF j = i THEN n.size ELSE f[j - 1]
    <2>1. SUFFICES ASSUME NEW j \in 1 .. (Len(list) + 1)
                   PROVE  h[j] = IF j < i THEN f[j] ELSE IF j = i THEN n.size ELSE f[j - 1]
      OBVIOUS
    <2>2. h[j] = new[j].size
      BY <1>1 DEF NodeSizes
    <2>3. CASE j < i
      <3>1. j \in 1 .. Len(list) /\ new[j] = list[j]
        BY <1>1, <1>4, <2>3
      <3> QED
        BY <2>2, <2>3, <3>1 DEF NodeSizes
    <2>4. CASE j = i
      BY <1>1, <2>2, <2>4
    <2>5. CASE j > i
      <3>1. j - 1 \in 1 .. Len(list) /\ new[j] = list[j - 1]
        BY <1>1, <1>4, <2>5
      <3> QED
        BY <2>2, <2>5, <3>1 DEF NodeSizes
    <2> QED
      BY <1>4, <2>3, <2>4, <2>5
  <1>. HIDE DEF f, h
  <1>6. q[Len(list) + 1] = p[Len(list)] + n.size
    <2>. DEFINE m == Len(list)
                e == n.size
    <2>1. m \in Nat /\ m + 1 = m + 1
      BY <1>4
    <2>2. PutIn(h, f, m, i, e)
      BY <1>4, <1>5 DEF PutIn
    <2>3. PartialSums(p, f, m)
      BY <1>2
    <2>4. PartialSums(q, h, m + 1)
      BY <1>3
    <2>. HIDE DEF m, e
    <2>5. q[m + 1] = p[m] + e
      BY <2>1, <2>2, <2>3, <2>4, PutInSum
    <2> QED
      BY <2>5 DEF m, e
  <1> QED
    BY <1>2, <1>3, <1>6 DEF new

\* A node is changed.
LEMMA BytesChanged ==
    ASSUME NEW list \in Seq(NodeType), NEW i \in 1 .. Len(list), NEW n \in NodeType
    PROVE  FreeBytes([list EXCEPT ![i] = n]) = FreeBytes(list) - list[i].size + n.size
  <1>. DEFINE new == [list EXCEPT ![i] = n]
              f == NodeSizes(list)
              h == NodeSizes(new)
  <1>1. /\ new \in Seq(NodeType) /\ Len(new) = Len(list)
        /\ \A j \in 1 .. Len(list) : new[j] = IF j = i THEN n ELSE list[j]
    BY NodeChanged
  <1>. HIDE DEF new
  <1>2. PICK p : PartialSums(p, f, Len(list)) /\ FreeBytes(list) = p[Len(list)]
    BY FreeBytesOf
  <1>3. PICK q : PartialSums(q, h, Len(list)) /\ FreeBytes(new) = q[Len(list)]
    BY <1>1, FreeBytesOf
  <1>4. Len(list) \in Nat /\ \A j \in 1 .. Len(list) : f[j] \in Int /\ f[j] = list[j].size
    BY NodesOf DEF NodeSizes
  <1>5. \A j \in 1 .. Len(list) : h[j] \in Int /\ h[j] = new[j].size
    BY <1>1, NodesOf DEF NodeSizes
  <1>6. \A j \in 1 .. Len(list) : j # i => h[j] = f[j]
    BY <1>1, <1>4, <1>5
  <1>7. f[i] = list[i].size /\ h[i] = n.size
    BY <1>1, <1>4, <1>5
  <1>. HIDE DEF f, h
  <1>8. \A j \in 1 .. Len(list) : f[j] \in Int /\ h[j] \in Int
    BY <1>4, <1>5
  <1>9. q[Len(list)] = p[Len(list)] - f[i] + h[i]
    <2>. DEFINE m == Len(list)
    <2>1. m \in Nat
      BY <1>4
    <2>2. ChangedAt(h, f, m, i)
      BY <1>6, <1>8 DEF ChangedAt
    <2>3. PartialSums(p, f, m)
      BY <1>2
    <2>4. PartialSums(q, h, m)
      BY <1>3
    <2>. HIDE DEF m
    <2>6. q[m] = p[m] - f[i] + h[i]
      BY <2>1, <2>2, <2>3, <2>4, ChangedInSum
    <2> QED
      BY <2>6 DEF m
  <1> QED
    BY <1>2, <1>3, <1>7, <1>9 DEF new

\* A node is taken out.
LEMMA BytesTakenOut ==
    ASSUME NEW list \in Seq(NodeType), NEW i \in 1 .. Len(list)
    PROVE  FreeBytes(RemoveAt(list, i)) = FreeBytes(list) - list[i].size
  <1>. DEFINE new == RemoveAt(list, i)
              f == NodeSizes(new)
              h == NodeSizes(list)
  <1>1. /\ new \in Seq(NodeType) /\ Len(new) = Len(list) - 1
        /\ \A j \in 1 .. (Len(list) - 1) : new[j] = IF j < i THEN list[j] ELSE list[j + 1]
    BY RemoveAtElements
  <1>. HIDE DEF new
  <1>2. PICK m \in Nat : Len(new) = m /\ Len(list) = m + 1
    BY <1>1, NodesOf
  <1>3. PICK p : PartialSums(p, f, m) /\ FreeBytes(new) = p[m] /\ FreeBytes(new) \in Int
    BY <1>1, <1>2, FreeBytesOf
  <1>4. PICK q : PartialSums(q, h, m + 1) /\ FreeBytes(list) = q[m + 1] /\ FreeBytes(list) \in Int
    BY <1>2, FreeBytesOf
  <1>5. /\ \A j \in 1 .. m : f[j] \in Int /\ f[j] = new[j].size
        /\ \A j \in 1 .. (m + 1) : h[j] \in Int /\ h[j] = list[j].size
    <2>1. \A j \in 1 .. m : new[j].size \in Nat
      BY <1>1, <1>2, NodesOf
    <2>2. \A j \in 1 .. (m + 1) : list[j].size \in Nat
      BY <1>2, NodesOf
    <2> QED
      BY <1>2, <2>1, <2>2 DEF NodeSizes
  <1>6. i \in 1 .. (m + 1) /\ h[i] \in Int
    BY <1>2, <1>5
  <1>7. ASSUME NEW j \in 1 .. (m + 1)
        PROVE  h[j] = IF j < i THEN f[j] ELSE IF j = i THEN h[i] ELSE f[j - 1]
    <2>1. CASE j < i
      <3>1. j \in 1 .. m
        BY <1>6, <2>1
      <3>2. new[j] = list[j]
        BY <1>1, <1>2, <2>1, <3>1
      <3> QED
        BY <1>5, <2>1, <3>1, <3>2
    <2>2. CASE j = i
      BY <2>2, <1>6
    <2>3. CASE j > i
      <3>1. j - 1 \in 1 .. m /\ ~(j - 1 < i) /\ (j - 1) + 1 = j
        BY <1>6, <2>3
      <3>2. new[j - 1] = list[j]
        BY <1>1, <1>2, <3>1
      <3>3. h[j] = f[j - 1]
        BY <1>5, <3>1, <3>2
      <3> QED
        BY <1>6, <2>3, <3>3
    <2> QED
      BY <1>6, <2>1, <2>2, <2>3
  <1>8. h[i] = list[i].size
    BY <1>5, <1>6
  <1>. HIDE DEF f, h
  <1>9. \A j \in 1 .. m : f[j] \in Int
    BY <1>5
  <1>10. q[m + 1] = p[m] + h[i]
    <2>. DEFINE e == h[i]
    <2>1. PutIn(h, f, m, i, e)
      BY <1>6, <1>7, <1>9 DEF PutIn
    <2>2. PartialSums(p, f, m)
      BY <1>3
    <2>3. PartialSums(q, h, m + 1)
      BY <1>4
    <2>. HIDE DEF e
    <2>5. q[m + 1] = p[m] + e
      BY <2>1, <2>2, <2>3, PutInSum
    <2> QED
      BY <2>5 DEF e
  <1> QED
    BY <1>3, <1>4, <1>6, <1>8, <1>10 DEF new
\* A node is enlarged.
Grown(list, i, k) == [list EXCEPT ![i].size = @ + k]

\* That adds to the bytes.
LEMMA BytesGrown ==
    ASSUME NEW list \in Seq(NodeType), NEW i \in 1 .. Len(list), NEW k \in Nat
    PROVE  /\ Grown(list, i, k) \in Seq(NodeType)
           /\ Len(Grown(list, i, k)) = Len(list)
           /\ \A j \in 1 .. Len(list) : j # i => Grown(list, i, k)[j] = list[j]
           /\ FreeBytes(Grown(list, i, k)) = FreeBytes(list) + k
  <1>. DEFINE n == Node(list[i].addr, list[i].size + k)
  <1>1. /\ list[i] \in NodeType /\ list[i].addr \in Nat /\ list[i].size \in Nat
        /\ list[i].size > 0
    BY NodesOf
  <1>2. list[i].size + k \in Nat \ {0}
    BY <1>1
  <1>3. n \in NodeType /\ n.size = list[i].size + k
    BY <1>1, <1>2, NodeMade
  <1>4. Grown(list, i, k) = [list EXCEPT ![i] = n]
    <2>1. [list[i] EXCEPT !.size = @ + k] = n
      BY <1>1, NodeGrows
    <2> QED
      BY <2>1 DEF Grown
  <1>. HIDE DEF n
  <1>5. FreeBytes([list EXCEPT ![i] = n]) = FreeBytes(list) - list[i].size + n.size
    BY <1>3, BytesChanged
  <1>6. FreeBytes(list) \in Int
    BY FreeBytesOf
  <1>7. FreeBytes(list) - list[i].size + n.size = FreeBytes(list) + k
    BY <1>1, <1>3, <1>6
  <1>8. /\ [list EXCEPT ![i] = n] \in Seq(NodeType)
        /\ Len([list EXCEPT ![i] = n]) = Len(list)
        /\ \A j \in 1 .. Len(list) : j # i => [list EXCEPT ![i] = n][j] = list[j]
    BY <1>3, NodeChanged
  <1> QED
    BY <1>4, <1>5, <1>7, <1>8

\* Joining two nodes neither makes nor loses a byte.
LEMMA BytesJoined ==
    ASSUME NEW list \in Seq(NodeType), NEW i \in 1 .. Len(list)
    PROVE  FreeBytes(JoinedBehind(list, i)) = FreeBytes(list)
  <1>1. CASE i < Len(list) /\ Before(list[i], list[i + 1])
    <2>. DEFINE k == list[i + 1].size
                grown == Grown(list, i, k)
    <2>1. i + 1 \in 1 .. Len(list) /\ i # i + 1
      BY <1>1, NodesOf
    <2>2. k \in Nat
      BY <2>1, NodesOf
    <2>3. JoinedBehind(list, i) = RemoveAt(grown, i + 1)
      BY <1>1 DEF JoinedBehind, Grown
    <2>4. /\ grown \in Seq(NodeType) /\ Len(grown) = Len(list)
          /\ \A j \in 1 .. Len(list) : j # i => grown[j] = list[j]
          /\ FreeBytes(grown) = FreeBytes(list) + k
      <3>. HIDE DEF k
      <3> QED
        BY <2>2, BytesGrown
    <2>5. grown[i + 1].size = k
      BY <2>1, <2>4
    <2>. HIDE DEF grown
    <2>6. FreeBytes(RemoveAt(grown, i + 1)) = FreeBytes(grown) - grown[i + 1].size
      BY <2>1, <2>4, BytesTakenOut
    <2>7. FreeBytes(list) \in Int
      BY FreeBytesOf
    <2>. HIDE DEF k
    <2>8. FreeBytes(JoinedBehind(list, i)) = FreeBytes(list) + k - k
      BY <2>2, <2>3, <2>4, <2>5, <2>6, <2>7
    <2> QED
      BY <2>2, <2>7, <2>8
  <1>2. CASE ~(i < Len(list) /\ Before(list[i], list[i + 1]))
    BY <1>2 DEF JoinedBehind
  <1> QED
    BY <1>1, <1>2

\* What is linked in adds its bytes.
LEMMA BytesLinked ==
    ASSUME NEW list \in Seq(NodeType), NEW f \in NodeType
    PROVE  FreeBytes(Linked(list, f)) = FreeBytes(list) + f.size
  <1>. DEFINE i == Stop(list, f)
  <1>1. i \in 1 .. (Len(list) + 1) /\ Len(list) \in Nat
    BY StopPlace, NodesOf
  <1>2. f.size \in Nat
    BY DEF NodeType
  <1>3. CASE i <= Len(list) /\ Before(list[i], f)
    <2>. DEFINE k == f.size
                grown == Grown(list, i, k)
    <2>1. Linked(list, f) = JoinedBehind(grown, i)
      BY <1>3 DEF Linked, Grown
    <2>2. i \in 1 .. Len(list) /\ k \in Nat
      BY <1>1, <1>2, <1>3
    <2>. HIDE DEF i, k
    <2>3. /\ grown \in Seq(NodeType) /\ Len(grown) = Len(list)
          /\ FreeBytes(grown) = FreeBytes(list) + k
      BY <2>2, BytesGrown
    <2>. HIDE DEF grown
    <2>4. FreeBytes(JoinedBehind(grown, i)) = FreeBytes(grown)
      BY <2>2, <2>3, BytesJoined
    <2> QED
      BY <2>1, <2>3, <2>4 DEF k
  <1>4. CASE ~(i <= Len(list) /\ Before(list[i], f))
    <2>. DEFINE new == InsertAt(list, i, f)
    <2>1. Linked(list, f) = JoinedBehind(new, i)
      BY <1>4 DEF Linked
    <2>. HIDE DEF i
    <2>2. new \in Seq(NodeType) /\ Len(new) = Len(list) + 1
      BY <1>1, InsertAtElements
    <2>3. FreeBytes(new) = FreeBytes(list) + f.size
      BY <1>1, BytesPutIn
    <2>. HIDE DEF new
    <2>4. i \in 1 .. Len(new)
      BY <1>1, <2>2
    <2>5. FreeBytes(JoinedBehind(new, i)) = FreeBytes(new)
      BY <2>2, <2>4, BytesJoined
    <2> QED
      BY <2>1, <2>3, <2>5
  <1> QED
    BY <1>3, <1>4

\* What is unlinked takes its bytes along.
LEMMA BytesUnlinked ==
    ASSUME NEW list \in Seq(NodeType), NEW i \in 1 .. Len(list),
           NEW size \in Nat \ {0}, list[i].size >= size
    PROVE  FreeBytes(Unlinked(list, i, size)) = FreeBytes(list) - Taken(list[i], size).size
  <1>. DEFINE n == list[i]
  <1>1. /\ n \in NodeType /\ n.addr \in Nat /\ n.size \in Nat /\ n.size > 0
    BY NodesOf
  <1>2. FreeBytes(list) \in Int
    BY FreeBytesOf
  <1>3. CASE Splits(n, size)
    <2>. DEFINE left == Left(n, size)
    <2>1. NodeSize \in Nat /\ Threshold \in Nat
      BY HeapAssumption
    <2>2. n.size - size \in Nat \ {0} /\ n.addr + size \in Nat
      BY <1>1, <1>3, <2>1 DEF Splits
    <2>3. left \in NodeType /\ left.size = n.size - size
      BY <2>2, NodeMade DEF Left
    <2>4. Unlinked(list, i, size) = [list EXCEPT ![i] = left]
      BY <1>3 DEF Unlinked
    <2>5. Taken(n, size).size = size
      BY <1>3, <1>1, NodeMade DEF Taken
    <2>. HIDE DEF left
    <2>6. FreeBytes([list EXCEPT ![i] = left]) = FreeBytes(list) - n.size + left.size
      BY <2>3, BytesChanged
    <2>7. FreeBytes(list) - n.size + left.size = FreeBytes(list) - size
      BY <1>1, <1>2, <2>3
    <2> QED
      BY <2>4, <2>5, <2>6, <2>7
  <1>4. CASE ~Splits(n, size)
    <2>1. Unlinked(list, i, size) = RemoveAt(list, i) /\ Taken(n, size) = n
      BY <1>4 DEF Unlinked, Taken
    <2>2. FreeBytes(RemoveAt(list, i)) = FreeBytes(list) - n.size
      BY BytesTakenOut
    <2> QED
      BY <2>1, <2>2
  <1> QED
    BY <1>3, <1>4

-----------------------------------------------------------------------------
(* No byte is lost                                                          *)

\* The byte at a is one of those added so far.
Given(a) == \E i \in 1 .. added : In(a, Regions[i])

\* What was added is free or allocated, nothing else is, and the count of the
\* available bytes is that of the free ones.
BytesInv == /\ \A a \in Nat : Given(a) <=> \/ Holds(heapFreeList, a)
                                           \/ \E b \in used : In(a, b)
            /\ available = FreeBytes(heapFreeList)

\* The initial state.
LEMMA BytesInit == HeapInit => BytesInv
  <1>1. SUFFICES ASSUME HeapInit PROVE BytesInv
    OBVIOUS
  <1>2. heapFreeList = <<>> /\ used = {} /\ added = 0 /\ Len(heapFreeList) = 0 /\ available = 0
    BY <1>1 DEF HeapInit
  <1>3. \A a \in Nat : ~Holds(heapFreeList, a) /\ ~Given(a)
    BY <1>2 DEF Holds, Given
  <1> QED
    BY <1>2, <1>3, NoBytes DEF BytesInv

\* NutHeapAdd.
LEMMA BytesAdd ==
    ASSUME HeapInv, BytesInv, Add
    PROVE  BytesInv'
  <1>. DEFINE r == Regions[added + 1]
  <1>0. /\ added \in 0 .. Len(Regions) /\ FreeList(heapFreeList)
        /\ heapFreeList \in Seq(NodeType)
        /\ added < Len(Regions) /\ added' = added + 1 /\ HeapFree(r) /\ used' = used
    BY DEF HeapInv, Add, FreeList
  <1>1. added + 1 \in DOMAIN Regions /\ r \in NodeType /\ added \in Nat
    BY <1>0, RegionsGiven
  <1>2. \A a \in Nat : In(a, r) => Waiting(a)
    BY <1>0, <1>1, RegionsGiven DEF Waiting
  <1>3. \A a \in Nat : Given(a)' <=> Given(a) \/ In(a, r)
    <2>1. \A a \in Nat : Given(a)' <=> \E i \in 1 .. (added + 1) : In(a, Regions[i])
      BY <1>0 DEF Given
    <2>2. 1 .. (added + 1) = (1 .. added) \cup {added + 1}
      BY <1>1
    <2> QED
      BY <2>1, <2>2 DEF Given
  <1>. HIDE DEF r
  <1>4. \A a \in Nat : ~(Holds(heapFreeList, a) /\ In(a, r))
    BY <1>2 DEF HeapInv, WaitingApart
  <1>5. /\ heapFreeList' = Linked(heapFreeList, r) /\ available' = available + r.size
        /\ \A a \in Nat : Holds(heapFreeList', a) <=> Holds(heapFreeList, a) \/ In(a, r)
    BY <1>0, <1>1, <1>4, LinkedJoins DEF HeapFree
  <1>6. available' = FreeBytes(heapFreeList')
    <2>1. FreeBytes(Linked(heapFreeList, r)) = FreeBytes(heapFreeList) + r.size
      BY <1>0, <1>1, BytesLinked
    <2> QED
      BY <1>5, <2>1 DEF BytesInv
  <1> QED
    BY <1>0, <1>3, <1>5, <1>6 DEF BytesInv

\* NutHeapFree.
LEMMA BytesReleased ==
    ASSUME HeapInv, BytesInv, NEW b \in used, Free(b)
    PROVE  BytesInv'
  <1>. DEFINE f == Node(b.addr, b.size)
  <1>0. /\ FreeList(heapFreeList) /\ heapFreeList \in Seq(NodeType) /\ b \in BlockType
        /\ HeapFree(f) /\ used' = used \ {b} /\ added' = added
    BY DEF HeapInv, Free, FreeList
  <1>1. f \in NodeType /\ \A a \in Nat : In(a, f) <=> In(a, b)
    BY <1>0, BlockNode
  <1>. HIDE DEF f
  <1>2. \A a \in Nat : ~(Holds(heapFreeList, a) /\ In(a, f))
    BY <1>1 DEF HeapInv, FreeApart
  <1>3. /\ heapFreeList' = Linked(heapFreeList, f) /\ available' = available + f.size
        /\ \A a \in Nat : Holds(heapFreeList', a) <=> Holds(heapFreeList, a) \/ In(a, b)
    BY <1>0, <1>1, <1>2, LinkedJoins DEF HeapFree
  <1>4. available' = FreeBytes(heapFreeList')
    <2>1. FreeBytes(Linked(heapFreeList, f)) = FreeBytes(heapFreeList) + f.size
      BY <1>0, <1>1, BytesLinked
    <2> QED
      BY <1>3, <2>1 DEF BytesInv
  <1>5. ASSUME NEW a \in Nat
        PROVE  Given(a)' <=> Holds(heapFreeList', a) \/ \E c \in used' : In(a, c)
    <2>1. Given(a)' <=> Given(a)
      BY <1>0 DEF Given
    <2>2. (\E c \in used : In(a, c)) <=> In(a, b) \/ \E c \in used' : In(a, c)
      BY <1>0
    <2> QED
      BY <1>3, <2>1, <2>2 DEF BytesInv
  <1> QED
    BY <1>4, <1>5 DEF BytesInv

\* NutHeapAlloc.
LEMMA BytesAlloc ==
    ASSUME HeapInv, BytesInv, NEW want \in Sizes, Alloc(want)
    PROVE  BytesInv'
  <1>1. PICK b \in BlockType :
          /\ used' = used \cup {b} /\ added' = added
          /\ \A a \in Nat : Holds(heapFreeList, a) <=> Holds(heapFreeList', a) \/ In(a, b)
    BY Allocated
  <1>2. ASSUME NEW a \in Nat
        PROVE  Given(a)' <=> Holds(heapFreeList', a) \/ \E c \in used' : In(a, c)
    <2>1. Given(a)' <=> Given(a)
      BY <1>1 DEF Given
    <2>2. (\E c \in used' : In(a, c)) <=> In(a, b) \/ \E c \in used : In(a, c)
      BY <1>1
    <2> QED
      BY <1>1, <2>1, <2>2 DEF BytesInv
  <1>3. available' = FreeBytes(heapFreeList')
    <2>. DEFINE size == Gross(want)
                i == BestFit(heapFreeList, size)
    <2>1. /\ heapFreeList \in Seq(NodeType) /\ Fits(heapFreeList, size) # {}
          /\ heapFreeList' = Unlinked(heapFreeList, i, size)
          /\ available' = available - Taken(heapFreeList[i], size).size
      BY DEF HeapInv, FreeList, Alloc
    <2>2. size \in Nat \ {0}
      <3>1. want \in Nat \ {0} /\ Overhead \in Nat \ {0} /\ NodeSize \in Nat \ {0}
        BY HeapAssumption
      <3> QED
        BY <3>1 DEF Gross
    <2>. HIDE DEF size
    <2>3. i \in Fits(heapFreeList, size)
      BY <2>1, BestFitFits
    <2>4. i \in 1 .. Len(heapFreeList) /\ heapFreeList[i].size >= size
      BY <2>1, <2>3, NodesOf DEF Fits
    <2>. HIDE DEF i
    <2>5. FreeBytes(Unlinked(heapFreeList, i, size)) =
            FreeBytes(heapFreeList) - Taken(heapFreeList[i], size).size
      BY <2>1, <2>2, <2>4, BytesUnlinked
    <2> QED
      BY <2>1, <2>5 DEF BytesInv
  <1> QED
    BY <1>2, <1>3 DEF BytesInv

\* Every step.
LEMMA BytesNext == HeapInv /\ BytesInv /\ [HeapNext]_heapVars => BytesInv'
  <1>1. SUFFICES ASSUME HeapInv, BytesInv, [HeapNext]_heapVars PROVE BytesInv'
    OBVIOUS
  <1>2. CASE Add
    BY <1>1, <1>2, BytesAdd
  <1>3. CASE \E want \in Sizes : Alloc(want)
    BY <1>1, <1>3, BytesAlloc
  <1>4. CASE \E b \in used : Free(b)
    BY <1>1, <1>4, BytesReleased
  <1>5. CASE UNCHANGED heapVars
    BY <1>1, <1>5 DEF heapVars, BytesInv, Given
  <1>6. CASE \E addr \in InFree, size \in Sizes : FreeAgain(addr, size)
    BY <1>1, <1>5, <1>6, ReleasedTwice
  <1> QED
    BY <1>1, <1>2, <1>3, <1>4, <1>5, <1>6 DEF HeapNext

\* A byte that was added is in one node, any other in none.
LEMMA InOneNode ==
    ASSUME HeapInv, BytesInv, NEW a \in Nat
    PROVE  Cardinality({n \in Nodes : a \in n.addr .. End(n) - 1}) = IF Given(a) THEN 1 ELSE 0
  <1>. DEFINE list == heapFreeList
              S == {n \in Nodes : a \in n.addr .. End(n) - 1}
  <1>1. /\ Len(list) \in Nat /\ DOMAIN list = 1 .. Len(list)
        /\ \A i \in 1 .. Len(list) : list[i] \in NodeType
        /\ \A i, j \in 1 .. Len(list) : i < j => End(list[i]) < list[j].addr
    BY NodesOf DEF HeapInv, FreeList, Ordered
  <1>2. \A b \in used : /\ Node(b.addr, b.size) \in NodeType
                        /\ In(a, Node(b.addr, b.size)) <=> In(a, b)
    BY BlockNode DEF HeapInv
  <1>3. \A n \in NodeType : a \in n.addr .. End(n) - 1 <=> In(a, n)
    BY NodeSpans DEF In
  <1>4. ASSUME NEW n \in S
        PROVE  \/ \E i \in 1 .. Len(list) : n = list[i] /\ In(a, list[i])
               \/ \E b \in used : n = Node(b.addr, b.size) /\ In(a, b)
    BY <1>1, <1>2, <1>3 DEF Nodes
  <1>5. CASE Holds(list, a)
    <2>1. PICK i \in 1 .. Len(list) : In(a, list[i])
      BY <1>5 DEF Holds
    <2>2. list[i] \in S
      BY <1>1, <1>3, <2>1 DEF Nodes
    <2>3. \A n \in S : n = list[i]
      <3>1. ASSUME NEW n \in S PROVE n = list[i]
        <4>1. ~\E b \in used : In(a, b)
          BY <1>5 DEF HeapInv, FreeApart
        <4>2. PICK j \in 1 .. Len(list) : n = list[j] /\ In(a, list[j])
          BY <1>4, <4>1
        <4>3. /\ End(list[i]) \in Nat /\ list[i].addr \in Nat
              /\ End(list[j]) \in Nat /\ list[j].addr \in Nat
          BY <1>1, NodeSpans
        <4>4. i = j
          BY <1>1, <2>1, <4>2, <4>3 DEF In
        <4> QED
          BY <4>2, <4>4
      <3> QED
        BY <3>1
    <2>4. S = {list[i]}
      BY <2>2, <2>3
    <2>5. Given(a)
      BY <1>5 DEF BytesInv
    <2>. HIDE DEF S
    <2>6. Cardinality(S) = 1
      BY <2>4, FS_Singleton
    <2> QED
      BY <2>5, <2>6 DEF S
  <1>6. CASE ~Holds(list, a) /\ \E b \in used : In(a, b)
    <2>1. PICK b \in used : In(a, b)
      BY <1>6
    <2>2. Node(b.addr, b.size) \in S
      BY <1>2, <1>3, <2>1 DEF Nodes
    <2>3. \A n \in S : n = Node(b.addr, b.size)
      BY <1>4, <1>6, <2>1 DEF Holds, HeapInv, UsedApart
    <2>4. S = {Node(b.addr, b.size)}
      BY <2>2, <2>3
    <2>5. Given(a)
      BY <1>6 DEF BytesInv
    <2>. HIDE DEF S
    <2>6. Cardinality(S) = 1
      BY <2>4, FS_Singleton
    <2> QED
      BY <2>5, <2>6 DEF S
  <1>7. CASE ~Holds(list, a) /\ ~\E b \in used : In(a, b)
    <2>1. S = {}
      BY <1>4, <1>7 DEF Holds
    <2>2. ~Given(a)
      BY <1>7 DEF BytesInv
    <2>. HIDE DEF S
    <2>3. Cardinality(S) = 0
      BY <2>1, FS_EmptySet
    <2> QED
      BY <2>2, <2>3 DEF S
  <1> QED
    BY <1>5, <1>6, <1>7

(***************************************************************************)
(* For any regions and requests: every byte given to NutHeapAdd is in      *)
(* exactly one node, free or allocated, and available counts those that    *)
(* are free, whatever is split, joined or released twice (os/heap.c).      *)
(***************************************************************************)
THEOREM HeapKeeps == HeapSpec => []NothingLost
  <1>1. HeapInv /\ BytesInv => NothingLost
    <2>1. SUFFICES ASSUME HeapInv, BytesInv PROVE NothingLost
      OBVIOUS
    <2>2. \A a \in Memory : a \in Nat
      <3>1. \A i \in DOMAIN Regions : Regions[i].addr \in Nat /\ End(Regions[i]) \in Nat
        BY RegionsGiven, NodeSpans
      <3> QED
        BY <3>1 DEF Memory
    <2>3. ASSUME NEW a \in Nat
          PROVE  Given(a) <=> \E i \in 1 .. added : a \in Regions[i].addr .. End(Regions[i]) - 1
      <3>1. 1 .. added \subseteq DOMAIN Regions
        BY <2>1, RegionsGiven DEF HeapInv
      <3>2. \A n \in NodeType : a \in n.addr .. End(n) - 1 <=> In(a, n)
        BY NodeSpans DEF In
      <3> QED
        BY <3>1, <3>2, RegionsGiven DEF Given
    <2>4. ASSUME NEW a \in Memory
          PROVE  Cardinality({n \in Nodes : a \in n.addr .. End(n) - 1}) =
                   IF \E i \in 1 .. added : a \in Regions[i].addr .. End(Regions[i]) - 1
                   THEN 1 ELSE 0
      BY <2>1, <2>2, <2>3, InOneNode
    <2>5. available = FoldSeq(LAMBDA n, sum : n.size + sum, 0, heapFreeList)
      BY <2>1 DEF BytesInv, FreeBytes
    <2> QED
      BY <2>4, <2>5 DEF NothingLost
  <1> QED
    BY <1>1, HeapBegins, HeapStep, BytesInit, BytesNext, PTL DEF HeapSpec

=============================================================================
