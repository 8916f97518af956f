------------------------------ MODULE NutMutex ------------------------------
(***************************************************************************)
(* The recursive mutex of Nut/OS (os/mutex.c) on top of one event queue.   *)
(* A thread that is woken looks at the count again (pc "woken").           *)
(***************************************************************************)
EXTENDS NutWaiters

CONSTANTS NoOne,        \* the null pointer
          Disciplined,  \* whether threads unlock only what they have locked
          CountModulus, \* width of mutex->count (2^16: u_short)
          MaxDepth      \* bound of the model on nested locks of one thread

ASSUME MutexAssumption ==
    /\ NoOne \notin Threads
    /\ Disciplined \in BOOLEAN
    /\ CountModulus \in Nat /\ MaxDepth \in Nat /\ 0 < MaxDepth /\ MaxDepth < CountModulus

VARIABLES
    thread,    \* the thread that last locked the mutex; unlock keeps it
    count,     \* nesting depth
    holds      \* history: locks minus successful unlocks of each thread

vars == <<thread, count, waiting, signaled, pc, holds>>

Init ==
    /\ thread = NoOne
    /\ count = 0
    /\ waiting = {}
    /\ signaled = FALSE
    /\ pc = [t \in Threads |-> "app"]
    /\ holds = [t \in Threads |-> 0]

Deeper == (count + 1) % CountModulus

\* The end of NutMutexLock.
Acquire(t) ==
    /\ thread' = t
    /\ count' = Deeper
    /\ holds' = [holds EXCEPT ![t] = @ + 1]
    /\ pc' = [pc EXCEPT ![t] = "app"]
    /\ UNCHANGED <<waiting, signaled>>

\* Mutant: only the nested lock makes the others wait.
MustWait_OffByOne(t) == count > 1

MustWait(t) == count # 0

\* NutMutexLock up to its first wait: the thread that locked last does not
\* look at the count.
Lock(t) ==
    /\ pc[t] = "app" /\ holds[t] < MaxDepth
    /\ IF thread # t /\ MustWait(t)
       THEN WaitNext(t) /\ UNCHANGED <<thread, count, holds>>
       ELSE Acquire(t)

\* Woken up, the loop of NutMutexLock looks at the count again.
Relock(t) ==
    /\ pc[t] = "woken"
    /\ IF MustWait(t)
       THEN WaitNext(t) /\ UNCHANGED <<thread, count, holds>>
       ELSE Acquire(t)

\* NutMutexTrylock when it does not return -1.
Trylock(t) ==
    /\ pc[t] = "app" /\ holds[t] < MaxDepth
    /\ count = 0 \/ thread = t
    /\ Acquire(t)

\* NutMutexUnlock when it returns 0; it returns -1 and changes nothing if
\* another thread was the last to lock.
Unlock(t) ==
    /\ pc[t] = "app" /\ (Disciplined => holds[t] > 0)
    /\ thread = t
    /\ count' = (count - 1) % CountModulus
    /\ holds' = [holds EXCEPT ![t] = IF @ > 0 THEN @ - 1 ELSE 0]
    /\ IF count' = 0 THEN Post ELSE UNCHANGED <<waiting, signaled, pc>>
    /\ UNCHANGED thread

Next == \E t \in Threads : Lock(t) \/ Relock(t) \/ Trylock(t) \/ Unlock(t)

Spec == Init /\ [][Next]_vars

-----------------------------------------------------------------------------
TypeOK ==
    /\ thread \in Threads \cup {NoOne}
    /\ count \in 0 .. (CountModulus - 1)
    /\ waiting \subseteq Threads
    /\ signaled \in BOOLEAN
    /\ pc \in [Threads -> {"app", "waiting", "woken"}]
    /\ holds \in [Threads -> Nat]

\* At most one thread is between a lock and the matching unlock, although
\* the owner field is never cleared, the owner skips the wait, and a third
\* thread may lock between an unlock and the run of the thread it woke.
MutualExclusion == \A t, u \in Threads : holds[t] > 0 /\ holds[u] > 0 => t = u

\* A free mutex with waiting threads has already woken one of them: no
\* sequence of locks, unlocks and overtaking leaves everybody waiting.
NoLostWakeup == count = 0 /\ waiting # {} => \E t \in Threads : pc[t] = "woken"

\* What makes both inductive: the count is the nesting depth of the owner,
\* and nobody else holds anything.
CountIsDepth ==
    /\ \A t \in Threads : holds[t] > 0 => thread = t /\ count = holds[t]
    /\ count > 0 => thread \in Threads /\ holds[thread] = count

WaitersHoldNothing ==
    \A t \in Threads : /\ t \in waiting <=> pc[t] = "waiting"
                       /\ pc[t] # "app" => holds[t] = 0

DepthBounded == \A t \in Threads : holds[t] <= MaxDepth

MutexInv ==
    TypeOK /\ CountIsDepth /\ WaitersHoldNothing /\ DepthBounded /\ NoLostWakeup

\* "Return zero, if successful, otherwise the current thread does not hold a
\* lock on mutex" (os/mutex.c, NutMutexUnlock).
UnlockNeedsLock == [][\A t \in Threads : Unlock(t) => holds[t] > 0]_vars

=============================================================================
