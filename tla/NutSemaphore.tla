---------------------------- MODULE NutSemaphore ----------------------------
(***************************************************************************)
(* The counting semaphore of Nut/OS (os/semaphore.c) on top of one event   *)
(* queue.  The value is decremented before a thread waits, so a negative   *)
(* value should count the waiting threads, and no check is made when a     *)
(* thread comes back from waiting.                                         *)
(***************************************************************************)
EXTENDS NutWaiters

CONSTANTS InitialValue,  \* the argument of NutSemInit
          MaxValue       \* bound of the model on the value

ASSUME SemaphoreAssumption ==
    /\ IsFiniteSet(Threads)
    /\ InitialValue \in Nat /\ MaxValue \in Nat

VARIABLES
    value,
    taken,     \* history: waits that got a unit minus posts
    trying     \* history: the threads whose last call was NutSemTryWait

semVars == <<value, waiting, signaled, pc, taken, trying>>

SemInit ==
    /\ value = InitialValue
    /\ waiting = {}
    /\ signaled = FALSE
    /\ pc = [t \in Threads |-> "app"]
    /\ taken = 0
    /\ trying = {}

\* Mutant: the last unit is not given away.
NoUnit_LastUnit(v) == v <= 0

NoUnit(v) == v < 0

\* NutSemWait: a thread that finds no unit waits for an event.
Take(t) ==
    /\ pc[t] = "app"
    /\ value' = value - 1
    /\ IF NoUnit(value')
       THEN WaitNext(t) /\ UNCHANGED taken
       ELSE /\ taken' = taken + 1
            /\ UNCHANGED <<waiting, signaled, pc>>

SemWait(t) == Take(t) /\ trying' = trying \ {t}

\* NutSemTryWait calls NutSemWait unless it returns -1 at once.
SemTryWait(t) ==
    /\ value >= 0
    /\ Take(t)
    /\ trying' = trying \cup {t}

\* Back from waiting, the thread has its unit.
Woken(t) ==
    /\ pc[t] = "woken"
    /\ pc' = [pc EXCEPT ![t] = "app"]
    /\ taken' = taken + 1
    /\ UNCHANGED <<value, waiting, signaled, trying>>

\* Mutant: a post for the last waiting thread is not passed on.
SomebodyWaits_OffByOne(v) == v < 0

SomebodyWaits(v) == v <= 0

\* NutSemPost: posts an event if the value says that somebody waits.
SemPost(t) ==
    /\ pc[t] = "app" /\ value < MaxValue
    /\ value' = value + 1
    /\ taken' = taken - 1
    /\ IF SomebodyWaits(value') THEN Post ELSE UNCHANGED <<waiting, signaled, pc>>
    /\ UNCHANGED trying

SemNext == \E t \in Threads : SemWait(t) \/ Woken(t) \/ SemPost(t) \/ SemTryWait(t)

SemSpec == SemInit /\ [][SemNext]_semVars

-----------------------------------------------------------------------------
SemTypeOK ==
    /\ value \in Int
    /\ waiting \subseteq Threads
    /\ signaled \in BOOLEAN
    /\ pc \in [Threads -> {"app", "waiting", "woken"}]
    /\ taken \in Int
    /\ trying \subseteq Threads

WokenThreads == {t \in Threads : pc[t] = "woken"}

\* A negative value is the number of waiting threads, and nobody waits while
\* units are left.
ValueCountsWaiters ==
    Cardinality(waiting) = IF value < 0 THEN 0 - value ELSE 0

\* A post finds the thread that its value promises: no event is ever latched
\* in the queue, where NutEventWaitNext would throw it away.
NoLatchedEvent == ~signaled

\* Never more threads have passed, or are on their way out, than units were
\* there to take; every unit not taken is in the value.
UnitsConserved ==
    taken + Cardinality(WokenThreads) + (IF value > 0 THEN value ELSE 0) = InitialValue

PcMatches == \A t \in Threads : t \in waiting <=> pc[t] = "waiting"

SemInv == SemTypeOK /\ PcMatches /\ ValueCountsWaiters /\ NoLatchedEvent

\* "Attempt to lock a semaphore without blocking" (os/semaphore.c,
\* NutSemTryWait).
TryWaitNeverBlocks == waiting \cap trying = {}

=============================================================================
