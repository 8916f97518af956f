----------------------------- MODULE NutWaiters -----------------------------
(***************************************************************************)
(* The event queue in which threads wait for a mutex (os/mutex.c) or for a *)
(* semaphore (os/semaphore.c).                                             *)
(*                                                                         *)
(* Threads are scheduled cooperatively, so a call runs without             *)
(* interruption between the places where it waits or yields; these pieces  *)
(* are the actions.  The event queue is used as NutEvents promises it:     *)
(* NutEventPost wakes one of the waiting threads or latches the event, and *)
(* NutEventWaitNext discards a latched event and waits.  Which waiting     *)
(* thread is woken, and which ready thread runs next, is left open.        *)
(***************************************************************************)
EXTENDS Integers, FiniteSets

CONSTANTS Threads    \* the threads that use the mutex or semaphore

VARIABLES
    waiting,   \* threads waiting in the event queue
    signaled,  \* the event queue holds a latched event
    pc         \* "app", "waiting", or "woken": back from waiting

\* NutEventWaitNext.
WaitNext(t) ==
    /\ signaled' = FALSE
    /\ waiting' = waiting \cup {t}
    /\ pc' = [pc EXCEPT ![t] = "waiting"]

\* Mutant: an event is latched although somebody waits.
Post_Latches == signaled' = TRUE /\ UNCHANGED <<waiting, pc>>

\* NutEventPost.
Post ==
    IF waiting = {}
    THEN signaled' = TRUE /\ UNCHANGED <<waiting, pc>>
    ELSE /\ \E w \in waiting : waiting' = waiting \ {w} /\ pc' = [pc EXCEPT ![w] = "woken"]
         /\ UNCHANGED signaled

=============================================================================
