----------------------------- MODULE NutEvents ------------------------------
(***************************************************************************)
(* What the event queues of Nut/OS promise to drivers and applications,    *)
(* read off os/event.c and include/sys/event.h without the lists, the      *)
(* critical sections and the scheduler.                                    *)
(*                                                                         *)
(* A queue has a set of waiting threads and a number of undelivered        *)
(* events.  An event wakes the waiting thread with the highest priority.   *)
(* Events are never lost while somebody waits; when nobody does, they are  *)
(* remembered as one.                                                      *)
(***************************************************************************)
EXTENDS Integers

CONSTANTS Threads, Queues

VARIABLES waiting,   \* waiting[q]: the threads that wait for an event
          events,    \* events[q]: events posted and not delivered
          timedout,  \* threads to which a wait will report a timeout
          priority

evars == <<waiting, events, timedout, priority>>

\* The events that are left when the threads in W remain: at most one is
\* latched once nobody waits.
Keep(n, W) == IF W = {} /\ n > 1 THEN 1 ELSE n

Foremost(q) == {t \in waiting[q] : \A u \in waiting[q] : priority[t] <= priority[u]}

Leaves(q, t, n) ==
    LET W == waiting[q] \ {t}
    IN  /\ waiting' = [waiting EXCEPT ![q] = W]
        /\ events' = [events EXCEPT ![q] = Keep(n, W)]

Init ==
    /\ waiting = [q \in Queues |-> {}]
    /\ events = [q \in Queues |-> 0]
    /\ timedout = {}
    /\ priority \in [Threads -> 0 .. 255]

\* An event arrives.
Arrive(q) ==
    /\ events' = [events EXCEPT ![q] = Keep(@ + 1, waiting[q])]
    /\ UNCHANGED <<waiting, timedout, priority>>

\* A thread consumes the latched event without waiting, or it is discarded
\* by NutEventWaitNext or by a broadcast.
Consume(q) ==
    /\ waiting[q] = {}
    /\ events' = [events EXCEPT ![q] = 0]
    /\ UNCHANGED <<waiting, timedout, priority>>

\* A thread starts to wait.
Join(q, t) ==
    /\ \A p \in Queues : t \notin waiting[p]
    /\ t \notin timedout
    /\ waiting' = [waiting EXCEPT ![q] = @ \cup {t}]
    /\ UNCHANGED <<events, timedout, priority>>

\* An undelivered event wakes a thread.
Wake(q, t) ==
    /\ t \in Foremost(q)
    /\ events[q] > 0
    /\ Leaves(q, t, events[q] - 1)
    /\ UNCHANGED <<timedout, priority>>

\* A thread's post wakes a waiting thread at once.
Hand(q, t) ==
    /\ t \in Foremost(q)
    /\ Leaves(q, t, events[q])
    /\ UNCHANGED <<timedout, priority>>

\* A wait ends without having consumed an event.
Timeout(q, t) ==
    /\ t \in waiting[q]
    /\ Leaves(q, t, events[q])
    /\ timedout' = timedout \cup {t}
    /\ UNCHANGED priority

Report(t) ==
    /\ t \in timedout
    /\ timedout' = timedout \ {t}
    /\ UNCHANGED <<waiting, events, priority>>

\* A thread's priority does not change while it waits.
Reprioritize(t) ==
    /\ \A q \in Queues : t \notin waiting[q]
    /\ \E p \in 0 .. 255 : priority' = [priority EXCEPT ![t] = p]
    /\ UNCHANGED <<waiting, events, timedout>>

Next ==
    \/ \E q \in Queues : Arrive(q) \/ Consume(q)
    \/ \E q \in Queues, t \in Threads :
           Join(q, t) \/ Wake(q, t) \/ Hand(q, t) \/ Timeout(q, t)
    \/ \E t \in Threads : Report(t) \/ Reprioritize(t)

Spec == Init /\ [][Next]_evars

=============================================================================
