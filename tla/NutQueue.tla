------------------------------ MODULE NutQueue ------------------------------
(***************************************************************************)
(* The linked lists of Nut/OS threads as pure operators: what              *)
(* NutThreadAddPriQueue and NutThreadRemoveQueue (os/thread.c) do to a     *)
(* queue and to the pending event counters td_qpec of its threads.         *)
(*                                                                         *)
(* The root of a queue is a sequence: <<>> is the null pointer, a sequence *)
(* of threads is the chain through td_qnxt, and <<SIGNALED>> is the root   *)
(* holding the value SIGNALED ((void * ) -1) instead of a thread.          *)
(***************************************************************************)
EXTENDS Integers, SequencesExt

CONSTANTS Threads,     \* identities of the NUTTHREADINFO structures
          SIGNALED     \* the root of an event queue that latched an event

ASSUME SignaledIsNoThread == SIGNALED \notin Threads

\* A root that holds no thread pointer but the mark.
IsSignaled(s) == s = <<SIGNALED>>

\* A root that holds threads.
HasThreads(s) == s # <<>> /\ ~IsSignaled(s)

Position(s, t) == CHOOSE i \in DOMAIN s : s[i] = t

HasSuccessor(s, t) == Contains(s, t) /\ Position(s, t) < Len(s)

Successor(s, t) == s[Position(s, t) + 1]

\* Mutant: the walk stops in front of the last thread.
Without_SkipsLast(s, t) ==
    IF Contains(s, t) /\ Position(s, t) < Len(s) THEN RemoveAt(s, Position(s, t)) ELSE s

Without(s, t) == IF Contains(s, t) THEN RemoveAt(s, Position(s, t)) ELSE s

\* Mutant: a thread is always put in at the end.
PriPosition_Append(s, t, pri) == Len(s) + 1

\* The first place whose thread has a larger priority value than t's: the
\* walk of AddPriQueue passes every thread with td_priority <= t's.
PriPosition(s, t, pri) ==
    CHOOSE i \in 1 .. (Len(s) + 1) :
        /\ \A j \in 1 .. (i - 1) : pri[s[j]] <= pri[t]
        /\ i <= Len(s) => pri[s[i]] > pri[t]

\* NutThreadAddPriQueue: the queue, a signaled root counting as empty ...
AddPri(s, t, pri) ==
    IF IsSignaled(s) THEN <<t>> ELSE InsertAt(s, PriPosition(s, t, pri), t)

\* ... and the counters: t starts clean, inherits the latched event of a
\* signaled root, and takes over what its new successor had pending.
AddPec(pec, s, t, pri) ==
    IF IsSignaled(s) THEN [pec EXCEPT ![t] = 1]
    ELSE LET i == PriPosition(s, t, pri)
         IN  IF i <= Len(s) /\ s[i] # t
             THEN [pec EXCEPT ![t] = pec[s[i]], ![s[i]] = 0]
             ELSE [pec EXCEPT ![t] = 0]

\* The counters after t is unlinked from s: t's pending events move on to
\* the next thread of the queue.
DropPec(pec, s, t) ==
    IF pec[t] > 0 /\ HasSuccessor(s, t)
    THEN [pec EXCEPT ![Successor(s, t)] = pec[t], ![t] = 0]
    ELSE [pec EXCEPT ![t] = 0]

\* Mutants: pending events are latched although somebody inherits them ...
DropLatch_Always(s, t, pec) ==
    IF pec[t] > 0 THEN Append(Without(s, t), SIGNALED) ELSE Without(s, t)

\* ... or are lost with the last thread.
DropLatch_Lost(s, t, pec) == Without(s, t)

\* The root after t is unlinked by a post or a timeout: if nobody is left
\* behind t to inherit its pending events, they are latched in the link.
DropLatch(s, t, pec) ==
    IF pec[t] > 0 /\ ~HasSuccessor(s, t)
    THEN Append(Without(s, t), SIGNALED)
    ELSE Without(s, t)

=============================================================================
