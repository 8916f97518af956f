------------------------------ MODULE NutTimer ------------------------------
(***************************************************************************)
(* The system timers of Nut/OS (os/timer.c): a list of timers in which     *)
(* each one holds the ticks between its predecessor's expiry and its own,  *)
(* a tick counter advanced by the timer interrupt, and                     *)
(* NutTimerProcessElapsed, which every NutThreadResume calls and which     *)
(* catches up with all ticks since the last call.                          *)
(*                                                                         *)
(* The interrupt comes between any two steps.  A callback runs inside the  *)
(* loop of ProcessElapsed and may itself stop or start timers.             *)
(***************************************************************************)
EXTENDS Integers, SequencesExt

CONSTANTS Timers,           \* identities of NUTTIMERINFO structures
          NoTimer,          \* the null pointer
          Ticks,            \* intervals a timer is started with
          TickModulus,      \* the tick counter wraps (2^32 in the code)
          MaxGap,           \* bound of the model: ticks without a Resume
          CallbacksStart    \* whether callbacks start timers (as msg.c does)

ASSUME TimerAssumption ==
    /\ NoTimer \notin Timers
    /\ Ticks \subseteq Nat \ {0}
    /\ TickModulus \in Nat /\ MaxGap \in 1 .. (TickModulus - 1)
    /\ CallbacksStart \in BOOLEAN

VARIABLES
    nut_ticks,         \* the tick counter
    nut_ticks_resume,  \* its value when ProcessElapsed last ran
    nutTimerList,
    tn_ticks_left,     \* ticks to go after the predecessor has expired
    tn_ticks,          \* the period, 0 for a one-shot or stopped timer
    tn_callback,       \* whether the callback is set
    ticks_new,         \* ticks the running ProcessElapsed still has to spend
    tn,                \* the timer it works on
    pc,                \* "idle" or the place in ProcessElapsed
    due,               \* history: real ticks until the timer should fire
    charged            \* history: timers started by a callback while ticks
                       \* of before their start were still to be spent

vars == <<nut_ticks, nut_ticks_resume, nutTimerList, tn_ticks_left, tn_ticks,
          tn_callback, ticks_new, tn, pc, due, charged>>

Listed == ToSet(nutTimerList)

\* NutGetTickCount() - nut_ticks_resume in the counter's width.
Gap == (nut_ticks - nut_ticks_resume) % TickModulus

Init ==
    /\ nut_ticks \in {0, TickModulus - 1}
    /\ nut_ticks_resume = nut_ticks
    /\ nutTimerList = <<>>
    /\ tn_ticks_left = [t \in Timers |-> 0]
    /\ tn_ticks = [t \in Timers |-> 0]
    /\ tn_callback = [t \in Timers |-> FALSE]
    /\ ticks_new = 0
    /\ tn = NoTimer
    /\ pc = "idle"
    /\ due = [t \in Timers |-> 0]
    /\ charged = {}

-----------------------------------------------------------------------------
\* Elapse(s, left)[i]: ticks until the i-th timer of s has expired.
Elapse(s, left) ==
    LET sum[i \in 0 .. Len(s)] == IF i = 0 THEN 0 ELSE sum[i - 1] + left[s[i]]
    IN  sum

\* Mutants: in front of the timers that expire at the same time ...
InsertPosition_BeforeEquals(s, left, ticks) ==
    CHOOSE i \in 1 .. (Len(s) + 1) :
        /\ \A j \in 1 .. (i - 1) : Elapse(s, left)[j] < ticks
        /\ i <= Len(s) => ticks <= Elapse(s, left)[i]

\* ... or always at the end.
InsertPosition_Append(s, left, ticks) == Len(s) + 1

\* The walk of NutTimerInsert: behind all timers that expire no later.
InsertPosition(s, left, ticks) ==
    CHOOSE i \in 1 .. (Len(s) + 1) :
        /\ \A j \in 1 .. (i - 1) : Elapse(s, left)[j] <= ticks
        /\ i <= Len(s) => ticks < Elapse(s, left)[i]

\* NutTimerInsert into list s: the timer keeps what is left behind its new
\* predecessor, and its successor counts from it.
Insert(s, left, t, ticks) ==
    LET i    == InsertPosition(s, left, ticks)
        own  == ticks - Elapse(s, left)[i - 1]
        mine == [left EXCEPT ![t] = own]
    IN  /\ nutTimerList' = InsertAt(s, i, t)
        /\ tn_ticks_left' = IF i <= Len(s) THEN [mine EXCEPT ![s[i]] = @ - own] ELSE mine

-----------------------------------------------------------------------------
\* NutTimerIntr.
Tick ==
    /\ Gap < MaxGap /\ Gap + ticks_new < MaxGap
    /\ nut_ticks' = (nut_ticks + 1) % TickModulus
    /\ due' = [t \in Timers |-> IF t \in Listed /\ tn_callback[t] THEN due[t] - 1 ELSE due[t]]
    /\ UNCHANGED <<nut_ticks_resume, nutTimerList, tn_ticks_left, tn_ticks,
                   tn_callback, ticks_new, tn, pc, charged>>

\* Mutant: the ticks since the last ProcessElapsed are not added.
StartLeft_NoGap(ticks) == ticks

\* NutTimerCreate and NutTimerInsert: the ticks that have come since the
\* last ProcessElapsed are added, the next one will subtract them.
StartLeft(ticks) == ticks + Gap

StartTicks(t, ticks, oneshot) ==
    /\ t \notin Listed
    /\ Insert(nutTimerList, tn_ticks_left, t, StartLeft(ticks))
    /\ tn_ticks' = [tn_ticks EXCEPT ![t] = IF oneshot THEN 0 ELSE ticks]
    /\ tn_callback' = [tn_callback EXCEPT ![t] = TRUE]
    /\ due' = [due EXCEPT ![t] = ticks]

\* NutTimerStop: the timer loses its callback and, unless it has expired,
\* its successor inherits its ticks and it is moved up to expire at once.
Disarm(t) ==
    /\ tn_ticks' = [tn_ticks EXCEPT ![t] = 0]
    /\ tn_callback' = [tn_callback EXCEPT ![t] = FALSE]

Position(t) == CHOOSE i \in DOMAIN nutTimerList : nutTimerList[i] = t

\* Mutant: the successor does not inherit the ticks of the stopped timer.
Unlinked_NoInherit(t) == tn_ticks_left

Unlinked(t) ==
    LET i == Position(t)
    IN  IF i < Len(nutTimerList)
        THEN [tn_ticks_left EXCEPT ![nutTimerList[i + 1]] = @ + tn_ticks_left[t]]
        ELSE tn_ticks_left

Stop(t) ==
    /\ t \in Listed
    /\ Disarm(t)
    /\ IF tn_ticks_left[t] > 0
       THEN Insert(RemoveAt(nutTimerList, Position(t)), Unlinked(t), t, 0)
       ELSE UNCHANGED <<nutTimerList, tn_ticks_left>>
    /\ due' = [due EXCEPT ![t] = 0]

\* A thread starts or stops a timer.
Start ==
    /\ pc = "idle"
    /\ \E t \in Timers, ticks \in Ticks, oneshot \in BOOLEAN :
           StartTicks(t, ticks, oneshot) /\ charged' = charged \ {t}
    /\ UNCHANGED <<nut_ticks, nut_ticks_resume, ticks_new, tn, pc>>

ThreadStop ==
    /\ pc = "idle"
    /\ \E t \in Timers : tn_callback[t] /\ Stop(t)
    /\ UNCHANGED <<nut_ticks, nut_ticks_resume, ticks_new, tn, pc, charged>>

-----------------------------------------------------------------------------
\* NutTimerProcessElapsed reads the clock ...
Process ==
    /\ pc = "idle"
    /\ ticks_new' = Gap
    /\ nut_ticks_resume' = nut_ticks
    /\ pc' = "loop"
    /\ UNCHANGED <<nut_ticks, nutTimerList, tn_ticks_left, tn_ticks, tn_callback, tn, due, charged>>

\* Mutant: a periodic timer that expires is put in again, and its callback
\* left to the next time round.
Spend_PeriodicFirst ==
    /\ pc = "loop"
    /\ IF nutTimerList = <<>> \/ ticks_new = 0
       THEN pc' = "idle" /\ ticks_new' = 0 /\ tn' = NoTimer /\ UNCHANGED tn_ticks_left
       ELSE /\ tn' = Head(nutTimerList)
            /\ IF ticks_new < tn_ticks_left[tn']
               THEN /\ tn_ticks_left' = [tn_ticks_left EXCEPT ![tn'] = @ - ticks_new]
                    /\ ticks_new' = 0
                    /\ UNCHANGED pc
               ELSE /\ ticks_new' = ticks_new - tn_ticks_left[tn']
                    /\ tn_ticks_left' = [tn_ticks_left EXCEPT ![tn'] = 0]
                    /\ pc' = IF tn_callback[tn'] /\ tn_ticks[tn'] = 0
                             THEN "callback" ELSE "remove"
    /\ UNCHANGED <<nut_ticks, nut_ticks_resume, nutTimerList, tn_ticks, tn_callback, due,
                   charged>>

\* ... and spends the ticks on the timers, first to last.
Spend ==
    /\ pc = "loop"
    /\ IF nutTimerList = <<>> \/ ticks_new = 0
       THEN pc' = "idle" /\ ticks_new' = 0 /\ tn' = NoTimer /\ UNCHANGED tn_ticks_left
       ELSE /\ tn' = Head(nutTimerList)
            /\ IF ticks_new < tn_ticks_left[tn']
               THEN /\ tn_ticks_left' = [tn_ticks_left EXCEPT ![tn'] = @ - ticks_new]
                    /\ ticks_new' = 0
                    /\ UNCHANGED pc
               ELSE /\ ticks_new' = ticks_new - tn_ticks_left[tn']
                    /\ tn_ticks_left' = [tn_ticks_left EXCEPT ![tn'] = 0]
                    /\ pc' = IF tn_callback[tn'] THEN "callback" ELSE "remove"
    /\ UNCHANGED <<nut_ticks, nut_ticks_resume, nutTimerList, tn_ticks, tn_callback, due,
                   charged>>

\* What a callback does to the timers while its own is still on top.
CallbackStop ==
    /\ pc = "callback"
    /\ \E t \in Timers : tn_callback[t] /\ Stop(t)
    /\ UNCHANGED <<nut_ticks, nut_ticks_resume, ticks_new, tn, pc, charged>>

CallbackStart ==
    /\ CallbacksStart
    /\ pc = "callback"
    /\ \E t \in Timers, ticks \in Ticks :
           /\ StartTicks(t, ticks, TRUE)
           /\ charged' = IF ticks_new > 0 THEN charged \cup {t} ELSE charged \ {t}
    /\ UNCHANGED <<nut_ticks, nut_ticks_resume, ticks_new, tn, pc>>

CallbackReturns ==
    /\ pc = "callback"
    /\ pc' = "remove"
    /\ UNCHANGED <<nut_ticks, nut_ticks_resume, nutTimerList, tn_ticks_left,
                   tn_ticks, tn_callback, ticks_new, tn, due, charged>>

\* The timer on top of the list is taken off; tn is freed or, periodic, put
\* in again with its full period from the moment it was due.
RemoveTop ==
    /\ pc = "remove"
    /\ IF tn_ticks[tn] = 0
       THEN /\ nutTimerList' = Tail(nutTimerList)
            /\ tn_ticks_left' = [tn_ticks_left EXCEPT ![tn] = 0]
            /\ tn_callback' = [tn_callback EXCEPT ![tn] = FALSE]
            /\ due' = [due EXCEPT ![tn] = 0]
       ELSE /\ Insert(Tail(nutTimerList), tn_ticks_left, tn, tn_ticks[tn])
            /\ due' = [due EXCEPT ![tn] = @ + tn_ticks[tn]]
            /\ UNCHANGED tn_callback
    /\ pc' = "loop"
    /\ UNCHANGED <<nut_ticks, nut_ticks_resume, tn_ticks, ticks_new, tn, charged>>

Next ==
    \/ Tick
    \/ Start \/ ThreadStop
    \/ Process \/ Spend \/ CallbackStop \/ CallbackStart \/ CallbackReturns \/ RemoveTop

Spec == Init /\ [][Next]_vars

-----------------------------------------------------------------------------
TypeOK ==
    /\ nut_ticks \in 0 .. (TickModulus - 1)
    /\ nut_ticks_resume \in 0 .. (TickModulus - 1)
    /\ nutTimerList \in Seq(Timers)
    /\ tn_ticks_left \in [Timers -> Nat]
    /\ tn_ticks \in [Timers -> Ticks \cup {0}]
    /\ tn_callback \in [Timers -> BOOLEAN]
    /\ ticks_new \in 0 .. (TickModulus - 1)
    /\ tn \in Timers \cup {NoTimer}
    /\ pc \in {"idle", "loop", "callback", "remove"}
    /\ due \in [Timers -> Int]
    /\ charged \subseteq Timers

Fires(t) == pc = "loop" /\ pc' = "callback" /\ t = tn'

\* The deltas add up: what the list says about a timer, less the ticks that
\* have come but are not yet spent, is the time that is really left, across
\* starts and stops in between, catching up and wrapping of the counter.
\* Timers that a callback starts in the middle of catching up are left out.
DeltasAddUp ==
    \A i \in DOMAIN nutTimerList :
        LET t == nutTimerList[i]
        IN  tn_callback[t] /\ t \notin charged /\ ~(i = 1 /\ pc \in {"callback", "remove"}) =>
                Elapse(nutTimerList, tn_ticks_left)[i] = due[t] + Gap + ticks_new

\* A timer is linked once, and the timer whose callback has run is still on
\* top of the list when ProcessElapsed takes the top off and frees the timer
\* it worked on, whatever the callback has stopped or started.
ListIntact ==
    /\ IsInjective(nutTimerList)
    /\ pc \in {"callback", "remove"} => nutTimerList # <<>> /\ Head(nutTimerList) = tn

\* "The timer counts for a specified number of ticks, then calls the callback
\* routine" (os/timer.c): no timer fires before its ticks have passed.
NeverEarly == [][\A t \in Timers : Fires(t) => due[t] <= 0]_vars

\* The same for the timers that threads start, and that callbacks start when
\* no ticks are left to be spent: catching up, starts and stops of others
\* and wrapping of the counter never make them early.
OthersNeverEarly == [][\A t \in Timers \ charged : Fires(t) => due[t] <= 0]_vars

\* However many ticks ProcessElapsed has to catch up with, the timers fire in
\* the order in which they were due (but for those in charged).
FiresInOrder ==
    [][\A t \in Timers \ charged : Fires(t) =>
          \A u \in Listed : u \notin charged /\ tn_callback[u] => due[t] <= due[u]]_vars

\* The interrupt keeps ticking, and threads keep calling NutThreadResume.
FairSpec ==
    /\ Spec
    /\ WF_vars(Tick) /\ WF_vars(Process)
    /\ WF_vars(Spend) /\ WF_vars(CallbackReturns) /\ WF_vars(RemoveTop)

\* A timer that is started fires or is stopped, also when callbacks keep
\* starting and stopping timers and the counter wraps.
EventuallyFires ==
    \A t \in Timers :
        (t \in Listed /\ tn_callback[t]) ~>
            (~tn_callback[t] \/ (pc = "callback" /\ tn = t))

=============================================================================
