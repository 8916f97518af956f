----------------------------- MODULE NutKernel ------------------------------
(***************************************************************************)
(* The Nut/OS scheduler and its event queues: os/thread.c, os/event.c and  *)
(* the thread switch of arch/avr/os/context_gcc.c.                         *)
(*                                                                         *)
(* One CPU runs one thread at a time, cooperatively: a thread is switched  *)
(* out only at the end of NutThreadResume, by NutThreadSetPriority and by  *)
(* NutThreadCreate.  Interrupt handlers preempt the running thread         *)
(* everywhere outside the critical sections, so every kernel call is cut   *)
(* into one step per critical section and PostFromIrq may come between     *)
(* any two of them.  pc[t] is the place of t in the call it is making,     *)
(* "app" being outside the kernel, and reg holds the locals of the one     *)
(* call that is in progress.                                               *)
(***************************************************************************)
EXTENDS NutQueue, FiniteSets

CONSTANTS Idle,        \* the idle thread, which only yields
          Main,        \* the thread NutIdle creates
          Queues,      \* event queue roots (HANDLEs of drivers and applications)
          RunQ,        \* stands for &runQueue in td_queue
          NoOne,       \* the null pointer
          Levels,      \* priorities an application thread may ask for
          HeapMayFail, \* whether NutHeapAlloc may return 0 to NutTimerCreate
          MaxPec       \* bound of the model on td_qpec

DefaultPriority == 64
IdlePriority == 254
Apps == Threads \ {Idle}

ASSUME KernelAssumption ==
    /\ Idle \in Threads /\ Main \in Threads /\ Idle # Main
    /\ NoOne \notin Threads /\ NoOne \notin Queues
    /\ RunQ \notin Queues /\ RunQ # NoOne
    /\ Queues # {}
    /\ Levels \subseteq 0 .. (IdlePriority - 1) /\ DefaultPriority \in Levels
    /\ HeapMayFail \in BOOLEAN
    /\ MaxPec \in Nat \ {0}

VARIABLES
    runningThread,   \* the thread that has the CPU
    runQueue,        \* threads ready to run, the running one included
    root,            \* root[q]: the event queue of handle q
    nutThreadList,   \* all living threads, latest first
    killedThread,    \* the last thread that died and whose stack is not freed
    td_qpec,         \* pending events posted by interrupts
    td_queue,        \* the queue a thread was last put into
    td_timer,        \* the timeout of a thread, see Timers
    td_state,
    td_priority,
    pc,
    reg

tcb == <<td_qpec, td_queue, td_timer, td_state, td_priority>>
lists == <<runQueue, root, nutThreadList, killedThread>>
vars == <<runningThread, lists, tcb, pc, reg>>

\* td_timer: no timer, one with NutEventTimeout or NutThreadWake as its
\* callback, or SIGNALED, the mark of a wait that timed out.
Timers == {"none", "event", "wake", "timedout"}
States == {"RUNNING", "READY", "SLEEP"}
Points == {"app", "wait", "clear", "enter", "link", "yield", "post", "pop",
           "ready", "bcast", "scan", "take", "elapsed", "ret", "retwait",
           "destroy", "dead"}

Live == ToSet(nutThreadList)
Members(s) == ToSet(s) \ {SIGNALED}

\* The locals: the queue, the timeout asked for, the thread a critical
\* section has read, where a post returns to, where Resume returns to, and
\* the cursor of Resume in nutThreadList.
NoRegs == [q |-> NoOne, ms |-> FALSE, td |-> NoOne, ret |-> "app",
           after |-> "ret", cur |-> 0]

Regs == [q : Queues \cup {NoOne}, ms : BOOLEAN, td : Threads \cup {NoOne},
         ret : {"app", "yield", "bcast", "bcastasync", "scan"},
         after : {"ret", "retwait", "destroy"}, cur : Nat]

\* After NutIdle has created the main thread and lowered itself to 254.
Init ==
    /\ runningThread = Main
    /\ runQueue = <<Main, Idle>>
    /\ root = [q \in Queues |-> <<>>]
    /\ nutThreadList = <<Main, Idle>>
    /\ killedThread = NoOne
    /\ td_qpec = [t \in Threads |-> 0]
    /\ td_queue = [t \in Threads |-> IF t \in {Main, Idle} THEN RunQ ELSE NoOne]
    /\ td_timer = [t \in Threads |-> "none"]
    /\ td_state = [t \in Threads |-> IF t = Main THEN "RUNNING" ELSE "READY"]
    /\ td_priority = [t \in Threads |-> IF t = Idle THEN IdlePriority ELSE DefaultPriority]
    /\ pc = [t \in Threads |-> IF t \in {Main, Idle} THEN "app" ELSE "dead"]
    /\ reg = NoRegs

-----------------------------------------------------------------------------
(***************************************************************************)
(* Helpers.  Goto moves the running thread's program counter.              *)
(***************************************************************************)
self == runningThread
At(p) == pc[self] = p
Goto(p) == pc' = [pc EXCEPT ![self] = p]

\* An application thread outside the kernel may make any call.
Free == self \in Apps /\ At("app")

\* NutThreadResume starts its scan of nutThreadList.
Resume(after) ==
    /\ Goto("scan")
    /\ reg' = [NoRegs EXCEPT !.cur = 1, !.after = after]

\* NutEventPostAsync is over: a post is followed by a yield or by nothing,
\* a broadcast looks for more waiters, the scan of Resume goes on.
PostDone ==
    CASE reg.ret = "app" -> Goto("app") /\ reg' = NoRegs
      [] reg.ret = "yield" -> Goto("yield") /\ reg' = NoRegs
      [] reg.ret = "scan" ->
            Goto("scan") /\ reg' = [NoRegs EXCEPT !.cur = reg.cur + 1, !.after = reg.after]
      [] OTHER -> Goto("bcast") /\ reg' = [reg EXCEPT !.td = NoOne]

\* NutThreadSwitch: the thread on top of the run queue gets the CPU.
SwitchTo(rq) == runningThread' = Head(rq)

-----------------------------------------------------------------------------
(***************************************************************************)
(* Interrupts: the macro NutEventPostFromIrq.                              *)
(***************************************************************************)
PostFromIrq(q) ==
    /\ CASE root[q] = <<>> ->
              root' = [root EXCEPT ![q] = <<SIGNALED>>] /\ UNCHANGED td_qpec
         [] HasThreads(root[q]) ->
              /\ td_qpec[Head(root[q])] < MaxPec
              /\ td_qpec' = [td_qpec EXCEPT ![Head(root[q])] = @ + 1]
              /\ UNCHANGED root
         [] OTHER -> UNCHANGED <<root, td_qpec>>
    /\ UNCHANGED <<runningThread, runQueue, nutThreadList, killedThread,
                   td_queue, td_timer, td_state, td_priority, pc, reg>>

-----------------------------------------------------------------------------
(***************************************************************************)
(* NutEventWait and NutEventWaitNext.                                      *)
(***************************************************************************)
EventWait(q, ms) ==
    /\ Free
    /\ Goto("wait")
    /\ reg' = [NoRegs EXCEPT !.q = q, !.ms = ms, !.after = "retwait"]
    /\ UNCHANGED <<runningThread, lists, tcb>>

\* WaitNext forgets an event that was latched before the call.
EventWaitNext(q, ms) ==
    /\ Free
    /\ Goto("wait")
    /\ reg' = [NoRegs EXCEPT !.q = q, !.ms = ms, !.after = "retwait"]
    /\ root' = [root EXCEPT ![q] = IF IsSignaled(@) THEN <<>> ELSE @]
    /\ UNCHANGED <<runningThread, runQueue, nutThreadList, killedThread, tcb>>

\* Reading the root decides whether the caller has to wait.
WaitRead ==
    /\ At("wait")
    /\ Goto(IF IsSignaled(root[reg.q]) THEN "clear" ELSE "enter")
    /\ UNCHANGED <<runningThread, lists, tcb, reg>>

WaitClear ==
    /\ At("clear")
    /\ root' = [root EXCEPT ![reg.q] = <<>>]
    /\ Goto("yield")
    /\ reg' = NoRegs
    /\ UNCHANGED <<runningThread, runQueue, nutThreadList, killedThread, tcb>>

\* The end of NutEventWait before NutThreadResume: sleep, with a timer if a
\* timeout was asked for and the heap has room for it.
FallAsleep ==
    /\ td_state' = [td_state EXCEPT ![self] = "SLEEP"]
    /\ \E tm \in (IF reg.ms THEN {"event"} ELSE {"none"})
                 \cup (IF HeapMayFail THEN {"none"} ELSE {}) :
           td_timer' = [td_timer EXCEPT ![self] = tm]
    /\ Resume("retwait")

\* NutThreadRemoveQueue from the run queue, then the first critical section
\* of NutThreadAddPriQueue: an empty or signaled root is taken at once.
WaitEnter ==
    /\ At("enter")
    /\ runQueue' = Without(runQueue, self)
    /\ td_queue' = [td_queue EXCEPT ![self] = reg.q]
    /\ LET pec == DropPec(td_qpec, runQueue, self)
       IN  IF HasThreads(root[reg.q])
           THEN /\ LET s == root[reg.q]
                       i == PriPosition(s, self, td_priority)
                   IN  reg' = [reg EXCEPT !.td = IF i <= Len(s) THEN s[i] ELSE NoOne]
                /\ td_qpec' = [pec EXCEPT ![self] = 0]
                /\ Goto("link")
                /\ UNCHANGED <<root, td_state, td_timer>>
           ELSE /\ root' = [root EXCEPT ![reg.q] = AddPri(@, self, td_priority)]
                /\ td_qpec' = AddPec(pec, root[reg.q], self, td_priority)
                /\ FallAsleep
    /\ UNCHANGED <<runningThread, nutThreadList, killedThread, td_priority>>

\* Mutant: the events stay with the thread the caller comes in front of.
WaitLink_NoTakeover ==
    /\ At("link")
    /\ LET s == root[reg.q]
           i == IF reg.td = NoOne THEN Len(s) + 1 ELSE Position(s, reg.td)
       IN  root' = [root EXCEPT ![reg.q] = InsertAt(s, i, self)]
    /\ FallAsleep
    /\ UNCHANGED <<runningThread, runQueue, nutThreadList, killedThread,
                   td_qpec, td_queue, td_priority>>

\* The second critical section of NutThreadAddPriQueue, behind the walk: the
\* caller is linked in front of reg.td and takes over its pending events.
WaitLink ==
    /\ At("link")
    /\ LET s == root[reg.q]
           i == IF reg.td = NoOne THEN Len(s) + 1 ELSE Position(s, reg.td)
       IN  /\ root' = [root EXCEPT ![reg.q] = InsertAt(s, i, self)]
           /\ td_qpec' = IF reg.td = NoOne THEN td_qpec
                         ELSE [td_qpec EXCEPT ![self] = @ + td_qpec[reg.td],
                                              ![reg.td] = 0]
    /\ FallAsleep
    /\ UNCHANGED <<runningThread, runQueue, nutThreadList, killedThread,
                   td_queue, td_priority>>

-----------------------------------------------------------------------------
(***************************************************************************)
(* NutEventPost(Async) and NutEventBroadcast(Async).                       *)
(***************************************************************************)
EventPost(q, async) ==
    /\ Free
    /\ Goto("post")
    /\ reg' = [NoRegs EXCEPT !.q = q, !.ret = IF async THEN "app" ELSE "yield"]
    /\ UNCHANGED <<runningThread, lists, tcb>>

\* A broadcast clears a signaled queue and otherwise posts until it reads an
\* empty or a signaled root.
EventBroadcast(q, async) ==
    /\ Free
    /\ IF HasThreads(root[q])
       THEN /\ Goto("post")
            /\ reg' = [NoRegs EXCEPT !.q = q,
                                     !.ret = IF async THEN "bcastasync" ELSE "bcast"]
       ELSE /\ Goto(IF async THEN "app" ELSE "yield")
            /\ reg' = NoRegs
    /\ root' = [root EXCEPT ![q] = IF IsSignaled(@) THEN <<>> ELSE @]
    /\ UNCHANGED <<runningThread, runQueue, nutThreadList, killedThread, tcb>>

BroadcastNext ==
    /\ At("bcast")
    /\ IF HasThreads(root[reg.q])
       THEN Goto("post") /\ UNCHANGED reg
       ELSE /\ Goto(IF reg.ret = "bcastasync" THEN "app" ELSE "yield")
            /\ reg' = NoRegs
    /\ UNCHANGED <<runningThread, lists, tcb>>

\* First critical section of NutEventPostAsync: read the root.
PostRead ==
    /\ At("post")
    /\ IF IsSignaled(root[reg.q])
       THEN PostDone
       ELSE /\ Goto("pop")
            /\ reg' = [reg EXCEPT !.td = IF root[reg.q] = <<>> THEN NoOne
                                         ELSE Head(root[reg.q])]
    /\ UNCHANGED <<runningThread, lists, tcb>>

\* Second critical section: unlink the thread that was read, handing its
\* pending events on, or mark the queue signaled.
PostPop ==
    /\ At("pop")
    /\ IF reg.td = NoOne
       THEN /\ root' = [root EXCEPT ![reg.q] = <<SIGNALED>>]
            /\ UNCHANGED td_qpec
            /\ PostDone
       ELSE /\ root' = [root EXCEPT ![reg.q] = DropLatch(@, reg.td, td_qpec)]
            /\ td_qpec' = DropPec(td_qpec, root[reg.q], reg.td)
            /\ Goto("ready") /\ UNCHANGED reg
    /\ UNCHANGED <<runningThread, runQueue, nutThreadList, killedThread,
                   td_queue, td_timer, td_state, td_priority>>

\* Put t into the run queue (td_state = TDS_READY; NutThreadAddPriQueue).
MakeReady(t) ==
    /\ runQueue' = AddPri(runQueue, t, td_priority)
    /\ td_qpec' = AddPec(td_qpec, runQueue, t, td_priority)
    /\ td_queue' = [td_queue EXCEPT ![t] = RunQ]
    /\ td_state' = [td_state EXCEPT ![t] = "READY"]

\* Mutant: the timeout goes on although the event has come.
StopTimer_Forgotten(t) == td_timer

\* NutTimerStop on the timeout of a wait that is over.
StopTimer(t) == [td_timer EXCEPT ![t] = "none"]

PostReady ==
    /\ At("ready")
    /\ MakeReady(reg.td)
    /\ td_timer' = StopTimer(reg.td)
    /\ PostDone
    /\ UNCHANGED <<runningThread, root, nutThreadList, killedThread, td_priority>>

-----------------------------------------------------------------------------
(***************************************************************************)
(* NutThreadYield and NutThreadResume.                                     *)
(***************************************************************************)
\* Mutant: behind all threads, whatever their priority.
Requeue_AtEnd ==
    /\ runQueue' = Append(Without(runQueue, self), self)
    /\ UNCHANGED <<td_qpec, td_queue>>

Requeue ==
    IF HasSuccessor(runQueue, self)
    THEN LET s == Without(runQueue, self)
         IN  /\ runQueue' = AddPri(s, self, td_priority)
             /\ td_qpec' = AddPec(DropPec(td_qpec, runQueue, self), s, self, td_priority)
             /\ td_queue' = [td_queue EXCEPT ![self] = RunQ]
    ELSE UNCHANGED <<runQueue, td_qpec, td_queue>>

\* Called by a thread, by NutEventPost, NutEventBroadcast and NutEventWait;
\* the idle thread's loop goes on to NutThreadDestroy.
Yield ==
    /\ At("yield") \/ At("app")
    /\ Requeue
    /\ Resume(IF self = Idle THEN "destroy" ELSE "ret")
    /\ UNCHANGED <<runningThread, root, nutThreadList, killedThread,
                   td_timer, td_state, td_priority>>

\* The scan of all threads for events posted by interrupts.
Scan ==
    /\ At("scan")
    /\ IF reg.cur > Len(nutThreadList) THEN Goto("elapsed") /\ UNCHANGED reg
       ELSE IF td_qpec[nutThreadList[reg.cur]] = 0
       THEN reg' = [reg EXCEPT !.cur = @ + 1] /\ UNCHANGED pc
       ELSE Goto("take") /\ UNCHANGED reg
    /\ UNCHANGED <<runningThread, lists, tcb>>

\* Mutant: the event is taken off the counter and not posted.
ScanTake_NotPosted ==
    /\ At("take")
    /\ td_qpec' = [td_qpec EXCEPT ![nutThreadList[reg.cur]] = @ - 1]
    /\ Goto("scan") /\ reg' = [reg EXCEPT !.cur = @ + 1]
    /\ UNCHANGED <<runningThread, lists, td_queue, td_timer, td_state, td_priority>>

\* One pending event is taken off the counter and posted to the queue.
ScanTake ==
    /\ At("take")
    /\ LET td == nutThreadList[reg.cur]
           q  == td_queue[td]
       IN  /\ td_qpec' = [td_qpec EXCEPT ![td] = @ - 1]
           /\ IF IsSignaled(IF q = RunQ THEN runQueue ELSE root[q])
              THEN Goto("scan") /\ reg' = [reg EXCEPT !.cur = @ + 1]
              ELSE Goto("post") /\ reg' = [reg EXCEPT !.q = q, !.ret = "scan"]
    /\ UNCHANGED <<runningThread, lists, td_queue, td_timer, td_state, td_priority>>

\* NutTimerProcessElapsed: any timer may have elapsed meanwhile (module
\* NutTimer has the clock); its callback is NutEventTimeout, which does
\* nothing unless it finds the thread in the queue ...
EventTimeout(t) ==
    /\ At("elapsed")
    /\ td_timer[t] = "event"
    /\ LET q   == td_queue[t]
           pec == DropPec(td_qpec, root[q], t)
       IN  /\ Contains(root[q], t)
           /\ root' = [root EXCEPT ![q] = DropLatch(@, t, td_qpec)]
           /\ runQueue' = AddPri(runQueue, t, td_priority)
           /\ td_qpec' = AddPec(pec, runQueue, t, td_priority)
    /\ td_queue' = [td_queue EXCEPT ![t] = RunQ]
    /\ td_state' = [td_state EXCEPT ![t] = "READY"]
    /\ td_timer' = [td_timer EXCEPT ![t] = "timedout"]
    /\ UNCHANGED <<runningThread, nutThreadList, killedThread, td_priority, pc, reg>>

\* ... or NutThreadWake.
ThreadWake(t) ==
    /\ At("elapsed")
    /\ td_timer[t] = "wake"
    /\ MakeReady(t)
    /\ td_timer' = [td_timer EXCEPT ![t] = "none"]
    /\ UNCHANGED <<runningThread, root, nutThreadList, killedThread, td_priority, pc, reg>>

\* The end of NutThreadResume: switch unless the caller is still on top.
Dispatch ==
    /\ At("elapsed")
    /\ Goto(reg.after)
    /\ reg' = NoRegs
    /\ SwitchTo(runQueue)
    /\ IF self = Head(runQueue) THEN UNCHANGED td_state
       ELSE td_state' = [td_state EXCEPT
                ![self] = IF @ = "RUNNING" THEN "READY" ELSE @,
                ![Head(runQueue)] = "RUNNING"]
    /\ UNCHANGED <<lists, td_qpec, td_queue, td_timer, td_priority>>

\* Back in the caller of Resume; a wait reports -1 iff it was timed out.
Return ==
    /\ At("ret") \/ At("retwait")
    /\ Goto("app")
    /\ td_timer' = IF At("retwait") /\ td_timer[self] = "timedout"
                   THEN [td_timer EXCEPT ![self] = "none"] ELSE td_timer
    /\ UNCHANGED <<runningThread, lists, td_qpec, td_queue, td_state, td_priority, reg>>

-----------------------------------------------------------------------------
(***************************************************************************)
(* NutSleep, NutThreadSetPriority, NutThreadExit, NutThreadCreate.         *)
(***************************************************************************)
Sleep ==
    /\ Free
    /\ runQueue' = Without(runQueue, self)
    /\ td_qpec' = DropPec(td_qpec, runQueue, self)
    /\ td_queue' = [td_queue EXCEPT ![self] = NoOne]
    /\ td_timer' = [td_timer EXCEPT ![self] = "wake"]
    /\ td_state' = [td_state EXCEPT ![self] = "SLEEP"]
    /\ Resume("ret")
    /\ UNCHANGED <<runningThread, root, nutThreadList, killedThread, td_priority>>

\* No room for the timer: the caller is put back on top of the run queue.
SleepFails ==
    /\ HeapMayFail
    /\ Free
    /\ runQueue' = <<self>> \o Without(runQueue, self)
    /\ td_qpec' = DropPec(td_qpec, runQueue, self)
    /\ td_queue' = [td_queue EXCEPT ![self] = RunQ]
    /\ td_timer' = [td_timer EXCEPT ![self] = "none"]
    /\ td_state' = [td_state EXCEPT ![self] = "RUNNING"]
    /\ UNCHANGED <<runningThread, root, nutThreadList, killedThread, td_priority, pc, reg>>

SetPriority(level) ==
    /\ Free
    /\ td_priority' = [td_priority EXCEPT ![self] = level]
    /\ LET s == Without(runQueue, self)
       IN  /\ runQueue' = AddPri(s, self, td_priority')
           /\ td_qpec' = AddPec(DropPec(td_qpec, runQueue, self), s, self, td_priority')
    /\ td_queue' = [td_queue EXCEPT ![self] = RunQ]
    /\ td_state' = IF self = Head(runQueue')
                   THEN [td_state EXCEPT ![self] = "RUNNING"]
                   ELSE [td_state EXCEPT ![self] = "READY", ![Head(runQueue')] = "RUNNING"]
    /\ SwitchTo(runQueue')
    /\ UNCHANGED <<root, nutThreadList, killedThread, td_timer, pc, reg>>

\* NutThreadExit is SetPriority(255): NutThreadKill frees the stack of the
\* thread killed before, and the caller's stack waits for the idle thread.
Exit ==
    /\ Free
    /\ runQueue' = Without(runQueue, self)
    /\ td_qpec' = DropPec(td_qpec, runQueue, self)
    /\ td_queue' = [td_queue EXCEPT ![self] = NoOne]
    /\ td_priority' = [td_priority EXCEPT ![self] = 255]
    /\ nutThreadList' = Without(nutThreadList, self)
    /\ killedThread' = self
    /\ td_state' = [td_state EXCEPT ![self] = "READY", ![Head(runQueue')] = "RUNNING"]
    /\ SwitchTo(runQueue')
    /\ Goto("dead")
    /\ UNCHANGED <<root, td_timer, reg>>

IdleDestroy ==
    /\ At("destroy")
    /\ killedThread' = NoOne
    /\ Goto("app")
    /\ UNCHANGED <<runningThread, runQueue, root, nutThreadList, tcb, reg>>

\* NutThreadCreate: the new structure lies in heap memory no thread uses.
Create(t) ==
    /\ Free
    /\ t \in Threads \ (Live \cup {killedThread})
    /\ nutThreadList' = <<t>> \o nutThreadList
    /\ td_priority' = [td_priority EXCEPT ![t] = DefaultPriority]
    /\ td_timer' = [td_timer EXCEPT ![t] = "none"]
    /\ runQueue' = AddPri(runQueue, t, td_priority')
    /\ td_qpec' = AddPec(td_qpec, runQueue, t, td_priority')
    /\ td_queue' = [td_queue EXCEPT ![t] = RunQ]
    /\ pc' = [pc EXCEPT ![t] = "app"]
    /\ LET ready == [td_state EXCEPT ![t] = "READY"]
       IN  td_state' = IF self = Head(runQueue') THEN ready
                       ELSE [ready EXCEPT ![self] = "READY", ![Head(runQueue')] = "RUNNING"]
    /\ SwitchTo(runQueue')
    /\ UNCHANGED <<root, killedThread, reg>>

-----------------------------------------------------------------------------
\* What the running thread does next: the code's only nondeterminism is the
\* choice of the call and of the timers that have elapsed.
Call ==
    \/ \E q \in Queues, ms \in BOOLEAN : EventWait(q, ms) \/ EventWaitNext(q, ms)
    \/ \E q \in Queues, async \in BOOLEAN : EventPost(q, async) \/ EventBroadcast(q, async)
    \/ Sleep \/ SleepFails
    \/ \E level \in Levels : SetPriority(level)
    \/ Exit
    \/ \E t \in Threads : Create(t)

Kernel ==
    \/ WaitRead \/ WaitClear \/ WaitEnter \/ WaitLink
    \/ BroadcastNext \/ PostRead \/ PostPop \/ PostReady
    \/ Yield \/ Scan \/ ScanTake \/ Dispatch \/ Return \/ IdleDestroy

Elapse == \E t \in Threads : EventTimeout(t) \/ ThreadWake(t)

Irq == \E q \in Queues : PostFromIrq(q)

Next == Call \/ Kernel \/ Elapse \/ Irq

Spec == Init /\ [][Next]_vars

-----------------------------------------------------------------------------
(***************************************************************************)
(* Properties.                                                             *)
(***************************************************************************)
TypeOK ==
    /\ runningThread \in Threads
    /\ runQueue \in Seq(Threads)
    /\ root \in [Queues -> Seq(Threads \cup {SIGNALED})]
    /\ nutThreadList \in Seq(Threads)
    /\ killedThread \in Threads \cup {NoOne}
    /\ td_qpec \in [Threads -> Nat]
    /\ td_queue \in [Threads -> Queues \cup {RunQ, NoOne}]
    /\ td_timer \in [Threads -> Timers]
    /\ td_state \in [Threads -> States]
    /\ td_priority \in [Threads -> 0 .. 255]
    /\ pc \in [Threads -> Points]
    /\ reg \in Regs

\* A thread between two queues: the caller of NutEventWait while it looks
\* for its place, or the thread a post has unlinked and not yet made ready.
Transit == (IF At("link") THEN {self} ELSE {}) \cup (IF At("ready") THEN {reg.td} ELSE {})

Occurrences(s, t) == Cardinality({i \in DOMAIN s : s[i] = t})

\* A link holds the mark SIGNALED only as the root of a queue: whatever
\* order posts, timeouts and interrupts come in, the mark never ends up in a
\* td_qnxt nor hides waiting threads.
RootsWellFormed ==
    \A q \in Queues : IsSignaled(root[q]) \/ root[q] \in Seq(Threads)

\* No thread is ever lost or queued twice: a living thread is in exactly one
\* place of exactly one queue, unless it sleeps on a timer or is being moved;
\* a dead thread is in none, so no queue points into freed memory.
ThreadsInOnePlace ==
    \A t \in Threads :
        LET inq == {q \in Queues : Contains(root[q], t)}
            away == t \notin Live \/ t \in Transit \/ td_timer[t] = "wake"
        IN  /\ \A q \in Queues : Occurrences(root[q], t) <= 1
            /\ Occurrences(runQueue, t) + Cardinality(inq) = IF away THEN 0 ELSE 1

\* Events that interrupts have posted are counted in the first thread of the
\* queue they were posted to, and that thread's td_queue is that queue:
\* NutThreadResume finds them only there.
PendingOnHead ==
    \A t \in Threads : td_qpec[t] > 0 =>
        /\ t \in Live
        /\ td_queue[t] \in Queues
        /\ HasThreads(root[td_queue[t]])
        /\ Head(root[td_queue[t]]) = t

\* A timeout that is armed belongs to a thread that still waits, so a timer
\* never fires for, or is stopped on behalf of, a thread that went on; the
\* mark of a timeout is only held by a thread that has not seen it yet.
TimeoutsBelongToWaiters ==
    \A t \in Threads :
        /\ td_timer[t] = "event" =>
              /\ td_state[t] = "SLEEP"
              /\ t \in Transit \/ Contains(root[td_queue[t]], t)
        /\ td_timer[t] = "timedout" =>
              /\ td_state[t] # "SLEEP"
              /\ pc[t] = "retwait" \/ (t = self /\ At("elapsed") /\ reg.after = "retwait")

\* Waiting threads are ordered by priority.
EventQueuesOrdered ==
    \A q \in Queues : \A i, j \in DOMAIN root[q] :
        (i < j /\ ~IsSignaled(root[q])) =>
            td_priority[root[q][i]] <= td_priority[root[q][j]]

\* "Priority ordered linked list ... of all threads which are ready to run"
\* (os/thread.c, runQueue).
RunQueueOrdered ==
    \A i, j \in DOMAIN runQueue :
        i < j => td_priority[runQueue[i]] <= td_priority[runQueue[j]]

\* "The idle thread will always remain at the end of this list" (os/thread.c,
\* runQueue): the CPU always has a thread to switch to.
IdleLast == runQueue # <<>> /\ Last(runQueue) = Idle

\* All queues that the kernel takes the first thread of are in their order,
\* across priority changes, yields, timeouts and exits: whoever is first is
\* the one that should go on.
QueuesOrdered == EventQueuesOrdered /\ RunQueueOrdered /\ IdleLast

\* Whenever NutThreadResume is over, the CPU is with a thread of the highest
\* priority among those ready to run, as long as the heap does not fail: a
\* failed NutSleep leaves its caller on top of the run queue out of order, and
\* a thread made ready next goes in front of it, past those of higher priority.
DispatchesHighest ==
    [][ (At("elapsed") /\ pc'[self] # "elapsed") =>
           \A t \in Live : Contains(runQueue, t)
                             => td_priority[runningThread'] <= td_priority[t] ]_vars

\* "If the current thread's priority is lower or equal than the default
\* priority (64), then the current thread is stopped and the new one is
\* started" (arch/avr/os/context_gcc.c).
CreatePreempts ==
    [][ \A t \in Threads :
           (t \notin Live /\ t \in ToSet(nutThreadList')
              /\ td_priority[self] >= DefaultPriority) => runningThread' = t ]_vars

\* "The queue will be cleared in any case, even if it is in signaled state"
\* (os/event.c, NutEventBroadcast): when the broadcast has woken the last
\* waiting thread, no event is left behind for a later NutEventWait.
BroadcastClears ==
    [][ \A q \in Queues :
           (At("pop") /\ reg.q = q /\ reg.ret \in {"bcast", "bcastasync"})
             => ~IsSignaled(root'[q]) ]_vars

-----------------------------------------------------------------------------
(***************************************************************************)
(* What the event queues promise: module NutEvents.                        *)
(***************************************************************************)
SumPec(S) == FoldFunctionOnSet(+, 0, td_qpec, S)

\* The event that NutThreadResume has taken off a counter and not delivered.
InFlight(q) == IF reg.ret = "scan" /\ reg.q = q /\ (At("post") \/ At("pop")) THEN 1 ELSE 0

Events == INSTANCE NutEvents WITH
    waiting  <- [q \in Queues |-> Members(root[q])],
    events   <- [q \in Queues |-> IF IsSignaled(root[q]) THEN 1
                                  ELSE SumPec(Members(root[q])) + InFlight(q)],
    timedout <- {t \in Threads : td_timer[t] = "timedout"},
    priority <- td_priority

\* Every step of the kernel and of an interrupt handler is one of the steps
\* of the abstract event queues or changes nothing they show.
ImplementsEvents == Events!Spec

-----------------------------------------------------------------------------
(***************************************************************************)
(* Progress.  The kernel code runs on (WF), and a thread that has the CPU  *)
(* gives it up again and again (SF): Nut/OS is cooperative and demands it. *)
(***************************************************************************)
FairSpec == Spec /\ WF_vars(Kernel) /\ SF_vars(Yield)

\* Who is to run: a thread that an event is pending for, and one that has not
\* the CPU, waits in no queue and sleeps on no timer.
Entitled(t) ==
    /\ t \in Live /\ td_timer[t] # "wake"
    /\ \/ td_qpec[t] > 0
       \/ t # runningThread /\ \A q \in Queues : ~Contains(root[q], t)

\* Among threads of one priority, whoever is to run gets back into its own code:
\* an event that an interrupt has posted is not lost between its counter and the
\* queue, where an interrupt may come in between (NutThreadResume), the thread it
\* wakes is not lost between the queues, nor is the caller of a NutSleep that fails.
EntitledRuns == \A t \in Apps : Entitled(t) ~> (runningThread = t /\ pc[t] = "app")

=============================================================================
