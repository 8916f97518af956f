# A verification project for the Internet radio and its operating system

The repository holds the exercises of a course in embedded C (`src/Week 1` to
`src/Week 4`) and, in `src/proftaak voorbeeldt/nut`, the program of the course's
project: an Internet radio with alarm clock on an ATmega128 board, together with
the real-time operating system it is linked with, Nut/OS.  This directory models
what of that program can go wrong in ways a test would hardly show, checks the
models with TLC on small instances and proves the most important results for all
instances with TLAPS.

Paths below are relative to `src/proftaak voorbeeldt/nut`.

## 1. Inventory

| Component | State it keeps | Operations | What is hard |
|---|---|---|---|
| Scheduler and event queues: `os/thread.c`, `os/event.c`, `include/sys/event.h`, `arch/avr/os/context_gcc.c`, `arch/avr/os/nutinit.c` | `runQueue`, `nutThreadList`, `killedThread`; one root per event queue; per thread state, priority, timer, queue and the number of events interrupts have posted (`td_qpec`) | `NutThreadCreate/Exit/Yield/SetPriority/Resume/Wake`, `NutSleep`, `NutEventWait(Next)`, `NutEventPost(Async)`, `NutEventBroadcast(Async)`, `NutEventTimeout`, `NutEventPostFromIrq` | interrupts between any two critical sections; the mark `SIGNALED` and thread pointers share one link; pending events move along when threads enter and leave; timeouts race events; the heap may refuse a timer |
| Timers: `os/timer.c` | a list of timers in deltas, a tick counter that wraps | start, stop, interrupt, `NutTimerProcessElapsed` | ticks are caught up in bunches; callbacks stop and start timers in the middle of the loop |
| Mutex: `os/mutex.c` | owner, count, an event queue | lock, trylock, unlock | the owner is never cleared, nested locks, a third thread overtakes the one that was woken |
| Semaphore: `os/semaphore.c` | value, an event queue | wait, try-wait, post | decrement before the wait, nothing checked after it |
| Message queues: `os/msg.c` | a ring, read and write positions, an event queue; timers that post messages | post, send, broadcast, get, flush, start and stop a timer | one latched event stands for many messages; timeouts; two receivers; timers freed after expiry |
| Segmented buffer: `os/bankmem.c` | two pointers, two segments, a count, an empty flag, the enabled segment | reset, request and commit on both ends | shared by a thread and an interrupt handler that switch the enabled segment under each other |
| Stream player: `source/StreamWork.c`, `source/vs10xx.c`, `source/audioLib.c` | place in the loop, `stopAlarm`, decoder status, interrupt mask | `PlayMp3Stream`, `VsPlayerKick/Feed/Stop`, `stopStream` | the handler runs while the thread reads into the same buffer; masks saved and restored in nested calls; a player out of data must be started again |
| Card detection and keys: `source/mmc.c`, `source/keyboard.c`, `source/main.c` | state of the debouncing, flag, one-slot key buffer | the main beat interrupt, `CardPresent`, the button thread | bounces; the flag changes while the card is mounted; the slot is overwritten |
| Heap: `os/heap.c` | the list of free nodes, the bytes in them | allocate (best fit), free, add a region | splitting and joining; a block released twice; sizes at the limit |
| TCP client: `net/tcpsm.c`, `net/tcpsock.c`, `net/tcpout.c`, `net/tcputil.c` | the socket: state, sequence numbers, transmit and receive queues, retransmission and linger timers, flags | connect, send, receive, close; the state machine thread: segments, timeouts, aborts | segments lost, late, repeated, out of order; output that fails half way; aborts while a thread waits or has been woken |
| Alarms and sleep mode: `source/alarm.c`, `source/main.c`, `source/StreamWork.c`, `source/rtc.c` | two alarms in the clock chip, `flag1`, `stopAlarm`, which threads stream | check, ring, stop, sleep, set an alarm | the globals are seen between two readings of the chip; `startStream` does not come back for hours; midnight |
| Settings: `source/EEPROMHandler.c` | the record in RAM, the record in the EEPROM | load and check, save, reset | the power fails in the middle of a save |
| Menus: `source/menu.c`, `source/alarmMenu.c`, `source/audioMenu.c`, `Week 4/menu.c` | current item, edited values | keys | sequences of keys; what a key changes outside the menu |
| Clock and NTP: `source/rtc.c`, `source/ntp.c`, `source/dateTime.c` | the clock chip | read and set the clock and the alarm registers | other threads run during a transfer |
| Device registry, watchdog, FAT and card driver, network client, display, flash, log, remote control | | | device input and output, or data layout rather than control |
| Rest of the network stack, drivers, C library, tools | | | part of the operating system's distribution, not changed by the project |
| Exercises of weeks 1 to 4 | | | sequential programs for another board |

How they interact: threads are scheduled cooperatively and wait only in event
queues or for a timer.  Mutex, semaphore and message queue are each an event queue
plus a few words of state.  Timers elapse only inside `NutThreadResume`, and their
callbacks (`NutEventTimeout`, `NutThreadWake`, `NutMsgQTimerCb`) put threads back
into the run queue or post messages.  Interrupt handlers use
`NutEventPostFromIrq` (a counter or a mark, no list is touched), the decoder's
handler works on the segmented buffer, and the main beat handler scans keys and
card.  The player's thread and the decoder's handler share the buffer; card
thread, button thread and main beat share two bytes without any lock.  The alarm
checker, the stream threads and the sleep mode share `stopAlarm` and `flag1`; the
stream thread reads from a TCP socket, whose state machine runs in a thread of its own
and wakes its callers through event queues; sockets, timers, threads and buffers come
from the one heap.

What makes each component correct is stated in section 3.

## 2. Modules

| Module | Models | Uses |
|---|---|---|
| `NutQueue` | the list operations `NutThreadAddPriQueue` and `NutThreadRemoveQueue` as operators on sequences, with what they do to `td_qpec` | |
| `NutKernel` | scheduler, event queues and interrupts | `NutQueue`; implements `NutEvents` |
| `NutEvents` | the abstract promise: waiting threads and a number of undelivered events per queue | |
| `NutTimer` | the timer list and `NutTimerProcessElapsed` | |
| `NutWaiters` | the one event queue in which threads wait for a lock | the promise of `NutEvents` |
| `NutMutex`, `NutSemaphore` | the two locks | `NutWaiters` |
| `NutMsgQ` | ring, event queue, receivers, posts | implements `MsgChannel` |
| `MsgChannel` | the abstract promise: bounded first-in first-out channels | |
| `SegBuf` | the segmented buffer as operators on its variables | |
| `StreamPlayer` | player thread, decoder and handler | `SegBuf` |
| `CardDetect` | debouncing, card thread, key slot, button thread | |
| `Settings` | the record of settings, its save, its check at the start, the keys that change it | |
| `Radio` | alarm checker, stream threads, sleep mode, keys, clock chip, power failure | `Settings` |
| `NutTcp` | one client socket, its application and the state machine thread | implements `ByteStream` |
| `ByteStream` | the abstract promise: the peer's bytes in order, then the end | |
| `NutHeap` | the free list, allocation and release | implements `Allocator` |
| `Allocator` | the abstract promise: blocks that do not overlap | |
| `MC...` | instances for TLC | |
| `ListLemmas` | lemmas on sequences, sums and remainders that several proofs use | |
| `...Proofs` | theorems: `NutKernelProofs`, `NutTimerProofs`, `NutResourceProofs` (mutex, semaphore and heap), `NutMsgQProofs`, `NutTcpProofs`, `StreamPlayerProofs`, `RadioProofs` (settings, alarms and card) | the modules they are about |

**NutKernel.**  A root is a sequence of threads, `<<>>` for the null pointer and
`<<SIGNALED>>` for the mark.  A kernel call is cut at each end of a critical
section: `pc[t]` says where thread `t` is, `reg` holds the locals of the one call in
progress (only one thread has the CPU, so one set is enough).  `PostFromIrq` may
come between any two actions.  `NutEventWait` is `EventWait`, `WaitRead`,
`WaitClear` or `WaitEnter`, `WaitLink`, then the scan of `NutThreadResume`
(`Scan`, `ScanTake`, and the post it makes: `PostRead`, `PostPop`, `PostReady`),
the elapsed timers (`EventTimeout`, `ThreadWake`) and `Dispatch`; `Return` is its
end when the thread runs again.  A priority insertion that finds an empty or
signaled queue is done in one critical section, one that has to walk takes two,
and the caller is in no queue between them.  Any timer may elapse at "elapsed":
`NutTimer` has the clock.  `NutThreadKill` and the idle thread's
`NutThreadDestroy` are the variable `killedThread`.  Registers, stacks and
`NutThreadSetSleepMode` are left out.

**NutTimer.**  `tn_ticks_left` are the deltas, `due` is a history variable with the
real ticks that are left.  `Process`, `Spend`, `CallbackStop`, `CallbackStart`,
`CallbackReturns` and `RemoveTop` are the loop of `NutTimerProcessElapsed`, with
`Tick`, the interrupt, between any two of them.  A callback may stop any timer, its
own included, and may start one (as `NutMsgQTimerCb` does, which is mapped to
`CallbackStart`).

**NutWaiters, NutMutex, NutSemaphore.**  The code runs without a switch between the places where
it waits or yields, so those pieces are the actions.  The event queue is used as
`NutEvents` promises; which waiting thread is woken and which ready thread runs is
left open, which covers all priorities.  As `NutResourceProofs` extends these modules and
`NutHeap`, what each has of its own is named after it: the specification of
`NutSemaphore` is `SemSpec`, that of `NutHeap` is `HeapSpec`, and likewise that of
`CardDetect`, which `RadioProofs` extends, is `CardSpec`.

**NutMsgQ.**  Between the return of `NutEventWait` and the run of the receiver
(`pc = "take"`) anything may happen.  The interrupt-context `NutMsgQPost` of timer
callbacks is a post like any other.

**SegBuf, StreamPlayer.**  Bytes are numbered modulo `Labels`, which is larger than
the buffer, so a byte that is lost, doubled or out of order shows.  The handler
preempts the thread (`feed # "off"`) and is cut at each byte; `eimsk`, `eifr` and
`dreq` are the interrupt mask bit, the latched edge and the pin.  `VsPlayerFeed`
called by the kick and by the interrupt is the same code with a different caller
in `feed`.  The end of a stream, metadata limits and short reads are choices.

**CardDetect.**  The interrupt's four states are one action each behind
`MainBeat`; `run`, `removed` and `mounted` are history variables.

**Settings, Radio.**  A save writes the record field by field (`WriteField`) while
everybody else waits, and the power may fail between any two fields: the EEPROM and the
clock chip keep their contents, everything else starts anew (`PowerFails`).  A field is
`Blank` until it is written; of an alarm only its status is kept.  `AlarmCheckerThread`
is cut where talking to the clock chip lets others run: `CheckAlarm`, `GetAlarm`, then
`NotDue`, `RingStream` or `RingBeep`.  A stream is `EnterStream`, then `Connected`,
`Refused` or, for the endless loops of a failed set-up, `SetUpFails`, then `Stopped` or
`StreamEnds`.  `StopStream`, `KeySleep`, `MenuSetAlarm` with `ArmAlarm2`, and `Keys` are
the button thread.  Times are half minutes, which is what the window of an alarm
(thirty seconds on both sides) distinguishes.  The sleep mode is `KeySleep`, which keeps
the minute it begins in (`temp`), and `SleepEnds`, which needs the test the code makes
(`SleepOver`) to hold in the minute the clock shows (`Minute`).  The clock moves on only
when those who read it have looked at it: six looks of the checker fall into a half
minute, and the sleep mode looks every twenty seconds, so a minute that satisfies its test
does not pass it by.  When nobody reads the clock, it stands.
`settled` and `polled` are histories that say what the checker has seen (they are not kept
on when it has stopped), `starter` is one that says who called
`startStream` last.  Left out are the beeping, the volume, the weekday, which nothing
compares, the time zone and the texts, setting the clock by NTP, and `snoozeAlarm` and
`turnOffAlarm`, which nobody calls.

**NutTcp.**  The state machine thread runs before the application and takes one segment
or one turn of its timer at a time: `Arrive` and `TimerTurn` are whole runs through
`NutTcpStateProcess` and the timer part of `NutTcpSm`, built from operators named after
the functions they model (`Output`, `ProcessAck`, `StateChange`, `Abort` and so on),
each a function from the socket to the socket.  The peer and the network have no memory:
any segment the peer may ever have sent can come now, again or never, which covers
loss, delay, repetition and reordering.  How one step's output fares (sent, no memory
for the header or the data, refused by the IP layer) is one choice per step.  The
application's calls are cut where they sleep (`ReceiveWaits`) and where they run after
having been woken.  A wakeup without a reason, which a latched event may cause, is
absorbed by the loops of the callers and left out.  Also left out are windows, round
trip times and options (whether there is room to send is a choice), the passive open,
which nothing in `source/` uses, and the buffered `NutTcpDeviceWrite`.

**NutHeap.**  Each call is one step: threads are not preempted and interrupt handlers
do not allocate.  `heapFreeList` is the sequence of free nodes; `Stop` is where the walk
of `NutHeapFree` ends, `Twice` its test for a block that is free already, `JoinedBehind`
and `Linked` the joining; `FreeAgain` is a caller that releases what is free.

## 3. Runs

Eleven runs pass, one shows a disagreement.  Each property has a mutant in
`PROJECT.json`: a changed operator under which TLC refutes it.

| Run | Question and properties |
|---|---|
| `kernel_safety` | three application threads (one priority changes at will between two levels), one queue, no heap failure: links well-formed (`RootsWellFormed`), no thread lost or twice in a list (`ThreadsInOnePlace`), pending events where `NutThreadResume` looks for them (`PendingOnHead`), timeouts only for those who wait (`TimeoutsBelongToWaiters`), both kinds of queues in order and the idle thread last (`QueuesOrdered`), the highest priority gets the CPU (`DispatchesHighest`), and the kernel implements `NutEvents` (`ImplementsEvents`) |
| `kernel_live` | two application threads and a heap that may refuse a timer: a thread that an interrupt has posted an event for, or that waits nowhere and does not sleep, runs in the end (`EntitledRuns`): an event is lost neither on the counter nor between the counter and the thread, and a `NutSleep` without a timer does not lose its caller |
| `timer_list` | three timers, callbacks that start and stop timers: the deltas tell the real time (`DeltasAddUp`), the element freed is the one that fired (`ListIntact`), nothing fires early, except what a callback started (`OthersNeverEarly`), or out of order (`FiresInOrder`), and a started timer fires or is stopped (`EventuallyFires`) |
| `mutex_safety` | four threads, nesting up to 3: `MutualExclusion`, `NoLostWakeup` |
| `semaphore_safety` | three threads: `UnitsConserved` and the invariant of the proof, `SemInv` |
| `msgq_single` | one receiver, four slots: the `ASSERT` of the code (`EventStandsForMessage`), mail moves on (`MailMovesOn`), and the ring implements `MsgChannel` (`ImplementsChannel`) |
| `player_stream` | two segments of two bytes: the decoder hears the stream (`HearsStream`), the counts agree (`UsedIsDistance`), mask and segment are handed over (`RunningIsEnabled`, `WriterSegmentEnabled`), and what is buffered is heard (`BufferedIsHeard`) |
| `card_debounce` | an insertion is validated by consecutive scans (`InsertionValidated`), flag and thread settle on what the card does (`FlagSettles`, `ThreadSettles`) |
| `radio_alarms` | power cuts at any time: what the check at the start accepts holds no field that was never written (`AcceptedIsComplete`), the daily alarm is armed whenever the radio runs (`DailyAlarmArmed`), no armed alarm passes unseen (`AlarmInTime`), a stop ends the stream started last (`StopObeyed`), a sleep is over in its fifteenth minute, not before and not after, and never if it began in minute 45 (`SleepInTime`) |
| `tcp_stream` | a network that loses, repeats and reorders, output that fails: what is not acknowledged is queued and its timer runs (`UnackedQueued`), nobody sleeps on a queue nobody will post (`NobodyLeftWaiting`), the reader gets the stream (`ImplementsByteStream`), connect and close end with a silent peer (`ConnectAndCloseEnd`) |
| `tcp_broken` | violated: `BrokenIsReported` |
| `heap_blocks` | three regions, two of which touch: the free list stays ordered and joined (`FreeListJoined`), no byte is lost or made (`NothingLost`), blocks do not overlap (`ImplementsAllocator`) |

### Bounds

* Kernel: `MaxPec` bounds `td_qpec` in the guard of `PostFromIrq`.  It is 1 in the safety
  run, where a second event on the same counter changes only its number, and 2 in
  `kernel_live`, where it comes while the first is on its way to the thread.  Three application threads are the
  least for a thread that enters between two others; two of them are
  interchangeable, which is the symmetry (in the safety run only).
* Timer: `MaxGap = 2` bounds the ticks that come without `ProcessElapsed`; the intervals
  1 and 2 make timers expire together, in the middle of a bunch and behind it; a counter
  modulo 3 (2^32 in the code) wraps in every other bunch.
* Mutex: `MaxDepth` bounds nesting, `CountModulus` stands for 2^16.
* Semaphore: `MaxValue` bounds the value from above; below it is bounded by the
  number of threads.
* Message queue: `Size = 4` is the smallest ring whose positions distinguish empty,
  full and two states between.
* Player: `Size = 2`, `Banks = 2` gives every relation of the four pointers; a burst
  of 2 leaves DREQ low in the middle of a segment.
* Card: validations of 3 and 2 scans; the run of equal scans is kept up to the larger.
* Radio: a day of eight half minutes has midnight, the daily alarm and room between their
  windows.  It is one hour of four minutes and a sleep lasts two: minute 2 is the "minute
  45" of the code, with sleeps that begin before it, in it and behind it, where they pass
  the end of the hour.  Alarm 2 is set for 0:00 or for 24:00, the ends of the range.  One thread
  `StreamMusic` at a time is a bound of the model, not of the code.
* TCP: a stream of three bytes in segments of one or two gives overlapping, old, early
  and missing segments; one write, so that our SYN, data and FIN all wait for
  acknowledgment; `MaxRetrans = 0`, `MaxDup = 2` and `TimeWait = 0` stand for 7, 3 and 9
  and reach each limit soon.  `MaxSeq` bounds `so_rx_nxt` after our close, where the
  code takes data nobody will read.
* Heap: the sizes of the AVR (field 2, overhead 6, node 4, threshold 6).  Regions of 24
  bytes that touch, added from the upper to the lower, and one of 16 apart; requests of
  1 and 5 bytes take 7 and 11, so nodes are split, taken whole and joined on either side.

`semaphore_safety` and the runs of `NutTcp` do not check for deadlock: threads that only
wait and never post do stop, and so does a connection that is closed.

### Fairness

* Kernel: the code that has the CPU runs on (`WF(Kernel)`), and a thread gives the
  CPU up again and again (`SF(Yield)`): Nut/OS is cooperative and asks for it; the
  idle thread does nothing else.
* Timer: the hardware ticks, and threads (the idle thread at least) keep calling
  `NutThreadResume`.  Nothing is assumed of threads and callbacks that start and stop.
* Message queue: a receiver asks again and gets the CPU.
* Player: the decoder raises DREQ again (it plays), its interrupt is served, the
  thread gets the CPU, and `fread` returns, because the socket has a receive timeout.
* Radio: a save, a busy wait, ends (`WF`).  The
  stream threads run again and again but not always (`SF`): a save makes everybody wait,
  and the run queue is served in order.  Nothing is assumed of the clock and the checker,
  of which only safety is asked.  That a connection is made or given up and that
  a read returns is the timeout of the socket.  No key has to be pressed.
* TCP: the timer thread turns every 200 ms, its timeouts run out and a send does not
  fail for ever; a woken thread runs.  Nothing is asked of the peer or the network.
* Card: the main beat is a hardware timer; both threads sleep and wake for ever.
  `FlagSettles` and `ThreadSettles` assume nothing about the card: they speak of
  behaviours in which it is left alone at last.

## 4. What is proved

All proofs are for every value of the constants that the named assumptions allow: any
number of threads, queues, timers and regions, any priorities, intervals, sizes and
widths.  Eight modules hold them.  `PROJECT.json` lists the theorems a reader should
know of; the others are the lemmas they rest on.

### The kernel (`NutKernelProofs`)

Under `KernelAssumption` (the idle thread and the main thread are two threads, the null
pointer and `&runQueue` are nobody's) and any bound `MaxPec`, in five parts.

1. *The list operations of `NutQueue`*, for lists of any length.  Insertion and removal
   put in or take out one thread and keep the others and their order (`InsertLinked`,
   `WithoutLinked`); the priority walk stops inside the list (`PriPositionInRange`);
   counters follow the head (`DropKeepsHead`).  The other parts use lists only through
   these lemmas.
2. *The lists*: `TypeOK`, `RootsWellFormed`, `PendingOnHead`, `ThreadsInOnePlace`.  None
   is inductive, and they are so only together.  A step moves a thread from one list to
   another through the locals of the call in progress, so `TransitInv` says that what
   the first critical section has read still holds at the second (interrupts link and
   unlink nobody); a thread is unlinked from the queue its `td_queue` names, so
   `QueueInv` says that this is the one queue it is in; the counters move with the
   threads, so `PendInv` says that only the head of an event queue has a counter that is
   not 0; `LiveInv` ties the list of living threads to all of these places; `TimerInv`
   keeps sleeping threads out of queues; `OthersParked` says that there is one call at a
   time, for the locals are shared.  Most steps only move the running thread through its
   call: lemma `CalmStep` covers them.
3. *The timeouts*: `TimeoutsBelongToWaiters`, by `TimeoutInv`.  An armed timeout says
   where its thread is (alive, asleep, and bound to come back inside `NutEventWait`),
   which puts it into the event queue or on its way there; who gets the CPU is ready, so
   it has no timeout, and the mark of a timeout goes when the wait returns.
4. *The order*: waiting threads are ordered by priority and the idle thread is the last
   ready one whatever happens (`KernelWaiters`).  If `NutSleep` gets the memory for its
   timers (`~HeapMayFail`), the run queue is ordered too (`QueuesOrdered`) and
   `NutThreadResume` picks a thread of the highest priority (`DispatchesHighest`); with a
   heap that fails both are wrong (section 5).  A thread is linked in one critical
   section at the place another one has found: `LinkPlace` says why the place is still
   the right one.
5. *The refinement*: `ImplementsEvents`.  The events of a queue are the mark or the
   counters of the threads in it, plus the one that the call in progress has taken out
   and not yet delivered (`InFlight`).  `PendingSum` shows that the sum over a queue is
   the counter of its head, `Refines` goes through all steps.

### Timers (`NutTimerProofs`)

`TypeOK`, `DeltasAddUp`, `ListIntact`, `OthersNeverEarly` and `FiresInOrder`, for a
counter of any width and callbacks that stop and start any timer.  The differences add up
only together with the shape of the list while `NutTimerProcessElapsed` works on its
first timer, so `TimerInv` adds `AtWork`: that timer has no ticks left, so what a
callback puts in goes behind it and taking it off shifts no other.  The prefix sums of
the differences are a recursive function over the list; `ListLemmas` says what one
insertion or one change does to them (`PutInSum`, `ChangedInSum`).  A timer that a
callback starts while ticks are left to spend is charged with them (section 5): it is in
`charged` and what is proved leaves it out.

### Locks (`NutResourceProofs`)

* Mutex, under `Disciplined` (a thread unlocks only what it has locked): `MutexInv`,
  `MutualExclusion`, `NoLostWakeup`.  Mutual exclusion is not inductive: the code lets
  the thread that the owner field names skip the wait, so the invariant says that the
  count is the owner's depth and nobody else holds anything (`CountIsDepth`), that
  waiting threads hold nothing, and that the depth stays below the width of the count,
  so the arithmetic does not wrap.
* Semaphore, for any finite set of threads: `SemInv` and `UnitsConserved`.  The units are
  conserved only because a post finds a waiting thread whenever the value says so
  (`ValueCountsWaiters`); each step adds or removes one element of a finite set.

### Message queues (`NutMsgQProofs`)

`EventStandsForMessage` and `ImplementsChannel`, for rings of every size `NutMsgQCreate`
makes and any number of queues, under `OneEach`: each queue has one receiver at most
(with two the `ASSERT` fails, section 5).  That an event stands for a message is not
inductive: an event may be latched while the receiver is on its way to take a message.
`Promised` says that there are two messages then, and that a latched event has one.  Posts
and waits keep this for any number of receivers; only taking a message needs that nobody
else serves the queue.  For the refinement, `RingTakesIn` and `RingGivesOut` say that
moving one position of the ring appends to the messages between the positions or takes
the first of them, at the end of the ring too.

### Heap (`NutResourceProofs`)

`FreeListJoined`, `ImplementsAllocator` and `NothingLost`, for any regions that do not
overlap, any sizes of requests and of the heap's own structures that `HeapAssumption`
allows, and blocks released twice.  `FreeListJoined` says nothing of the blocks in use,
on which it depends as soon as one is released: `HeapInv` adds that blocks lie apart from
each other and from the free nodes (`UsedApart`), that regions not yet added are apart
from both (`WaitingApart`), and that everything lies in the memory given.  Then the walk
of `NutHeapFree` stops where a block belongs (`StopSplits`), joining it keeps the list in
order and covers the same addresses (`LinkedJoins`), a block that is free is found
(`FreeIsFound`), and an allocation divides one node (`UnlinkedDivides`, `BestFitFits`).
`NothingLost` is `BytesInv`: the bytes given are those of the free nodes and of the
blocks, and `available` is the sum over the free list, a fold that `ListLemmas` relates
to sums which grow by one element (`SumsExist`, `SumsRemove`).

### The TCP socket (`NutTcpProofs`)

For a stream of any length, segments of any length, any limits of retransmission and
linger time, and any failure on the way out.  One step of the state machine is a whole
run through `NutTcpStateProcess`, so there is a lemma for each function it goes through,
which says what the function makes of a socket: `OutputKeeps`, `RetranTimeoutIs`,
`StateChangeIs`, `ProcessAckIs`, `ProcessAppDataIs`, `DrainKeeps` (by `Iterates`, as the
loop turns as often as there are segments), `AdvanceWaits`, `TakeFinIs` and one for the
handler of each state.  `StateProcessIs` and `TurnIs` put them together, `Serves` being
what any step of the state machine keeps:

* the transmission queue (`TxQueue`) runs from `so_tx_una` to `so_tx_nxt` with its timer
  on, whatever is acknowledged and whatever is refused on the way out (`UnackedQueued`);
* whoever waits is woken by the step that ends what he waits for (`Woke`): this and the
  life of the socket (`Lifecycle`: only the application closes, and before its connect
  the socket is as it was created) give `NobodyLeftWaiting` and `TypeOK`;
* the bytes between the peer and the reader (`RxStream`): in an established connection
  the buffer goes on where the reader is and ends at `so_rx_nxt`, what has come in
  advance is from the stream, and after the peer's FIN nothing is missing.

From the last follow `BytesComeInOrder`, for any peer, and `ImplementsByteStream`, under
`~Coalesces`: that the end of the stream comes after the last byte needs a peer whose FIN
is on no more than the last byte, for the code takes the FIN of a segment that begins
with old data and leaves the data (section 5).  What a coalesced FIN costs is the end
alone: the bytes that the reader gets are still the first ones, in order.

### The player (`StreamPlayerProofs`)

For any size, number of segments and burst.

* `RunningIsEnabled` and `WriterSegmentEnabled`, by `HandOverInv`.  What the handler owes
  the thread when it leaves depends on its caller: a feed made by the kick happens inside
  the kick (`KickFeedsInKick`), and from the request on the writer's segment is enabled
  whenever the thread runs (`SegmentStays`).
* `TypeOK`, `UsedIsDistance` and `HearsStream`, by `BufferInv`: the count, the flag and
  the pointers agree (`RingInv`); the room the thread was offered stays free although the
  handler runs between its request and its commit (`RoomInv`), the bytes the handler was
  offered stay there (`FeedInv`); and each byte between reader and writer, those read and
  not yet committed included, is the one of the stream that belongs there (`MemInv`).

### Settings, alarms and card (`RadioProofs`)

For a day of any length, any daily time and any times of alarm 2, an hour of any length
that divides the day and a sleep of at most half an hour.

* `AcceptedIsComplete`: a save that is cut off leaves a prefix of it written, so `SaveInv`
  says that the record in RAM has no blank field once it was loaded, and that the fields
  a save has passed are blank no more when it comes to the length, which it writes last.
  It says that some save reached its end, not that all fields are of the same one: a later
  save that is cut off leaves new fields beside old ones, and the check at the start
  accepts them.
* `DailyAlarmArmed`: until the threads exist nobody has read an alarm, so `flag1` is still
  what it was initialised to, and the power failure that ends a run sets it back
  (`ArmInv`).
* `AlarmInTime`: `CheckInv` says what the checker knows between two readings of the chip:
  the registers as they are, and that no alarm it has passed by is due in this half
  minute or was in the one before.
* `SleepInTime`: `SleepInv` says that the clock has not gone past the last minute of a
  sleep, unless it began in minute 45.  Half a minute moves the clock to the next minute
  of the hour or not at all, at midnight too (`MinuteMoves`), and within those bounds the
  test of `SleepMode` holds in the last minute and in no other (`OverInTime`).
* `TypeOK`.
* `DebounceInv` and `InsertionValidated` of `CardDetect`: the counter never runs ahead of
  the consecutive scans that found the card, also when a bounce leaves an old count
  behind.

### What rests on model checking alone

* All liveness properties: `EntitledRuns`, `EventuallyFires`, `MailMovesOn`,
  `BufferedIsHeard`, `FlagSettles`, `ThreadSettles`, `StopObeyed`, `ConnectAndCloseEnd`.
  They are about fairness, and so about `ENABLED`, which the prover does not handle.

Every invariant, action property and refinement that a passing run checks is proved.

The library's induction theorems take an operator as a parameter, which the provers here
cannot instantiate.  Where a proof needs induction over a list or a finite set,
`ListLemmas` has a form with a set in the place of the operator (`LeastIndex`, `CountUp`,
`SubsetsGrow`), or with a function (`Iterates`: what a loop computes exists).  Recursive operators (`RECURSIVE`) are out of reach and not used.

## 5. Disagreements

One violated run:

* `tcp_broken`: a thread that sleeps in `NutTcpReceive` is woken by data; before it runs,
  a reset or the retransmission limit aborts the socket.  `NutTcpAbortSocket` discards the
  received buffers and leaves `so_rx_cnt`, and the thread, which does not look at the
  state again, follows `so_rx_buf`, which is null (`net/tcpsock.c:787`), instead of
  returning -1 as `net/tcpsock.c:740` says.

Other statements of comments that the models refute are defined with the properties
and belong to no run.  Each is shown by putting it into a configuration of its module.

* `NeverEarly` (`NutTimer`, with `CallbacksStart = TRUE`): a timer that a callback starts
  while `NutTimerProcessElapsed` is catching up with several ticks is charged with ticks
  from before its start.  The counter of the last call is already up to date, so nothing
  is added to the interval, and the loop spends what it has left on the new timer.
  `NutMsgQTimerCb` (`os/msg.c:228`) does exactly this with a timer of one tick.
* `TryWaitNeverBlocks` (`NutSemaphore`): `NutSemTryWait` on a semaphore with value 0 calls
  `NutSemWait`, which waits (`os/semaphore.c:119`).
* `RemovalHandled` (`CardDetect`): a card taken out while it is being mounted is never
  closed; the thread copies the flag after mounting, not the one it acted on
  (`source/mmc.c:282`).
* `RingsOnlyWhenOn` (`Radio`): `include/alarm.h:50` calls the status what tells whether
  an alarm is active, and the checker never looks at it.  A disabled alarm is read as
  0:00:00, so alarm 2 that was never set rings after midnight.
* `ImplementsByteStream` with `Coalesces = TRUE`, `Bytes = 2`, `MaxSeq = 4`: a peer that
  puts its FIN on a retransmitted segment that begins with old data has the FIN taken
  and the data not (`net/tcpsm.c:1238`); the reader sees the end too early.  `tcp_stream`
  takes a peer that does not.
* `CreatePreempts` (`NutKernel`): a thread of priority 64 is not stopped by a new one.
* `BroadcastClears` (`NutKernel`): an event an interrupt posted for the last waiting
  thread stays latched.
* `RunQueueOrdered` with a heap that fails: a failed `NutSleep` puts its caller on top.
* `DispatchesHighest` with a heap that fails and three priorities: a thread made
  ready after that failed `NutSleep` is inserted in front of its caller, and so
  ahead of a ready thread of higher priority behind it.
* `SleepInTime` without its exception: a sleep begun in minute 45 waits for a minute
  greater than 59 (`source/main.c:338`) and the stream plays on.  No comment promises more.
* `UnlockNeedsLock` (`NutMutex`) without `Disciplined`.
* `EventStandsForMessage` (`NutMsgQ`) with two receivers of one queue.
* `BroadcastReportsFull` (`NutMsgQ`): the sign of the result.
* `EofIsEndOfStream` (`StreamPlayer`): the status says so whenever the buffer runs empty.
* `RemovalValidated` (`CardDetect`): one scan without contact is enough.
* `InjectedKeyReturned` (`CardDetect`): the next scan overwrites the key.

## 6. Plan

Done: the kernel services with the heap, the places of the application where interrupts
and threads share data, alarms and settings with power failures, and the TCP client the
radio's streams come through; and the proofs of every safety property and refinement that
a run of these checks.  Open, in this order:

1. The timers of message queues: `NutMsgQ` composed with `NutTimer` (start and stop of
   a timer whose one-shot structure has been freed).  No code in `source/` uses them.
2. The passive open and the windows of TCP, and two sockets that share the one timer of
   the state machine thread.
3. The menu tables as a graph: all items reachable and left again.
4. The watchdog: the nesting counter around disabling and enabling it.

## 7. Not modelled

The repository has more than 200000 lines, of which the team wrote a few thousand; the
rest is the distribution of the operating system.  The project models the part of it the
radio depends on and whose order of events matters, and leaves out the following.

Device registers, formatting, logging, display and sound settings; the FAT file system
and card driver (layout on a medium); the network stack apart from the TCP client, the
drivers, the C library and the tools (distributed with the operating system: protocols
the radio uses through one call, string handling, programs for the developer's machine);
the exercises of the first weeks (sequential programs).
`NutMutexDestroy` and `NutSemDestroy` only read their argument and change nothing.
`NutThreadSetSleepMode` sets how deep the idle thread sleeps and has no caller.
No property says that a `NutEventWait` with a timeout ends: if the heap refuses the timer
(`os/event.c:300`), the wait is an unlimited one and its caller is not told.
`StreamPlayer` of `audioLib.c` is the loop of
`PlayMp3Stream` without `stopAlarm` and without the kick after four seconds.
