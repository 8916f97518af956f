SPECIFICATION Spec
CONSTANTS
    idle = idle
    main = main
    a = a
    b = b
    SIGNALED = SIGNALED
    RunQ = RunQ
    NoOne = NoOne
    Queues = {q1}
    Threads <- ThreeApps
    Idle <- idle
    Main <- main
    Levels <- TwoLevels
    HeapMayFail = FALSE
    MaxPec = 1
INVARIANTS RootsWellFormed ThreadsInOnePlace PendingOnHead
    TimeoutsBelongToWaiters QueuesOrdered
PROPERTIES DispatchesHighest ImplementsEvents
SYMMETRY Symmetry
