SPECIFICATION FairSpec
CONSTANTS
    idle = idle
    main = main
    a = a
    b = b
    SIGNALED = SIGNALED
    RunQ = RunQ
    NoOne = NoOne
    Queues = {q1}
    Threads <- TwoApps
    Idle <- idle
    Main <- main
    Levels <- OneLevel
    HeapMayFail = TRUE
    MaxPec = 2
PROPERTIES EntitledRuns
