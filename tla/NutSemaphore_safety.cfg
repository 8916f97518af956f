SPECIFICATION SemSpec
CONSTANTS
    t1 = t1
    t2 = t2
    t3 = t3
    Threads <- ThreeThreads
    InitialValue = 1
    MaxValue = 3
INVARIANTS SemInv UnitsConserved
CHECK_DEADLOCK FALSE
