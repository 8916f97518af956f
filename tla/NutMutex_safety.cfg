SPECIFICATION Spec
CONSTANTS
    t1 = t1
    t2 = t2
    t3 = t3
    t4 = t4
    NoOne = NoOne
    Threads <- FourThreads
    Disciplined = TRUE
    CountModulus = 8
    MaxDepth = 3
INVARIANTS MutualExclusion NoLostWakeup
