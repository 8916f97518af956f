SPECIFICATION FairSpec
CONSTANTS
    t1 = t1
    t2 = t2
    t3 = t3
    NoTimer = NoTimer
    Timers <- ThreeTimers
    Ticks = {1, 2}
    TickModulus = 3
    MaxGap = 2
    CallbacksStart = TRUE
INVARIANTS DeltasAddUp ListIntact
PROPERTIES OthersNeverEarly FiresInOrder EventuallyFires
