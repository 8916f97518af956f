SPECIFICATION FairSpec
CONSTANTS
    Bytes = 3
    Requests = 1
    MaxRun = 2
    MaxRetrans = 0
    MaxDup = 2
    TimeWait = 0
    MaxSeq = 5
    Coalesces = FALSE
INVARIANTS UnackedQueued NobodyLeftWaiting
PROPERTIES ImplementsByteStream ConnectAndCloseEnd
CHECK_DEADLOCK FALSE
