SPECIFICATION FairSpec
CONSTANTS
    Size = 2
    Banks = 2
    Burst = 2
    Threshold = 1
    Labels = 5
INVARIANTS UsedIsDistance RunningIsEnabled WriterSegmentEnabled
PROPERTIES HearsStream BufferedIsHeard
