SPECIFICATION FairSpec
CONSTANTS
    Worker = {w1, w2}
    NoWorker = NoWorker
    Parts = 2
    Ads = 2
    MaxEdits = 1
    MaxFaults = 2
    MaxLateCalls = 1
INVARIANTS OneOfEach ServingIsRecorded SucceededIsSwapped RetriedIsClean
PROPERTIES SourceOutlivesSwap ReplacementEnds
CHECK_DEADLOCK FALSE
