SPECIFICATION FairSpec
CONSTANTS
    Worker = {w1, w2}
    NoWorker = NoWorker
    AdSets = 2
    MaxActions = 2
    MaxEdits = 1
    MaxFaults = 1
    MaxLateCalls = 1
INVARIANTS SucceededIsLive LedgerIsExact RetriedIsClean
PROPERTIES WritesAreFenced EveryActionEnds
CHECK_DEADLOCK FALSE
