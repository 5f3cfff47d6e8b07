SPECIFICATION Spec
CONSTANTS
    Worker = {w1}
    NoWorker = NoWorker
    AdSets = 2
    MaxActions = 1
    MaxEdits = 0
    MaxFaults = 1
    MaxLateCalls = 0
INVARIANTS ReallocationKeepsTotal
CHECK_DEADLOCK FALSE
