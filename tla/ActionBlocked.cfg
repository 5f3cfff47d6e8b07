SPECIFICATION Spec
CONSTANTS
    Worker = {w1}
    NoWorker = NoWorker
    AdSets = 1
    MaxActions = 1
    MaxEdits = 0
    MaxFaults = 1
    MaxLateCalls = 0
PROPERTIES BlockIsTerminal
CHECK_DEADLOCK FALSE
