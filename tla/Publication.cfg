SPECIFICATION FairSpec
CONSTANTS
    Operator = {o1, o2}
    AckRun = ack
    NoRun = NoRun
    MaxAttempts = 1
    MaxFaults = 1
    MaxLosses = 1
INVARIANTS ServingIsStored PublishedIsAccounted
PROPERTIES IdsKeptUntilTerminal NoSecondHierarchy ApprovalSettles
CHECK_DEADLOCK FALSE
