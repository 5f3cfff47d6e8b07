SPECIFICATION FairSpec
CONSTANTS
    Worker = {w1, w2}
    NoWorker = NoWorker
    Feedback = {1, 2}
    MaxRevisions = 2
    MaxAttempts = 2
    MaxFaults = 2
CHECK_DEADLOCK FALSE
INVARIANTS
    SingleLiveVariant
    AppliedExactlyOnce
    LeaseGuardsBatch
    CommitNeverCollides
PROPERTIES
    DecidedThreadFrozen
    ImplementsLineage
    FeedbackResolved
