SPECIFICATION FairSpec
CONSTANTS
    Deliverer = {d1, d2}
    NoDeliverer = NoDeliverer
    AuditKey = {a1, a2}
    MaxRevision = 1
    MaxFaults = 1
INVARIANTS BindingIsDelivered BindNeverRefused DuplicatesNeedAFault OneOpenNotice
PROPERTIES OutcomesStand AllSettled
CHECK_DEADLOCK FALSE
