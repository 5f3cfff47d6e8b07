SPECIFICATION Spec
CONSTANTS
    Deliverer = {d1}
    NoDeliverer = NoDeliverer
    AuditKey = {a1, a2}
    MaxRevision = 1
    MaxFaults = 0
INVARIANTS NewestNoticeSurvives
CHECK_DEADLOCK FALSE
