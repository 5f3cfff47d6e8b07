SPECIFICATION FairSpec
CONSTANTS
    This = p1
    Others = {p2}
    Worker = {w1, w2}
    Nobody = Nobody
    Conditions = {"no_delivery"}
    Lease = 1
    MaxAge = 1
    MaxDay = 2
    MaxChanges = 2
    MaxFaults = 1
INVARIANTS RepeatsHaveACause EvidenceSummarized SummariesInOrder
PROPERTIES RecordIsTold AlertFollowsDelivery SummariesLeave
CHECK_DEADLOCK FALSE
