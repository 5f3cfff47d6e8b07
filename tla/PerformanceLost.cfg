SPECIFICATION Spec
CONSTANTS
    This = p1
    Others = {p2}
    Worker = {w1}
    Nobody = Nobody
    Conditions = {"no_delivery"}
    Lease = 1
    MaxAge = 1
    MaxDay = 1
    MaxChanges = 0
    MaxFaults = 0
PROPERTIES ObservationsKept
CHECK_DEADLOCK FALSE
