SPECIFICATION Spec
CONSTANTS
    Publications = 3
    Orders <- RotatedOrders
    Budgets = {4, 6}
    Rates = {1, 2}
    Percent = 20
    Ceiling = 17
    Day = 3
    Cooldown = 2
    MaxAge = 1
    Horizon = 5
    MaxEdits = 1
INVARIANTS IncreasesBounded ScaleIsProportional MoneyFollowsEvidence ScaleSurvivesRecheck LedgerExplainsLive
CHECK_DEADLOCK FALSE
