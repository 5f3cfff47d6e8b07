SPECIFICATION Spec
CONSTANTS
    Publications = 2
    Orders <- RotatedOrders
    Budgets = {4, 6}
    Rates = {1, 2}
    Percent = 20
    Ceiling = 13
    Day = 3
    Cooldown = 2
    MaxAge = 1
    Horizon = 3
    MaxEdits = 0
PROPERTIES ReplacementAllowed
CHECK_DEADLOCK FALSE
