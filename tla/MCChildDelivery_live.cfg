SPECIFICATION LiveSpec
CONSTANTS
    Reports = {r1, r2}
    UserTurns = {}
    Parent = Parent
    Delivery = Delivery
    MaxBatch = 2
    MaxPending = 2
    MaxCuts = 0
    MaxGuards = 0
    Preparation = FALSE
    Closes = FALSE
    Withdraws = FALSE
    Waits = TRUE
PROPERTIES ReportsAndWaitEnd
CHECK_DEADLOCK FALSE
