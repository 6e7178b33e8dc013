SPECIFICATION LiveSpec
CONSTANTS
    Reports = {r1}
    UserTurns = {}
    Parent = Parent
    Delivery = Delivery
    MaxBatch = 1
    MaxPending = 2
    MaxCuts = 1
    MaxGuards = 0
    Preparation = TRUE
    Closes = FALSE
    Withdraws = FALSE
    Waits = FALSE
PROPERTIES ReportSettles
CHECK_DEADLOCK FALSE
