SPECIFICATION Spec
CONSTANTS
    Reports = {r1, r2}
    UserTurns = {u1}
    Parent = Parent
    Delivery = Delivery
    MaxBatch = 1
    MaxPending = 2
    MaxCuts = 1
    MaxGuards = 1
    Preparation = TRUE
    Closes = TRUE
    Withdraws = TRUE
    Waits = FALSE
SYMMETRY Symmetry
INVARIANTS TypeOK RetriesAreBounded
PROPERTIES NoOvertaking FateIsFinal
CHECK_DEADLOCK FALSE
