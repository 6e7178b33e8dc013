SPECIFICATION LiveSpec
CONSTANTS
    Subs = {s1, s2, s3}
    Batchable = {s1, s2}
    Constrained = {s1}
    Controls = {c1}
    Compactions = {c1}
    Configs = {g1}
    MaxOutstanding = 2
    MaxRequests = 2
    MaxCuts = 1
    MaxEnqueued = 1
    Prepares = FALSE
    NoTurn = NoTurn
INVARIANTS TypeOK NoLostInstruction AcceptanceOrder ConstraintHolds
PROPERTY InstructionSettles
CHECK_DEADLOCK FALSE
