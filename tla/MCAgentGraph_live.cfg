SPECIFICATION LiveSpec
CONSTANTS
    Agent = {a1, a2}
    NoAgent = none
    MaxDepth = 1
    MaxChildren = 1
    MaxLive = 2
    MaxTurn = 1
    MaxShutdown = 1
INVARIANTS
    RevokedTurnHasNoChildren
    ShutdownLeavesNoRunner
PROPERTY
    ClosesAndShutdownEnd
