SPECIFICATION Spec
CONSTANTS
    Agent = {a1, a2, a3, a4}
    NoAgent = none
    MaxDepth = 2
    MaxChildren = 2
    MaxLive = 3
    MaxTurn = 0
    MaxShutdown = 0
SYMMETRY AgentSymmetry
INVARIANTS
    TypeOK
    NoLiveBelowClosing
    NoOrphanActor
PROPERTY
    NoRevival
