SPECIFICATION LiveSpec
CONSTANTS
    l1 = l1
    l2 = l2
    l3 = l3
    p = p
    q = q
    Leases <- Three
    Pids = {p, q}
    PidOf <- Shared
    NoOne = NoOne
    MaxPublications = 1
    Faulty = {l1}
INVARIANTS TypeOK OnlyClaimantPublishes LossIsReal
PROPERTY LossNoticed
CHECK_DEADLOCK FALSE
