SPECIFICATION Spec
CONSTANTS
  Callers = {c1, c2}
  Correlations = {r1}
  RunCorrelations = {}
  Prepares = FALSE
  Refusals = {"Closed"}
  MaxOperations = 2
  MaxCancellations = 1
SYMMETRY CallerSymmetry
INVARIANTS
  EveryTicketHeldOnce
  CloseIsLastEvent
  CancelledIffCut
  WaiterSeesReusableActor
