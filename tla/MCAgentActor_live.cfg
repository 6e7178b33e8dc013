SPECIFICATION FairSpec
CONSTANTS
  Callers = {c1}
  Correlations = {r1}
  RunCorrelations = {r1}
  Prepares = TRUE
  Refusals = {}
  MaxOperations = 2
  MaxCancellations = 1
INVARIANTS
  OutcomeLedger
  NothingStallsOrOvertakes
PROPERTIES
  ImplementsLedger
  TerminalIsFinal
  TurnsAndCloseEnd
