SPECIFICATION Spec
CONSTANTS
  Turns <- Pair
  Watchers = {w1, w2}
  Inline = {w1}
  Timed = {w2}
  Descendants <- Below
  Limit = 1
INVARIANTS
  SuspendedYields
  PollHoldsPermit
  SealedWaitsFire
  ParkedTurnWakes
PROPERTIES
  WaitReturnsToHolder
