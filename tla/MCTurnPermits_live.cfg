SPECIFICATION FairSpec
CONSTANTS
  Turns <- Pair
  Watchers = {w1}
  Inline = {w1}
  Timed = {}
  Descendants <- Below
  Limit = 1
PROPERTIES
  TurnsAndWaitsEnd
