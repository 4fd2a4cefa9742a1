SPECIFICATION Spec
CONSTANTS
  p1 = p1
  w1 = w1
  MaxMessages = 2
  MaxCaptures = 1
  MinTurns = 2
  Telling = {1, 2}
  Producers = {p1}
  Workers = {w1}
  MaxCrashes = 0
INVARIANTS ClosedIsDecided
CHECK_DEADLOCK FALSE
