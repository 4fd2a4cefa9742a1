SPECIFICATION Spec
CONSTANTS
  p1 = p1
  w1 = w1
  MaxMessages = 2
  MaxCaptures = 1
  MinTurns = 2
  Telling = {1}
  Producers = {p1}
  Workers = {w1}
  MaxCrashes = 0
PROPERTIES ReleasedIsKept
CHECK_DEADLOCK FALSE
