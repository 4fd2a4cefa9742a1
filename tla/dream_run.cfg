SPECIFICATION Spec
CONSTANTS
  p1 = p1
  p2 = p2
  w1 = w1
  w2 = w2
  MaxMessages = 3
  MaxCaptures = 1
  MinTurns = 2
  Telling = {2}
  Producers = {p1, p2}
  Workers = {w1, w2}
  MaxCrashes = 1
SYMMETRY Symmetric
INVARIANTS TypeOK NoMessageSkipped DigestedWasSent AppliedIsRecorded ClaimIsCredited ReleasedIsDecided
CONSTRAINTS Bounded
PROPERTIES DecisionsStand
CHECK_DEADLOCK FALSE
