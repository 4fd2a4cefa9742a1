SPECIFICATION Spec
CONSTANTS
  Sources = {s1}
  Workers = {w1}
  Slow = {}
  Retiring = {s1}
  MaxAttempts = 3
PROPERTIES CancelledStays
CHECK_DEADLOCK FALSE
