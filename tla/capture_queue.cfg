SPECIFICATION FairSpec
CONSTANTS
  Sources = {s1}
  Workers = {w1, w2}
  Slow = {w1, w2}
  Retiring = {s1}
  MaxAttempts = 3
INVARIANTS TypeOK TextHandsOn OneWorkerPerJob
PROPERTIES NoneStranded CompletedStays EveryJobSettles
CHECK_DEADLOCK FALSE
