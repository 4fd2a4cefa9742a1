SPECIFICATION FairSpec
CONSTANTS
  m1 = m1
  m2 = m2
  w1 = w1
  d1 = d1
  d2 = d2
  Memories = {m1, m2}
  Writers = {w1}
  By <- ByOne
  Drainers = {d1, d2}
  RenameOpen = FALSE
  ReadFaults = FALSE
  MaxCrashes = 1
PROPERTY ReplayIsIdempotent
CHECK_DEADLOCK FALSE
