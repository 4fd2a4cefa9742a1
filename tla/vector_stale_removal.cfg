SPECIFICATION Spec
CONSTANTS
  p1 = p1
  p2 = p2
  c1 = c1
  c2 = c2
  Claims = {c1, c2}
  Processes = {p1, p2}
  Connected = {p1}
  Threads = {p1}
  Capacity = 1
  MaxChanges <- OneRevived
  MaxFaults = 2
  MaxToggles = 1
PROPERTIES ReplaySparesLive
CHECK_DEADLOCK FALSE
