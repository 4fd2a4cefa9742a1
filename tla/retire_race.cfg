SPECIFICATION Spec
CONSTANTS
  c1 = c1
  c2 = c2
  w1 = w1
  w2 = w2
  None = None
  NoTuple = NoTuple
  Claims = {c1}
  Sources = {s1, s2}
  Callers = {p1, p2}
  MayDie = {p1}
  Overlapping = {s1, s2}
  Again = {s1}
  Revalidating = TRUE
  TupleOf <- NoTuples
  ContentOf <- Contents
  MaxVersion = 5
INVARIANTS TypeOK
PROPERTIES RetiredBeforeTakenDown SupportedStaysActive CompletedCallIsThorough
CHECK_DEADLOCK FALSE
