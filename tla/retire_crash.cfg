SPECIFICATION Spec
CONSTANTS
  c1 = c1
  c2 = c2
  w1 = w1
  w2 = w2
  None = None
  NoTuple = NoTuple
  Claims = {c1, c2}
  Sources = {s1, s2}
  Callers = {p1}
  MayDie = {p1}
  Overlapping = {}
  Again = {}
  Revalidating = FALSE
  TupleOf <- NoTuples
  ContentOf <- Contents
  MaxVersion = 4
INVARIANTS UnsupportedIsOut
CHECK_DEADLOCK FALSE
