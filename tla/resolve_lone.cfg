SPECIFICATION Spec
CONSTANTS
  c1 = c1
  c2 = c2
  c3 = c3
  t1 = t1
  w1 = w1
  red = red
  blue = blue
  None = None
  NoTuple = NoTuple
  Claims = {c1, c2, c3}
  AutoRuns = {}
  DetRuns = {d1}
  Pinning = TRUE
  TupleOf <- OneTuple
  ContentOf <- OneContent
  ObjectOf <- TwoValues
  MaxVersion = 2
INVARIANTS LosersLeadToSurvivor
