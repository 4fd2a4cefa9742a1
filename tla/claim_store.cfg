SPECIFICATION Spec
CONSTANTS
  t1 = t1
  w1 = w1
  None = None
  NoTuple = NoTuple
  Claims = {c1, c2}
  Procs = {p1, p2}
  TupleOf <- OneTuple
  ContentOf <- OneContent
  MaxVersion = 2
  MaxPinned = 1
SYMMETRY Symmetry
INVARIANTS TypeOK CurrentImagesAreExact LogAgrees ForgottenStaysArchived SupersededHasSuccessor BackLinkBacked
PROPERTIES ReplacementNeverErased ForgottenContentNotReinserted ImplementsLifecycle
