SPECIFICATION Spec
CONSTANTS
  c1 = c1
  c2 = c2
  o1 = o1
  o2 = o2
  drain = drain
  None = None
  NoTuple = NoTuple
  Claims = {c1, c2}
  TupleOf <- OneTuple
  ContentOf <- OneContent
  MaxVersion = 8
  Operators = {o1}
  Drain = drain
  Filings <- Rivalry
  Starts <- Contested
  Pinnable = {c1}
  Window = 2
  Limit = 2
  MaxProposals = 1
  MaxCalls = 0
  MaxDeaths = 0
  Busy <- Early
PROPERTIES PromotionWaits
