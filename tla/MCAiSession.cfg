SPECIFICATION FairSpec
CONSTANTS
  c1 = c1
  c2 = c2
  a1 = a1
  a2 = a2
  e1 = e1
  e2 = e2
  k1 = k1
  Nothing = Nothing
  Call = {c1, c2}
  Ask = {a1, a2}
  Code = {k1}
  Endpoint = {e1, e2}
  Default = e1
INVARIANTS
  AiInv
  NothingStale
PROPERTIES
  CallsEnd
