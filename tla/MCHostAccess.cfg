SPECIFICATION FairSpec
CONSTANTS
  v1 = v1
  v2 = v2
  a1 = a1
  Viewer = {v1, v2}
  Addr = {a1}
  AddrOf <- MCAddrOf
  Modes <- MCModes
  Threshold = 2
  MaxTries = 3
  Repeater = {v2}
INVARIANTS
  AccessEarned
  EndsAgree
PROPERTIES
  FailuresSurviveReconnect
  VerdictComes
CHECK_DEADLOCK FALSE
