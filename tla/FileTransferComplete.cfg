SPECIFICATION Spec
CONSTANTS
  t1 = t1
  t2 = t2
  r1 = r1
  r2 = r2
  Transfer = {t1, t2}
  Receiver = {r1, r2}
  Target <- MCTarget
  Chunks = 3
  High = 2
  Low = 1
  SenderAborts = TRUE
INVARIANTS
  CompletedIsSaved
CHECK_DEADLOCK FALSE
