SPECIFICATION ConnectionFairSpec
CONSTANTS
  MaxFrames = 2
  Trickling = {"host", "viewer"}
INVARIANTS
  ClosedHoldsNothing
  GateHolds
  NoGlare
  CandidatesKept
PROPERTIES
  RecoveryEnds
  GrantShowsScreen
CHECK_DEADLOCK FALSE
