SPECIFICATION FairSpec
CONSTANTS
  v1 = v1
  v2 = v2
  t1 = t1
  auto = auto
  low = low
  Idle = Idle
  NoReport = NoReport
  Uncapped = Uncapped
  Viewer = {v1, v2}
  Tick = {t1}
  Preset = {auto, low}
  Unlimited = auto
  Ceiling <- MCCeiling
  Start = 1
  Confirm = 2
  Backoff = {1, 2}
  Latency = {0, 1, 3}
  Target = 2
  Hard = 3
  Headroom = {1, 9}
  Ample = 9
  Link <- MCLink
  Climate <- MCClimate
INVARIANTS
  LoopInv
PROPERTIES
  WorstViewerGoverns
  FollowsTheLinks
CHECK_DEADLOCK FALSE
