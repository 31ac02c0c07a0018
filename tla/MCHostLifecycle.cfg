SPECIFICATION LifecycleFairSpec
CONSTANTS
  h1 = h1
  h2 = h2
  h3 = h3
  None = None
  Free = Free
  Other = Other
  Session = {h1, h2, h3}
INVARIANTS
  AdvertisedHasScreen
  NothingOrphaned
PROPERTIES
  HostComesBack
CHECK_DEADLOCK FALSE
