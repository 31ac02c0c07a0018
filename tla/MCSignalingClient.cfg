SPECIFICATION FairSpec
CONSTANTS
  k1 = k1
  k2 = k2
  offer = offer
  ice = ice
  NoSlot = NoSlot
  Slot = {k1, k2}
  Type = {offer, ice}
  BufferCap = 2
  MaxSends = 3
  MaxArrivals = 4
INVARIANTS
  ClientInv
  WrittenOnceInOrder
PROPERTIES
  HeardFresh
  SilentAfterClose
  Rejoins
CHECK_DEADLOCK FALSE
