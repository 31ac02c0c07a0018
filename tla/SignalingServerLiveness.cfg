SPECIFICATION FairSpec
CONSTANTS
  s1 = s1
  s2 = s2
  s3 = s3
  c1 = c1
  c2 = c2
  a1 = a1
  NoCode = NoCode
  Socket = {s1, s2}
  Code = {c1}
  AdvertisableCode = {c1}
  Addr = {a1}
  AddrOf <- MCAddrOf
  MaxViewers = 1
  MaxJoinFailures = 1
  MayCrash = {s1, s2}
PROPERTIES
  VanishedPeersAreReaped
  NoParkedSocket
CHECK_DEADLOCK FALSE
