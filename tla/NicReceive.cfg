SPECIFICATION Spec
CONSTANTS
  Pages = {1, 2, 3, 4}
  TOTAL_RFD = 2
  ARP_CACHE_SIZE = 2
  Contents <- MCContents
  IPs = {1, 3}
  Resolvers = {p}
  p = p
  TRIES = 2
  MaxFrames = 3
  MaxCalls = 1
INVARIANTS
  ListIntact
  FramesInOrder
  ResolvedWasAnnounced
  CacheSearchable
PROPERTIES
  FramesProcessed
