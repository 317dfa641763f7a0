SPECIFICATION Spec
CONSTANTS
  Requests <- LargeRequests
  MmapBases <- TwoMappings
  MaxLive = 3
  BrkStart = 4096
  BrkLimit = 400000
INVARIANTS
  LiveBacked
  StatsConserved
  ReclaimSafe
PROPERTY
  Implements
CHECK_DEADLOCK FALSE
