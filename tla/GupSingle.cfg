SPECIFICATION FairSpec
CONSTANTS
  c1 = c1
  c2 = c2
  Clients <- OneClient
  MaxRuns = 3
  MaxLoads = 2
INVARIANTS
  TypeOK
  PinBalanced
  NoNullPage
  UnloadReleases
PROPERTY
  Released
CHECK_DEADLOCK FALSE
