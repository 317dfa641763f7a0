SPECIFICATION Spec
CONSTANTS
  Requests <- SmallRequests
  MmapBases <- OneMapping
  MaxLive = 4
  BrkStart = 4096
  BrkLimit = 12288
INVARIANT
  NeverFaults
