SPECIFICATION Spec
CONSTANTS
  Requests <- SmallRequests
  MmapBases <- OneMapping
  MaxLive = 4
  BrkStart = 4096
  BrkLimit = 12288
INVARIANTS
  TypeOK
  HeapTiled
  TagsAgree
  Coalesced
  BinsExact
  LiveBacked
  NeverStuck
PROPERTY
  Implements
CHECK_DEADLOCK FALSE
