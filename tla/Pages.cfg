SPECIFICATION Spec
CONSTANTS
  INVALID_VALUE = INVALID_VALUE
  NR_PAGES = 4
  WriteEvery = 2
  MaxReclaims = 1
  MaxFailures = 1
  Cpus = 2
  PTRS_PER_PTE = 8
  Word = 64
  Starts = {9, 12, 15}
  Sizes = {2, 10}
  Offsets = {0, 3}
INVARIANTS
  AsDescribed
  PrintsWhatIs
  SameWindow
PROPERTIES
  ChangeSeen
CHECK_DEADLOCK FALSE
