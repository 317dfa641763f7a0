SPECIFICATION Spec
CONSTANTS
  TOP = 20000
  Programs <- OnlyProcmap
  RandomPages = 5
INVARIANT
  StatesAsConfigured
