SPECIFICATION Spec
CONSTANTS
  c1 = c1
  c2 = c2
  Clients <- TwoClients
  MaxRuns = 3
  MaxLoads = 2
SYMMETRY Symmetric
INVARIANT WritesTracked
CHECK_DEADLOCK FALSE
