SPECIFICATION Spec
CONSTANTS
  c1 = c1
  c2 = c2
  Clients <- TwoClients
  MaxRuns = 2
  MaxLoads = 1
INVARIANT EchoZeroUnpins
CHECK_DEADLOCK FALSE
