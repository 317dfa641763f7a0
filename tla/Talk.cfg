SPECIFICATION Spec
CONSTANTS
  Users = {u1, u2}
  Lengths = {1, 3}
  MaxAsked = 2
  Clients = {c1, c2, c3}
  FdLimit = 3
  Backlog = 1
  NUM_LOOPS = 3
  PAGE_SIZE = 4
INVARIANTS
  NeverStale
  OwnAnswer
  OnlyConnectionsLeak
  LettersStay
PROPERTIES
  SentIsServed
  ServerEnds
  FaultAnswered
CHECK_DEADLOCK FALSE
