SPECIFICATION Spec
CONSTANTS
  Worlds <- SmallWorlds
  MaxChanges = 2
  FdLimit = 4
  NULL = NULL
  MAX_MAPS = 3
  Addresses <- SomeAddresses
INVARIANTS
  FoundIfThere
  PrintedOnce
PROPERTIES
  NoFalseAlarm
  ChangeReported
