SPECIFICATION Spec
CONSTANTS
  Worlds <- SmallWorlds
  MaxChanges = 0
  FdLimit = 4
  NULL = NULL
  MAX_MAPS = 3
  Addresses <- SomeAddresses
INVARIANT AllMappings
