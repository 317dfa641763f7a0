SPECIFICATION Spec
CONSTANTS
  TOP = 20000
  Programs <- AllPrograms
  RandomPages = 5
INVARIANTS
  TypeOK
  AsPictured
  NoCallFails
  OthersUntouched
  SpaceReturned
  QueryExact
