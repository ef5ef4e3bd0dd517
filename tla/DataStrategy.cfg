CONSTANTS
  N = 2
  SlotsPerRank = 2
  MaxFaults = 2
  MaxStray = 1
SPECIFICATION FairSpec
INVARIANTS
  EverySlotReachesItsRank
  NothingLeft
  MappingBacked
PROPERTIES
  Termination
