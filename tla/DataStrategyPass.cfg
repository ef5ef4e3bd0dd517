CONSTANTS
  N = 3
  SlotsPerRank = 1
  MaxFaults = 0
  MaxStray = 0
SPECIFICATION FairSpec
INVARIANTS
  HeldUntilAllReady
PROPERTIES
  EventuallyPass
