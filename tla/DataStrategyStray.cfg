CONSTANTS
  N = 2
  SlotsPerRank = 1
  MaxFaults = 0
  MaxStray = 1
SPECIFICATION Spec
INVARIANTS
  HeldUntilAllReady
