CONSTANTS
  Count = 3
  Depth = 2
  Batch = 2
  MaxFaults = 2
SPECIFICATION FairSpec
INVARIANTS
  InFlightProtected
  ThreadSafe
  PassMeansAllComplete
  WindowRespected
  NoLostWakeup
  ClosedOnce
PROPERTIES
  Termination
