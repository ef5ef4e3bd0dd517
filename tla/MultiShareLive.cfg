CONSTANTS
  N = 2
  Rounds = 2
  MaxFaults = 1
SPECIFICATION FairSpec
INVARIANTS
  NoSpuriousFailure
  OrderlyRelease
PROPERTIES
  Termination
