CONSTANTS
  N = 2
  Rounds = 1
  MaxFaults = 1
SPECIFICATION Spec
INVARIANTS
  UnmapBeforeRelease
