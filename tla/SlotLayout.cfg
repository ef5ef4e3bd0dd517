CONSTANTS
  Limit = 32
  VaAlignment = 4
  Granularities = {0, 1, 3, 8}
  MaxRanks = 4
SPECIFICATION Spec
INVARIANTS
  StrideRoundedUp
  SlotsInPlace
CHECK_DEADLOCK FALSE
