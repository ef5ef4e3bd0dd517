CONSTANTS
  Requests = 4
  Modes = {0, 1}
SPECIFICATION Spec
INVARIANTS
  NoTransferUnderTheCpu
  PassIsReal
  ZeroMeansAllPassed
  LeavesClean
