CONSTANTS
  N = 2
  Rounds = 2
  MaxFaults = 2
SPECIFICATION Spec
INVARIANTS
  PhaseAgreement
  FullInv
  ReadersSeeRoundData
  SliceHoldsOwner
  PassMeansClean
  NoOrphan
PROPERTIES
  ImplementsLockstep
