CONSTANT MaxFaults = 2
SPECIFICATION Spec
INVARIANTS
  BufferPassedInTurn
  FlagsAreGrants
  VerdictIsTrue
PROPERTIES
  ImplementsCasePair
