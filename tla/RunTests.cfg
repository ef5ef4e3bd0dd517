CONSTANTS
  Cases = 2
  MaxInterrupts = 2
SPECIFICATION Spec
INVARIANTS
  NothingLeftRunning
  CodesAreTrue
  OneCaseAtATime
PROPERTIES
  RunnerEnds
