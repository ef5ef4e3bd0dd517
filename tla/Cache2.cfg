CONSTANTS
  Blocks = 2
  Shards = 2
  Iterations = 2
SPECIFICATION Spec
INVARIANTS
  CommittedIsWhole
  VerdictIsTrue
  FieldsAreGrants
