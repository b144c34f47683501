\* Every body of three steps that write fields of their own, run once.
SPECIFICATION Spec
CONSTANTS
  Inputs = {i}
  Outputs = {x, y, z}
  Length = 3
  BatchSize = 2
  MaxIterations = 1
  Rewrites = FALSE
  MaxReads = 1
  HiddenReads = FALSE
SYMMETRY OutputSymmetry
INVARIANTS
  SequentialResult
  AbandonedTasksSwept
PROPERTIES
  NoNodeAfterFailure
