\* Retries, a lost acknowledgement, a lost claim or a crash, to the end.
SPECIFICATION FairSpec
CONSTANTS
  Workers = {p, q}
  Wakes = {w}
  Resumes = {}
  TaskKey = key
  MaxRuns = 2
  MaxAttempts = 2
  MaxFaults = 2
  StaleDeadLetters = FALSE
INVARIANTS
  OneLineOfWork
PROPERTIES
  ParentNotRegressed
  DeliveriesSettle
\* Nothing is left to do once every delivery has ended.
CHECK_DEADLOCK FALSE
