\* One task, two events for it, each with a verifier chain behind it.
SPECIFICATION Spec
CONSTANTS
  Workers = {p, q}
  Wakes = {w}
  Resumes = {r, s}
  TaskKey = key
  MaxRuns = 2
  MaxAttempts = 1
  MaxFaults = 1
  StaleDeadLetters = TRUE
SYMMETRY ActorSymmetry
INVARIANTS
  OneShot
  IndexesAgree
  ResumeConsumes
PROPERTIES
  BindingKept
\* Nothing is left to do once every delivery has ended.
CHECK_DEADLOCK FALSE
