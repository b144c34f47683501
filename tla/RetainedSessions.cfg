\* Two hosts on a root of two messages, one host on a tree of three.
SPECIFICATION Spec
CONSTANTS
  Hosts = {h1, h2}
  Usages = {3}
  Outcomes = {"completed"}
  Modes = {"steer","follow-up"}
  MaxChildren = 2
  MaxDepth = 2
  MaxConcurrency = 2
  MaxPendingMessages = 1
  MaxRetainedMessages = 2
  MaxTokens = 5
  MaxTokensPerMessage = 2
  MaxSubcalls = 3
  MaxDisturbances = 2
SYMMETRY Symmetry
CONSTRAINT Regimes
CHECK_DEADLOCK FALSE
INVARIANT DrainedBeforeReplaced MailScheduled SnapshotsValid BudgetHeld
PROPERTY MailSpec CancellationFinal
