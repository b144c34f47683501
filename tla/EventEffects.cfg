\* Four kinds of target, each with its faults.
SPECIFICATION Spec
CONSTANTS
    charge = charge
    notify = notify
    c1 = c1
    c2 = c2
    Operations = {charge, notify}
    Idempotent = {notify}
    Descriptors = {1, 2}
    Callers = {c1, c2}
    MaxSinkTries = 1
    Targets <- AllTargets
SYMMETRY CallerSymmetry
INVARIANTS
    NoBlindReplay
    LedgerTrue
    CompletionSettled
    RunsReconciled
    CompletedNotReinvoked
\* A delivery that succeeded, and one whose tokens are spent, are final.
CHECK_DEADLOCK FALSE
