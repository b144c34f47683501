\* A debounced route that coalesces beside a relaxed one; events of two sizes, conflicting
\* identities, publishers that never wait, operators that redrive.
SPECIFICATION Spec
CONSTANTS
    p1 = p1
    p2 = p2
    p3 = p3
    e1 = e1
    e2 = e2
    e3 = e3
    w1 = w1
    w2 = w2
    NoWorker = NoWorker
    NoEvent = NoEvent
    Publishers = {p1, p2, p3}
    Workers = {w1}
    Events = {e1, e2, e3}
    EventOf <- DistinctEvents
    Key <- ConflictingKeys
    Routes = {1, 2}
    Matches <- OneFanout
    Lane <- OneLane
    Relaxed = {2}
    Coalesced = {1}
    Debounce <- DebounceOne
    Size <- MixedSizes
    MaxPendingDeliveries = 2
    MaxPendingBytes = 3
    MaxEventBytes = 2
    PublishTimeout = 0
    LeaseTime = 1
    MaxDelay = 1
    MaxAttempts = 0
    Outcomes = {"succeeded"}
    Invocations = {FALSE}
    MaxFencingToken = 2
    AllowRedrive = TRUE
SYMMETRY WorkerSymmetry
INVARIANTS
    CapacityRespected
    StrictOrder
PROPERTIES
    LostClaimStaysLost
