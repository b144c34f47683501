\* The same: a run that no worker is on any more.
SPECIFICATION RuntimeSpec
CONSTANTS
    p1 = p1
    p2 = p2
    e1 = e1
    e2 = e2
    w1 = w1
    w2 = w2
    NoWorker = NoWorker
    NoEvent = NoEvent
    Publishers = {p1}
    Workers = {w1, w2}
    Events = {e1, e2}
    EventOf <- DistinctEvents
    Key <- DistinctKeys
    Routes = {1}
    Matches <- EveryRoute
    Lane <- LanePerEvent
    Relaxed = {}
    Coalesced = {}
    Debounce <- NoDebounce
    Size <- EqualSizes
    MaxPendingDeliveries = 1
    MaxPendingBytes = 2
    MaxEventBytes = 1
    PublishTimeout = 0
    LeaseTime = 2
    MaxDelay = 1
    MaxAttempts = 3
    Outcomes = {"succeeded", "dead_lettered", "cancelled"}
    Invocations = {FALSE}
    MaxFencingToken = 2
    AllowRedrive = TRUE
    HeartbeatTime = 1
    CloseTimeout = 1
    RetryDelay = 1
    RetryLimit = 2
    Authority = TRUE
    MaxDisturbances = 1
SYMMETRY WorkerSymmetry
INVARIANTS
    RunsEnd
