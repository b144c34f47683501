\* One event published twice, by publishers that wait, while a larger one takes
\* every byte the queue has.
SPECIFICATION Spec
CONSTANTS
    p1 = p1
    p2 = p2
    p3 = p3
    e1 = e1
    e2 = e2
    e3 = e3
    w1 = w1
    w2 = w2
    NoWorker = NoWorker
    NoEvent = NoEvent
    Publishers = {p1, p2, p3}
    Workers = {w1}
    Events = {e1, e2, e3}
    EventOf <- RepeatedEvents
    Key <- DistinctKeys
    Routes = {1}
    Matches <- EveryRoute
    Lane <- OneLane
    Relaxed = {}
    Coalesced = {}
    Debounce <- NoDebounce
    Size <- MixedSizes
    MaxPendingDeliveries = 2
    MaxPendingBytes = 2
    MaxEventBytes = 2
    PublishTimeout = 1
    LeaseTime = 1
    MaxDelay = 0
    MaxAttempts = 0
    Outcomes = {"succeeded"}
    Invocations = {FALSE}
    MaxFencingToken = 2
    AllowRedrive = FALSE
INVARIANTS
    AcceptedOnce
