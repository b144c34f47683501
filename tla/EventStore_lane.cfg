\* Three events for one strict lane; capacity for two; no operator.
SPECIFICATION FairSpec
CONSTANTS
    p1 = p1
    p2 = p2
    p3 = p3
    e1 = e1
    e2 = e2
    e3 = e3
    w1 = w1
    w2 = w2
    NoWorker = NoWorker
    NoEvent = NoEvent
    Publishers = {p1, p2, p3}
    Workers = {w1, w2}
    Events = {e1, e2, e3}
    EventOf <- DistinctEvents
    Key <- DistinctKeys
    Routes = {1}
    Matches <- EveryRoute
    Lane <- OneLane
    Relaxed = {}
    Coalesced = {}
    Debounce <- NoDebounce
    Size <- EqualSizes
    MaxPendingDeliveries = 2
    MaxPendingBytes = 3
    MaxEventBytes = 2
    PublishTimeout = 1
    LeaseTime = 1
    MaxDelay = 0
    MaxAttempts = 0
    Outcomes = {"succeeded"}
    Invocations = {FALSE}
    MaxFencingToken = 2
    AllowRedrive = FALSE
INVARIANTS
    StoreInvariant
    NoLostWakeup
PROPERTIES
    RefusedOnlyWhenFull
    PublishSettles
