------------------------------ MODULE EventStore ------------------------------
(***************************************************************************)
(* The delivery queue of AxInMemoryEventStore (src/ax/event/memoryStore.ts):*)
(* publishers that enqueue events, deduplicate, coalesce and wait for      *)
(* capacity; workers that claim deliveries under fenced, expiring leases,  *)
(* renew them and save their outcomes; operators that redrive.             *)
(*                                                                         *)
(* Every action is one synchronous turn of the JavaScript event loop: the  *)
(* store awaits only in waitForCapacity and waitForWork.  Workers and      *)
(* operators are the most general clients the store accepts: whoever holds *)
(* the active claim of a delivery may save any record of it.               *)
(*                                                                         *)
(* Time is relative.  A record keeps how long its lease and its delay      *)
(* still have to run (leaseExpiresAt - now, availableAt - now), and Tick   *)
(* is the passing of one unit of time.                                     *)
(*                                                                         *)
(* Operators named for a mistake (ReleaseNothing, WakeTooLate, ...)        *)
(* are not part of the specification: each stands beside the definition    *)
(* that it would replace in a faulty store, to test the properties.        *)
(***************************************************************************)
EXTENDS Integers, FiniteSets, FiniteSetsExt

CONSTANTS
    Workers, NoWorker,   \* ids of the runtimes that claim deliveries
    Publishers,          \* calls of publish(): each call happens at most once
    Events, NoEvent,     \* ingress events, and "no event"
    EventOf,             \* [Publishers -> Events]: what each call publishes
    Key,                 \* [Events -> ...]: scoped dedupe key of an event
    Routes,              \* route ids, numbered in registration order
    Matches,             \* [Events -> SUBSET Routes]: routes an event takes
    Lane,                \* [Routes -> [Events -> ...]]: target and instance key
    Relaxed,             \* routes with ordering 'relaxed'
    Coalesced,           \* routes with coalesce 'latest'
    Debounce,            \* [Routes -> Nat]: debounceMs of a route
    Size,                \* [Events -> Nat]: sizeBytes of an event
    MaxPendingDeliveries, MaxPendingBytes, MaxEventBytes,
    PublishTimeout,      \* publishTimeoutMs
    LeaseTime,           \* longest lease a client asks for
    MaxDelay,            \* longest availableAt - now a client saves
    MaxAttempts,         \* bound on the attempts a client counts
    Outcomes,            \* terminal statuses the clients save
    Invocations,         \* values of invocationStarted the clients save
    MaxFencingToken,     \* MAX_FENCING_TOKEN, Number.MAX_SAFE_INTEGER
    AllowRedrive         \* whether operators redrive deliveries

\* isTerminal, and the statuses a claim owns.
Terminal == {"succeeded", "failed", "verification_failed", "cancelled",
             "dead_lettered", "output_persistence_failed", "parked",
             "outcome_unknown", "waiting_event"}
Active == {"claimed", "running"}
Live == {"queued"} \union Active

ASSUME ConstantsAssumption ==
    /\ NoWorker \notin Workers /\ NoEvent \notin Events
    /\ IsFiniteSet(Publishers) /\ IsFiniteSet(Routes) /\ Routes \subseteq Nat \ {0}
    /\ EventOf \in [Publishers -> Events]
    /\ Matches \in [Events -> SUBSET Routes]
    /\ Debounce \in [Routes -> Nat]
    /\ Size \in [Events -> Nat]
    /\ MaxPendingDeliveries \in Nat /\ MaxPendingBytes \in Nat /\ MaxEventBytes \in Nat
    /\ PublishTimeout \in Nat /\ LeaseTime \in Nat /\ MaxDelay \in Nat
    /\ MaxAttempts \in Nat /\ MaxFencingToken \in Nat
    /\ \A r \in Routes : Debounce[r] <= MaxDelay
    /\ Outcomes \subseteq Terminal
    /\ Invocations \subseteq BOOLEAN
    /\ AllowRedrive \in BOOLEAN

VARIABLES
    deliveries,          \* the deliveries map; unused ids are "absent"
    dedupe,              \* the dedupe map: the event accepted under a key
    sequence,            \* last sequence number given out
    pendingDeliveries,   \* the counters hasCapacity reads
    pendingBytes,
    publishers,          \* progress of each publish() call
    redriven             \* history: deliveries redriven so far

vars == <<deliveries, dedupe, sequence, pendingDeliveries, pendingBytes,
          publishers, redriven>>

-----------------------------------------------------------------------------
(* Records *)

\* A publish() call creates at most one delivery per route.
DeliveryIds == Publishers \X Routes

\* run is the fencing token of the claim that created the run, 0 for none:
\* a claim creates at most one run, and a token is claimed at most once.
Statuses == Live \union Terminal \union {"absent"}
Delivery == [status    : Statuses,
             seq       : Nat,
             event     : Events \union {NoEvent},
             delay     : Int,
             attempt   : Nat,
             token     : 0 .. MaxFencingToken,
             owner     : Workers \union {NoWorker},
             lease     : Nat,
             run       : 0 .. MaxFencingToken,
             invoked   : BOOLEAN,
             recovered : BOOLEAN]

Absent == [status |-> "absent", seq |-> 0, event |-> NoEvent, delay |-> 0,
           attempt |-> 0, token |-> 0, owner |-> NoWorker, lease |-> 0,
           run |-> 0, invoked |-> FALSE, recovered |-> FALSE]

\* Only claims have an owner and a lease that any operation reads, and only
\* queued deliveries a delay: elsewhere these fields are kept at zero.
AtRest(record) ==
    [record EXCEPT !.owner = IF record.status \in Active THEN @ ELSE NoWorker,
                   !.lease = IF record.status \in Active THEN @ ELSE 0,
                   !.delay = IF record.status = "queued" THEN @ ELSE 0]

\* left: time to the deadline of the call; "woken": its capacity waiter was
\* resolved and the call has not run since.
Publisher == [pc   : {"idle", "waiting", "woken", "accepted", "duplicate",
                      "conflict", "rejected", "aborted"},
              left : Nat]

Exists(d) == deliveries[d].status # "absent"
LaneOf(d) == Lane[d[2]][deliveries[d].event]
IsLive(d) == deliveries[d].status \in Live
SizeOf(d) == Size[deliveries[d].event]

\* d comes before e in the strict order of their target instance.
Before(d, e) == /\ Exists(d) /\ Exists(e)
                /\ deliveries[d].seq < deliveries[e].seq
                /\ LaneOf(d) = LaneOf(e)

\* assertActiveClaim: the caller's worker id and token own an unexpired lease.
ActiveClaim(d, w, t) ==
    /\ deliveries[d].status \in Active
    /\ deliveries[d].owner = w /\ w # NoWorker
    /\ deliveries[d].token = t
    /\ deliveries[d].lease > 0

\* assertFencingTokenCanAdvance
CanAdvance(d) == deliveries[d].token < MaxFencingToken

First(S) == CHOOSE d \in S : \A e \in S : deliveries[d].seq <= deliveries[e].seq

-----------------------------------------------------------------------------
(* Publishing *)

\* How long ago the call was made: now - acceptedAt.
Age(p) == IF publishers[p].pc \in {"waiting", "woken"} THEN PublishTimeout - publishers[p].left ELSE 0

\* findCoalescible: a queued delivery of the route and lane that was not due
\* yet when the call was made.
Coalescible(p, r) ==
    {d \in Publishers \X {r} :
        /\ r \in Coalesced
        /\ deliveries[d].status = "queued"
        /\ deliveries[d].delay > -Age(p)
        /\ LaneOf(d) = Lane[r][EventOf[p]]}

\* The delivery that takes the event of the call on route r: the one it
\* replaces, or a new one.
Slot(p, r) == IF Coalescible(p, r) = {} THEN <<p, r>> ELSE First(Coalescible(p, r))

MatchedRoutes(p) == Matches[EventOf[p]]
FreshRoutes(p) == {r \in MatchedRoutes(p) : Coalescible(p, r) = {}}

\* capacityRequirement: a replaced delivery gives its bytes back.
RequiredBytes(p) ==
    MapThenSumSet(LAMBDA r : Size[EventOf[p]]
                      - IF r \in FreshRoutes(p) THEN 0 ELSE SizeOf(Slot(p, r)),
                  MatchedRoutes(p))

HasCapacityByBytes(p) == pendingBytes + RequiredBytes(p) <= MaxPendingBytes
HasCapacity(p) ==
    /\ pendingDeliveries + Cardinality(FreshRoutes(p)) <= MaxPendingDeliveries
    /\ pendingBytes + RequiredBytes(p) <= MaxPendingBytes

NewDelivery(p, r) ==
    [Absent EXCEPT !.status = "queued",
                   !.seq = sequence + Cardinality({q \in FreshRoutes(p) : q <= r}),
                   !.event = EventOf[p],
                   !.delay = Debounce[r] - Age(p)]

Settled(outcome) == [pc |-> outcome, left |-> 0]
Waiting(left) == [pc |-> "waiting", left |-> left]

\* The synchronous tail of enqueue: create or replace one delivery per route.
Accept(p) ==
    /\ deliveries' = [d \in DeliveryIds |->
          IF d \in {<<p, r>> : r \in FreshRoutes(p)} THEN NewDelivery(p, d[2])
          ELSE IF d \in {Slot(p, r) : r \in MatchedRoutes(p)}
               THEN [deliveries[d] EXCEPT !.event = EventOf[p],
                                          !.delay = Debounce[d[2]] - Age(p)]
          ELSE deliveries[d]]
    /\ sequence' = sequence + Cardinality(FreshRoutes(p))
    /\ pendingDeliveries' = pendingDeliveries + Cardinality(FreshRoutes(p))
    /\ pendingBytes' = pendingBytes + RequiredBytes(p)
    /\ dedupe' = [dedupe EXCEPT ![Key[EventOf[p]]] = EventOf[p]]
    /\ publishers' = [publishers EXCEPT ![p] = Settled("accepted")]
    /\ UNCHANGED redriven

\* The call moves to a state of its own and leaves the queue alone.
Move(p, state) ==
    /\ publishers' = [publishers EXCEPT ![p] = state]
    /\ UNCHANGED <<deliveries, dedupe, sequence, pendingDeliveries, pendingBytes, redriven>>

Fits(p) == MatchedRoutes(p) = {} \/ Size[EventOf[p]] <= MaxEventBytes
Known(p) == dedupe[Key[EventOf[p]]]

\* The checks enqueue makes on entry, in its order.
PublishKnown(p) ==
    /\ publishers[p].pc = "idle" /\ Known(p) # NoEvent
    /\ Move(p, Settled(IF Known(p) = EventOf[p] THEN "duplicate" ELSE "conflict"))

PublishRejected(p) ==
    /\ publishers[p].pc = "idle" /\ Known(p) = NoEvent
    /\ ~Fits(p) \/ (~HasCapacity(p) /\ PublishTimeout = 0)
    /\ Move(p, Settled("rejected"))

PublishAccepted(p) ==
    /\ publishers[p].pc = "idle" /\ Known(p) = NoEvent
    /\ Fits(p) /\ HasCapacity(p)
    /\ Accept(p)

PublishWaits(p) ==
    /\ publishers[p].pc = "idle" /\ Known(p) = NoEvent
    /\ Fits(p) /\ ~HasCapacity(p) /\ PublishTimeout > 0
    /\ Move(p, Waiting(PublishTimeout))

\* A resolved capacity waiter runs: the loop of enqueue checks capacity again,
\* and nothing else.
WakeTooLate(p) ==
    /\ publishers[p].pc = "woken"
    /\ \/ publishers[p].left = 0 /\ Move(p, Settled("rejected"))
       \/ HasCapacity(p) /\ publishers[p].left > 0 /\ Accept(p)
       \/ ~HasCapacity(p) /\ publishers[p].left > 0 /\ Move(p, Waiting(publishers[p].left))
Wake(p) ==
    /\ publishers[p].pc = "woken"
    /\ \/ HasCapacity(p) /\ Accept(p)
       \/ ~HasCapacity(p) /\ publishers[p].left = 0 /\ Move(p, Settled("rejected"))
       \/ ~HasCapacity(p) /\ publishers[p].left > 0 /\ Move(p, Waiting(publishers[p].left))

\* The sleep that waitForCapacity races against the waiter ends first.
PublishWithoutTimer(p) == FALSE /\ Move(p, Settled("rejected"))
PublishTimesOut(p) ==
    /\ publishers[p].pc = "waiting" /\ publishers[p].left = 0
    /\ Move(p, Settled("rejected"))

\* The caller's signal aborts the call while it waits, or close() rejects its
\* waiter.
PublishAborts(p) ==
    /\ publishers[p].pc \in {"waiting", "woken"}
    /\ Move(p, Settled("aborted"))

-----------------------------------------------------------------------------
(* Claims, leases and outcomes *)

HasEarlierActiveWork(d) ==
    d[2] \notin Relaxed /\ \E e \in DeliveryIds : deliveries[e].status \in Active /\ Before(e, d)
HasEarlierInstanceWork(d) ==
    /\ d[2] \notin Relaxed
    /\ \E e \in DeliveryIds : IsLive(e) /\ Before(e, d)

Recovered(d) ==
    \/ deliveries[d].status \in Active /\ deliveries[d].lease = 0
    \/ deliveries[d].status = "queued" /\ deliveries[d].run # 0 /\ deliveries[d].invoked

Claimable(d) ==
    /\ \/ deliveries[d].status = "queued" /\ deliveries[d].delay <= 0
       \/ deliveries[d].status \in Active /\ deliveries[d].lease = 0
    /\ ~HasEarlierInstanceWork(d)

Claimed(d, w, lease) ==
    [deliveries[d] EXCEPT !.status = "claimed", !.owner = w, !.delay = 0,
                          !.token = @ + 1, !.lease = lease,
                          !.recovered = @ \/ Recovered(d)]

\* claim() takes the first claimable delivery in enqueue order; when the
\* token of that one is exhausted the call throws and nothing changes.
Claim(w, lease) ==
    LET claimable == {d \in DeliveryIds : Claimable(d)}
        d == First(claimable)
    IN  /\ claimable # {}
        /\ CanAdvance(d)
        /\ deliveries' = [deliveries EXCEPT ![d] = Claimed(d, w, lease)]
        /\ UNCHANGED <<dedupe, sequence, pendingDeliveries, pendingBytes, publishers, redriven>>

\* renewClaim by the worker that holds the claim.
RenewExpiredClaim(d, lease) ==
    /\ deliveries[d].status \in Active /\ lease > 0
    /\ deliveries' = [deliveries EXCEPT ![d].lease = lease]
    /\ UNCHANGED <<dedupe, sequence, pendingDeliveries, pendingBytes, publishers, redriven>>
RenewClaim(d, lease) ==
    /\ \E w \in Workers : ActiveClaim(d, w, deliveries[d].token)
    /\ lease > 0
    /\ deliveries' = [deliveries EXCEPT ![d].lease = lease]
    /\ UNCHANGED <<dedupe, sequence, pendingDeliveries, pendingBytes, publishers, redriven>>

\* notify(capacityWaiters)
NotifyNobody == UNCHANGED publishers
NotifyCapacity ==
    publishers' = [p \in Publishers |->
        [publishers[p] EXCEPT !.pc = IF @ = "waiting" THEN "woken" ELSE @]]

\* The counters of hasCapacity, for a delivery that ends or comes back.
ReleaseNothing(d) == UNCHANGED <<pendingDeliveries, pendingBytes>>
ReleaseSlot(d) ==
    /\ pendingDeliveries' = pendingDeliveries - 1
    /\ pendingBytes' = pendingBytes - SizeOf(d)
TakeSlot(d) ==
    /\ pendingDeliveries' = pendingDeliveries + 1
    /\ pendingBytes' = pendingBytes + SizeOf(d)

\* saveDelivery of a whole record by the worker its owner and token name.
SaveDelivery(d, record) ==
    /\ ActiveClaim(d, record.owner, record.token)
    /\ deliveries' = [deliveries EXCEPT ![d] = AtRest(record)]
    /\ IF record.status \in Terminal
       THEN ReleaseSlot(d) /\ NotifyCapacity
       ELSE UNCHANGED <<pendingDeliveries, pendingBytes, publishers>>
    /\ UNCHANGED <<dedupe, sequence, redriven>>

\* The records the holder of the active claim of d may save: it spreads a
\* copy of the delivery, so the identity of the delivery is kept.
SavableRecords(d) ==
    LET Changes == [status : {"queued", "running"} \union Outcomes,
                    delay : 0 .. MaxDelay, attempt : 0 .. MaxAttempts,
                    lease : 0 .. LeaseTime, invoked : Invocations,
                    run : 0 .. deliveries[d].token]
    IN  {[deliveries[d] EXCEPT !.status = c.status, !.delay = c.delay,
                               !.attempt = c.attempt, !.lease = c.lease,
                               !.run = c.run, !.invoked = c.invoked] : c \in Changes}

Redriven(d, preserveRun) ==
    [deliveries[d] EXCEPT !.status = "queued", !.attempt = 0, !.delay = 0,
                          !.owner = NoWorker, !.lease = 0, !.token = @ + 1,
                          !.run = IF preserveRun THEN @ ELSE 0,
                          !.invoked = preserveRun,
                          !.recovered = @ \/ preserveRun]

\* redriveDelivery: back to the queue under a new token, without asking for
\* capacity; the run is kept or forgotten.
RedriveDelivery(d, preserveRun) ==
    /\ deliveries[d].status \in Terminal
    /\ CanAdvance(d)
    /\ preserveRun => deliveries[d].run # 0
    /\ deliveries' = [deliveries EXCEPT ![d] = Redriven(d, preserveRun)]
    /\ TakeSlot(d)
    /\ redriven' = redriven \union {d}
    /\ UNCHANGED <<dedupe, sequence, publishers>>

\* Time passes once every due timer and every resolved waiter has run: both
\* are turns of the event loop that take no time.
Tick ==
    /\ \A p \in Publishers : /\ publishers[p].pc # "woken"
                             /\ publishers[p].pc = "waiting" => publishers[p].left > 0
    /\ deliveries' = [d \in DeliveryIds |->
          AtRest([deliveries[d] EXCEPT
                    !.lease = IF @ > 0 THEN @ - 1 ELSE 0,
                    !.delay = IF @ > -PublishTimeout THEN @ - 1 ELSE @])]
    /\ publishers' = [p \in Publishers |->
          [publishers[p] EXCEPT
              !.left = IF publishers[p].pc = "waiting" THEN @ - 1 ELSE @]]
    /\ UNCHANGED <<dedupe, sequence, pendingDeliveries, pendingBytes, redriven>>

-----------------------------------------------------------------------------
(* Specification *)

Init ==
    /\ deliveries = [d \in DeliveryIds |-> Absent]
    /\ dedupe = [k \in {Key[e] : e \in Events} |-> NoEvent]
    /\ sequence = 0
    /\ pendingDeliveries = 0
    /\ pendingBytes = 0
    /\ publishers = [p \in Publishers |-> Settled("idle")]
    /\ redriven = {}

Publish(p) ==
    \/ PublishKnown(p)
    \/ PublishRejected(p)
    \/ PublishAccepted(p)
    \/ PublishWaits(p)
    \/ Wake(p)
    \/ PublishTimesOut(p)
    \/ PublishAborts(p)

Next ==
    \/ \E p \in Publishers : Publish(p)
    \/ \E w \in Workers, lease \in 1 .. LeaseTime : Claim(w, lease)
    \/ \E d \in DeliveryIds, lease \in 1 .. LeaseTime : RenewClaim(d, lease)
    \/ \E d \in DeliveryIds : \E record \in SavableRecords(d) : SaveDelivery(d, record)
    \/ \E d \in DeliveryIds, preserveRun \in BOOLEAN :
          AllowRedrive /\ RedriveDelivery(d, preserveRun)
    \/ Tick

Spec == Init /\ [][Next]_vars

\* Resolved waiters run, timers fire and time passes: the event loop is live.
FairSpec ==
    /\ Spec
    /\ \A p \in Publishers : WF_vars(Wake(p)) /\ WF_vars(PublishTimesOut(p))
    /\ WF_vars(Tick)

-----------------------------------------------------------------------------
(* Properties *)

\* Every variable has its type; BytesExact pins down pendingBytes.
TypeOK ==
    /\ deliveries \in [DeliveryIds -> Delivery]
    /\ dedupe \in [{Key[e] : e \in Events} -> Events \union {NoEvent}]
    /\ sequence \in Nat
    /\ pendingDeliveries \in Int
    /\ publishers \in [Publishers -> Publisher]
    /\ redriven \subseteq DeliveryIds

\* The counters that hasCapacity trusts are what the queue really holds, so
\* that no path through publish, coalesce, save and redrive leaks a slot or a
\* byte, and enqueue admits no more than the limits: only redriven deliveries,
\* which redriveDelivery readmits without asking, may exceed them.
LiveDeliveries == {d \in DeliveryIds : IsLive(d)}
CountExact == pendingDeliveries = Cardinality(LiveDeliveries)
BytesExact == pendingBytes = MapThenSumSet(SizeOf, LiveDeliveries)
Admitted == LiveDeliveries \ redriven
CountWithinLimit == Cardinality(Admitted) <= MaxPendingDeliveries
BytesWithinLimit == MapThenSumSet(SizeOf, Admitted) <= MaxPendingBytes
CapacityRespected == CountExact /\ BytesExact /\ CountWithinLimit /\ BytesWithinLimit

\* Deliveries of a strict lane are claimed in the order they were accepted,
\* whatever retries, lost leases and coalescing did in between: an earlier one
\* is still live under a claimed one only if an operator brought it back.
StrictOrder ==
    \A d, e \in DeliveryIds :
        /\ deliveries[e].status \in Active /\ e[2] \notin Relaxed
        /\ Before(d, e) /\ IsLive(d)
        => d \in redriven

\* A lost claim is lost for good: a worker whose lease ran out, or whose
\* delivery was saved, reclaimed or redriven, can never write under its old
\* fencing token again, not even if the same worker claims the delivery anew.
LostClaimStaysLost ==
    [][\A d \in DeliveryIds, w \in Workers : \A t \in 0 .. deliveries[d].token :
          ~ActiveClaim(d, w, t) => ~ActiveClaim(d, w, t)']_vars

\* A publisher sleeps in waitForCapacity only while its event does not fit:
\* whatever makes room for it also resolves its waiter.
NoLostWakeup ==
    \A p \in Publishers :
        publishers[p].pc = "waiting" => ~HasCapacity(p)

\* A publish() is refused with 'inbox capacity was exhausted' only when the
\* event is too large or really does not fit.
RefusedOnlyWhenFull ==
    [][\A p \in Publishers :
          publishers[p].pc # "rejected" /\ publishers'[p].pc = "rejected"
          => ~Fits(p) \/ ~HasCapacity(p)]_vars

\* A redelivered event is recognised, whenever it arrives: one dedupe key is
\* accepted once.  enqueue asks for duplicates when it is called, and not again
\* when its wait for capacity is over, so two calls that wait break it.
AcceptedOnce ==
    \A p, q \in Publishers :
        /\ publishers[p].pc = "accepted" /\ publishers[q].pc = "accepted"
        /\ Key[EventOf[p]] = Key[EventOf[q]]
        => p = q

\* The inductive invariant behind the safety properties: sequence numbers are
\* given out in order, and a call owns no delivery before it is accepted.
SequenceBounded ==
    \A d \in DeliveryIds : Exists(d) => deliveries[d].seq <= sequence
NothingBeforeAccepted ==
    \A p \in Publishers, r \in Routes :
        publishers[p].pc # "accepted" => ~Exists(<<p, r>>)
StoreInvariant ==
    /\ TypeOK
    /\ SequenceBounded
    /\ NothingBeforeAccepted
    /\ StrictOrder
    /\ CountExact
    /\ CountWithinLimit

\* Every publish() that waits for capacity settles.
PublishSettles ==
    \A p \in Publishers : publishers[p].pc = "waiting" ~> publishers[p].pc \notin {"waiting", "woken"}

=============================================================================
