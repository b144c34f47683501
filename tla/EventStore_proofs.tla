--------------------------- MODULE EventStore_proofs ---------------------------
(***************************************************************************)
(* Theorems about EventStore, for every value of its constants.  The first  *)
(* part is type correctness, one lemma per action; the second the order of  *)
(* strict lanes, by the invariant OrderInvariant; the third the fencing of  *)
(* claims; the fourth the counter of pending deliveries and the limit on    *)
(* what enqueue admits, by StoreInvariant, which is inductive as it stands. *)
(* Then the counter of bytes, a sum over what is live; and the wake-ups and  *)
(* the refusals of waiting publishers, where no route coalesces.            *)
(***************************************************************************)
EXTENDS EventStore, FoldTheorems

-----------------------------------------------------------------------------
(* What the operators of EventStore return *)

LEMMA FirstIsFirst ==
    ASSUME TypeOK, NEW S \in SUBSET DeliveryIds, S # {}
    PROVE  /\ First(S) \in S
           /\ \A e \in S : deliveries[First(S)].seq <= deliveries[e].seq
<1> DEFINE seqs == {deliveries[d].seq : d \in S}
<1>1. seqs \in SUBSET Nat /\ seqs # {}
  BY DEF TypeOK, Delivery
<1>2. PICK n \in seqs : \A m \in seqs : n <= m
  BY <1>1, NatHasMinimum
<1>3. \E d \in S : \A e \in S : deliveries[d].seq <= deliveries[e].seq
  BY <1>2
<1> QED
  BY <1>3 DEF First

LEMMA AgeType == ASSUME TypeOK, NEW p \in Publishers PROVE Age(p) \in Int
BY ConstantsAssumption DEF TypeOK, Publisher, Age

\* The routes of a call and the new ones among them are finitely many.
LEMMA RoutesOfCall ==
    ASSUME NEW p \in Publishers
    PROVE  /\ MatchedRoutes(p) \subseteq Routes /\ FreshRoutes(p) \subseteq MatchedRoutes(p)
           /\ IsFiniteSet(FreshRoutes(p))
           /\ Cardinality(FreshRoutes(p)) \in Nat
           /\ \A r \in Routes : LET upTo == {q \in FreshRoutes(p) : q <= r} IN
                 /\ Cardinality(upTo) \in Nat
                 /\ Cardinality(upTo) <= Cardinality(FreshRoutes(p))
                 /\ r \in FreshRoutes(p) => Cardinality(upTo) > 0
<1>1. MatchedRoutes(p) \subseteq Routes /\ FreshRoutes(p) \subseteq MatchedRoutes(p)
  BY ConstantsAssumption DEF MatchedRoutes, FreshRoutes
<1>2. IsFiniteSet(FreshRoutes(p))
  BY <1>1, ConstantsAssumption, FS_Subset
<1>3. Cardinality(FreshRoutes(p)) \in Nat
  BY <1>2, FS_CardinalityType
<1>4. ASSUME NEW r \in Routes
      PROVE  LET upTo == {q \in FreshRoutes(p) : q <= r} IN
                 /\ Cardinality(upTo) \in Nat
                 /\ Cardinality(upTo) <= Cardinality(FreshRoutes(p))
                 /\ r \in FreshRoutes(p) => Cardinality(upTo) > 0
  <2> DEFINE upTo == {q \in FreshRoutes(p) : q <= r}
  <2>1. upTo \subseteq FreshRoutes(p)
    OBVIOUS
  <2> HIDE DEF upTo
  <2>2. IsFiniteSet(upTo) /\ Cardinality(upTo) <= Cardinality(FreshRoutes(p))
    BY <1>2, <2>1, FS_Subset
  <2>3. Cardinality(upTo) \in Nat /\ (Cardinality(upTo) = 0 <=> upTo = {})
    BY <2>2, FS_CardinalityType, FS_EmptySet
  <2>4. r \in FreshRoutes(p) => r \in upTo
    BY <1>4, ConstantsAssumption DEF upTo
  <2> QED
    BY <2>2, <2>3, <2>4 DEF upTo
<1> QED
  BY <1>1, <1>2, <1>3, <1>4

\* An event lands on a delivery of its own, or replaces a queued one of the
\* same route and target instance.
LEMMA SlotOfRoute ==
    ASSUME TypeOK, NEW p \in Publishers, NEW r \in MatchedRoutes(p)
    PROVE  /\ Slot(p, r) \in DeliveryIds /\ Slot(p, r)[2] = r
           /\ r \in FreshRoutes(p) => Slot(p, r) = <<p, r>>
           /\ r \notin FreshRoutes(p) => /\ deliveries[Slot(p, r)].status = "queued"
                                        /\ LaneOf(Slot(p, r)) = Lane[r][EventOf[p]]
<1>1. r \in Routes
  BY RoutesOfCall
<1>2. CASE Coalescible(p, r) = {}
  BY <1>1, <1>2 DEF Slot, FreshRoutes, DeliveryIds
<1>3. CASE Coalescible(p, r) # {}
  <2>1. Coalescible(p, r) \in SUBSET DeliveryIds
    BY <1>1 DEF Coalescible, DeliveryIds
  <2>2. Slot(p, r) \in Coalescible(p, r)
    BY <1>3, <2>1, FirstIsFirst DEF Slot
  <2> QED
    BY <1>1, <1>3, <2>1, <2>2 DEF Coalescible, FreshRoutes
<1> QED
  BY <1>2, <1>3

\* What enqueue does to each delivery: create it, replace its event, or nothing.
Created(p, d) == d \in {<<p, r>> : r \in FreshRoutes(p)}
Replaced(p, d) == /\ deliveries[d].status = "queued"
                  /\ LaneOf(d) = Lane[d[2]][EventOf[p]]
                  /\ deliveries'[d] = [deliveries[d] EXCEPT !.event = EventOf[p],
                                                            !.delay = Debounce[d[2]] - Age(p)]
LEMMA AcceptShape ==
    ASSUME TypeOK, NEW p \in Publishers, Accept(p), NEW d \in DeliveryIds
    PROVE  \/ Created(p, d) /\ deliveries'[d] = NewDelivery(p, d[2])
           \/ ~Created(p, d) /\ Replaced(p, d)
           \/ ~Created(p, d) /\ deliveries'[d] = deliveries[d]
<1>1. CASE Created(p, d)
  BY <1>1 DEF Accept, Created
<1>2. CASE ~Created(p, d) /\ d \in {Slot(p, r) : r \in MatchedRoutes(p)}
  <2>1. PICK r \in MatchedRoutes(p) : d = Slot(p, r)
    BY <1>2
  <2>2. r \notin FreshRoutes(p)
    BY <1>2, <2>1, SlotOfRoute DEF Created
  <2>3. deliveries[d].status = "queued" /\ LaneOf(d) = Lane[d[2]][EventOf[p]]
    <3>1. /\ Slot(p, r)[2] = r
          /\ deliveries[Slot(p, r)].status = "queued"
          /\ LaneOf(Slot(p, r)) = Lane[r][EventOf[p]]
      BY <2>2, SlotOfRoute
    <3> QED
      BY <2>1, <3>1
  <2>4. deliveries'[d] = [deliveries[d] EXCEPT !.event = EventOf[p],
                                               !.delay = Debounce[d[2]] - Age(p)]
    BY <1>2 DEF Accept, Created
  <2> QED
    BY <1>2, <2>3, <2>4 DEF Replaced
<1>3. CASE ~Created(p, d) /\ d \notin {Slot(p, r) : r \in MatchedRoutes(p)}
  BY <1>3 DEF Accept, Created
<1> QED
  BY <1>1, <1>2, <1>3

-----------------------------------------------------------------------------
(* Types *)

LEMMA StatusTypes ==
    /\ {"queued", "claimed", "running", "absent"} \subseteq Statuses
    /\ Terminal \subseteq Statuses /\ Outcomes \subseteq Statuses
BY ConstantsAssumption DEF Statuses, Live, Active

\* Fields that are reset to zero keep their types.
LEMMA ZeroTypes == 0 \in Nat /\ 0 \in Int /\ 0 \in 0 .. MaxFencingToken
BY ConstantsAssumption

LEMMA AtRestType == ASSUME NEW record \in Delivery PROVE AtRest(record) \in Delivery
<1> DEFINE owner == IF record.status \in Active THEN record.owner ELSE NoWorker
           lease == IF record.status \in Active THEN record.lease ELSE 0
           delay == IF record.status = "queued" THEN record.delay ELSE 0
<1>1. owner \in Workers \union {NoWorker} /\ lease \in Nat /\ delay \in Int
  BY DEF Delivery
<1>2. AtRest(record) = [record EXCEPT !.owner = owner, !.lease = lease, !.delay = delay]
  BY Zenon DEF AtRest
<1> HIDE DEF owner, lease, delay
<1> QED
  BY <1>1, <1>2 DEF Delivery

LEMMA SavableType ==
    ASSUME TypeOK, NEW d \in DeliveryIds, NEW record \in SavableRecords(d)
    PROVE  record \in Delivery
<1>1. PICK c \in [status : {"queued", "running"} \union Outcomes,
                   delay : 0 .. MaxDelay, attempt : 0 .. MaxAttempts,
                   lease : 0 .. LeaseTime, invoked : Invocations,
                   run : 0 .. deliveries[d].token] :
        record = [deliveries[d] EXCEPT !.status = c.status, !.delay = c.delay,
                                       !.attempt = c.attempt, !.lease = c.lease,
                                       !.run = c.run, !.invoked = c.invoked]
  BY DEF SavableRecords
<1>2. /\ deliveries[d] \in Delivery /\ c.status \in Statuses /\ c.delay \in Int
      /\ c.attempt \in Nat /\ c.lease \in Nat /\ c.run \in 0 .. MaxFencingToken
      /\ c.invoked \in BOOLEAN
  BY StatusTypes, ConstantsAssumption DEF TypeOK, Delivery
<1> QED
  BY <1>1, <1>2 DEF Delivery

LEMMA AbsentType == Absent \in Delivery
BY StatusTypes, ConstantsAssumption DEF Absent, Delivery

LEMMA NewDeliveryType ==
    ASSUME TypeOK, NEW p \in Publishers, NEW r \in FreshRoutes(p)
    PROVE  NewDelivery(p, r) \in Delivery
<1>1. /\ EventOf[p] \in Events /\ r \in Routes /\ Debounce[r] \in Nat
      /\ Age(p) \in Int /\ sequence \in Nat /\ MaxFencingToken \in Nat
  BY ConstantsAssumption, RoutesOfCall, AgeType DEF TypeOK
<1>2. Cardinality({q \in FreshRoutes(p) : q <= r}) \in Nat
  BY <1>1, RoutesOfCall
<1>3. \A seq \in Nat, event \in Events, delay \in Int :
          [Absent EXCEPT !.status = "queued", !.seq = seq,
                         !.event = event, !.delay = delay] \in Delivery
  <2>1. Absent \in Delivery
    BY AbsentType
  <2> QED
    BY <2>1, StatusTypes DEF Delivery
<1>4. /\ sequence + Cardinality({q \in FreshRoutes(p) : q <= r}) \in Nat
      /\ Debounce[r] - Age(p) \in Int
  BY <1>1, <1>2
<1> QED
  BY <1>1, <1>3, <1>4 DEF NewDelivery

LEMMA TypeAccept ==
    ASSUME TypeOK, NEW p \in Publishers, Accept(p)
    PROVE  TypeOK'
<1>1. deliveries' \in [DeliveryIds -> Delivery]
  <2>1. ASSUME NEW d \in DeliveryIds PROVE deliveries'[d] \in Delivery
    <3>1. CASE Created(p, d) /\ deliveries'[d] = NewDelivery(p, d[2])
      BY <3>1, NewDeliveryType DEF Created
    <3>2. CASE Replaced(p, d)
      <4>1. /\ EventOf[p] \in Events
            /\ Debounce[d[2]] - Age(p) \in Int
        <5>1. Debounce[d[2]] \in Nat
          BY ConstantsAssumption DEF DeliveryIds
        <5> QED
          BY <5>1, AgeType, ConstantsAssumption
      <4> QED
        BY <3>2, <4>1 DEF Replaced, TypeOK, Delivery
    <3>3. CASE deliveries'[d] = deliveries[d]
      BY <3>3 DEF TypeOK
    <3> QED
      BY <3>1, <3>2, <3>3, AcceptShape
  <2> QED
    BY <2>1 DEF Accept
<1>2. sequence' \in Nat /\ pendingDeliveries' \in Int
  <2>1. Cardinality(FreshRoutes(p)) \in Nat
    BY RoutesOfCall
  <2> QED
    <3>1. /\ sequence' = sequence + Cardinality(FreshRoutes(p))
          /\ pendingDeliveries' = pendingDeliveries + Cardinality(FreshRoutes(p))
      BY DEF Accept
    <3> QED
      BY <2>1, <3>1 DEF TypeOK
<1>3. dedupe' \in [{Key[e] : e \in Events} -> Events \union {NoEvent}]
  BY ConstantsAssumption DEF Accept, TypeOK
<1>4. publishers' \in [Publishers -> Publisher] /\ redriven' \subseteq DeliveryIds
  BY DEF Accept, TypeOK, Settled, Publisher
<1> QED
  BY <1>1, <1>2, <1>3, <1>4 DEF TypeOK

LEMMA TypePublish ==
    ASSUME TypeOK, NEW p \in Publishers, Publish(p)
    PROVE  TypeOK'
<1>1. CASE Accept(p)
  BY <1>1, TypeAccept
<1>2. ASSUME NEW state \in Publisher, Move(p, state) PROVE TypeOK'
  BY <1>2 DEF Move, TypeOK
<1>3. /\ \A outcome \in {"accepted", "duplicate", "conflict", "rejected", "aborted"} :
            Settled(outcome) \in Publisher
      /\ \A left \in Nat : Waiting(left) \in Publisher
      /\ publishers[p].left \in Nat /\ PublishTimeout \in Nat
  BY ConstantsAssumption DEF Settled, Waiting, Publisher, TypeOK
<1>4. CASE PublishKnown(p)
  <2>1. Settled(IF Known(p) = EventOf[p] THEN "duplicate" ELSE "conflict") \in Publisher
    BY <1>3
  <2> QED
    BY <1>2, <1>4, <2>1 DEF PublishKnown
<1> QED
  BY <1>1, <1>2, <1>3, <1>4
  DEF Publish, PublishRejected, PublishAccepted, PublishWaits, Wake,
      PublishTimesOut, PublishAborts

LEMMA ClaimShape ==
    ASSUME TypeOK, NEW w \in Workers, NEW lease \in 1 .. LeaseTime, Claim(w, lease)
    PROVE  \E d \in DeliveryIds :
              /\ Claimable(d) /\ CanAdvance(d)
              /\ deliveries' = [deliveries EXCEPT ![d] = Claimed(d, w, lease)]
<1> DEFINE claimable == {d \in DeliveryIds : Claimable(d)}
<1>1. First(claimable) \in claimable
  BY FirstIsFirst DEF Claim
<1> QED
  BY <1>1 DEF Claim

LEMMA ClaimedType ==
    ASSUME TypeOK, NEW d \in DeliveryIds, CanAdvance(d), NEW w \in Workers,
           NEW lease \in 1 .. LeaseTime
    PROVE  Claimed(d, w, lease) \in Delivery
<1> DEFINE recovered == deliveries[d].recovered \/ Recovered(d)
           token == deliveries[d].token + 1
<1>1. /\ deliveries[d] \in Delivery /\ token \in 0 .. MaxFencingToken
      /\ recovered \in BOOLEAN /\ lease \in Nat
  BY ConstantsAssumption DEF TypeOK, Delivery, CanAdvance
<1>2. Claimed(d, w, lease) =
        [deliveries[d] EXCEPT !.status = "claimed", !.owner = w, !.delay = 0,
                              !.token = token, !.lease = lease,
                              !.recovered = recovered]
  BY DEF Claimed
<1> HIDE DEF recovered, token
<1>3. \A delay \in Int :
        [deliveries[d] EXCEPT !.status = "claimed", !.owner = w, !.delay = delay,
                              !.token = token, !.lease = lease,
                              !.recovered = recovered] \in Delivery
  BY <1>1, StatusTypes DEF Delivery
<1> QED
  BY <1>2, <1>3, ZeroTypes

LEMMA RedrivenType ==
    ASSUME TypeOK, NEW d \in DeliveryIds, CanAdvance(d), NEW preserveRun \in BOOLEAN
    PROVE  Redriven(d, preserveRun) \in Delivery
<1> DEFINE run == IF preserveRun THEN deliveries[d].run ELSE 0
           recovered == deliveries[d].recovered \/ preserveRun
           token == deliveries[d].token + 1
<1>1. /\ deliveries[d] \in Delivery /\ token \in 0 .. MaxFencingToken
      /\ run \in 0 .. MaxFencingToken /\ recovered \in BOOLEAN
  BY ConstantsAssumption DEF TypeOK, Delivery, CanAdvance
<1>2. Redriven(d, preserveRun) =
        [deliveries[d] EXCEPT !.status = "queued", !.attempt = 0, !.delay = 0,
                              !.owner = NoWorker, !.lease = 0, !.token = token,
                              !.run = run, !.invoked = preserveRun,
                              !.recovered = recovered]
  BY DEF Redriven
<1> HIDE DEF run, recovered, token
<1>3. \A attempt \in Nat, delay \in Int, lease \in Nat :
        [deliveries[d] EXCEPT !.status = "queued", !.attempt = attempt, !.delay = delay,
                              !.owner = NoWorker, !.lease = lease, !.token = token,
                              !.run = run, !.invoked = preserveRun,
                              !.recovered = recovered] \in Delivery
  BY <1>1, StatusTypes DEF Delivery
<1>4. [deliveries[d] EXCEPT !.status = "queued", !.attempt = 0, !.delay = 0,
                            !.owner = NoWorker, !.lease = 0, !.token = token,
                            !.run = run, !.invoked = preserveRun,
                            !.recovered = recovered] \in Delivery
  BY <1>3, ZeroTypes
<1> QED
  BY <1>2, <1>4, Zenon

LEMMA TypeClaim ==
    ASSUME TypeOK, NEW w \in Workers, NEW lease \in 1 .. LeaseTime, Claim(w, lease)
    PROVE  TypeOK'
<1>1. deliveries' \in [DeliveryIds -> Delivery]
  BY ClaimShape, ClaimedType DEF TypeOK
<1> QED
  BY <1>1 DEF Claim, TypeOK

LEMMA TypeRenewClaim ==
    ASSUME TypeOK, NEW d \in DeliveryIds, NEW lease \in 1 .. LeaseTime, RenewClaim(d, lease)
    PROVE  TypeOK'
<1>1. [deliveries[d] EXCEPT !.lease = lease] \in Delivery
  BY ConstantsAssumption DEF TypeOK, Delivery
<1>2. deliveries' \in [DeliveryIds -> Delivery]
  BY <1>1 DEF RenewClaim, TypeOK
<1> QED
  BY <1>2 DEF RenewClaim, TypeOK

LEMMA TypeSaveDelivery ==
    ASSUME TypeOK, NEW d \in DeliveryIds, NEW record \in SavableRecords(d),
           SaveDelivery(d, record)
    PROVE  TypeOK'
<1>1. deliveries' \in [DeliveryIds -> Delivery]
  BY SavableType, AtRestType DEF SaveDelivery, TypeOK
<1>2. NotifyCapacity => publishers' \in [Publishers -> Publisher]
  <2>1. ASSUME NEW p \in Publishers
        PROVE  [publishers[p] EXCEPT !.pc = IF @ = "waiting" THEN "woken" ELSE @]
                  \in Publisher
    BY DEF TypeOK, Publisher
  <2> QED
    BY <2>1 DEF NotifyCapacity
<1>3. publishers' \in [Publishers -> Publisher] /\ pendingDeliveries' \in Int
  BY <1>2 DEF SaveDelivery, ReleaseSlot, TypeOK
<1> QED
  BY <1>1, <1>3 DEF SaveDelivery, TypeOK

LEMMA TypeRedriveDelivery ==
    ASSUME TypeOK, NEW d \in DeliveryIds, NEW preserveRun \in BOOLEAN,
           RedriveDelivery(d, preserveRun)
    PROVE  TypeOK'
<1>1. deliveries' \in [DeliveryIds -> Delivery]
  BY RedrivenType DEF RedriveDelivery, TypeOK
<1>2. pendingDeliveries' \in Int /\ redriven' \subseteq DeliveryIds
  BY DEF RedriveDelivery, TakeSlot, TypeOK
<1> QED
  BY <1>1, <1>2 DEF RedriveDelivery, TypeOK

LEMMA TypeTick == ASSUME TypeOK, Tick PROVE TypeOK'
<1>1. deliveries' \in [DeliveryIds -> Delivery]
  <2>1. ASSUME NEW d \in DeliveryIds
        PROVE  [deliveries[d] EXCEPT
                  !.lease = IF @ > 0 THEN @ - 1 ELSE 0,
                  !.delay = IF @ > -PublishTimeout THEN @ - 1 ELSE @] \in Delivery
    <3>1. (IF deliveries[d].lease > 0 THEN deliveries[d].lease - 1 ELSE 0) \in Nat
      BY DEF TypeOK, Delivery
    <3>2. (IF deliveries[d].delay > -PublishTimeout
           THEN deliveries[d].delay - 1 ELSE deliveries[d].delay) \in Int
      BY DEF TypeOK, Delivery
    <3>3. \A lease \in Nat, delay \in Int :
              [deliveries[d] EXCEPT !.lease = lease, !.delay = delay] \in Delivery
      BY DEF TypeOK, Delivery
    <3> QED
      BY <3>1, <3>2, <3>3
  <2> QED
    BY <2>1, AtRestType DEF Tick
<1>2. publishers' \in [Publishers -> Publisher]
  <2>1. ASSUME NEW p \in Publishers
        PROVE  [publishers[p] EXCEPT
                  !.left = IF publishers[p].pc = "waiting" THEN @ - 1 ELSE @] \in Publisher
    <3>1. publishers[p].pc = "waiting" => publishers[p].left - 1 \in Nat
      <4>1. publishers[p].pc = "waiting" => publishers[p].left > 0
        BY DEF Tick
      <4>2. publishers[p].left \in Nat
        BY DEF TypeOK, Publisher
      <4> QED
        BY <4>1, <4>2
    <3> QED
      BY <3>1 DEF TypeOK, Publisher
  <2> QED
    BY <2>1 DEF Tick
<1> QED
  BY <1>1, <1>2 DEF Tick, TypeOK

LEMMA TypeInit == Init => TypeOK
<1> SUFFICES ASSUME Init PROVE TypeOK
  OBVIOUS
<1>1. deliveries \in [DeliveryIds -> Delivery]
  BY AbsentType DEF Init
<1>2. publishers \in [Publishers -> Publisher]
  BY DEF Init, Settled, Publisher
<1>3. dedupe \in [{Key[e] : e \in Events} -> Events \union {NoEvent}]
  BY DEF Init
<1> QED
  BY <1>1, <1>2, <1>3 DEF Init, TypeOK

LEMMA TypeStep == TypeOK /\ [Next]_vars => TypeOK'
<1> SUFFICES ASSUME TypeOK, [Next]_vars PROVE TypeOK'
  OBVIOUS
<1>1. CASE UNCHANGED vars
  BY <1>1 DEF vars, TypeOK
<1>2. CASE Next
  BY <1>2, TypePublish, TypeClaim, TypeRenewClaim, TypeSaveDelivery,
     TypeRedriveDelivery, TypeTick DEF Next
<1> QED
  BY <1>1, <1>2

\* Every reachable state of the delivery queue is well typed; in particular no
\* fencing token ever passes MAX_FENCING_TOKEN.
THEOREM TypeCorrect == Spec => []TypeOK
BY TypeInit, TypeStep, PTL DEF Spec

-----------------------------------------------------------------------------
(* What each action does to the deliveries *)

\* The place of d in its lane stays what it was.
KeepsPlace(d) == /\ deliveries'[d].seq = deliveries[d].seq
                 /\ deliveries'[d].event = deliveries[d].event
                 /\ Exists(d)' = Exists(d)

LEMMA ClaimStep ==
    ASSUME TypeOK, NEW w \in Workers, NEW lease \in 1 .. LeaseTime, Claim(w, lease)
    PROVE  \E c \in DeliveryIds :
              /\ Claimable(c) /\ deliveries'[c].status = "claimed"
              /\ deliveries'[c].token = deliveries[c].token + 1
              /\ KeepsPlace(c)
              /\ \A d \in DeliveryIds \ {c} : deliveries'[d] = deliveries[d]
<1>1. PICK c \in DeliveryIds :
          /\ Claimable(c)
          /\ deliveries' = [deliveries EXCEPT ![c] = Claimed(c, w, lease)]
  BY ClaimShape
<1>2. /\ deliveries'[c] = Claimed(c, w, lease)
      /\ \A d \in DeliveryIds \ {c} : deliveries'[d] = deliveries[d]
  BY <1>1 DEF TypeOK
<1>3. deliveries[c] \in Delivery /\ Exists(c)
  BY <1>1 DEF TypeOK, Claimable, Exists, Active
<1>4. /\ Claimed(c, w, lease).status = "claimed"
      /\ Claimed(c, w, lease).seq = deliveries[c].seq
      /\ Claimed(c, w, lease).event = deliveries[c].event
      /\ Claimed(c, w, lease).token = deliveries[c].token + 1
  BY <1>3 DEF Claimed, Delivery
<1> QED
  BY <1>1, <1>2, <1>3, <1>4 DEF KeepsPlace, Exists

LEMMA RenewStep ==
    ASSUME TypeOK, NEW c \in DeliveryIds, NEW lease \in 1 .. LeaseTime, RenewClaim(c, lease)
    PROVE  \A d \in DeliveryIds :
              /\ KeepsPlace(d) /\ deliveries'[d].status = deliveries[d].status
              /\ deliveries'[d].token = deliveries[d].token
              /\ deliveries'[d].owner = deliveries[d].owner
              /\ d # c => deliveries'[d] = deliveries[d]
<1>1. \A d \in DeliveryIds : deliveries[d] \in Delivery
  BY DEF TypeOK
<1>2. deliveries' = [deliveries EXCEPT ![c] = [deliveries[c] EXCEPT !.lease = lease]]
  BY DEF RenewClaim
<1>3. /\ deliveries'[c] = [deliveries[c] EXCEPT !.lease = lease]
      /\ \A d \in DeliveryIds \ {c} : deliveries'[d] = deliveries[d]
  BY <1>2 DEF TypeOK
<1> QED
  BY <1>1, <1>3 DEF KeepsPlace, Exists, Delivery

LEMMA SaveStep ==
    ASSUME TypeOK, NEW c \in DeliveryIds, NEW record \in SavableRecords(c),
           SaveDelivery(c, record)
    PROVE  /\ deliveries[c].status \in Active
           /\ \E w \in Workers : ActiveClaim(c, w, deliveries[c].token)
           /\ deliveries'[c].status = record.status
           /\ record.status \in {"queued", "running"} \union Terminal
           /\ deliveries'[c].token = deliveries[c].token
           /\ deliveries'[c].owner \in {deliveries[c].owner, NoWorker}
           /\ KeepsPlace(c)
           /\ \A d \in DeliveryIds \ {c} : deliveries'[d] = deliveries[d]
<1>1. deliveries[c] \in Delivery /\ record \in Delivery
  BY SavableType DEF TypeOK
<1>2. PICK x \in [status : {"queued", "running"} \union Outcomes,
                   delay : 0 .. MaxDelay, attempt : 0 .. MaxAttempts,
                   lease : 0 .. LeaseTime, invoked : Invocations,
                   run : 0 .. deliveries[c].token] :
        record = [deliveries[c] EXCEPT !.status = x.status, !.delay = x.delay,
                                       !.attempt = x.attempt, !.lease = x.lease,
                                       !.run = x.run, !.invoked = x.invoked]
  BY DEF SavableRecords
<1>3. /\ record.seq = deliveries[c].seq /\ record.event = deliveries[c].event
      /\ record.token = deliveries[c].token /\ record.owner = deliveries[c].owner
      /\ record.status \in {"queued", "running"} \union Terminal
  BY <1>1, <1>2, ConstantsAssumption DEF Delivery
<1>4. /\ deliveries'[c] = AtRest(record)
      /\ \A d \in DeliveryIds \ {c} : deliveries'[d] = deliveries[d]
  BY DEF SaveDelivery, TypeOK
<1>5. /\ AtRest(record).status = record.status /\ AtRest(record).seq = record.seq
      /\ AtRest(record).event = record.event /\ AtRest(record).token = record.token
      /\ AtRest(record).owner \in {record.owner, NoWorker}
  BY <1>1 DEF AtRest, Delivery
<1>6. /\ deliveries[c].status \in Active /\ deliveries[c].owner \in Workers
      /\ ActiveClaim(c, deliveries[c].owner, deliveries[c].token)
  BY <1>1, <1>3 DEF SaveDelivery, ActiveClaim, Delivery
<1>7. "absent" \notin Active /\ "absent" \notin {"queued", "running"} \union Terminal
  BY DEF Active, Terminal
<1> QED
  BY <1>3, <1>4, <1>5, <1>6, <1>7 DEF KeepsPlace, Exists

LEMMA RedriveStep ==
    ASSUME TypeOK, NEW c \in DeliveryIds, NEW preserveRun \in BOOLEAN,
           RedriveDelivery(c, preserveRun)
    PROVE  /\ deliveries[c].status \in Terminal
           /\ deliveries'[c].status = "queued"
           /\ KeepsPlace(c)
           /\ \A d \in DeliveryIds \ {c} : deliveries'[d] = deliveries[d]
           /\ redriven' = redriven \union {c}
<1>1. /\ deliveries'[c] = Redriven(c, preserveRun)
      /\ \A d \in DeliveryIds \ {c} : deliveries'[d] = deliveries[d]
  BY DEF RedriveDelivery, TypeOK
<1>2. deliveries[c] \in Delivery
  BY DEF TypeOK
<1>3. /\ Redriven(c, preserveRun).status = "queued"
      /\ Redriven(c, preserveRun).seq = deliveries[c].seq
      /\ Redriven(c, preserveRun).event = deliveries[c].event
  BY <1>2 DEF Redriven, Delivery
<1> QED
  BY <1>1, <1>3 DEF RedriveDelivery, KeepsPlace, Exists, Terminal

LEMMA TickStep ==
    ASSUME TypeOK, Tick
    PROVE  \A d \in DeliveryIds :
              /\ KeepsPlace(d) /\ deliveries'[d].status = deliveries[d].status
              /\ deliveries'[d].token = deliveries[d].token
              /\ deliveries'[d].owner \in {deliveries[d].owner, NoWorker}
              /\ deliveries'[d].lease > 0 => deliveries[d].lease > 0
<1> SUFFICES ASSUME NEW d \in DeliveryIds
             PROVE  /\ KeepsPlace(d) /\ deliveries'[d].status = deliveries[d].status
                    /\ deliveries'[d].token = deliveries[d].token
                    /\ deliveries'[d].owner \in {deliveries[d].owner, NoWorker}
                    /\ deliveries'[d].lease > 0 => deliveries[d].lease > 0
  OBVIOUS
<1> DEFINE lease == IF deliveries[d].lease > 0 THEN deliveries[d].lease - 1 ELSE 0
           delay == IF deliveries[d].delay > -PublishTimeout
                    THEN deliveries[d].delay - 1 ELSE deliveries[d].delay
           ticked == [deliveries[d] EXCEPT !.lease = lease, !.delay = delay]
<1>1. deliveries[d] \in Delivery
  BY DEF TypeOK
<1>2. deliveries'[d] = AtRest(ticked)
  BY DEF Tick
<1>3. lease > 0 => deliveries[d].lease > 0
  BY <1>1 DEF Delivery
<1> HIDE DEF lease, delay
<1>4. /\ AtRest(ticked).status = deliveries[d].status
      /\ AtRest(ticked).seq = deliveries[d].seq
      /\ AtRest(ticked).event = deliveries[d].event
      /\ AtRest(ticked).token = deliveries[d].token
      /\ AtRest(ticked).owner \in {deliveries[d].owner, NoWorker}
      /\ AtRest(ticked).lease \in {lease, 0}
  BY <1>1 DEF AtRest, Delivery
<1> QED
  BY <1>2, <1>3, <1>4 DEF KeepsPlace, Exists

\* The last action: publish() either accepts its event or leaves the queue alone.
LEMMA PublishStep ==
    ASSUME NEW p \in Publishers, Publish(p)
    PROVE  \/ Accept(p) /\ HasCapacity(p) /\ publishers[p].pc # "accepted"
           \/ /\ UNCHANGED <<deliveries, sequence, pendingDeliveries, pendingBytes, redriven>>
              /\ \E state : /\ publishers' = [publishers EXCEPT ![p] = state]
                            /\ state.pc # "accepted"
              /\ publishers[p].pc # "accepted"
<1>1. ASSUME NEW state, Move(p, state), state.pc # "accepted"
      PROVE  /\ UNCHANGED <<deliveries, sequence, pendingDeliveries, pendingBytes, redriven>>
             /\ \E s : publishers' = [publishers EXCEPT ![p] = s] /\ s.pc # "accepted"
  BY <1>1 DEF Move
<1>2. /\ \A outcome \in {"duplicate", "conflict", "rejected", "aborted"} :
            Settled(outcome).pc # "accepted"
      /\ \A left : Waiting(left).pc # "accepted"
  BY DEF Settled, Waiting
<1>3. CASE PublishKnown(p)
  <2>1. Settled(IF Known(p) = EventOf[p] THEN "duplicate" ELSE "conflict").pc # "accepted"
    BY <1>2
  <2> QED
    BY <1>1, <1>3, <2>1 DEF PublishKnown
<1>4. CASE PublishAccepted(p)
  BY <1>4 DEF PublishAccepted
<1>5. CASE Wake(p)
  BY <1>1, <1>2, <1>5 DEF Wake
<1>6. CASE PublishRejected(p)
  BY <1>1, <1>2, <1>6 DEF PublishRejected
<1>7. CASE PublishWaits(p)
  BY <1>1, <1>2, <1>7 DEF PublishWaits
<1>8. CASE PublishTimesOut(p) \/ PublishAborts(p)
  BY <1>1, <1>2, <1>8 DEF PublishTimesOut, PublishAborts
<1> QED
  BY <1>3, <1>4, <1>5, <1>6, <1>7, <1>8 DEF Publish

LEMMA PlaceKept ==
    ASSUME NEW d, NEW e, KeepsPlace(d), KeepsPlace(e)
    PROVE  Before(d, e)' <=> Before(d, e)
BY DEF KeepsPlace, Before, LaneOf

\* A step that keeps every place, makes no delivery live except by redriving
\* it, and claims only what has no earlier work, keeps the order of the lanes.
LEMMA StrictOrderKept ==
    ASSUME StrictOrder, redriven \subseteq redriven',
           \A d \in DeliveryIds : KeepsPlace(d),
           \A d \in DeliveryIds : IsLive(d)' => IsLive(d) \/ d \in redriven',
           \A e \in DeliveryIds : deliveries'[e].status \in Active
               => deliveries[e].status \in Active \/ ~HasEarlierInstanceWork(e)
    PROVE  StrictOrder'
<1> SUFFICES ASSUME NEW d \in DeliveryIds, NEW e \in DeliveryIds,
                    deliveries'[e].status \in Active, e[2] \notin Relaxed,
                    Before(d, e)', IsLive(d)', d \notin redriven'
             PROVE  FALSE
  BY DEF StrictOrder
<1>1. Before(d, e) /\ IsLive(d) /\ d \notin redriven
  BY PlaceKept
<1>2. CASE deliveries[e].status \in Active
  BY <1>1, <1>2 DEF StrictOrder
<1>3. CASE ~HasEarlierInstanceWork(e)
  BY <1>1, <1>3 DEF HasEarlierInstanceWork
<1> QED
  BY <1>2, <1>3

-----------------------------------------------------------------------------
(* The order of the lanes *)

\* The part of the invariant that StrictOrder needs.
OrderInvariant ==
    /\ TypeOK
    /\ SequenceBounded
    /\ NothingBeforeAccepted
    /\ StrictOrder

\* A delivery that Accept creates did not exist before, and comes after all
\* others.
LEMMA CreatedIsNew ==
    ASSUME TypeOK, SequenceBounded, NothingBeforeAccepted,
           NEW p \in Publishers, Accept(p), publishers[p].pc # "accepted",
           NEW d \in DeliveryIds, Created(p, d)
    PROVE  /\ ~Exists(d)
           /\ deliveries'[d].status = "queued"
           /\ deliveries'[d].seq \in Nat
           /\ sequence < deliveries'[d].seq /\ deliveries'[d].seq <= sequence'
<1>1. PICK r \in FreshRoutes(p) : d = <<p, r>>
  BY DEF Created
<1>2. r \in Routes /\ d[2] = r
  BY <1>1, RoutesOfCall
<1>3. ~Exists(d)
  BY <1>1, <1>2 DEF NothingBeforeAccepted
<1>4. deliveries'[d] = NewDelivery(p, r)
  BY <1>2, AcceptShape
<1> DEFINE seq == sequence + Cardinality({q \in FreshRoutes(p) : q <= r})
<1>5. /\ seq \in Nat /\ sequence < seq
      /\ seq <= sequence + Cardinality(FreshRoutes(p))
  <2>1. /\ Cardinality({q \in FreshRoutes(p) : q <= r}) \in Nat
        /\ Cardinality(FreshRoutes(p)) \in Nat
        /\ Cardinality({q \in FreshRoutes(p) : q <= r}) <= Cardinality(FreshRoutes(p))
        /\ Cardinality({q \in FreshRoutes(p) : q <= r}) > 0
    BY <1>2, RoutesOfCall
  <2>2. sequence \in Nat
    BY DEF TypeOK
  <2> QED
    BY <2>1, <2>2
<1>6. NewDelivery(p, r).status = "queued" /\ NewDelivery(p, r).seq = seq
  BY DEF NewDelivery, Absent
<1>7. sequence' = sequence + Cardinality(FreshRoutes(p))
  BY DEF Accept
<1> HIDE DEF seq
<1> QED
  BY <1>3, <1>4, <1>5, <1>6, <1>7

\* Whatever is not created keeps its place; what is replaced keeps its lane.
LEMMA AcceptKeeps ==
    ASSUME TypeOK, NEW p \in Publishers, Accept(p),
           NEW d \in DeliveryIds, ~Created(p, d)
    PROVE  /\ deliveries'[d].seq = deliveries[d].seq
           /\ deliveries'[d].status = deliveries[d].status
           /\ LaneOf(d)' = LaneOf(d)
           /\ deliveries[d].status \in Active => deliveries'[d] = deliveries[d]
<1>1. deliveries[d] \in Delivery
  BY DEF TypeOK
<1>2. CASE Replaced(p, d)
  <2>1. /\ deliveries'[d].seq = deliveries[d].seq
        /\ deliveries'[d].status = deliveries[d].status
        /\ deliveries'[d].event = EventOf[p]
    BY <1>1, <1>2 DEF Replaced, Delivery
  <2> QED
    BY <1>2, <2>1 DEF Replaced, LaneOf, Active
<1>3. CASE deliveries'[d] = deliveries[d]
  BY <1>3 DEF LaneOf
<1> QED
  BY <1>2, <1>3, AcceptShape


LEMMA OrderAccept ==
    ASSUME OrderInvariant, NEW p \in Publishers, Accept(p), publishers[p].pc # "accepted"
    PROVE  OrderInvariant'
<1> USE DEF OrderInvariant
<1>1. TypeOK'
  BY TypeAccept
<1>2. SequenceBounded'
  <2> SUFFICES ASSUME NEW d \in DeliveryIds, Exists(d)'
               PROVE  deliveries'[d].seq <= sequence'
    BY DEF SequenceBounded
  <2>1. CASE Created(p, d)
    BY <2>1, CreatedIsNew
  <2>2. CASE ~Created(p, d)
    <3>1. deliveries'[d].seq = deliveries[d].seq /\ Exists(d)
      BY <2>2, AcceptKeeps DEF Exists
    <3>2. sequence \in Nat /\ Cardinality(FreshRoutes(p)) \in Nat /\ deliveries[d].seq \in Nat
      BY RoutesOfCall DEF TypeOK, Delivery
    <3>3. deliveries[d].seq <= sequence /\ sequence' = sequence + Cardinality(FreshRoutes(p))
      BY <3>1 DEF SequenceBounded, Accept
    <3> QED
      BY <3>1, <3>2, <3>3
  <2> QED
    BY <2>1, <2>2
<1>3. NothingBeforeAccepted'
  <2> SUFFICES ASSUME NEW q \in Publishers, NEW r \in Routes, publishers'[q].pc # "accepted"
               PROVE  ~Exists(<<q, r>>)'
    BY DEF NothingBeforeAccepted
  <2>1. q # p /\ publishers'[q] = publishers[q]
    BY DEF Accept, TypeOK, Settled
  <2>2. <<q, r>> \in DeliveryIds /\ ~Created(p, <<q, r>>)
    BY <2>1 DEF Created, DeliveryIds
  <2> QED
    BY <2>1, <2>2, AcceptKeeps DEF NothingBeforeAccepted, Exists
<1>4. StrictOrder'
  <2> SUFFICES ASSUME NEW d \in DeliveryIds, NEW e \in DeliveryIds,
                      deliveries'[e].status \in Active, e[2] \notin Relaxed,
                      Before(d, e)', IsLive(d)'
               PROVE  d \in redriven'
    BY DEF StrictOrder
  <2>1. ~Created(p, e)
    BY CreatedIsNew DEF Active
  <2>2. deliveries[e].status \in Active /\ deliveries'[e].seq = deliveries[e].seq
    BY <2>1, AcceptKeeps
  <2>3. deliveries[e].seq <= sequence /\ deliveries[e].seq \in Nat /\ sequence \in Nat
    BY <2>2 DEF SequenceBounded, Exists, Active, TypeOK, Delivery
  <2>4. deliveries'[d].seq < deliveries[e].seq
    BY <2>2 DEF Before
  <2>5. ~Created(p, d)
    <3> SUFFICES ASSUME Created(p, d) PROVE FALSE
      OBVIOUS
    <3>1. deliveries'[d].seq \in Nat /\ sequence < deliveries'[d].seq
      BY CreatedIsNew
    <3> QED
      BY <2>3, <2>4, <3>1
  <2>6. Before(d, e) /\ IsLive(d)
    BY <2>1, <2>5, AcceptKeeps DEF Before, Exists, IsLive
  <2> QED
    BY <2>2, <2>6 DEF StrictOrder, Accept
<1> QED
  BY <1>1, <1>2, <1>3, <1>4

\* The steps of workers, operators and the clock keep places.
LEMMA OrderOther ==
    ASSUME OrderInvariant, TypeOK',
           \A d \in DeliveryIds : KeepsPlace(d),
           \A q \in Publishers : publishers'[q].pc = "accepted" <=> publishers[q].pc = "accepted",
           sequence' = sequence, StrictOrder'
    PROVE  OrderInvariant'
<1>1. SequenceBounded'
  BY DEF OrderInvariant, SequenceBounded, KeepsPlace
<1>2. NothingBeforeAccepted'
  BY DEF OrderInvariant, NothingBeforeAccepted, KeepsPlace, DeliveryIds
<1> QED
  BY <1>1, <1>2 DEF OrderInvariant

LEMMA NotifyKeepsAccepted ==
    ASSUME TypeOK, NotifyCapacity \/ UNCHANGED publishers
    PROVE  \A q \in Publishers : publishers'[q].pc = "accepted" <=> publishers[q].pc = "accepted"
BY DEF NotifyCapacity, TypeOK, Publisher

LEMMA OrderStep == OrderInvariant /\ [Next]_vars => OrderInvariant'
<1> SUFFICES ASSUME OrderInvariant, [Next]_vars PROVE OrderInvariant'
  OBVIOUS
<1>1. TypeOK /\ TypeOK' /\ StrictOrder
  BY TypeStep DEF OrderInvariant
<1>2. CASE UNCHANGED vars
  BY <1>2 DEF vars, OrderInvariant, TypeOK, SequenceBounded, NothingBeforeAccepted,
              StrictOrder, Exists, IsLive, Before, LaneOf
<1>3. ASSUME NEW p \in Publishers, Publish(p) PROVE OrderInvariant'
  <2>1. CASE Accept(p) /\ publishers[p].pc # "accepted"
    BY <2>1, OrderAccept
  <2>2. CASE /\ UNCHANGED <<deliveries, sequence, redriven>>
             /\ \E state : /\ publishers' = [publishers EXCEPT ![p] = state]
                           /\ state.pc # "accepted"
             /\ publishers[p].pc # "accepted"
    <3>1. \A q \in Publishers : publishers'[q].pc = "accepted" <=> publishers[q].pc = "accepted"
      BY <1>1, <2>2 DEF TypeOK
    <3>2. \A d \in DeliveryIds : KeepsPlace(d)
      BY <2>2 DEF KeepsPlace, Exists
    <3>3. StrictOrder'
      BY <1>1, <2>2 DEF StrictOrder, Before, Exists, IsLive, LaneOf
    <3> QED
      BY <1>1, <2>2, <3>1, <3>2, <3>3, OrderOther
  <2> QED
    BY <1>3, <2>1, <2>2, PublishStep
<1>4. ASSUME NEW w \in Workers, NEW lease \in 1 .. LeaseTime, Claim(w, lease)
      PROVE  OrderInvariant'
  <2>1. PICK c \in DeliveryIds :
              /\ Claimable(c) /\ deliveries'[c].status = "claimed"
              /\ KeepsPlace(c)
              /\ \A d \in DeliveryIds \ {c} : deliveries'[d] = deliveries[d]
    BY <1>1, <1>4, ClaimStep
  <2>2. \A d \in DeliveryIds : KeepsPlace(d)
    BY <2>1 DEF KeepsPlace, Exists
  <2>3. \A d \in DeliveryIds : IsLive(d)' => IsLive(d)
    BY <2>1 DEF IsLive, Live, Claimable
  <2>4. \A e \in DeliveryIds : deliveries'[e].status \in Active
            => deliveries[e].status \in Active \/ ~HasEarlierInstanceWork(e)
    BY <2>1 DEF Claimable
  <2>5. UNCHANGED <<publishers, sequence, redriven>>
    BY <1>4 DEF Claim
  <2>6. StrictOrder'
    BY <1>1, <2>2, <2>3, <2>4, <2>5, StrictOrderKept
  <2> QED
    BY <1>1, <2>2, <2>5, <2>6, OrderOther
<1>5. ASSUME NEW c \in DeliveryIds, NEW lease \in 1 .. LeaseTime, RenewClaim(c, lease)
      PROVE  OrderInvariant'
  <2>1. \A d \in DeliveryIds : KeepsPlace(d) /\ deliveries'[d].status = deliveries[d].status
    BY <1>1, <1>5, RenewStep
  <2>2. UNCHANGED <<publishers, sequence, redriven>>
    BY <1>5 DEF RenewClaim
  <2>3. StrictOrder'
    BY <1>1, <2>1, <2>2, StrictOrderKept DEF IsLive
  <2> QED
    BY <1>1, <2>1, <2>2, <2>3, OrderOther
<1>6. ASSUME NEW c \in DeliveryIds, NEW record \in SavableRecords(c),
             SaveDelivery(c, record)
      PROVE  OrderInvariant'
  <2>1. /\ deliveries[c].status \in Active /\ KeepsPlace(c)
        /\ \A d \in DeliveryIds \ {c} : deliveries'[d] = deliveries[d]
    BY <1>1, <1>6, SaveStep
  <2>2. \A d \in DeliveryIds : KeepsPlace(d)
    BY <2>1 DEF KeepsPlace, Exists
  <2>3. \A d \in DeliveryIds : IsLive(d)' => IsLive(d)
    BY <2>1 DEF IsLive, Live
  <2>4. \A e \in DeliveryIds : deliveries'[e].status \in Active => deliveries[e].status \in Active
    BY <2>1
  <2>5. UNCHANGED <<sequence, redriven>> /\ (NotifyCapacity \/ UNCHANGED publishers)
    BY <1>6 DEF SaveDelivery
  <2>6. StrictOrder'
    BY <1>1, <2>2, <2>3, <2>4, <2>5, StrictOrderKept
  <2> QED
    BY <1>1, <2>2, <2>5, <2>6, OrderOther, NotifyKeepsAccepted
<1>7. ASSUME NEW c \in DeliveryIds, NEW preserveRun \in BOOLEAN, RedriveDelivery(c, preserveRun)
      PROVE  OrderInvariant'
  <2>1. /\ deliveries'[c].status = "queued" /\ KeepsPlace(c)
        /\ \A d \in DeliveryIds \ {c} : deliveries'[d] = deliveries[d]
        /\ redriven' = redriven \union {c}
    BY <1>1, <1>7, RedriveStep
  <2>2. \A d \in DeliveryIds : KeepsPlace(d)
    BY <2>1 DEF KeepsPlace, Exists
  <2>3. \A d \in DeliveryIds : IsLive(d)' => IsLive(d) \/ d \in redriven'
    BY <2>1 DEF IsLive
  <2>4. \A e \in DeliveryIds : deliveries'[e].status \in Active => deliveries[e].status \in Active
    BY <2>1 DEF Active
  <2>5. UNCHANGED <<sequence, publishers>>
    BY <1>7 DEF RedriveDelivery
  <2>6. StrictOrder'
    BY <1>1, <2>1, <2>2, <2>3, <2>4, StrictOrderKept
  <2> QED
    BY <1>1, <2>2, <2>5, <2>6, OrderOther
<1>8. CASE Tick
  <2>1. \A d \in DeliveryIds : KeepsPlace(d) /\ deliveries'[d].status = deliveries[d].status
    BY <1>1, <1>8, TickStep
  <2>2. UNCHANGED <<sequence, redriven>>
    BY <1>8 DEF Tick
  <2>3. \A q \in Publishers : publishers'[q].pc = publishers[q].pc
    <3>1. \A q \in Publishers : publishers[q] \in Publisher
      BY <1>1 DEF TypeOK
    <3>2. \A q \in Publishers : \A left : [publishers[q] EXCEPT !.left = left].pc = publishers[q].pc
      BY <3>1 DEF Publisher
    <3> QED
      BY <1>8, <3>2 DEF Tick
  <2>4. StrictOrder'
    BY <1>1, <2>1, <2>2, StrictOrderKept DEF IsLive
  <2> QED
    BY <1>1, <2>1, <2>2, <2>3, <2>4, OrderOther
<1> QED
  BY <1>2, <1>3, <1>4, <1>5, <1>6, <1>7, <1>8 DEF Next

LEMMA OrderInit == Init => OrderInvariant
<1> SUFFICES ASSUME Init PROVE OrderInvariant
  OBVIOUS
<1>1. \A d \in DeliveryIds : deliveries[d].status = "absent"
  BY DEF Init, Absent
<1> QED
  BY <1>1, TypeInit DEF OrderInvariant, SequenceBounded, NothingBeforeAccepted, StrictOrder,
                        Exists, Active, DeliveryIds

\* The deliveries of a strict lane are claimed in the order they were
\* accepted, whatever the retries, lost leases and coalescing in between.
THEOREM LanesInOrder == Spec => []StrictOrder
<1>1. OrderInvariant => StrictOrder
  BY DEF OrderInvariant
<1> QED
  BY <1>1, OrderInit, OrderStep, PTL DEF Spec


-----------------------------------------------------------------------------
(* Claims *)

\* A worker whose claim is lost never writes under its old fencing token again.
LEMMA ClaimsStayLost ==
    ASSUME TypeOK, Next, NEW d \in DeliveryIds, NEW w \in Workers,
           NEW t \in 0 .. deliveries[d].token, ActiveClaim(d, w, t)'
    PROVE  ActiveClaim(d, w, t)
<1>1. /\ deliveries'[d].status \in Active
      /\ deliveries'[d].owner = w /\ w # NoWorker
      /\ deliveries'[d].token = t
      /\ deliveries'[d].lease > 0
  BY DEF ActiveClaim
<1>2. CASE deliveries'[d] = deliveries[d]
  BY <1>1, <1>2 DEF ActiveClaim
<1>3. ASSUME NEW p \in Publishers, Publish(p) PROVE ActiveClaim(d, w, t)
  <2>1. CASE Accept(p)
    <3>1. CASE Created(p, d) /\ deliveries'[d] = NewDelivery(p, d[2])
      BY <1>1, <3>1 DEF NewDelivery, Absent, Active
    <3>2. CASE ~Created(p, d)
      BY <1>1, <1>2, <2>1, <3>2, AcceptKeeps
    <3> QED
      BY <2>1, <3>1, <3>2, AcceptShape
  <2> QED
    BY <1>2, <1>3, <2>1, PublishStep
<1>4. ASSUME NEW v \in Workers, NEW lease \in 1 .. LeaseTime, Claim(v, lease)
      PROVE  ActiveClaim(d, w, t)
  <2>1. PICK c \in DeliveryIds :
              /\ deliveries'[c].token = deliveries[c].token + 1
              /\ \A e \in DeliveryIds \ {c} : deliveries'[e] = deliveries[e]
    BY <1>4, ClaimStep
  <2>2. CASE d = c
    <3>1. deliveries[d].token \in Nat
      BY DEF TypeOK, Delivery
    <3> QED
      BY <1>1, <2>1, <2>2, <3>1
  <2> QED
    BY <1>2, <2>1, <2>2
<1>5. ASSUME NEW c \in DeliveryIds, NEW lease \in 1 .. LeaseTime, RenewClaim(c, lease)
      PROVE  ActiveClaim(d, w, t)
  <2>1. CASE d = c
    BY <1>1, <1>5, <2>1, RenewStep DEF RenewClaim, ActiveClaim
  <2> QED
    BY <1>2, <1>5, <2>1, RenewStep
<1>6. ASSUME NEW c \in DeliveryIds, NEW record \in SavableRecords(c), SaveDelivery(c, record)
      PROVE  ActiveClaim(d, w, t)
  <2>1. CASE d = c
    BY <1>1, <1>6, <2>1, SaveStep DEF ActiveClaim
  <2> QED
    BY <1>2, <1>6, <2>1, SaveStep
<1>7. ASSUME NEW c \in DeliveryIds, NEW preserveRun \in BOOLEAN, RedriveDelivery(c, preserveRun)
      PROVE  ActiveClaim(d, w, t)
  BY <1>1, <1>2, <1>7, RedriveStep DEF Active
<1>8. CASE Tick
  BY <1>1, <1>8, TickStep DEF ActiveClaim
<1> QED
  BY <1>3, <1>4, <1>5, <1>6, <1>7, <1>8 DEF Next

\* A worker whose lease ran out, or whose delivery was saved, reclaimed or
\* redriven, is fenced off for good.
THEOREM FencingHolds == Spec => LostClaimStaysLost
<1>1. ASSUME TypeOK, [Next]_vars
      PROVE  [\A d \in DeliveryIds, w \in Workers : \A t \in 0 .. deliveries[d].token :
                ~ActiveClaim(d, w, t) => ~ActiveClaim(d, w, t)']_vars
  BY <1>1, ClaimsStayLost
<1> QED
  BY <1>1, TypeInit, TypeStep, PTL DEF Spec, LostClaimStaysLost


-----------------------------------------------------------------------------
(* The pending counter and its limit *)

LEMMA LiveFinite == IsFiniteSet(LiveDeliveries)
<1>1. IsFiniteSet(DeliveryIds)
  BY ConstantsAssumption, FS_Product DEF DeliveryIds
<1>2. LiveDeliveries \subseteq DeliveryIds
  BY DEF LiveDeliveries
<1> QED
  BY <1>1, <1>2, FS_Subset

LEMMA LiveFiniteAfter == IsFiniteSet(LiveDeliveries')
<1>1. IsFiniteSet(DeliveryIds)
  BY ConstantsAssumption, FS_Product DEF DeliveryIds
<1>2. LiveDeliveries' \subseteq DeliveryIds
  BY DEF LiveDeliveries
<1> QED
  BY <1>1, <1>2, FS_Subset

CreatedDeliveries(p) == {d \in DeliveryIds : Created(p, d)}

LEMMA CreatedCount ==
    ASSUME NEW p \in Publishers
    PROVE  /\ IsFiniteSet(CreatedDeliveries(p))
           /\ Cardinality(CreatedDeliveries(p)) = Cardinality(FreshRoutes(p))
<1> DEFINE f == [r \in FreshRoutes(p) |-> <<p, r>>]
<1>1. FreshRoutes(p) \subseteq Routes /\ IsFiniteSet(FreshRoutes(p))
  BY RoutesOfCall
<1>2. f \in Bijection(FreshRoutes(p), CreatedDeliveries(p))
  <2>1. f \in [FreshRoutes(p) -> CreatedDeliveries(p)]
    BY <1>1 DEF CreatedDeliveries, Created, DeliveryIds
  <2>2. \A r, s \in FreshRoutes(p) : f[r] = f[s] => r = s
    OBVIOUS
  <2>3. \A d \in CreatedDeliveries(p) : \E r \in FreshRoutes(p) : f[r] = d
    BY DEF CreatedDeliveries, Created
  <2> HIDE DEF f
  <2> QED
    BY <2>1, <2>2, <2>3 DEF Bijection, Injection, Surjection, IsInjective
<1> QED
  BY <1>1, <1>2, FS_Bijection DEF ExistsBijection

\* What accepting an event adds to the live deliveries.
LEMMA AcceptCounts ==
    ASSUME OrderInvariant, CountExact, NEW p \in Publishers, Accept(p),
           publishers[p].pc # "accepted"
    PROVE  CountExact'
<1>1. TypeOK /\ SequenceBounded /\ NothingBeforeAccepted
  BY DEF OrderInvariant
<1>2. LiveDeliveries' = LiveDeliveries \union CreatedDeliveries(p)
  <2>1. ASSUME NEW d \in DeliveryIds
        PROVE  IsLive(d)' <=> IsLive(d) \/ Created(p, d)
    <3>1. CASE Created(p, d)
      BY <1>1, <3>1, CreatedIsNew DEF IsLive, Live
    <3>2. CASE ~Created(p, d)
      BY <1>1, <3>2, AcceptKeeps DEF IsLive
    <3> QED
      BY <3>1, <3>2
  <2> QED
    BY <2>1 DEF LiveDeliveries, CreatedDeliveries
<1>3. LiveDeliveries \intersect CreatedDeliveries(p) = {}
  BY <1>1, CreatedIsNew DEF LiveDeliveries, CreatedDeliveries, IsLive, Live, Active, Exists
<1>4. Cardinality(LiveDeliveries') = Cardinality(LiveDeliveries) + Cardinality(FreshRoutes(p))
  <2>1. /\ IsFiniteSet(LiveDeliveries) /\ IsFiniteSet(CreatedDeliveries(p))
        /\ Cardinality(LiveDeliveries) \in Nat /\ Cardinality(FreshRoutes(p)) \in Nat
        /\ Cardinality(CreatedDeliveries(p)) = Cardinality(FreshRoutes(p))
    BY LiveFinite, CreatedCount, RoutesOfCall, FS_CardinalityType
  <2>2. Cardinality(LiveDeliveries \union CreatedDeliveries(p)) =
          Cardinality(LiveDeliveries) + Cardinality(CreatedDeliveries(p))
            - Cardinality(LiveDeliveries \intersect CreatedDeliveries(p))
    BY <2>1, FS_Union
  <2>3. Cardinality(LiveDeliveries \intersect CreatedDeliveries(p)) = 0
    BY <1>3, FS_EmptySet
  <2> HIDE DEF CreatedDeliveries
  <2> QED
    BY <1>2, <2>1, <2>2, <2>3
<1>5. pendingDeliveries' = pendingDeliveries + Cardinality(FreshRoutes(p))
  BY DEF Accept
<1> QED
  BY <1>4, <1>5 DEF CountExact


\* A step of a worker, an operator or the clock moves at most one delivery in
\* or out of the live ones, and counts it.
LEMMA OneMoveCounts ==
    ASSUME CountExact, TypeOK, NEW c \in DeliveryIds,
           \A d \in DeliveryIds \ {c} : IsLive(d)' <=> IsLive(d),
           pendingDeliveries' = CASE IsLive(c) /\ ~IsLive(c)' -> pendingDeliveries - 1
                                  [] ~IsLive(c) /\ IsLive(c)' -> pendingDeliveries + 1
                                  [] OTHER -> pendingDeliveries
    PROVE  CountExact'
<1>1. CASE IsLive(c)' <=> IsLive(c)
  <2>1. LiveDeliveries' = LiveDeliveries
    BY <1>1 DEF LiveDeliveries
  <2> QED
    BY <1>1, <2>1 DEF CountExact
<1>2. CASE IsLive(c) /\ ~IsLive(c)'
  <2>1. LiveDeliveries' = LiveDeliveries \ {c} /\ c \in LiveDeliveries
    BY <1>2 DEF LiveDeliveries
  <2>2. Cardinality(LiveDeliveries \ {c}) = Cardinality(LiveDeliveries) - 1
    BY <2>1, LiveFinite, FS_RemoveElement
  <2> QED
    BY <1>2, <2>1, <2>2 DEF CountExact
<1>3. CASE ~IsLive(c) /\ IsLive(c)'
  <2>1. LiveDeliveries' = LiveDeliveries \union {c} /\ c \notin LiveDeliveries
    BY <1>3 DEF LiveDeliveries
  <2>2. Cardinality(LiveDeliveries \union {c}) = Cardinality(LiveDeliveries) + 1
    BY <2>1, LiveFinite, FS_AddElement
  <2> QED
    BY <1>3, <2>1, <2>2 DEF CountExact
<1> QED
  BY <1>1, <1>2, <1>3

LEMMA SameLiveCounts ==
    ASSUME CountExact, \A d \in DeliveryIds : IsLive(d)' <=> IsLive(d),
           pendingDeliveries' = pendingDeliveries
    PROVE  CountExact'
<1>1. LiveDeliveries' = LiveDeliveries
  BY DEF LiveDeliveries
<1> QED
  BY <1>1 DEF CountExact

\* A step that makes no delivery live but by redriving it admits none.
LEMMA NoneAdmitted ==
    ASSUME CountWithinLimit, redriven \subseteq redriven',
           \A d \in DeliveryIds : IsLive(d)' => IsLive(d) \/ d \in redriven'
    PROVE  CountWithinLimit'
<1>1. Admitted' \subseteq Admitted
  BY DEF Admitted, LiveDeliveries
<1>2. IsFiniteSet(Admitted)
  BY LiveFinite, FS_Subset DEF Admitted
<1>3. /\ Cardinality(Admitted') <= Cardinality(Admitted)
      /\ Cardinality(Admitted') \in Nat /\ Cardinality(Admitted) \in Nat
  BY <1>1, <1>2, FS_Subset, FS_CardinalityType
<1> QED
  BY <1>3, ConstantsAssumption DEF CountWithinLimit

LEMMA AcceptWithinLimit ==
    ASSUME CountExact', NEW p \in Publishers, Accept(p), HasCapacity(p)
    PROVE  CountWithinLimit'
<1>1. IsFiniteSet(LiveDeliveries') /\ Admitted' \subseteq LiveDeliveries'
  BY LiveFiniteAfter DEF Admitted
<1>2. /\ Cardinality(Admitted') <= Cardinality(LiveDeliveries')
      /\ Cardinality(Admitted') \in Nat /\ Cardinality(LiveDeliveries') \in Nat
  BY <1>1, FS_Subset, FS_CardinalityType
<1>3. Cardinality(LiveDeliveries') <= MaxPendingDeliveries
  BY DEF CountExact, Accept, HasCapacity
<1> QED
  BY <1>2, <1>3, ConstantsAssumption DEF CountWithinLimit

LEMMA StoreStep == StoreInvariant /\ [Next]_vars => StoreInvariant'
<1> SUFFICES ASSUME StoreInvariant, [Next]_vars PROVE StoreInvariant'
  OBVIOUS
<1>1. /\ OrderInvariant /\ OrderInvariant'
      /\ TypeOK /\ CountExact /\ CountWithinLimit
  BY OrderStep DEF StoreInvariant, OrderInvariant
<1> SUFFICES CountExact' /\ CountWithinLimit'
  BY <1>1 DEF StoreInvariant, OrderInvariant
<1>2. CASE UNCHANGED vars
  <2>1. LiveDeliveries' = LiveDeliveries
    BY <1>2 DEF vars, LiveDeliveries, IsLive
  <2> QED
    BY <1>1, <1>2, <2>1 DEF vars, CountExact, CountWithinLimit, Admitted
<1>3. ASSUME NEW p \in Publishers, Publish(p) PROVE CountExact' /\ CountWithinLimit'
  <2>1. CASE Accept(p) /\ HasCapacity(p) /\ publishers[p].pc # "accepted"
    BY <1>1, <2>1, AcceptCounts, AcceptWithinLimit
  <2>2. CASE UNCHANGED <<deliveries, pendingDeliveries, redriven>>
    <3>1. LiveDeliveries' = LiveDeliveries
      BY <2>2 DEF LiveDeliveries, IsLive
    <3> QED
      BY <1>1, <2>2, <3>1 DEF CountExact, CountWithinLimit, Admitted
  <2> QED
    BY <1>3, <2>1, <2>2, PublishStep
<1>4. ASSUME NEW w \in Workers, NEW lease \in 1 .. LeaseTime, Claim(w, lease)
      PROVE  CountExact' /\ CountWithinLimit'
  <2>1. \A d \in DeliveryIds : IsLive(d)' <=> IsLive(d)
    BY <1>1, <1>4, ClaimStep DEF IsLive, Live, Active, Claimable
  <2>2. UNCHANGED <<pendingDeliveries, redriven>>
    BY <1>4 DEF Claim
  <2> QED
    BY <1>1, <2>1, <2>2, SameLiveCounts, NoneAdmitted
<1>5. ASSUME NEW c \in DeliveryIds, NEW lease \in 1 .. LeaseTime, RenewClaim(c, lease)
      PROVE  CountExact' /\ CountWithinLimit'
  <2>1. \A d \in DeliveryIds : IsLive(d)' <=> IsLive(d)
    BY <1>1, <1>5, RenewStep DEF IsLive
  <2>2. UNCHANGED <<pendingDeliveries, redriven>>
    BY <1>5 DEF RenewClaim
  <2> QED
    BY <1>1, <2>1, <2>2, SameLiveCounts, NoneAdmitted
<1>6. ASSUME NEW c \in DeliveryIds, NEW record \in SavableRecords(c),
             SaveDelivery(c, record)
      PROVE  CountExact' /\ CountWithinLimit'
  <2>1. /\ deliveries[c].status \in Active
        /\ deliveries'[c].status = record.status
        /\ record.status \in {"queued", "running"} \union Terminal
        /\ \A d \in DeliveryIds \ {c} : deliveries'[d] = deliveries[d]
    BY <1>1, <1>6, SaveStep
  <2>2. IsLive(c) /\ (IsLive(c)' <=> record.status \notin Terminal)
    BY <2>1 DEF IsLive, Live, Active, Terminal
  <2>3. \A d \in DeliveryIds \ {c} : IsLive(d)' <=> IsLive(d)
    BY <2>1 DEF IsLive
  <2>4. /\ redriven' = redriven
        /\ pendingDeliveries' = IF record.status \in Terminal
                                THEN pendingDeliveries - 1 ELSE pendingDeliveries
    BY <1>6 DEF SaveDelivery, ReleaseSlot
  <2>5. CountExact'
    BY <1>1, <2>2, <2>3, <2>4, OneMoveCounts
  <2> QED
    BY <1>1, <2>2, <2>3, <2>4, <2>5, NoneAdmitted
<1>7. ASSUME NEW c \in DeliveryIds, NEW preserveRun \in BOOLEAN, RedriveDelivery(c, preserveRun)
      PROVE  CountExact' /\ CountWithinLimit'
  <2>1. /\ deliveries[c].status \in Terminal
        /\ deliveries'[c].status = "queued"
        /\ \A d \in DeliveryIds \ {c} : deliveries'[d] = deliveries[d]
        /\ redriven' = redriven \union {c}
    BY <1>1, <1>7, RedriveStep
  <2>2. ~IsLive(c) /\ IsLive(c)'
    BY <2>1 DEF IsLive, Live, Active, Terminal
  <2>3. \A d \in DeliveryIds \ {c} : IsLive(d)' <=> IsLive(d)
    BY <2>1 DEF IsLive
  <2>4. pendingDeliveries' = pendingDeliveries + 1
    BY <1>7 DEF RedriveDelivery, TakeSlot
  <2>5. CountExact'
    BY <1>1, <2>2, <2>3, <2>4, OneMoveCounts
  <2> QED
    BY <1>1, <2>1, <2>3, <2>5, NoneAdmitted
<1>8. CASE Tick
  <2>1. \A d \in DeliveryIds : IsLive(d)' <=> IsLive(d)
    BY <1>1, <1>8, TickStep DEF IsLive
  <2>2. UNCHANGED <<pendingDeliveries, redriven>>
    BY <1>8 DEF Tick
  <2> QED
    BY <1>1, <2>1, <2>2, SameLiveCounts, NoneAdmitted
<1> QED
  BY <1>2, <1>3, <1>4, <1>5, <1>6, <1>7, <1>8 DEF Next

LEMMA StoreInit == Init => StoreInvariant
<1> SUFFICES ASSUME Init PROVE StoreInvariant
  OBVIOUS
<1>1. LiveDeliveries = {}
  BY DEF Init, Absent, LiveDeliveries, IsLive, Live, Active
<1>2. CountExact /\ CountWithinLimit
  BY <1>1, FS_EmptySet, ConstantsAssumption DEF Init, CountExact, CountWithinLimit, Admitted
<1> QED
  BY <1>2, OrderInit DEF OrderInvariant, StoreInvariant

\* The counter that admits publishers is the number of live deliveries, and
\* apart from redriven ones no more are live than maxPendingDeliveries allows.
THEOREM StoreCorrect == Spec => []StoreInvariant
BY StoreInit, StoreStep, PTL DEF Spec

-----------------------------------------------------------------------------
(* The pending bytes and their limit *)

\* What exists has an event, whose size can be read.
EventsKnown == \A d \in DeliveryIds : Exists(d) => deliveries[d].event \in Events

\* The bytes each delivery holds, and those it was admitted with.
LiveBytes == [d \in DeliveryIds |-> IF IsLive(d) THEN SizeOf(d) ELSE 0]
AdmittedBytes == [d \in DeliveryIds |-> IF d \in Admitted THEN SizeOf(d) ELSE 0]

LEMMA IdsFinite == IsFiniteSet(DeliveryIds)
BY ConstantsAssumption, FS_Product DEF DeliveryIds

LEMMA SizesKnown ==
    ASSUME EventsKnown
    PROVE  /\ \A d \in DeliveryIds : Exists(d) => SizeOf(d) \in Nat
           /\ LiveBytes \in [DeliveryIds -> Nat] /\ AdmittedBytes \in [DeliveryIds -> Nat]
           /\ \A d \in DeliveryIds : AdmittedBytes[d] <= LiveBytes[d]
<1>1. ASSUME NEW d \in DeliveryIds PROVE Exists(d) => SizeOf(d) \in Nat
  BY ConstantsAssumption DEF EventsKnown, SizeOf
<1>2. \A d \in DeliveryIds : IsLive(d) => Exists(d)
  BY DEF IsLive, Live, Active, Exists
<1>3. \A d \in DeliveryIds : d \in Admitted => IsLive(d)
  BY DEF Admitted, LiveDeliveries
<1> QED
  BY <1>1, <1>2, <1>3 DEF LiveBytes, AdmittedBytes

SizesTyped ==
    /\ LiveBytes \in [DeliveryIds -> Nat] /\ AdmittedBytes \in [DeliveryIds -> Nat]
    /\ \A d \in DeliveryIds : AdmittedBytes[d] <= LiveBytes[d]

LEMMA SizesTypedNow == EventsKnown => SizesTyped
BY SizesKnown DEF SizesTyped

LEMMA SizesTypedAfter == EventsKnown' => SizesTyped'
BY SizesTypedNow, PTL

\* MapThenSumSet over some live deliveries, as a sum of a function.
LEMMA SumOfSizes ==
    ASSUME EventsKnown, NEW S \in SUBSET LiveDeliveries
    PROVE  MapThenSumSet(SizeOf, S) = Total(LiveBytes, S)
<1> DEFINE Picked(s) == CHOOSE x \in s : TRUE
           Body(h) == [s \in SUBSET S |-> IF s = {} THEN 0 ELSE SizeOf(Picked(s)) + h[s \ {Picked(s)}]]
           iter == CHOOSE h : h = Body(h)
<1>1. MapThenSumSet(SizeOf, S) = iter[S]
  BY DEF MapThenSumSet, MapThenFoldSet
<1>2. IsFiniteSet(S) /\ \A d \in S : LiveBytes[d] \in Int /\ LiveBytes[d] = SizeOf(d)
  BY LiveFinite, FS_Subset, SizesKnown DEF LiveDeliveries, LiveBytes
<1>3. \A s \in SUBSET S : s # {} => Picked(s) \in S
  OBVIOUS
<1> HIDE DEF Picked
<1>4. \A h : Body(h) = [s \in SUBSET S |-> IF s = {} THEN 0
                                           ELSE LiveBytes[Picked(s)] + h[s \ {Picked(s)}]]
  BY <1>2, <1>3
<1> HIDE DEF Body
<1>5. \A h : Sums(h, LiveBytes, S) <=> h = Body(h)
  BY <1>4 DEF Sums, Picked
<1>6. \E h : h = Body(h)
  BY <1>2, <1>5, SumsExist
<1>7. Sums(iter, LiveBytes, S)
  BY <1>5, <1>6
<1> HIDE DEF iter
<1> QED
  BY <1>1, <1>2, <1>7, SumsTotal

LEMMA BytesMean ==
    EventsKnown =>
        /\ MapThenSumSet(SizeOf, LiveDeliveries) = Total(LiveBytes, DeliveryIds)
        /\ MapThenSumSet(SizeOf, Admitted) = Total(AdmittedBytes, DeliveryIds)
<1> SUFFICES ASSUME EventsKnown
             PROVE  /\ MapThenSumSet(SizeOf, LiveDeliveries) = Total(LiveBytes, DeliveryIds)
                    /\ MapThenSumSet(SizeOf, Admitted) = Total(AdmittedBytes, DeliveryIds)
  OBVIOUS
<1>1. /\ Admitted \in SUBSET LiveDeliveries /\ LiveDeliveries \in SUBSET DeliveryIds
      /\ Admitted \in SUBSET DeliveryIds
  BY DEF Admitted, LiveDeliveries
<1>2. /\ MapThenSumSet(SizeOf, LiveDeliveries) = Total(LiveBytes, LiveDeliveries)
      /\ MapThenSumSet(SizeOf, Admitted) = Total(LiveBytes, Admitted)
  BY <1>1, SumOfSizes
<1>3. /\ \A d \in DeliveryIds : LiveBytes[d] \in Int /\ AdmittedBytes[d] \in Int
      /\ \A d \in DeliveryIds \ LiveDeliveries : LiveBytes[d] = 0
      /\ \A d \in DeliveryIds \ Admitted : AdmittedBytes[d] = 0
      /\ \A d \in Admitted : AdmittedBytes[d] = LiveBytes[d]
  BY <1>1, SizesKnown DEF LiveBytes, AdmittedBytes, LiveDeliveries
<1>4. /\ Total(LiveBytes, DeliveryIds) = Total(LiveBytes, LiveDeliveries)
      /\ Total(AdmittedBytes, DeliveryIds) = Total(AdmittedBytes, Admitted)
  BY <1>1, <1>3, IdsFinite, TotalOfPart
<1>5. Total(AdmittedBytes, Admitted) = Total(LiveBytes, Admitted)
  <2>1. IsFiniteSet(Admitted) /\ \A d \in Admitted : AdmittedBytes[d] \in Int
    BY <1>1, <1>3, IdsFinite, FS_Subset
  <2> QED
    BY <1>3, <2>1, TotalSame
<1> QED
  BY <1>2, <1>4, <1>5

\* The two properties in terms of those sums, before and after a step.
BytesTotal == pendingBytes = Total(LiveBytes, DeliveryIds)
AdmittedTotal == Total(AdmittedBytes, DeliveryIds) <= MaxPendingBytes

LEMMA InTotals == EventsKnown => (BytesExact <=> BytesTotal) /\ (BytesWithinLimit <=> AdmittedTotal)
BY BytesMean DEF BytesExact, BytesWithinLimit, BytesTotal, AdmittedTotal

LEMMA InTotalsAfter ==
    EventsKnown' => (BytesExact' <=> BytesTotal') /\ (BytesWithinLimit' <=> AdmittedTotal')
BY InTotals, PTL

\* What the replaced delivery of a route holds, and what a call asks for.
Asked(p) == [r \in MatchedRoutes(p) |->
                Size[EventOf[p]] - IF r \in FreshRoutes(p) THEN 0 ELSE SizeOf(Slot(p, r))]

LEMMA AskedType ==
    ASSUME TypeOK, EventsKnown, NEW p \in Publishers
    PROVE  /\ IsFiniteSet(MatchedRoutes(p)) /\ Size[EventOf[p]] \in Nat
           /\ Asked(p) \in [MatchedRoutes(p) -> Int]
<1>1. IsFiniteSet(MatchedRoutes(p)) /\ Size[EventOf[p]] \in Nat
  BY ConstantsAssumption, RoutesOfCall, FS_Subset
<1>2. ASSUME NEW r \in MatchedRoutes(p), r \notin FreshRoutes(p)
      PROVE  SizeOf(Slot(p, r)) \in Nat
  <2>1. Slot(p, r) \in DeliveryIds /\ Exists(Slot(p, r))
    BY <1>2, SlotOfRoute DEF Exists
  <2> QED
    BY <2>1, SizesKnown
<1> QED
  BY <1>1, <1>2 DEF Asked

LEMMA RequiredIsTotal ==
    ASSUME TypeOK, EventsKnown, NEW p \in Publishers
    PROVE  RequiredBytes(p) = Total(Asked(p), MatchedRoutes(p)) /\ RequiredBytes(p) \in Int
<1> DEFINE S == MatchedRoutes(p)
           Picked(s) == CHOOSE x \in s : TRUE
           Ask(r) == Size[EventOf[p]] - IF r \in FreshRoutes(p) THEN 0 ELSE SizeOf(Slot(p, r))
           Body(h) == [s \in SUBSET S |-> IF s = {} THEN 0 ELSE Ask(Picked(s)) + h[s \ {Picked(s)}]]
           iter == CHOOSE h : h = Body(h)
<1>1. RequiredBytes(p) = iter[S]
  BY DEF RequiredBytes, MapThenSumSet, MapThenFoldSet
<1>2. IsFiniteSet(S) /\ \A r \in S : Asked(p)[r] \in Int /\ Asked(p)[r] = Ask(r)
  <2>1. IsFiniteSet(S) /\ \A r \in S : Asked(p)[r] \in Int
    BY AskedType
  <2> QED
    BY <2>1 DEF Asked
<1>3. \A s \in SUBSET S : s # {} => Picked(s) \in S
  OBVIOUS
<1> HIDE DEF Picked, Ask, S
<1>4. \A h : Body(h) = [s \in SUBSET S |-> IF s = {} THEN 0
                                           ELSE Asked(p)[Picked(s)] + h[s \ {Picked(s)}]]
  BY <1>2, <1>3
<1> HIDE DEF Body
<1>5. \A h : Sums(h, Asked(p), S) <=> h = Body(h)
  BY <1>4 DEF Sums, Picked
<1>6. \E h : h = Body(h)
  BY <1>2, <1>5, SumsExist
<1>7. Sums(iter, Asked(p), S)
  BY <1>5, <1>6
<1> HIDE DEF iter
<1>8. iter[S] = Total(Asked(p), S) /\ Total(Asked(p), S) \in Int
  BY <1>2, <1>7, SumsTotal, TotalType
<1> QED
  BY <1>1, <1>8 DEF S

\* What accepting does to the delivery of each route, and to no other one.
LEMMA SlotAfter ==
    ASSUME OrderInvariant, NEW p \in Publishers, Accept(p), publishers[p].pc # "accepted",
           NEW r \in MatchedRoutes(p)
    PROVE  /\ Slot(p, r) \in DeliveryIds /\ Slot(p, r)[2] = r
           /\ deliveries'[Slot(p, r)].status = "queued"
           /\ deliveries'[Slot(p, r)].event = EventOf[p]
           /\ r \in FreshRoutes(p) => ~Exists(Slot(p, r))
           /\ r \notin FreshRoutes(p) => deliveries[Slot(p, r)].status = "queued"
<1>1. TypeOK /\ SequenceBounded /\ NothingBeforeAccepted
  BY DEF OrderInvariant
<1>2. Slot(p, r) \in DeliveryIds /\ Slot(p, r)[2] = r
  BY <1>1, SlotOfRoute
<1>3. CASE r \in FreshRoutes(p)
  <2>1. Slot(p, r) = <<p, r>> /\ Created(p, Slot(p, r))
    BY <1>1, <1>3, SlotOfRoute DEF Created
  <2>2. deliveries'[Slot(p, r)] = NewDelivery(p, r)
    BY <1>2, <2>1 DEF Accept, Created
  <2>3. NewDelivery(p, r).status = "queued" /\ NewDelivery(p, r).event = EventOf[p]
    BY DEF NewDelivery, Absent
  <2> QED
    BY <1>1, <1>2, <1>3, <2>1, <2>2, <2>3, CreatedIsNew
<1>4. CASE r \notin FreshRoutes(p)
  <2>1. deliveries[Slot(p, r)].status = "queued" /\ deliveries[Slot(p, r)] \in Delivery
    BY <1>1, <1>2, <1>4, SlotOfRoute DEF TypeOK
  <2>2. ~(Slot(p, r) \in {<<p, q>> : q \in FreshRoutes(p)})
    BY <1>2, <1>4
  <2>3. deliveries'[Slot(p, r)] = [deliveries[Slot(p, r)] EXCEPT
                                      !.event = EventOf[p],
                                      !.delay = Debounce[Slot(p, r)[2]] - Age(p)]
    BY <1>2, <2>2 DEF Accept
  <2> QED
    BY <1>2, <1>4, <2>1, <2>3 DEF Delivery
<1> QED
  BY <1>3, <1>4

LEMMA NoSlotAfter ==
    ASSUME TypeOK, NEW p \in Publishers, Accept(p),
           NEW d \in DeliveryIds, d \notin {Slot(p, r) : r \in MatchedRoutes(p)}
    PROVE  deliveries'[d] = deliveries[d]
<1>1. d \notin {<<p, r>> : r \in FreshRoutes(p)}
  BY RoutesOfCall, SlotOfRoute
<1> QED
  BY <1>1 DEF Accept

LEMMA EventsAccept ==
    ASSUME OrderInvariant, EventsKnown, NEW p \in Publishers, Accept(p),
           publishers[p].pc # "accepted"
    PROVE  EventsKnown'
<1> SUFFICES ASSUME NEW d \in DeliveryIds, Exists(d)'
             PROVE  deliveries'[d].event \in Events
  BY DEF EventsKnown
<1>1. CASE d \in {Slot(p, r) : r \in MatchedRoutes(p)}
  BY <1>1, SlotAfter, ConstantsAssumption
<1>2. CASE d \notin {Slot(p, r) : r \in MatchedRoutes(p)}
  BY <1>2, NoSlotAfter DEF OrderInvariant, EventsKnown, Exists
<1> QED
  BY <1>1, <1>2

\* Accepting adds what was asked for.
LEMMA AcceptTotal ==
    ASSUME OrderInvariant, EventsKnown, EventsKnown', BytesTotal, NEW p \in Publishers,
           Accept(p), publishers[p].pc # "accepted"
    PROVE  BytesTotal'
<1> DEFINE matched == MatchedRoutes(p)
           slot == [r \in matched |-> Slot(p, r)]
           added == [d \in DeliveryIds |-> LiveBytes'[d] - LiveBytes[d]]
           before == LiveBytes
           after == LiveBytes'
<1>1. TypeOK
  BY DEF OrderInvariant
<1>2. /\ \A d \in DeliveryIds : before[d] \in Int /\ added[d] \in Int
      /\ \A d \in DeliveryIds : after[d] = before[d] + added[d]
  <2>1. LiveBytes \in [DeliveryIds -> Nat]
    BY SizesKnown
  <2>2. LiveBytes' \in [DeliveryIds -> Nat]
    BY SizesTypedAfter DEF SizesTyped
  <2> QED
    BY <2>1, <2>2
<1>3. Total(after, DeliveryIds) = Total(before, DeliveryIds) + Total(added, DeliveryIds)
  <2> HIDE DEF before, after, added
  <2> QED
    BY <1>2, IdsFinite, TotalPlus
<1> DEFINE slots == {slot[r] : r \in matched}
<1>4. slots \subseteq DeliveryIds /\ \A r \in matched : slot[r] = Slot(p, r) /\ slot[r][2] = r
  BY SlotAfter
<1>5. \A d \in DeliveryIds \ slots : added[d] = 0
  <2> SUFFICES ASSUME NEW d \in DeliveryIds \ slots PROVE added[d] = 0
    OBVIOUS
  <2>1. deliveries'[d] = deliveries[d]
    BY <1>1, NoSlotAfter
  <2>2. LiveBytes'[d] = LiveBytes[d]
    BY <2>1 DEF LiveBytes, IsLive, SizeOf
  <2> QED
    BY <1>2, <2>2
<1>6. ASSUME NEW r \in matched PROVE added[slot[r]] = Asked(p)[r]
  <2> DEFINE d == Slot(p, r)
  <2>1. /\ d \in DeliveryIds
        /\ deliveries'[d].status = "queued" /\ deliveries'[d].event = EventOf[p]
        /\ r \in FreshRoutes(p) => ~Exists(d)
        /\ r \notin FreshRoutes(p) => deliveries[d].status = "queued"
    BY SlotAfter
  <2>2. LiveBytes'[d] = Size[EventOf[p]]
    BY <2>1 DEF LiveBytes, IsLive, Live, SizeOf
  <2>3. LiveBytes[d] = IF r \in FreshRoutes(p) THEN 0 ELSE SizeOf(d)
    BY <2>1 DEF LiveBytes, IsLive, Live, Active, Exists
  <2> QED
    BY <1>4, <2>1, <2>2, <2>3 DEF Asked
<1>7. Total(added, DeliveryIds) = Total(added, slots)
  <2> HIDE DEF added, slots
  <2> QED
    BY <1>2, <1>4, <1>5, IdsFinite, TotalOfPart
<1>8. Total(Asked(p), matched) = Total(added, slots)
  <2>1. /\ IsFiniteSet(matched) /\ \A r \in matched : Asked(p)[r] \in Int
        /\ \A q, r \in matched : slot[q] = slot[r] => q = r
    BY <1>1, <1>4, AskedType
  <2> HIDE DEF added, slot, matched
  <2> QED
    BY <1>6, <2>1, TotalRenamed
<1>9. RequiredBytes(p) = Total(Asked(p), matched)
  BY <1>1, RequiredIsTotal
<1>10. pendingBytes' = pendingBytes + RequiredBytes(p)
  BY DEF Accept
<1> QED
  BY <1>3, <1>7, <1>8, <1>9, <1>10 DEF BytesTotal

\* Every other step moves the bytes of at most one delivery, and counts them.
LEMMA OneMoveTotal ==
    ASSUME EventsKnown, EventsKnown', BytesTotal, NEW c \in DeliveryIds,
           \A d \in DeliveryIds \ {c} : LiveBytes'[d] = LiveBytes[d],
           pendingBytes' = pendingBytes + (LiveBytes'[c] - LiveBytes[c])
    PROVE  BytesTotal'
<1> DEFINE before == LiveBytes
           after == LiveBytes'
           rest == DeliveryIds \ {c}
<1>1. /\ \A d \in DeliveryIds : before[d] \in Int /\ after[d] \in Int
      /\ \A d \in rest : after[d] = before[d]
      /\ pendingBytes' = pendingBytes + (after[c] - before[c])
      /\ pendingBytes = Total(before, DeliveryIds)
  BY SizesTypedNow, SizesTypedAfter DEF SizesTyped, BytesTotal
<1> SUFFICES pendingBytes' = Total(after, DeliveryIds)
  BY DEF BytesTotal
<1> HIDE DEF before, after
<1>2. IsFiniteSet(rest) /\ rest \subseteq DeliveryIds
  BY IdsFinite, FS_RemoveElement
<1>3. /\ Total(before, DeliveryIds) = before[c] + Total(before, rest)
      /\ Total(after, DeliveryIds) = after[c] + Total(after, rest)
  BY <1>1, IdsFinite, TotalWithout
<1>4. Total(after, rest) = Total(before, rest) /\ Total(before, rest) \in Int
  BY <1>1, <1>2, TotalSame, TotalType
<1> QED
  BY <1>1, <1>3, <1>4

LEMMA SameTotal ==
    ASSUME EventsKnown, BytesTotal,
           \A d \in DeliveryIds : LiveBytes'[d] = LiveBytes[d],
           pendingBytes' = pendingBytes
    PROVE  BytesTotal'
<1>1. LiveBytes' = LiveBytes
  BY DEF LiveBytes
<1> QED
  BY <1>1 DEF BytesTotal

\* A step that makes no delivery live but by redriving it, and changes no
\* event, admits no bytes.
LEMMA NoBytesAdmitted ==
    ASSUME EventsKnown, EventsKnown', AdmittedTotal, redriven \subseteq redriven',
           \A d \in DeliveryIds : IsLive(d)' => IsLive(d) \/ d \in redriven',
           \A d \in DeliveryIds : deliveries'[d].event = deliveries[d].event
    PROVE  AdmittedTotal'
<1> DEFINE before == AdmittedBytes
           after == AdmittedBytes'
<1>1. \A d \in DeliveryIds : before[d] \in Nat /\ after[d] \in Nat
  BY SizesTypedNow, SizesTypedAfter DEF SizesTyped
<1>2. \A d \in DeliveryIds : after[d] <= before[d]
  <2> SUFFICES ASSUME NEW d \in DeliveryIds PROVE after[d] <= before[d]
    OBVIOUS
  <2>1. CASE d \in Admitted'
    <3>1. d \in Admitted
      BY <2>1 DEF Admitted, LiveDeliveries
    <3>2. after[d] = before[d]
      BY <2>1, <3>1 DEF AdmittedBytes, SizeOf
    <3> QED
      BY <1>1, <3>2
  <2>2. CASE d \notin Admitted'
    <3>1. after[d] = 0
      BY <2>2 DEF AdmittedBytes
    <3> QED
      BY <1>1, <3>1
  <2> QED
    BY <2>1, <2>2
<1>3. Total(before, DeliveryIds) <= MaxPendingBytes
  BY DEF AdmittedTotal
<1> SUFFICES Total(after, DeliveryIds) <= MaxPendingBytes
  BY DEF AdmittedTotal
<1> HIDE DEF before, after
<1>4. /\ Total(after, DeliveryIds) <= Total(before, DeliveryIds)
      /\ Total(after, DeliveryIds) \in Int /\ Total(before, DeliveryIds) \in Int
  BY <1>1, <1>2, IdsFinite, TotalAtMost, TotalType
<1> QED
  BY <1>3, <1>4, ConstantsAssumption

LEMMA AcceptWithinBytes ==
    ASSUME EventsKnown', BytesTotal', NEW p \in Publishers, Accept(p), HasCapacity(p)
    PROVE  AdmittedTotal'
<1> DEFINE all == LiveBytes'
           admitted == AdmittedBytes'
<1>1. \A d \in DeliveryIds : all[d] \in Int /\ admitted[d] \in Int /\ admitted[d] <= all[d]
  BY SizesTypedAfter DEF SizesTyped
<1>2. Total(all, DeliveryIds) <= MaxPendingBytes
  BY DEF BytesTotal, Accept, HasCapacity
<1> SUFFICES Total(admitted, DeliveryIds) <= MaxPendingBytes
  BY DEF AdmittedTotal
<1> HIDE DEF all, admitted
<1>3. /\ Total(admitted, DeliveryIds) <= Total(all, DeliveryIds)
      /\ Total(admitted, DeliveryIds) \in Int /\ Total(all, DeliveryIds) \in Int
  BY <1>1, IdsFinite, TotalAtMost, TotalType
<1> QED
  BY <1>2, <1>3, ConstantsAssumption

BytesInvariant ==
    /\ OrderInvariant
    /\ EventsKnown
    /\ BytesTotal
    /\ AdmittedTotal

LEMMA BytesStep == BytesInvariant /\ [Next]_vars => BytesInvariant'
<1> SUFFICES ASSUME BytesInvariant, [Next]_vars PROVE BytesInvariant'
  OBVIOUS
<1>1. /\ OrderInvariant /\ OrderInvariant' /\ TypeOK
      /\ EventsKnown /\ BytesTotal /\ AdmittedTotal
  BY OrderStep DEF BytesInvariant, OrderInvariant
<1> SUFFICES EventsKnown' /\ BytesTotal' /\ AdmittedTotal'
  BY <1>1 DEF BytesInvariant
\* What is live and what its event is decide the bytes.
<1>2. ASSUME NEW d \in DeliveryIds, IsLive(d)' <=> IsLive(d),
             deliveries'[d].event = deliveries[d].event
      PROVE  LiveBytes'[d] = LiveBytes[d]
  BY <1>2 DEF LiveBytes, SizeOf
<1>3. ASSUME \A d \in DeliveryIds : KeepsPlace(d)
      PROVE  EventsKnown' /\ \A d \in DeliveryIds : deliveries'[d].event = deliveries[d].event
  BY <1>1, <1>3 DEF KeepsPlace, EventsKnown
<1>4. ASSUME \A d \in DeliveryIds : KeepsPlace(d) /\ (IsLive(d)' <=> IsLive(d)),
             UNCHANGED <<pendingBytes, redriven>>
      PROVE  EventsKnown' /\ BytesTotal' /\ AdmittedTotal'
  BY <1>1, <1>2, <1>3, <1>4, SameTotal, NoBytesAdmitted
<1>5. ASSUME UNCHANGED <<deliveries, pendingBytes, redriven>>
      PROVE  EventsKnown' /\ BytesTotal' /\ AdmittedTotal'
  <2>1. \A d \in DeliveryIds : KeepsPlace(d) /\ (IsLive(d)' <=> IsLive(d))
    BY <1>5 DEF KeepsPlace, Exists, IsLive
  <2> QED
    BY <1>4, <1>5, <2>1
<1>6. CASE UNCHANGED vars
  BY <1>5, <1>6 DEF vars
<1>7. ASSUME NEW p \in Publishers, Publish(p)
      PROVE  EventsKnown' /\ BytesTotal' /\ AdmittedTotal'
  <2>1. CASE Accept(p) /\ HasCapacity(p) /\ publishers[p].pc # "accepted"
    BY <1>1, <2>1, EventsAccept, AcceptTotal, AcceptWithinBytes
  <2>2. CASE UNCHANGED <<deliveries, pendingBytes, redriven>>
    BY <1>5, <2>2
  <2> QED
    BY <1>7, <2>1, <2>2, PublishStep
<1>8. ASSUME NEW w \in Workers, NEW lease \in 1 .. LeaseTime, Claim(w, lease)
      PROVE  EventsKnown' /\ BytesTotal' /\ AdmittedTotal'
  <2>1. \A d \in DeliveryIds : KeepsPlace(d) /\ (IsLive(d)' <=> IsLive(d))
    BY <1>1, <1>8, ClaimStep DEF IsLive, Live, Active, Claimable, KeepsPlace, Exists
  <2>2. UNCHANGED <<pendingBytes, redriven>>
    BY <1>8 DEF Claim
  <2> QED
    BY <1>4, <2>1, <2>2
<1>9. ASSUME NEW c \in DeliveryIds, NEW lease \in 1 .. LeaseTime, RenewClaim(c, lease)
      PROVE  EventsKnown' /\ BytesTotal' /\ AdmittedTotal'
  <2>1. \A d \in DeliveryIds : KeepsPlace(d) /\ (IsLive(d)' <=> IsLive(d))
    BY <1>1, <1>9, RenewStep DEF IsLive
  <2>2. UNCHANGED <<pendingBytes, redriven>>
    BY <1>9 DEF RenewClaim
  <2> QED
    BY <1>4, <2>1, <2>2
<1>10. ASSUME NEW c \in DeliveryIds, NEW record \in SavableRecords(c), SaveDelivery(c, record)
       PROVE  EventsKnown' /\ BytesTotal' /\ AdmittedTotal'
  <2>1. /\ deliveries[c].status \in Active /\ KeepsPlace(c)
        /\ deliveries'[c].status = record.status
        /\ record.status \in {"queued", "running"} \union Terminal
        /\ \A d \in DeliveryIds \ {c} : deliveries'[d] = deliveries[d]
    BY <1>1, <1>10, SaveStep
  <2>2. IsLive(c) /\ (IsLive(c)' <=> record.status \notin Terminal)
    BY <2>1 DEF IsLive, Live, Active, Terminal
  <2>3. \A d \in DeliveryIds : KeepsPlace(d) /\ (d # c => (IsLive(d)' <=> IsLive(d)))
    BY <2>1 DEF KeepsPlace, Exists, IsLive
  <2>4. UNCHANGED redriven
    BY <1>10 DEF SaveDelivery
  <2>5. EventsKnown' /\ AdmittedTotal'
    BY <1>1, <1>3, <2>2, <2>3, <2>4, NoBytesAdmitted
  <2>6. CASE record.status \in Terminal
    <3>1. pendingBytes' = pendingBytes - SizeOf(c)
      BY <1>10, <2>6 DEF SaveDelivery, ReleaseSlot
    <3>2. LiveBytes'[c] = 0 /\ LiveBytes[c] = SizeOf(c) /\ SizeOf(c) \in Nat
      BY <1>1, <2>2, <2>6, SizesKnown DEF LiveBytes, IsLive, Live, Active, Exists
    <3>3. \A d \in DeliveryIds \ {c} : LiveBytes'[d] = LiveBytes[d]
      BY <1>2, <1>3, <2>3
    <3>4. pendingBytes \in Int
      BY <1>1, SizesTypedNow, IdsFinite, TotalType DEF BytesTotal, SizesTyped
    <3>5. pendingBytes' = pendingBytes + (LiveBytes'[c] - LiveBytes[c])
      BY <3>1, <3>2, <3>4
    <3> QED
      BY <1>1, <2>5, <3>3, <3>5, OneMoveTotal
  <2>7. CASE record.status \notin Terminal
    <3>1. UNCHANGED pendingBytes
      BY <1>10, <2>7 DEF SaveDelivery
    <3> QED
      BY <1>4, <2>2, <2>3, <2>4, <2>7, <3>1
  <2> QED
    BY <2>6, <2>7
<1>11. ASSUME NEW c \in DeliveryIds, NEW preserveRun \in BOOLEAN, RedriveDelivery(c, preserveRun)
       PROVE  EventsKnown' /\ BytesTotal' /\ AdmittedTotal'
  <2>1. /\ deliveries[c].status \in Terminal /\ KeepsPlace(c)
        /\ deliveries'[c].status = "queued"
        /\ \A d \in DeliveryIds \ {c} : deliveries'[d] = deliveries[d]
        /\ redriven' = redriven \union {c}
    BY <1>1, <1>11, RedriveStep
  <2>2. ~IsLive(c) /\ IsLive(c)' /\ Exists(c)
    BY <2>1 DEF IsLive, Live, Active, Terminal, Exists
  <2>3. \A d \in DeliveryIds : KeepsPlace(d) /\ (d # c => (IsLive(d)' <=> IsLive(d)))
    BY <2>1 DEF KeepsPlace, Exists, IsLive
  <2>4. EventsKnown' /\ AdmittedTotal'
    BY <1>1, <1>3, <2>1, <2>3, NoBytesAdmitted
  <2>5. pendingBytes' = pendingBytes + SizeOf(c)
    BY <1>11 DEF RedriveDelivery, TakeSlot
  <2>6. LiveBytes'[c] = SizeOf(c) /\ LiveBytes[c] = 0 /\ SizeOf(c) \in Nat
    <3>1. SizeOf(c) \in Nat /\ SizeOf(c)' = SizeOf(c)
      BY <1>1, <2>1, <2>2, SizesKnown DEF SizeOf, KeepsPlace
    <3> QED
      BY <2>2, <3>1 DEF LiveBytes
  <2>7. \A d \in DeliveryIds \ {c} : LiveBytes'[d] = LiveBytes[d]
    BY <1>2, <1>3, <2>3
  <2>8. pendingBytes' = pendingBytes + (LiveBytes'[c] - LiveBytes[c])
    BY <2>5, <2>6
  <2> QED
    BY <1>1, <2>4, <2>7, <2>8, OneMoveTotal
<1>12. CASE Tick
  <2>1. \A d \in DeliveryIds : KeepsPlace(d) /\ (IsLive(d)' <=> IsLive(d))
    BY <1>1, <1>12, TickStep DEF IsLive
  <2>2. UNCHANGED <<pendingBytes, redriven>>
    BY <1>12 DEF Tick
  <2> QED
    BY <1>4, <2>1, <2>2
<1> QED
  BY <1>6, <1>7, <1>8, <1>9, <1>10, <1>11, <1>12 DEF Next

LEMMA BytesInit == Init => BytesInvariant
<1> SUFFICES ASSUME Init PROVE BytesInvariant
  OBVIOUS
<1>1. \A d \in DeliveryIds : ~Exists(d) /\ ~IsLive(d)
  BY DEF Init, Absent, Exists, IsLive, Live, Active
<1>2. EventsKnown
  BY <1>1 DEF EventsKnown
<1>3. \A d \in DeliveryIds : LiveBytes[d] = 0 /\ AdmittedBytes[d] = 0
  BY <1>1 DEF LiveBytes, AdmittedBytes, Admitted, LiveDeliveries
<1>4. Total(LiveBytes, DeliveryIds) = 0 /\ Total(AdmittedBytes, DeliveryIds) = 0
  <2>1. /\ {} \in SUBSET DeliveryIds
        /\ \A d \in DeliveryIds : LiveBytes[d] \in Int /\ AdmittedBytes[d] \in Int
        /\ \A d \in DeliveryIds \ {} : LiveBytes[d] = 0 /\ AdmittedBytes[d] = 0
    BY <1>3
  <2>2. /\ Total(LiveBytes, DeliveryIds) = Total(LiveBytes, {})
        /\ Total(AdmittedBytes, DeliveryIds) = Total(AdmittedBytes, {})
    BY <2>1, IdsFinite, TotalOfPart
  <2> QED
    BY <2>2, TotalEmpty
<1> QED
  BY <1>2, <1>4, OrderInit, ConstantsAssumption
  DEF Init, BytesInvariant, BytesTotal, AdmittedTotal

\* hasCapacity decides by counters that are exactly what the queue holds, and
\* enqueue admits no more deliveries and no more bytes than the limits.
THEOREM CapacityHolds == Spec => []CapacityRespected
<1>1. StoreInvariant /\ BytesInvariant => CapacityRespected
  BY InTotals DEF StoreInvariant, BytesInvariant, CapacityRespected
<1> QED
  BY <1>1, StoreInit, StoreStep, BytesInit, BytesStep, PTL DEF Spec

-----------------------------------------------------------------------------
(* Waiting for capacity *)

\* Without coalescing a call asks for the same room whenever it asks.
Room(p) ==
    /\ pendingDeliveries + Cardinality(MatchedRoutes(p)) <= MaxPendingDeliveries
    /\ pendingBytes + Total([r \in MatchedRoutes(p) |-> Size[EventOf[p]]], MatchedRoutes(p))
           <= MaxPendingBytes
CapacityIsRoom == Coalesced = {} => \A p \in Publishers : HasCapacity(p) <=> Room(p)

LEMMA RoomNow == TypeOK /\ EventsKnown => CapacityIsRoom
<1> SUFFICES ASSUME Coalesced = {}, TypeOK, EventsKnown, NEW p \in Publishers
             PROVE  HasCapacity(p) <=> Room(p)
  BY DEF CapacityIsRoom
<1>1. FreshRoutes(p) = MatchedRoutes(p)
  BY DEF FreshRoutes, Coalescible
<1>2. Asked(p) = [r \in MatchedRoutes(p) |-> Size[EventOf[p]]]
  <2>1. Size[EventOf[p]] \in Nat
    BY ConstantsAssumption
  <2> QED
    BY <1>1, <2>1 DEF Asked
<1>3. RequiredBytes(p) = Total([r \in MatchedRoutes(p) |-> Size[EventOf[p]]], MatchedRoutes(p))
  BY <1>2, RequiredIsTotal
<1> QED
  BY <1>1, <1>3 DEF HasCapacity, Room

LEMMA RoomAfter == TypeOK' /\ EventsKnown' => CapacityIsRoom'
BY RoomNow, PTL

LEMMA RoomType ==
    ASSUME NEW p \in Publishers
    PROVE  /\ Cardinality(MatchedRoutes(p)) \in Nat
           /\ Total([r \in MatchedRoutes(p) |-> Size[EventOf[p]]], MatchedRoutes(p)) \in Nat
<1> DEFINE sizes == [r \in MatchedRoutes(p) |-> Size[EventOf[p]]]
           zeros == [r \in MatchedRoutes(p) |-> 0]
           matched == MatchedRoutes(p)
<1>1. /\ IsFiniteSet(matched) /\ {} \in SUBSET matched
      /\ \A r \in matched : sizes[r] \in Nat /\ zeros[r] = 0
  BY ConstantsAssumption, RoutesOfCall, FS_Subset
<1> SUFFICES Cardinality(matched) \in Nat /\ Total(sizes, matched) \in Nat
  OBVIOUS
<1> HIDE DEF sizes, zeros, matched
<1>2. Cardinality(matched) \in Nat
  BY <1>1, FS_CardinalityType
<1>3. Total(zeros, matched) = 0
  <2>1. Total(zeros, matched) = Total(zeros, {})
    BY <1>1, TotalOfPart
  <2> QED
    BY <2>1, TotalEmpty
<1>4. Total(zeros, matched) <= Total(sizes, matched) /\ Total(sizes, matched) \in Int
  BY <1>1, TotalAtMost, TotalType
<1> QED
  BY <1>2, <1>3, <1>4

LEMMA BytesAreInt == BytesInvariant => pendingBytes \in Int /\ pendingDeliveries \in Int
BY SizesTypedNow, IdsFinite, TotalType
DEF BytesInvariant, BytesTotal, SizesTyped, OrderInvariant, TypeOK

\* Room is only made by saving an outcome.
LEMMA HeldRoom ==
    ASSUME Coalesced = {}, BytesInvariant, BytesInvariant', NEW p \in Publishers,
           pendingDeliveries <= pendingDeliveries', pendingBytes <= pendingBytes',
           ~HasCapacity(p)
    PROVE  ~HasCapacity(p)'
<1>1. CapacityIsRoom /\ CapacityIsRoom'
  BY RoomNow, RoomAfter DEF BytesInvariant, OrderInvariant
<1>2. /\ pendingBytes \in Int /\ pendingDeliveries \in Int
      /\ pendingBytes' \in Int /\ pendingDeliveries' \in Int
  <2>1. BytesInvariant' => (pendingBytes \in Int /\ pendingDeliveries \in Int)'
    BY BytesAreInt, PTL
  <2> QED
    BY <2>1, BytesAreInt
<1>3. ~Room(p)
  BY <1>1 DEF CapacityIsRoom
<1>4. ~Room(p)'
  BY <1>2, <1>3, RoomType, ConstantsAssumption DEF Room, MatchedRoutes
<1> QED
  BY <1>1, <1>4 DEF CapacityIsRoom

\* No publisher sleeps although there is room for its event.
NoneAsleep == Coalesced = {} => NoLostWakeup

WaitInvariant == BytesInvariant /\ NoneAsleep

\* Publishers that wait after a step that wakes none.
LEMMA StillWaiting ==
    ASSUME WaitInvariant, BytesInvariant',
           pendingDeliveries <= pendingDeliveries', pendingBytes <= pendingBytes',
           \A p \in Publishers : publishers'[p].pc = "waiting" =>
               publishers[p].pc = "waiting" \/ ~HasCapacity(p)
    PROVE  NoneAsleep'
BY HeldRoom DEF WaitInvariant, NoneAsleep, NoLostWakeup

\* A call begins to wait only when its event does not fit.
LEMMA PublishWaiting ==
    ASSUME TypeOK, NEW p \in Publishers, Publish(p)
    PROVE  \A q \in Publishers : publishers'[q].pc = "waiting" =>
               publishers[q].pc = "waiting" \/ ~HasCapacity(q)
<1> SUFFICES ASSUME NEW q \in Publishers, publishers'[q].pc = "waiting",
                    publishers[q].pc # "waiting"
             PROVE  ~HasCapacity(q)
  OBVIOUS
<1>1. \A outcome : Settled(outcome).pc = outcome
  BY DEF Settled
<1>2. ASSUME NEW state, Move(p, state) PROVE q = p /\ publishers'[p] = state
  BY <1>2 DEF Move, TypeOK
<1>3. ~Accept(p)
  <2> SUFFICES ASSUME Accept(p) PROVE FALSE
    OBVIOUS
  <2>1. publishers'[p].pc = "accepted" /\ (q # p => publishers'[q] = publishers[q])
    BY <1>1 DEF Accept, TypeOK
  <2> QED
    BY <2>1
<1>4. CASE PublishKnown(p)
  <2> DEFINE outcome == IF Known(p) = EventOf[p] THEN "duplicate" ELSE "conflict"
  <2>1. publishers'[q] = Settled(outcome) /\ outcome # "waiting"
    BY <1>2, <1>4 DEF PublishKnown
  <2> QED
    BY <1>1, <2>1
<1>5. CASE PublishWaits(p)
  BY <1>2, <1>5 DEF PublishWaits
<1>6. CASE Wake(p)
  BY <1>1, <1>2, <1>3, <1>6 DEF Wake
<1> QED
  BY <1>1, <1>2, <1>3, <1>4, <1>5, <1>6
  DEF Publish, PublishRejected, PublishAccepted, PublishTimesOut, PublishAborts

LEMMA RequiredSign ==
    ASSUME Coalesced = {}, TypeOK, EventsKnown, NEW p \in Publishers
    PROVE  RequiredBytes(p) \in Nat
<1>1. FreshRoutes(p) = MatchedRoutes(p)
  BY DEF FreshRoutes, Coalescible
<1>2. Asked(p) = [r \in MatchedRoutes(p) |-> Size[EventOf[p]]]
  <2>1. Size[EventOf[p]] \in Nat
    BY ConstantsAssumption
  <2> QED
    BY <1>1, <2>1 DEF Asked
<1> QED
  BY <1>2, RequiredIsTotal, RoomType

LEMMA WaitStep == WaitInvariant /\ [Next]_vars => WaitInvariant'
<1> SUFFICES ASSUME WaitInvariant, [Next]_vars, Coalesced = {} PROVE NoneAsleep'
  BY BytesStep DEF WaitInvariant, NoneAsleep
<1>1. BytesInvariant /\ BytesInvariant' /\ TypeOK /\ EventsKnown
  BY BytesStep DEF WaitInvariant, BytesInvariant, OrderInvariant
<1>2. pendingBytes \in Int /\ pendingDeliveries \in Int
  BY <1>1, BytesAreInt
<1>3. ASSUME UNCHANGED <<pendingDeliveries, pendingBytes, publishers>> PROVE NoneAsleep'
  BY <1>1, <1>2, <1>3, StillWaiting
<1>4. CASE UNCHANGED vars
  BY <1>3, <1>4 DEF vars
<1>5. ASSUME NEW p \in Publishers, Publish(p) PROVE NoneAsleep'
  <2>1. CASE Accept(p)
    <3>1. Cardinality(FreshRoutes(p)) \in Nat /\ RequiredBytes(p) \in Nat
      BY <1>1, RoutesOfCall, RequiredSign
    <3>2. /\ pendingDeliveries' = pendingDeliveries + Cardinality(FreshRoutes(p))
          /\ pendingBytes' = pendingBytes + RequiredBytes(p)
      BY <2>1 DEF Accept
    <3>3. pendingDeliveries <= pendingDeliveries' /\ pendingBytes <= pendingBytes'
      BY <1>2, <3>1, <3>2
    <3> QED
      BY <1>1, <1>5, <3>3, StillWaiting, PublishWaiting
  <2>2. CASE UNCHANGED <<pendingDeliveries, pendingBytes>>
    BY <1>1, <1>2, <1>5, <2>2, StillWaiting, PublishWaiting
  <2> QED
    BY <1>5, <2>1, <2>2, PublishStep
<1>6. ASSUME NEW w \in Workers, NEW lease \in 1 .. LeaseTime, Claim(w, lease) PROVE NoneAsleep'
  BY <1>3, <1>6 DEF Claim
<1>7. ASSUME NEW c \in DeliveryIds, NEW lease \in 1 .. LeaseTime, RenewClaim(c, lease)
      PROVE  NoneAsleep'
  BY <1>3, <1>7 DEF RenewClaim
<1>8. ASSUME NEW c \in DeliveryIds, NEW record \in SavableRecords(c), SaveDelivery(c, record)
      PROVE  NoneAsleep'
  <2>1. CASE NotifyCapacity
    <3>1. ASSUME NEW p \in Publishers PROVE publishers'[p].pc # "waiting"
      <4>1. publishers[p] \in Publisher
        BY <1>1 DEF TypeOK
      <4>2. publishers'[p] = [publishers[p] EXCEPT
                                !.pc = IF publishers[p].pc = "waiting" THEN "woken"
                                       ELSE publishers[p].pc]
        BY <2>1 DEF NotifyCapacity
      <4> QED
        BY <4>1, <4>2 DEF Publisher
    <3> QED
      BY <3>1 DEF NoneAsleep, NoLostWakeup
  <2>2. CASE UNCHANGED <<pendingDeliveries, pendingBytes, publishers>>
    BY <1>3, <2>2
  <2> QED
    BY <1>8, <2>1, <2>2 DEF SaveDelivery
<1>9. ASSUME NEW c \in DeliveryIds, NEW preserveRun \in BOOLEAN, RedriveDelivery(c, preserveRun)
      PROVE  NoneAsleep'
  <2>1. deliveries[c].status \in Terminal
    BY <1>9 DEF RedriveDelivery
  <2>2. SizeOf(c) \in Nat
    BY <1>1, <2>1, SizesKnown DEF Exists, Terminal
  <2>3. /\ pendingDeliveries' = pendingDeliveries + 1
        /\ pendingBytes' = pendingBytes + SizeOf(c)
        /\ UNCHANGED publishers
    BY <1>9 DEF RedriveDelivery, TakeSlot
  <2>4. pendingDeliveries <= pendingDeliveries' /\ pendingBytes <= pendingBytes'
    BY <1>2, <2>2, <2>3
  <2> QED
    BY <1>1, <2>3, <2>4, StillWaiting
<1>10. CASE Tick
  <2>1. \A p \in Publishers : publishers'[p].pc = publishers[p].pc
    <3>1. \A p \in Publishers : publishers[p] \in Publisher
      BY <1>1 DEF TypeOK
    <3>2. \A p \in Publishers : \A left : [publishers[p] EXCEPT !.left = left].pc = publishers[p].pc
      BY <3>1 DEF Publisher
    <3> QED
      BY <1>10, <3>2 DEF Tick
  <2>2. UNCHANGED <<pendingDeliveries, pendingBytes>>
    BY <1>10 DEF Tick
  <2> QED
    BY <1>1, <1>2, <2>1, <2>2, StillWaiting
<1> QED
  BY <1>4, <1>5, <1>6, <1>7, <1>8, <1>9, <1>10 DEF Next

LEMMA WaitInit == Init => WaitInvariant
BY BytesInit DEF Init, WaitInvariant, NoneAsleep, NoLostWakeup, Settled

\* A publisher sleeps in waitForCapacity only while its event does not fit,
\* provided that no route coalesces: without that, the room a call needs can
\* shrink while it sleeps, and nothing wakes it.
THEOREM WaitersAreWoken == Spec => [](Coalesced = {} => NoLostWakeup)
<1>1. WaitInvariant => (Coalesced = {} => NoLostWakeup)
  BY DEF WaitInvariant, NoneAsleep
<1> QED
  BY <1>1, WaitInit, WaitStep, PTL DEF Spec

\* What the other steps do to the state of a call.
LEMMA NotifyPc ==
    ASSUME TypeOK, NotifyCapacity \/ UNCHANGED publishers \/ Tick, NEW p \in Publishers
    PROVE  publishers'[p].pc = publishers[p].pc \/ publishers'[p].pc = "woken"
<1>1. publishers[p] \in Publisher
  BY DEF TypeOK
<1>2. /\ \A left : [publishers[p] EXCEPT !.left = left].pc = publishers[p].pc
      /\ \A pc : [publishers[p] EXCEPT !.pc = pc].pc = pc
  BY <1>1 DEF Publisher
<1>3. CASE Tick
  BY <1>2, <1>3 DEF Tick
<1> QED
  BY <1>2, <1>3 DEF NotifyCapacity

LEMMA PublishRefuses ==
    ASSUME TypeOK, NEW q \in Publishers, Publish(q), NEW p \in Publishers,
           publishers[p].pc \notin {"rejected", "waiting"}, publishers'[p].pc = "rejected"
    PROVE  ~Fits(p) \/ ~HasCapacity(p)
<1>1. \A outcome : Settled(outcome).pc = outcome
  BY DEF Settled
<1>2. ASSUME NEW state, Move(q, state) PROVE p = q /\ publishers'[p] = state
  BY <1>2 DEF Move, TypeOK
<1>3. ~Accept(q)
  <2> SUFFICES ASSUME Accept(q) PROVE FALSE
    OBVIOUS
  <2>1. publishers'[q].pc = "accepted" /\ (p # q => publishers'[p] = publishers[p])
    BY <1>1 DEF Accept, TypeOK
  <2> QED
    BY <2>1
<1>4. CASE PublishKnown(q)
  <2> DEFINE outcome == IF Known(q) = EventOf[q] THEN "duplicate" ELSE "conflict"
  <2>1. publishers'[p] = Settled(outcome) /\ outcome # "rejected"
    BY <1>2, <1>4 DEF PublishKnown
  <2> QED
    BY <1>1, <2>1
<1>5. CASE PublishWaits(q)
  <2>1. publishers'[p] = Waiting(PublishTimeout)
    BY <1>2, <1>5 DEF PublishWaits
  <2> QED
    BY <2>1 DEF Waiting
<1>6. CASE PublishRejected(q) \/ PublishAccepted(q) \/ PublishTimesOut(q)
  BY <1>2, <1>3, <1>6 DEF PublishRejected, PublishAccepted, PublishTimesOut
<1>7. CASE Wake(q)
  BY <1>2, <1>3, <1>7 DEF Wake
<1>8. CASE PublishAborts(q)
  BY <1>1, <1>2, <1>8 DEF PublishAborts
<1> QED
  BY <1>4, <1>5, <1>6, <1>7, <1>8 DEF Publish

\* publish() is refused only when its event is too large or does not fit, not
\* because a timer ran out that nobody needed.
THEOREM RefusalsJust == ASSUME Coalesced = {} PROVE Spec => RefusedOnlyWhenFull
<1>1. ASSUME WaitInvariant, [Next]_vars
      PROVE  [\A p \in Publishers :
                publishers[p].pc # "rejected" /\ publishers'[p].pc = "rejected"
                => ~Fits(p) \/ ~HasCapacity(p)]_vars
  <2> SUFFICES ASSUME Next, NEW p \in Publishers,
                      publishers[p].pc # "rejected", publishers'[p].pc = "rejected",
                      Fits(p), HasCapacity(p)
               PROVE  FALSE
    BY <1>1
  <2>1. TypeOK /\ NoLostWakeup
    BY <1>1 DEF WaitInvariant, BytesInvariant, OrderInvariant, NoneAsleep
  <2>2. publishers[p].pc # "waiting"
    BY <2>1 DEF NoLostWakeup
  <2>3. PICK q \in Publishers : Publish(q)
    <3>1. NotifyCapacity \/ UNCHANGED publishers \/ Tick => publishers'[p].pc = publishers[p].pc
                                                     \/ publishers'[p].pc = "woken"
      BY <2>1, NotifyPc
    <3> QED
      BY <3>1 DEF Next, Claim, RenewClaim, SaveDelivery, RedriveDelivery
  <2> QED
    BY <2>1, <2>2, <2>3, PublishRefuses
<1> QED
  BY <1>1, WaitInit, WaitStep, PTL DEF Spec, RefusedOnlyWhenFull

===============================================================================
