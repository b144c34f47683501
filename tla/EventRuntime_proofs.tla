-------------------------- MODULE EventRuntime_proofs --------------------------
(***************************************************************************)
(* The runtime is a client of the store: for every value of the constants, *)
(* whatever its workers, heartbeats, operators and shutdown do to the      *)
(* queue is a step of EventStore, so that the theorems about the store     *)
(* hold in the runtime.                                                    *)
(*                                                                         *)
(* The heart of it is the copy of the delivery that a worker took when it  *)
(* claimed and goes on spreading into its saves: as long as the claim      *)
(* holds, the copy agrees with the stored record in everything but what    *)
(* the worker itself saves.                                                *)
(*                                                                         *)
(* The rest is about dead letters: a delivery that is redriven waits       *)
(* behind its barrier until its letter is gone, and ends alone.            *)
(***************************************************************************)
EXTENDS EventRuntime, EventStore_proofs

InLoop == Asleep \union {"loop", "look", "register"}
Busy(w) == worker[w].pc \notin InLoop

\* The places of a worker in processDelivery.
Handlers == {"claimed", "enter", "reconcile", "refresh", "authority",
             "withdraw", "withdrawn", "begin", "invoke", "body", "complete", "finish", "done",
             "cancel", "cancelled", "retry", "requeue", "bury", "letter", "lastLetter",
             "recover", "resume", "confirm"}
Places == InLoop \union Handlers

\* The worker has a fresh copy: it has not saved the delivery yet.
Early == {"claimed", "enter", "reconcile", "refresh", "authority",
          "recover", "resume", "confirm"}

\* c is a copy of delivery d that w took under a claim.
CopyOf(w, d, c) ==
    /\ d \in DeliveryIds /\ Exists(d)
    /\ c.owner = w /\ c.delay = 0 /\ c.lease <= LeaseTime
    /\ c.run <= c.token /\ c.attempt < c.token /\ c.invoked \in Invocations
    /\ c.token <= deliveries[d].token
    /\ ActiveClaim(d, w, c.token) =>
          /\ c.seq = deliveries[d].seq
          /\ c.event = deliveries[d].event
          /\ c.recovered = deliveries[d].recovered
Untouched(w, d, c) ==
    ActiveClaim(d, w, c.token) => deliveries[d].attempt < deliveries[d].token

Jobs == [pc : Places, delivery : DeliveryIds \union {NoDelivery}, copy : Delivery, left : Int]
WorkersTyped == worker \in [Workers -> Jobs]
WorkerFits(w) ==
    /\ Busy(w) => CopyOf(w, worker[w].delivery, worker[w].copy)
    /\ worker[w].pc \in Early => Untouched(w, worker[w].delivery, worker[w].copy)
WorkersFit == \A w \in Workers : WorkerFits(w)
RecordFits(record) ==
    /\ record.attempt <= record.token /\ record.run <= record.token
    /\ record.lease <= LeaseTime
    /\ record.invoked \in Invocations
    /\ record.status \in Active => record.delay = 0
DeliveriesFit == \A d \in DeliveryIds : RecordFits(deliveries[d])
RunsFit == \A r \in DOMAIN runs : r[1] \in DeliveryIds
LettersFit ==
    /\ \A letter \in deadLetters : letter[1] \in DeliveryIds
    /\ DOMAIN redrives \subseteq deadLetters
    /\ DOMAIN redrives # {} => AllowRedrive

Fit == WorkersTyped /\ WorkersFit /\ DeliveriesFit /\ RunsFit /\ LettersFit
RuntimeInvariant == StoreInvariant /\ Fit

-----------------------------------------------------------------------------
(* What a step of the store does to a delivery that somebody has a copy of *)

LEMMA StoreFacts ==
    ASSUME StoreInvariant
    PROVE  TypeOK /\ OrderInvariant /\ \A d \in DeliveryIds : deliveries[d] \in Delivery
BY DEF StoreInvariant, OrderInvariant, TypeOK

LEMMA HeldKept ==
    ASSUME StoreInvariant, Next, NEW d \in DeliveryIds, NEW w \in Workers, NEW t,
           ActiveClaim(d, w, t), ActiveClaim(d, w, t)'
    PROVE  /\ deliveries'[d].seq = deliveries[d].seq
           /\ deliveries'[d].event = deliveries[d].event
           /\ deliveries'[d].recovered = deliveries[d].recovered
<1> USE StoreFacts
<1> DEFINE Same == /\ deliveries'[d].seq = deliveries[d].seq
                   /\ deliveries'[d].event = deliveries[d].event
                   /\ deliveries'[d].recovered = deliveries[d].recovered
<1>1. /\ deliveries[d].status \in Active /\ deliveries[d].token = t
      /\ deliveries'[d].status \in Active /\ deliveries'[d].token = t
      /\ deliveries[d] \in Delivery
  BY DEF ActiveClaim
<1>2. ASSUME NEW p \in Publishers, Publish(p) PROVE Same
  <2>1. CASE Accept(p)
    <3>1. CASE Created(p, d) /\ deliveries'[d] = NewDelivery(p, d[2])
      BY <1>1, <3>1 DEF NewDelivery, Absent, Active
    <3>2. CASE ~Created(p, d)
      BY <1>1, <2>1, <3>2, AcceptKeeps
    <3> QED
      BY <2>1, <3>1, <3>2, AcceptShape
  <2> QED
    BY <1>2, <2>1, PublishStep
<1>3. ASSUME NEW v \in Workers, NEW lease \in 1 .. LeaseTime, Claim(v, lease) PROVE Same
  <2>1. PICK c \in DeliveryIds :
              /\ deliveries'[c].token = deliveries[c].token + 1
              /\ \A e \in DeliveryIds \ {c} : deliveries'[e] = deliveries[e]
    BY <1>3, ClaimStep
  <2>2. deliveries[d].token \in Nat
    BY <1>1 DEF Delivery
  <2> QED
    BY <1>1, <2>1, <2>2
<1>4. ASSUME NEW c \in DeliveryIds, NEW lease \in 1 .. LeaseTime, RenewClaim(c, lease)
      PROVE  Same
  <2>1. deliveries'[d] \in {deliveries[d], [deliveries[d] EXCEPT !.lease = lease]}
    BY <1>4 DEF RenewClaim, TypeOK
  <2> QED
    BY <1>1, <2>1 DEF Delivery
<1>5. ASSUME NEW c \in DeliveryIds, NEW record \in SavableRecords(c), SaveDelivery(c, record)
      PROVE  Same
  <2>1. CASE d # c
    BY <1>5, <2>1, SaveStep
  <2>2. CASE d = c
    <3>1. deliveries'[d] = AtRest(record)
      BY <1>5, <2>2 DEF SaveDelivery, TypeOK
    <3>2. record \in Delivery
      BY <1>5, SavableType
    <3>3. PICK x \in [status : {"queued", "running"} \union Outcomes,
                       delay : 0 .. MaxDelay, attempt : 0 .. MaxAttempts,
                       lease : 0 .. LeaseTime, invoked : Invocations,
                       run : 0 .. deliveries[d].token] :
            record = [deliveries[d] EXCEPT !.status = x.status, !.delay = x.delay,
                                           !.attempt = x.attempt, !.lease = x.lease,
                                           !.run = x.run, !.invoked = x.invoked]
      BY <2>2 DEF SavableRecords
    <3>4. record.recovered = deliveries[d].recovered
      BY <1>1, <3>3 DEF Delivery
    <3>5. AtRest(record).recovered = record.recovered
      BY <3>2 DEF AtRest, Delivery
    <3> QED
      BY <1>5, <2>2, <3>1, <3>4, <3>5, SaveStep DEF KeepsPlace
  <2> QED
    BY <2>1, <2>2
<1>6. ASSUME NEW c \in DeliveryIds, NEW preserveRun \in BOOLEAN, RedriveDelivery(c, preserveRun)
      PROVE  Same
  BY <1>1, <1>6, RedriveStep DEF Active
<1>7. CASE Tick
  <2> DEFINE lease == IF deliveries[d].lease > 0 THEN deliveries[d].lease - 1 ELSE 0
             delay == IF deliveries[d].delay > -PublishTimeout
                      THEN deliveries[d].delay - 1 ELSE deliveries[d].delay
             ticked == [deliveries[d] EXCEPT !.lease = lease, !.delay = delay]
  <2>1. deliveries'[d] = AtRest(ticked)
    BY <1>7 DEF Tick
  <2> HIDE DEF lease, delay
  <2>2. AtRest(ticked).recovered = deliveries[d].recovered
    BY <1>1 DEF AtRest, Delivery
  <2> QED
    BY <1>7, <2>1, <2>2, TickStep DEF KeepsPlace
<1> QED
  BY <1>2, <1>3, <1>4, <1>5, <1>6, <1>7 DEF Next

\* Deliveries stay, and their tokens never go back.
LEMMA TokensAdvance ==
    ASSUME StoreInvariant, Next, NEW d \in DeliveryIds, Exists(d)
    PROVE  Exists(d)' /\ deliveries'[d].token >= deliveries[d].token
<1> USE StoreFacts
<1> DEFINE Goal == Exists(d)' /\ deliveries'[d].token >= deliveries[d].token
<1>0. deliveries[d] \in Delivery /\ deliveries[d].token \in Nat
  BY DEF Delivery
<1>1. ASSUME NEW p \in Publishers, Publish(p) PROVE Goal
  <2>1. CASE Accept(p)
    <3>1. publishers[p].pc # "accepted"
      BY <1>1, <2>1, PublishStep
    <3>2. ~Created(p, d)
      BY <2>1, <3>1, CreatedIsNew DEF StoreInvariant
    <3>3. CASE Replaced(p, d)
      BY <1>0, <3>3 DEF Replaced, Exists, Delivery
    <3> QED
      BY <1>0, <2>1, <3>2, <3>3, AcceptShape DEF Exists
  <2> QED
    BY <1>0, <1>1, <2>1, PublishStep DEF Exists
<1>2. ASSUME NEW v \in Workers, NEW lease \in 1 .. LeaseTime, Claim(v, lease) PROVE Goal
  BY <1>0, <1>2, ClaimStep DEF KeepsPlace, Exists
<1>3. ASSUME NEW c \in DeliveryIds, NEW lease \in 1 .. LeaseTime, RenewClaim(c, lease)
      PROVE  Goal
  BY <1>0, <1>3, RenewStep DEF KeepsPlace
<1>4. ASSUME NEW c \in DeliveryIds, NEW record \in SavableRecords(c), SaveDelivery(c, record)
      PROVE  Goal
  BY <1>0, <1>4, SaveStep DEF KeepsPlace, Exists
<1>5. ASSUME NEW c \in DeliveryIds, NEW preserveRun \in BOOLEAN, RedriveDelivery(c, preserveRun)
      PROVE  Goal
  <2>1. CASE d = c
    <3>1. deliveries'[d] = Redriven(d, preserveRun)
      BY <1>5, <2>1 DEF RedriveDelivery, TypeOK
    <3>2. Redriven(d, preserveRun).token = deliveries[d].token + 1
      BY <1>0 DEF Redriven, Delivery
    <3> QED
      BY <1>0, <1>5, <3>1, <3>2, RedriveStep DEF KeepsPlace
  <2> QED
    BY <1>0, <1>5, <2>1, RedriveStep DEF Exists
<1>6. CASE Tick
  BY <1>0, <1>6, TickStep DEF KeepsPlace
<1> QED
  BY <1>1, <1>2, <1>3, <1>4, <1>5, <1>6 DEF Next

\* A copy stays a copy: a claim that is lost stays lost, and one that holds
\* keeps everybody else away.
LEMMA CopyKept ==
    ASSUME StoreInvariant, Next, NEW w \in Workers, NEW d, NEW c \in Delivery, CopyOf(w, d, c)
    PROVE  /\ CopyOf(w, d, c)'
           /\ ActiveClaim(d, w, c.token)' => ActiveClaim(d, w, c.token)
<1>1. /\ d \in DeliveryIds /\ Exists(d) /\ deliveries[d].token \in Nat
      /\ c.token \in 0 .. deliveries[d].token
  BY StoreFacts DEF CopyOf, Delivery
<1>2. Exists(d)' /\ deliveries'[d].token >= deliveries[d].token
  BY <1>1, TokensAdvance
<1>3. ActiveClaim(d, w, c.token)' => ActiveClaim(d, w, c.token)
  BY <1>1, StoreFacts, ClaimsStayLost
<1>4. ActiveClaim(d, w, c.token)' => /\ c.seq = deliveries'[d].seq
                                     /\ c.event = deliveries'[d].event
                                     /\ c.recovered = deliveries'[d].recovered
  BY <1>1, <1>3, HeldKept DEF CopyOf
<1>5. deliveries'[d].token \in Nat
  <2>1. TypeOK'
    BY StoreFacts, TypeStep
  <2> QED
    BY <1>1, <2>1 DEF TypeOK, Delivery
<1>6. c.token <= deliveries'[d].token
  BY <1>1, <1>2, <1>5
<1> QED
  BY <1>2, <1>3, <1>4, <1>6 DEF CopyOf

LEMMA UntouchedKept ==
    ASSUME StoreInvariant, Next, NEW w \in Workers, NEW d, NEW c \in Delivery, CopyOf(w, d, c),
           Untouched(w, d, c),
           ActiveClaim(d, w, c.token) => deliveries'[d].attempt = deliveries[d].attempt
    PROVE  Untouched(w, d, c)'
<1>1. ActiveClaim(d, w, c.token)' => ActiveClaim(d, w, c.token)
  BY CopyKept
<1>2. ActiveClaim(d, w, c.token)' =>
         deliveries'[d].token = c.token /\ deliveries[d].token = c.token
  BY <1>1 DEF ActiveClaim
<1> QED
  BY <1>1, <1>2 DEF Untouched

-----------------------------------------------------------------------------
(* What a worker saves *)

\* What the saves of the runtime change of the copy they spread.
Spreads(record, c) ==
    /\ record = [c EXCEPT !.status = record.status, !.delay = record.delay,
                          !.attempt = record.attempt, !.run = record.run]
    /\ record.status \in {"queued", "running"} \union Outcomes
    /\ record.delay \in 0 .. MaxDelay
    /\ record.attempt \in {c.attempt, c.attempt + 1}
    /\ record.run \in {c.run, c.token}

LEMMA SpreadForms ==
    ASSUME NEW w \in Workers, worker[w].copy \in Delivery, worker[w].copy.delay = 0,
           NEW status \in {"queued", "running"} \union Outcomes
    PROVE  /\ Spreads([worker[w].copy EXCEPT !.status = status], worker[w].copy)
           /\ Spreads(Ended(w, status), worker[w].copy)
           /\ Spreads([Ended(w, status) EXCEPT !.delay = IF status = "queued" THEN RetryDelay ELSE @],
                      worker[w].copy)
<1> DEFINE c == worker[w].copy
           ended == [c EXCEPT !.status = status, !.attempt = c.attempt + 1, !.run = c.token]
           y == IF status = "queued" THEN RetryDelay ELSE 0
<1>1. c \in Delivery /\ c.delay = 0 /\ 0 \in 0 .. MaxDelay /\ y \in 0 .. MaxDelay
  BY ConstantsAssumption, RuntimeAssumption
<1>2. Ended(w, status) = ended
  BY DEF Ended, Attempt
<1>3. [Ended(w, status) EXCEPT !.delay = IF status = "queued" THEN RetryDelay ELSE @]
         = [Ended(w, status) EXCEPT !.delay = IF status = "queued" THEN RetryDelay
                                              ELSE Ended(w, status).delay]
  BY Zenon
<1> HIDE DEF c, y
<1>4. ended.delay = 0
  BY <1>1 DEF Delivery
<1>5. [Ended(w, status) EXCEPT !.delay = IF status = "queued" THEN RetryDelay ELSE @]
         = [ended EXCEPT !.delay = y]
  BY <1>2, <1>3, <1>4 DEF y
<1>6. Spreads([c EXCEPT !.status = status], c)
  BY <1>1 DEF Spreads, Delivery
<1>7. Spreads(ended, c)
  BY <1>1 DEF Spreads, Delivery
<1>8. Spreads([ended EXCEPT !.delay = y], c)
  BY <1>1 DEF Spreads, Delivery
<1> QED
  BY <1>2, <1>5, <1>6, <1>7, <1>8 DEF c

LEMMA SameFields ==
    ASSUME NEW a \in Delivery, NEW b \in Delivery,
           a.status = b.status, a.seq = b.seq, a.event = b.event, a.delay = b.delay,
           a.attempt = b.attempt, a.token = b.token, a.owner = b.owner,
           a.lease = b.lease, a.run = b.run, a.invoked = b.invoked,
           a.recovered = b.recovered
    PROVE  a = b
BY DEF Delivery

LEMMA SpreadFields ==
    ASSUME StoreInvariant, NEW w \in Workers, NEW d, NEW c \in Delivery, CopyOf(w, d, c),
           ActiveClaim(d, w, c.token), NEW record, Spreads(record, c)
    PROVE  /\ record \in SavableRecords(d)
           /\ record.owner = w /\ record.token = c.token
           /\ RecordFits(AtRest(record))
<1> DEFINE s == record.status y == record.delay a == record.attempt r == record.run
<1>1. /\ record = [c EXCEPT !.status = s, !.delay = y, !.attempt = a, !.run = r]
      /\ s \in {"queued", "running"} \union Outcomes /\ y \in 0 .. MaxDelay
      /\ a \in {c.attempt, c.attempt + 1} /\ r \in {c.run, c.token}
  BY Zenon DEF Spreads
<1> HIDE DEF s, y, a, r
<1>2. /\ d \in DeliveryIds /\ deliveries[d] \in Delivery
      /\ deliveries[d].owner = w /\ deliveries[d].token = c.token
      /\ c.owner = w /\ c.seq = deliveries[d].seq /\ c.event = deliveries[d].event
      /\ c.recovered = deliveries[d].recovered
      /\ c.lease <= LeaseTime /\ c.run <= c.token /\ c.attempt < c.token
      /\ c.invoked \in Invocations
  BY StoreFacts DEF CopyOf, ActiveClaim
<1>3. /\ c.token \in 0 .. MaxFencingToken /\ c.attempt \in Nat /\ c.lease \in Nat
      /\ c.run \in 0 .. MaxFencingToken /\ MaxFencingToken \in Nat /\ MaxAttempts \in Nat
      /\ MaxFencingToken <= MaxAttempts /\ LeaseTime \in Nat
  BY ConstantsAssumption, RuntimeAssumption DEF Delivery
<1>4. /\ a \in 0 .. MaxAttempts /\ a <= c.token
      /\ r \in 0 .. c.token /\ c.lease \in 0 .. LeaseTime
  BY <1>1, <1>2, <1>3
<1>5. record = [deliveries[d] EXCEPT !.status = s, !.delay = y, !.attempt = a,
                                     !.lease = c.lease, !.run = r, !.invoked = c.invoked]
  <2> DEFINE saved == [deliveries[d] EXCEPT !.status = s, !.delay = y, !.attempt = a,
                                !.lease = c.lease, !.run = r, !.invoked = c.invoked]
  <2>1. s \in Statuses /\ y \in Int /\ a \in Nat /\ r \in 0 .. MaxFencingToken
        /\ c.lease \in Nat /\ c.invoked \in BOOLEAN
    BY <1>1, <1>2, <1>3, <1>4, StatusTypes, ConstantsAssumption DEF Delivery
  <2>2. record \in Delivery /\ saved \in Delivery
    BY <1>1, <1>2, <2>1 DEF Delivery
  <2>3. /\ record.status = saved.status /\ record.seq = saved.seq
        /\ record.event = saved.event /\ record.delay = saved.delay
        /\ record.attempt = saved.attempt /\ record.token = saved.token
        /\ record.owner = saved.owner /\ record.lease = saved.lease
        /\ record.run = saved.run /\ record.invoked = saved.invoked
        /\ record.recovered = saved.recovered
    BY <1>1, <1>2, <2>1 DEF Delivery
  <2> HIDE DEF saved
  <2>4. record = saved
    BY <2>2, <2>3, SameFields
  <2> QED
    BY <2>4 DEF saved
<1>6. record \in SavableRecords(d)
  <2> DEFINE x == [status |-> s, delay |-> y, attempt |-> a, lease |-> c.lease,
                   invoked |-> c.invoked, run |-> r]
  <2>1. x \in [status : {"queued", "running"} \union Outcomes,
               delay : 0 .. MaxDelay, attempt : 0 .. MaxAttempts,
               lease : 0 .. LeaseTime, invoked : Invocations,
               run : 0 .. deliveries[d].token]
    BY <1>1, <1>2, <1>4
  <2>2. record = [deliveries[d] EXCEPT !.status = x.status, !.delay = x.delay,
                                       !.attempt = x.attempt, !.lease = x.lease,
                                       !.run = x.run, !.invoked = x.invoked]
    BY <1>5
  <2> HIDE DEF x
  <2> QED
    BY <2>1, <2>2 DEF SavableRecords
<1>7. /\ record.owner = w /\ record.token = c.token /\ record.attempt = a /\ record.run = r
      /\ record.lease = c.lease /\ record.invoked = c.invoked
      /\ record \in Delivery
  BY <1>1, <1>2, <1>6, StoreFacts, SavableType DEF Delivery
<1>8. RecordFits(AtRest(record))
  <2>1. /\ AtRest(record).attempt = a /\ AtRest(record).token = c.token
        /\ AtRest(record).run = r /\ AtRest(record).invoked = c.invoked
        /\ AtRest(record).lease \in {c.lease, 0}
        /\ AtRest(record).status = record.status
        /\ record.status # "queued" => AtRest(record).delay = 0
    BY <1>7 DEF AtRest, Delivery
  <2>2. 0 <= LeaseTime
    BY <1>3
  <2> QED
    BY <1>2, <1>4, <2>1, <2>2 DEF RecordFits, Active
<1> QED
  BY <1>6, <1>7, <1>8

-----------------------------------------------------------------------------
(* Each step the runtime makes of the store keeps the records fitting, and  *)
(* only a save or a redrive touches the attempts of a delivery.             *)

\* Nobody's attempts change.
AttemptsKept == \A d \in DeliveryIds : Exists(d) => deliveries'[d].attempt = deliveries[d].attempt

LEMMA FitStill ==
    ASSUME DeliveriesFit, UNCHANGED deliveries
    PROVE  DeliveriesFit' /\ AttemptsKept
BY DEF DeliveriesFit, RecordFits, AttemptsKept

LEMMA FitPublish ==
    ASSUME StoreInvariant, DeliveriesFit, NEW p \in Publishers, Publish(p)
    PROVE  DeliveriesFit' /\ AttemptsKept
<1>1. CASE UNCHANGED deliveries
  BY <1>1, FitStill
<1>2. CASE Accept(p) /\ publishers[p].pc # "accepted"
  <2> SUFFICES ASSUME NEW d \in DeliveryIds
               PROVE  /\ RecordFits(deliveries'[d])
                      /\ Exists(d) => deliveries'[d].attempt = deliveries[d].attempt
    BY DEF DeliveriesFit, RecordFits, AttemptsKept
  <2>1. deliveries[d] \in Delivery /\ RecordFits(deliveries[d])
    BY StoreFacts DEF DeliveriesFit
  <2>2. CASE Created(p, d) /\ deliveries'[d] = NewDelivery(p, d[2])
    <3>1. ~Exists(d)
      BY <1>2, <2>2, StoreFacts, CreatedIsNew DEF StoreInvariant
    <3>2. /\ deliveries'[d].attempt = 0 /\ deliveries'[d].token = 0
          /\ deliveries'[d].run = 0 /\ deliveries'[d].lease = 0
          /\ deliveries'[d].invoked = FALSE /\ deliveries'[d].status = "queued"
      BY <2>2 DEF NewDelivery, Absent
    <3>3. 0 <= LeaseTime
      BY ConstantsAssumption
    <3>4. deliveries'[d].invoked \in Invocations
      BY <3>2, RuntimeAssumption, Zenon
    <3> QED
      BY <3>1, <3>2, <3>3, <3>4 DEF RecordFits, Active
  <2>3. CASE Replaced(p, d)
    BY <2>1, <2>3 DEF Replaced, RecordFits, Active, Delivery
  <2>4. CASE deliveries'[d] = deliveries[d]
    BY <2>1, <2>4
  <2> QED
    BY <1>2, <2>2, <2>3, <2>4, StoreFacts, AcceptShape
<1> QED
  BY <1>1, <1>2, PublishStep

LEMMA FitClaim ==
    ASSUME StoreInvariant, DeliveriesFit, NEW w \in Workers, Claim(w, LeaseTime)
    PROVE  DeliveriesFit' /\ AttemptsKept
<1>1. LeaseTime \in 1 .. LeaseTime
  BY RuntimeAssumption, ConstantsAssumption
<1>2. PICK d \in DeliveryIds : deliveries' = [deliveries EXCEPT ![d] = Claimed(d, w, LeaseTime)]
  BY <1>1, StoreFacts, ClaimShape
<1>3. deliveries[d] \in Delivery /\ RecordFits(deliveries[d])
  BY StoreFacts DEF DeliveriesFit
<1>4. /\ Claimed(d, w, LeaseTime).attempt = deliveries[d].attempt
      /\ Claimed(d, w, LeaseTime).token = deliveries[d].token + 1
      /\ Claimed(d, w, LeaseTime).run = deliveries[d].run
      /\ Claimed(d, w, LeaseTime).lease = LeaseTime
      /\ Claimed(d, w, LeaseTime).invoked = deliveries[d].invoked
      /\ Claimed(d, w, LeaseTime).delay = 0
  BY <1>3 DEF Claimed, Delivery
<1>5. RecordFits(Claimed(d, w, LeaseTime))
  BY <1>1, <1>3, <1>4 DEF RecordFits, Delivery
<1> QED
  BY <1>2, <1>4, <1>5, StoreFacts DEF DeliveriesFit, RecordFits, AttemptsKept, TypeOK

LEMMA FitRenew ==
    ASSUME StoreInvariant, DeliveriesFit, NEW d \in DeliveryIds, RenewClaim(d, LeaseTime)
    PROVE  DeliveriesFit' /\ AttemptsKept
<1>1. deliveries' = [deliveries EXCEPT ![d] = [deliveries[d] EXCEPT !.lease = LeaseTime]]
  BY DEF RenewClaim
<1>2. deliveries[d] \in Delivery /\ RecordFits(deliveries[d]) /\ LeaseTime \in Nat
  BY StoreFacts, ConstantsAssumption DEF DeliveriesFit
<1>3. /\ RecordFits([deliveries[d] EXCEPT !.lease = LeaseTime])
      /\ [deliveries[d] EXCEPT !.lease = LeaseTime].attempt = deliveries[d].attempt
  BY <1>2 DEF RecordFits, Delivery
<1> QED
  BY <1>1, <1>3, StoreFacts DEF DeliveriesFit, RecordFits, AttemptsKept, TypeOK

LEMMA FitSave ==
    ASSUME StoreInvariant, DeliveriesFit, NEW d \in DeliveryIds, NEW record,
           SaveDelivery(d, record), RecordFits(AtRest(record))
    PROVE  /\ DeliveriesFit'
           /\ \A e \in DeliveryIds \ {d} : deliveries'[e] = deliveries[e]
<1>1. deliveries' = [deliveries EXCEPT ![d] = AtRest(record)]
  BY DEF SaveDelivery
<1> QED
  BY <1>1, StoreFacts DEF DeliveriesFit, RecordFits, TypeOK

LEMMA FitRedrive ==
    ASSUME StoreInvariant, DeliveriesFit, NEW d \in DeliveryIds, RedriveDelivery(d, FALSE)
    PROVE  /\ DeliveriesFit'
           /\ \A e \in DeliveryIds \ {d} : deliveries'[e] = deliveries[e]
<1> DEFINE requeued == Redriven(d, FALSE)
<1>1. deliveries' = [deliveries EXCEPT ![d] = requeued]
  BY DEF RedriveDelivery
<1>2. deliveries[d] \in Delivery /\ deliveries[d].token \in Nat /\ 0 <= LeaseTime
  BY StoreFacts, ConstantsAssumption DEF Delivery
<1>3. /\ requeued.attempt = 0 /\ requeued.run = 0
      /\ requeued.token = deliveries[d].token + 1
      /\ requeued.lease = 0 /\ requeued.status = "queued"
  BY <1>2 DEF Redriven, Delivery
<1>4. requeued.invoked \in Invocations
  <2>1. requeued.invoked = FALSE
    BY <1>2 DEF Redriven, Delivery
  <2> QED
    BY <2>1, RuntimeAssumption, Zenon
<1> HIDE DEF requeued
<1>5. RecordFits(requeued)
  BY <1>2, <1>3, <1>4 DEF RecordFits, Active
<1> QED
  BY <1>1, <1>5, StoreFacts DEF DeliveriesFit, RecordFits, TypeOK

LEMMA FitTick ==
    ASSUME StoreInvariant, DeliveriesFit, Tick
    PROVE  DeliveriesFit' /\ AttemptsKept
<1> SUFFICES ASSUME NEW d \in DeliveryIds
             PROVE  /\ RecordFits(deliveries'[d])
                    /\ deliveries'[d].attempt = deliveries[d].attempt
  BY DEF DeliveriesFit, RecordFits, AttemptsKept
<1> DEFINE lease == IF deliveries[d].lease > 0 THEN deliveries[d].lease - 1 ELSE 0
           delay == IF deliveries[d].delay > -PublishTimeout
                    THEN deliveries[d].delay - 1 ELSE deliveries[d].delay
           ticked == [deliveries[d] EXCEPT !.lease = lease, !.delay = delay]
<1>1. deliveries[d] \in Delivery /\ RecordFits(deliveries[d]) /\ LeaseTime \in Nat
  BY StoreFacts, ConstantsAssumption DEF DeliveriesFit
<1>2. deliveries'[d] = AtRest(ticked)
  BY DEF Tick
<1>3. lease \in Nat /\ lease <= LeaseTime
  BY <1>1 DEF RecordFits, Delivery
<1> HIDE DEF lease, delay
<1>4. /\ AtRest(ticked).status = deliveries[d].status
      /\ AtRest(ticked).attempt = deliveries[d].attempt
      /\ AtRest(ticked).token = deliveries[d].token
      /\ AtRest(ticked).run = deliveries[d].run
      /\ AtRest(ticked).invoked = deliveries[d].invoked
      /\ AtRest(ticked).lease \in {lease, 0}
      /\ deliveries[d].status # "queued" => AtRest(ticked).delay = 0
  BY <1>1 DEF AtRest, Delivery
<1> QED
  BY <1>1, <1>2, <1>3, <1>4 DEF RecordFits, Active

-----------------------------------------------------------------------------
(* What a turn of a worker does to the copies *)

\* A worker goes on with its copy, or back to its loop.
MovesOn(w) ==
    \/ worker'[w].pc \in InLoop
    \/ /\ Busy(w)
       /\ worker'[w].delivery = worker[w].delivery
       /\ worker'[w].copy = worker[w].copy
       /\ worker'[w].pc \in Early => worker[w].pc \in Early

\* The step is one the store knows, and leaves workers and records fitting.
Sound ==
    /\ UNCHANGED vars \/ Next
    /\ WorkersTyped' /\ WorkersFit' /\ DeliveriesFit'

LEMMA EarlyIsBusy == Early \intersect InLoop = {}
BY DEF Early, InLoop, Asleep

LEMMA WorkerType ==
    ASSUME WorkersTyped, NEW w \in Workers
    PROVE  /\ worker[w] \in Jobs /\ worker[w].pc \in Places
           /\ worker[w].delivery \in DeliveryIds \union {NoDelivery}
           /\ worker[w].copy \in Delivery /\ worker[w].left \in Int
BY DEF WorkersTyped, Jobs

LEMMA StillMoves ==
    ASSUME NEW w \in Workers, worker'[w] = worker[w]
    PROVE  MovesOn(w)
BY DEF MovesOn, Busy

LEMMA WorkerStill ==
    ASSUME WorkersTyped, WorkersFit, UNCHANGED vars, NEW v \in Workers, MovesOn(v)
    PROVE  WorkerFits(v)'
<1> USE DEF vars
<1>1. CASE worker'[v].pc \in InLoop
  BY <1>1, EarlyIsBusy DEF Busy, WorkerFits
<1>2. CASE worker'[v].pc \notin InLoop
  <2>1. PICK d, c : d = worker[v].delivery /\ c = worker[v].copy
    OBVIOUS
  <2>2. /\ d = worker'[v].delivery /\ c = worker'[v].copy
        /\ CopyOf(v, d, c)
        /\ worker'[v].pc \in Early => Untouched(v, d, c)
    BY <1>2, <2>1 DEF MovesOn, WorkersFit, WorkerFits
  <2>3. CopyOf(v, d, c)' /\ (worker'[v].pc \in Early => Untouched(v, d, c)')
    BY <2>2 DEF CopyOf, Untouched, Exists, ActiveClaim
  <2> QED
    BY <2>2, <2>3, EarlyIsBusy DEF WorkerFits
<1> QED
  BY <1>1, <1>2

LEMMA WorkerFollows ==
    ASSUME StoreInvariant, WorkersTyped, WorkersFit, Next, NEW v \in Workers, MovesOn(v),
           worker'[v].pc \in Early /\ Holds(v) =>
              deliveries'[worker[v].delivery].attempt = deliveries[worker[v].delivery].attempt
    PROVE  WorkerFits(v)'
<1>1. CASE worker'[v].pc \in InLoop
  BY <1>1, EarlyIsBusy DEF Busy, WorkerFits
<1>2. CASE worker'[v].pc \notin InLoop
  <2>1. PICK d, c : d = worker[v].delivery /\ c = worker[v].copy
    OBVIOUS
  <2>2. /\ d = worker'[v].delivery /\ c = worker'[v].copy
        /\ CopyOf(v, d, c) /\ c \in Delivery
        /\ worker'[v].pc \in Early => Untouched(v, d, c)
    BY <1>2, <2>1, WorkerType DEF MovesOn, WorkersFit, WorkerFits
  <2>3. worker'[v].pc \in Early /\ ActiveClaim(d, v, c.token)
           => deliveries'[d].attempt = deliveries[d].attempt
    BY <2>1 DEF Holds
  <2>4. CopyOf(v, d, c)' /\ (worker'[v].pc \in Early => Untouched(v, d, c)')
    BY <2>2, <2>3, CopyKept, UntouchedKept
  <2> QED
    BY <2>2, <2>4, EarlyIsBusy DEF WorkerFits
<1> QED
  BY <1>1, <1>2

LEMMA RestingType == Resting \in Jobs
<1>1. \A d \in DeliveryIds \union {NoDelivery}, c \in Delivery :
         [pc |-> "loop", delivery |-> d, copy |-> c, left |-> 0] \in Jobs
  BY DEF Jobs, Places, InLoop
<1>2. NoDelivery \in DeliveryIds \union {NoDelivery}
  OBVIOUS
<1> QED
  BY <1>1, <1>2, AbsentType, Zenon DEF Resting

LEMMA GotoMoves ==
    ASSUME WorkersTyped, NEW w \in Workers, NEW pc \in Places, Goto(w, pc),
           pc \in InLoop \/ (Busy(w) /\ (pc \in Early => worker[w].pc \in Early))
    PROVE  WorkersTyped' /\ worker'[w].pc = pc /\ \A v \in Workers : MovesOn(v)
<1>1. \A v \in Workers : worker[v] \in Jobs
  BY DEF WorkersTyped
<1>2. /\ worker'[w] = [worker[w] EXCEPT !.pc = pc]
      /\ \A v \in Workers \ {w} : worker'[v] = worker[v]
  BY DEF Goto, WorkersTyped
<1>3. /\ [worker[w] EXCEPT !.pc = pc] \in Jobs
      /\ worker'[w].pc = pc /\ worker'[w].delivery = worker[w].delivery
      /\ worker'[w].copy = worker[w].copy
  BY <1>1, <1>2 DEF Jobs
<1>4. WorkersTyped'
  BY <1>1, <1>2, <1>3 DEF Goto, WorkersTyped
<1> QED
  BY <1>2, <1>3, <1>4, StillMoves DEF MovesOn

LEMMA RestMoves ==
    ASSUME WorkersTyped, NEW w \in Workers, Rest(w)
    PROVE  WorkersTyped' /\ worker'[w].pc = "loop" /\ \A v \in Workers : MovesOn(v)
<1>1. /\ worker'[w] = Resting
      /\ \A v \in Workers \ {w} : worker'[v] = worker[v]
  BY DEF Rest, WorkersTyped
<1>2. WorkersTyped'
  BY <1>1, RestingType DEF Rest, WorkersTyped
<1> QED
  BY <1>1, <1>2, StillMoves DEF MovesOn, Resting, InLoop

LEMMA GotoSound ==
    ASSUME RuntimeInvariant, NEW w \in Workers, NEW pc \in Places, Goto(w, pc), KeepStore,
           pc \in InLoop \/ (Busy(w) /\ (pc \in Early => worker[w].pc \in Early))
    PROVE  Sound
BY GotoMoves, WorkerStill, FitStill DEF RuntimeInvariant, Fit, KeepStore, vars, Sound, WorkersFit

LEMMA RestSound ==
    ASSUME RuntimeInvariant, NEW w \in Workers, Rest(w), KeepStore
    PROVE  Sound
BY RestMoves, WorkerStill, FitStill DEF RuntimeInvariant, Fit, KeepStore, vars, Sound, WorkersFit

\* Nobody else's claim is touched by a save under a claim that holds.
LEMMA SaveSound ==
    ASSUME RuntimeInvariant, NEW w \in Workers, Busy(w), Holds(w),
           NEW record, Spreads(record, worker[w].copy), Save(w, record),
           WorkersTyped', \A v \in Workers : MovesOn(v), worker'[w].pc \notin Early
    PROVE  Sound
<1>1. PICK d, c : d = worker[w].delivery /\ c = worker[w].copy
  OBVIOUS
<1>2. CopyOf(w, d, c) /\ c \in Delivery /\ ActiveClaim(d, w, c.token) /\ d \in DeliveryIds
  BY <1>1, WorkerType DEF RuntimeInvariant, Fit, WorkersFit, WorkerFits, Holds, CopyOf
<1>3. record \in SavableRecords(d) /\ RecordFits(AtRest(record)) /\ SaveDelivery(d, record)
  BY <1>1, <1>2, SpreadFields DEF RuntimeInvariant, Save
<1>4. Next
  BY <1>2, <1>3 DEF Next
<1>5. DeliveriesFit' /\ \A e \in DeliveryIds \ {d} : deliveries'[e] = deliveries[e]
  BY <1>2, <1>3, FitSave DEF RuntimeInvariant, Fit
<1>6. ASSUME NEW v \in Workers, worker'[v].pc \in Early, Holds(v)
      PROVE  deliveries'[worker[v].delivery].attempt = deliveries[worker[v].delivery].attempt
  <2>1. v # w /\ Busy(v)
    BY <1>6, EarlyIsBusy DEF MovesOn
  <2>2. worker[v].delivery \in DeliveryIds /\ worker[v].delivery # d
    BY <1>2, <1>6, <2>1 DEF RuntimeInvariant, Fit, WorkersFit, WorkerFits, CopyOf, Holds, ActiveClaim
  <2> QED
    BY <1>5, <2>2
<1>7. WorkersFit'
  BY <1>4, <1>6, WorkerFollows DEF RuntimeInvariant, Fit, WorkersFit
<1> QED
  BY <1>4, <1>5, <1>7 DEF Sound

-----------------------------------------------------------------------------
(* The handlers of processDelivery *)

LEMMA BusyCopy ==
    ASSUME RuntimeInvariant, NEW w \in Workers, Busy(w)
    PROVE  /\ worker[w].copy \in Delivery /\ worker[w].copy.delay = 0
           /\ worker[w].delivery \in DeliveryIds
BY WorkerType DEF RuntimeInvariant, Fit, WorkersFit, WorkerFits, CopyOf

LEMMA SavedStatuses ==
    {"queued", "running", "succeeded", "cancelled", "dead_lettered"}
        \subseteq {"queued", "running"} \union Outcomes
BY RuntimeAssumption

\* The place of the worker is known to be one of processDelivery.
LEMMA BusyAt ==
    ASSUME NEW w \in Workers, NEW pc \in Handlers, At(w, pc)
    PROVE  Busy(w)
BY DEF At, Busy, InLoop, Asleep, Handlers

LEMMA OuterCatchSound ==
    ASSUME RuntimeInvariant, NEW w \in Workers, Busy(w), OuterCatch(w)
    PROVE  Sound
<1> DEFINE record == [worker[w].copy EXCEPT !.status = "dead_lettered"]
<1>1. CASE /\ Holds(w) /\ Save(w, record) /\ Goto(w, "lastLetter")
  <2>1. Spreads(record, worker[w].copy)
    BY BusyCopy, SpreadForms, SavedStatuses
  <2>2. /\ WorkersTyped' /\ worker'[w].pc = "lastLetter"
        /\ \A v \in Workers : MovesOn(v)
    BY <1>1, GotoMoves DEF RuntimeInvariant, Fit, Early, Places, Handlers
  <2>3. worker'[w].pc \notin Early
    BY <2>2 DEF Early
  <2> HIDE DEF record
  <2> QED
    BY <1>1, <2>1, <2>2, <2>3, SaveSound
<1>2. CASE KeepStore /\ Rest(w)
  BY <1>2, RestSound
<1> QED
  BY <1>1, <1>2 DEF OuterCatch

LEMMA InnerCatchSound ==
    ASSUME RuntimeInvariant, NEW w \in Workers, Busy(w), InnerCatch(w)
    PROVE  Sound
<1>1. CASE Rest(w) /\ KeepStore
  BY <1>1, RestSound
<1>2. ASSUME NEW pc \in {"cancel", "retry", "bury"}, Goto(w, pc), KeepStore PROVE Sound
  BY <1>2, GotoSound DEF Early, Places, Handlers
<1>3. CASE CleanUp(w)
  BY <1>3, OuterCatchSound DEF CleanUp
<1> QED
  BY <1>1, <1>2, <1>3 DEF InnerCatch

\* A save that ends the turn of the worker on a delivery, or moves it on.
LEMMA EndSound ==
    ASSUME RuntimeInvariant, NEW w \in Workers, Busy(w), Holds(w),
           NEW status \in {"running", "succeeded", "cancelled", "dead_lettered"},
           \/ Save(w, Ended(w, status))
           \/ Save(w, [worker[w].copy EXCEPT !.status = status])
           \/ Save(w, [Ended(w, status) EXCEPT
                         !.delay = IF status = "queued" THEN RetryDelay ELSE @]),
           Rest(w) \/ \E pc \in {"begin", "done", "letter"} : Goto(w, pc)
    PROVE  Sound
<1>1. /\ Spreads([worker[w].copy EXCEPT !.status = status], worker[w].copy)
      /\ Spreads(Ended(w, status), worker[w].copy)
      /\ Spreads([Ended(w, status) EXCEPT
                    !.delay = IF status = "queued" THEN RetryDelay ELSE @], worker[w].copy)
  BY BusyCopy, SpreadForms, SavedStatuses
<1>2. /\ WorkersTyped' /\ worker'[w].pc \in {"loop", "begin", "done", "letter"}
      /\ \A v \in Workers : MovesOn(v)
  BY RestMoves, GotoMoves DEF RuntimeInvariant, Fit, Early, Places, Handlers
<1>3. worker'[w].pc \notin Early
  BY <1>2 DEF Early
<1> QED
  BY <1>1, <1>2, <1>3, SaveSound

-----------------------------------------------------------------------------
(* The loop of a worker *)

\* A finite set of integers has a least element.
LEMMA FiniteHasMinimum ==
    ASSUME NEW S \in SUBSET Int, S # {}, IsFiniteSet(S)
    PROVE  Min(S) \in S
<1> DEFINE R == StrictSubsetOrdering(S)
           T == {{y \in S : y <= x} : x \in S}
<1>1. IsWellFoundedOn(R, SUBSET S)
  <2>1. FiniteSubsetsOf(S) = SUBSET S
    BY FS_FiniteSubsetsOfFinite, Zenon
  <2>2. IsWellFoundedOn(R, FiniteSubsetsOf(S))
    BY FS_StrictSubsetOrderingWellFounded, Zenon
  <2> QED
    BY <2>1, <2>2, Zenon
<1>2. T \subseteq SUBSET S /\ T # {}
  OBVIOUS
<1>3. PICK t \in T : \A u \in T : ~(<<u, t>> \in R)
  BY <1>1, <1>2, WFMin
<1>4. PICK x \in S : t = {y \in S : y <= x}
  BY <1>3
<1>5. ASSUME NEW y \in S, ~(x <= y) PROVE FALSE
  <2>1. {z \in S : z <= y} \in T
    OBVIOUS
  <2>2. /\ {z \in S : z <= y} \subseteq t /\ x \in t /\ x \notin {z \in S : z <= y}
    <3>1. x \in Int /\ y \in Int /\ x <= x /\ y < x
      BY <1>5
    <3>2. \A z \in S : z <= y => z <= x
      BY <3>1
    <3> QED
      BY <1>4, <1>5, <3>1, <3>2
  <2> QED
    BY <1>2, <1>3, <2>1, <2>2 DEF StrictSubsetOrdering
<1>6. \E z \in S : \A y \in S : z <= y
  BY <1>5
<1> QED
  BY <1>6 DEF Min

LEMMA DueType == ASSUME StoreInvariant, Due # {} PROVE Min(Due) \in Int
<1> DEFINE live == {e \in DeliveryIds : IsLive(e)}
           f == [d \in live |-> IF deliveries[d].status = "queued" THEN deliveries[d].delay
                                ELSE deliveries[d].lease]
<1>1. IsFiniteSet(DeliveryIds)
  BY ConstantsAssumption, FS_Product DEF DeliveryIds
<1>2. IsFiniteSet(live)
  BY <1>1, FS_Subset
<1>3. Due = {f[d] : d \in live}
  BY DEF Due
<1> DEFINE values == {f[d] : d \in live}
<1>4. IsFiniteSet(values)
  <2>1. f \in Surjection(live, values)
    BY DEF Surjection
  <2> HIDE DEF f, live, values
  <2> QED
    BY <1>2, <2>1, FS_Surjection
<1>5. Due \subseteq Int
  BY StoreFacts DEF Due, Delivery
<1> QED
  BY <1>3, <1>4, <1>5, FiniteHasMinimum

Sleeps(w, left) == worker' = [worker EXCEPT ![w].pc = "sleeping", ![w].left = left]

LEMMA SleepMoves ==
    ASSUME WorkersTyped, NEW w \in Workers, NEW left \in Int, Sleeps(w, left)
    PROVE  WorkersTyped' /\ \A v \in Workers : MovesOn(v)
<1>1. \A v \in Workers : worker[v] \in Jobs
  BY DEF WorkersTyped
<1>2. /\ worker'[w] = [worker[w] EXCEPT !.pc = "sleeping", !.left = left]
      /\ \A v \in Workers \ {w} : worker'[v] = worker[v]
  BY <1>1 DEF Sleeps, WorkersTyped, Jobs
<1>3. worker'[w] \in Jobs /\ worker'[w].pc = "sleeping"
  <2>1. \A job \in Jobs : /\ [job EXCEPT !.pc = "sleeping", !.left = left] \in Jobs
                          /\ [job EXCEPT !.pc = "sleeping", !.left = left].pc = "sleeping"
    BY DEF Jobs, Places, InLoop, Asleep
  <2> QED
    BY <1>1, <1>2, <2>1
<1>4. WorkersTyped'
  BY <1>1, <1>2, <1>3 DEF Sleeps, WorkersTyped
<1> QED
  BY <1>2, <1>3, <1>4, StillMoves DEF MovesOn, InLoop, Asleep

LEMMA SleepSound ==
    ASSUME RuntimeInvariant, NEW w \in Workers, NEW left \in Int, KeepStore, Sleeps(w, left)
    PROVE  Sound
BY SleepMoves, WorkerStill, FitStill DEF RuntimeInvariant, Fit, KeepStore, vars, Sound, WorkersFit

LEMMA ClaimedFields ==
    ASSUME StoreInvariant, NEW d \in DeliveryIds, RecordFits(deliveries[d]),
           NEW w \in Workers, Claimable(d), CanAdvance(d),
           deliveries' = [deliveries EXCEPT ![d] = Claimed(d, w, LeaseTime)]
    PROVE  LET c == deliveries'[d] IN
           /\ c \in Delivery /\ c.status = "claimed" /\ c.owner = w /\ c.delay = 0
           /\ c.lease = LeaseTime /\ c.run < c.token /\ c.attempt < c.token
           /\ c.invoked \in Invocations
<1>1. deliveries[d] \in Delivery /\ LeaseTime \in 1 .. LeaseTime
  BY StoreFacts, RuntimeAssumption, ConstantsAssumption
<1>2. deliveries'[d] = Claimed(d, w, LeaseTime)
  BY StoreFacts DEF TypeOK
<1>3. Claimed(d, w, LeaseTime) \in Delivery
  BY <1>1, StoreFacts, ClaimedType
<1>4. /\ Claimed(d, w, LeaseTime).status = "claimed" /\ Claimed(d, w, LeaseTime).owner = w
      /\ Claimed(d, w, LeaseTime).delay = 0 /\ Claimed(d, w, LeaseTime).lease = LeaseTime
      /\ Claimed(d, w, LeaseTime).token = deliveries[d].token + 1
      /\ Claimed(d, w, LeaseTime).run = deliveries[d].run
      /\ Claimed(d, w, LeaseTime).attempt = deliveries[d].attempt
      /\ Claimed(d, w, LeaseTime).invoked = deliveries[d].invoked
  BY <1>1 DEF Claimed, Delivery
<1>5. /\ deliveries[d].run <= deliveries[d].token
      /\ deliveries[d].attempt <= deliveries[d].token
      /\ deliveries[d].token \in Nat /\ deliveries[d].run \in Nat
      /\ deliveries[d].attempt \in Nat /\ deliveries[d].invoked \in Invocations
  BY <1>1 DEF RecordFits, Delivery
<1> QED
  BY <1>2, <1>3, <1>4, <1>5

\* A step of the store after which every worker goes on with its copy.
LEMMA StepSound ==
    ASSUME RuntimeInvariant, Next, WorkersTyped', DeliveriesFit', \A v \in Workers : MovesOn(v),
           \A v \in Workers : Holds(v) /\ Busy(v) =>
              deliveries'[worker[v].delivery].attempt = deliveries[worker[v].delivery].attempt
    PROVE  Sound
<1>1. ASSUME NEW v \in Workers, worker'[v].pc \in Early, Holds(v)
      PROVE  deliveries'[worker[v].delivery].attempt = deliveries[worker[v].delivery].attempt
  BY <1>1, EarlyIsBusy DEF MovesOn
<1>2. WorkersFit'
  BY <1>1, WorkerFollows DEF RuntimeInvariant, Fit, WorkersFit
<1> QED
  BY <1>2 DEF Sound

LEMMA HeldExists ==
    ASSUME RuntimeInvariant, AttemptsKept, NEW v \in Workers, Holds(v), Busy(v)
    PROVE  deliveries'[worker[v].delivery].attempt = deliveries[worker[v].delivery].attempt
BY DEF RuntimeInvariant, Fit, WorkersFit, WorkerFits, CopyOf, AttemptsKept

LEMMA ClaimSound ==
    ASSUME RuntimeInvariant, NEW w \in Workers, At(w, "loop"), Claim(w, LeaseTime),
           worker' = [worker EXCEPT ![w] =
                         AtWork("claimed", First({d \in DeliveryIds : Claimable(d)}),
                                deliveries'[First({d \in DeliveryIds : Claimable(d)})])]
    PROVE  Sound
<1>1. PICK d \in DeliveryIds : /\ d = First({e \in DeliveryIds : Claimable(e)})
                               /\ Claimable(d) /\ CanAdvance(d)
                               /\ deliveries' = [deliveries EXCEPT ![d] = Claimed(d, w, LeaseTime)]
  <2>1. {e \in DeliveryIds : Claimable(e)} # {}
    BY DEF Claim
  <2>2. /\ {e \in DeliveryIds : Claimable(e)} \subseteq DeliveryIds
        /\ TypeOK
    BY StoreFacts DEF RuntimeInvariant
  <2>3. First({e \in DeliveryIds : Claimable(e)}) \in {e \in DeliveryIds : Claimable(e)}
    BY <2>1, <2>2, FirstIsFirst
  <2> QED
    BY <2>3 DEF Claim
<1>2. PICK c : c = deliveries'[d]
  OBVIOUS
<1>3. /\ c \in Delivery /\ c.status = "claimed" /\ c.owner = w /\ c.delay = 0
      /\ c.lease = LeaseTime /\ c.run < c.token /\ c.attempt < c.token
      /\ c.invoked \in Invocations
  BY <1>1, <1>2, ClaimedFields DEF RuntimeInvariant, Fit, DeliveriesFit
<1>4. Next /\ DeliveriesFit' /\ AttemptsKept
  <2>1. LeaseTime \in 1 .. LeaseTime
    BY RuntimeAssumption, ConstantsAssumption
  <2> QED
    BY <2>1, FitClaim DEF Next, RuntimeInvariant, Fit
<1>5. /\ worker' = [worker EXCEPT ![w] = AtWork("claimed", d, c)]
      /\ \A v \in Workers : worker[v] \in Jobs
  BY <1>1, <1>2 DEF RuntimeInvariant, Fit, WorkersTyped
<1>6. /\ worker'[w] = [pc |-> "claimed", delivery |-> d, copy |-> c, left |-> 0]
      /\ \A v \in Workers \ {w} : worker'[v] = worker[v]
  BY <1>5 DEF AtWork, RuntimeInvariant, Fit, WorkersTyped
<1>7. worker'[w] \in Jobs
  BY <1>3, <1>6 DEF Jobs, Places, Handlers
<1>8. WorkersTyped'
  BY <1>5, <1>6, <1>7 DEF RuntimeInvariant, Fit, WorkersTyped
<1>9. WorkerFits(w)'
  <2>1. /\ worker'[w].pc = "claimed" /\ worker'[w].delivery = d /\ worker'[w].copy = c
    BY <1>6
  <2>2. CopyOf(w, d, c)' /\ Untouched(w, d, c)'
    <3>1. /\ Exists(d)' /\ c.lease <= LeaseTime /\ c.run <= c.token /\ c.token <= c.token
          /\ LeaseTime \in Nat
      BY <1>2, <1>3, ConstantsAssumption DEF Exists, Delivery
    <3> QED
      BY <1>2, <1>3, <3>1 DEF CopyOf, Untouched
  <2> QED
    BY <2>1, <2>2 DEF WorkerFits
<1>10. ASSUME NEW v \in Workers \ {w} PROVE WorkerFits(v)'
  <2>1. MovesOn(v)
    BY <1>6, StillMoves
  <2>2. worker'[v].pc \in Early /\ Holds(v) =>
           deliveries'[worker[v].delivery].attempt = deliveries[worker[v].delivery].attempt
    BY <1>4, <1>6, EarlyIsBusy, HeldExists DEF Busy
  <2> QED
    BY <1>4, <2>1, <2>2, WorkerFollows DEF RuntimeInvariant, Fit
<1>11. WorkersFit'
  BY <1>9, <1>10 DEF WorkersFit
<1> QED
  BY <1>4, <1>8, <1>11 DEF Sound

LEMMA LoopSound ==
    ASSUME RuntimeInvariant, NEW w \in Workers, Loop(w)
    PROVE  Sound
<1>1. CASE ClaimNext(w)
  <2>1. ASSUME Goto(w, "look"), KeepStore PROVE Sound
    BY <2>1, GotoSound DEF Places, InLoop
  <2>2. ASSUME KeepStore, Sleeps(w, 1) PROVE Sound
    BY <2>2, SleepSound
  <2> QED
    BY <1>1, <2>1, <2>2, ClaimSound DEF ClaimNext, Sleeps
<1>2. CASE LookAhead(w)
  <2>1. CASE Due = {}
    BY <1>2, <2>1, GotoSound DEF LookAhead, Places, InLoop
  <2>2. CASE Due # {}
    <3>1. Min(Due) \in Int
      BY <2>2, DueType DEF RuntimeInvariant
    <3>2. PICK left \in {0, 1, Min(Due)} : Sleeps(w, left)
      BY <1>2, <2>2 DEF LookAhead, Sleeps
    <3> QED
      BY <1>2, <3>1, <3>2, SleepSound DEF LookAhead
  <2> QED
    BY <2>1, <2>2
<1>3. CASE Register(w)
  BY <1>3, RestSound, GotoSound DEF Register, Places, InLoop, Asleep
<1>4. CASE SleepEnds(w)
  BY <1>4, RestSound DEF SleepEnds
<1>5. CASE Stop(w)
  <2>1. \A job \in Jobs : [job EXCEPT !.pc = "stopped"] \in Jobs
    BY DEF Jobs, Places, InLoop, Asleep
  <2>2. /\ worker'[w] = [Resting EXCEPT !.pc = "stopped"]
        /\ \A v \in Workers \ {w} : worker'[v] = worker[v]
    BY <1>5 DEF Stop, RuntimeInvariant, Fit, WorkersTyped
  <2>3. WorkersTyped'
    BY <1>5, <2>1, RestingType DEF Stop, RuntimeInvariant, Fit, WorkersTyped
  <2>4. worker'[w].pc \in InLoop
    BY <2>2 DEF Resting, InLoop, Asleep
  <2>5. \A v \in Workers : MovesOn(v)
    BY <2>2, <2>4, StillMoves DEF MovesOn
  <2> QED
    BY <1>5, <2>3, <2>5, WorkerStill, FitStill
       DEF Stop, RuntimeInvariant, Fit, KeepStore, vars, Sound, WorkersFit
<1> QED
  BY <1>1, <1>2, <1>3, <1>4, <1>5 DEF Loop

-----------------------------------------------------------------------------
(* The turns of processDelivery *)

\* notify(workWaiters), after a worker went back to its loop or not.
LEMMA WokenMoves ==
    ASSUME WorkersTyped, NEW base \in [Workers -> Jobs],
           \A v \in Workers : base[v] \in {worker[v], Resting}, worker' = Woken(base)
    PROVE  WorkersTyped' /\ \A v \in Workers : MovesOn(v)
<1>1. \A v \in Workers : worker'[v] \in {worker[v], Resting}
  BY DEF Woken
<1>2. WorkersTyped'
  BY RestingType DEF Woken, WorkersTyped
<1>3. Resting.pc \in InLoop
  BY DEF Resting, InLoop
<1> QED
  BY <1>1, <1>2, <1>3, StillMoves DEF MovesOn

LEMMA RequeueSound ==
    ASSUME RuntimeInvariant, NEW w \in Workers, Busy(w), Holds(w),
           Save(w, [Ended(w, "queued") EXCEPT
                      !.delay = IF "queued" = "queued" THEN RetryDelay ELSE @]),
           worker' = Woken([worker EXCEPT ![w] = Resting])
    PROVE  Sound
<1>1. PICK record : /\ Spreads(record, worker[w].copy) /\ Save(w, record)
  <2>1. Spreads([Ended(w, "queued") EXCEPT
                    !.delay = IF "queued" = "queued" THEN RetryDelay ELSE @], worker[w].copy)
    BY BusyCopy, SpreadForms, SavedStatuses
  <2> QED
    BY <2>1
<1>2. PICK base : base = [worker EXCEPT ![w] = Resting]
  OBVIOUS
<1>3. /\ base \in [Workers -> Jobs] /\ \A v \in Workers : base[v] \in {worker[v], Resting}
      /\ base[w] = Resting
  BY <1>2, RestingType DEF RuntimeInvariant, Fit, WorkersTyped
<1>4. WorkersTyped' /\ \A v \in Workers : MovesOn(v)
  BY <1>2, <1>3, WokenMoves DEF RuntimeInvariant, Fit
<1>5. worker'[w].pc \notin Early
  BY <1>2, <1>3 DEF Woken, Resting, Early
<1> QED
  BY <1>1, <1>4, <1>5, SaveSound

LEMMA EndsSound ==
    ASSUME RuntimeInvariant, NEW w \in Workers, NEW pc \in {"cancelled", "requeue", "bury"},
           NEW status \in {"cancelled", "queued", "dead_lettered"}, EndsWith(w, pc, status)
    PROVE  Sound
<1>1. Busy(w)
  BY BusyAt DEF EndsWith, Handlers
<1>2. CASE Rest(w) /\ KeepStore
  BY <1>2, RestSound
<1>3. CASE CleanUp(w)
  BY <1>1, <1>3, OuterCatchSound DEF CleanUp
<1>4. CASE /\ Holds(w)
           /\ Save(w, [Ended(w, status) EXCEPT !.delay = IF status = "queued" THEN RetryDelay ELSE @])
           /\ IF status = "dead_lettered" THEN Goto(w, "letter") /\ UNCHANGED runs
              ELSE /\ Untrack(w)
                   /\ worker' = LET rested == [worker EXCEPT ![w] = Resting]
                                IN  IF status = "queued" THEN Woken(rested) ELSE rested
  <2>1. CASE status = "queued"
    BY <1>1, <1>4, <2>1, RequeueSound
  <2>2. CASE status # "queued"
    <3>1. Rest(w) \/ Goto(w, "letter")
      BY <1>4, <2>2 DEF Rest
    <3> QED
      BY <1>1, <1>4, <2>2, <3>1, EndSound
  <2> QED
    BY <2>1, <2>2
<1> QED
  BY <1>2, <1>3, <1>4 DEF EndsWith

LEMMA RefreshSound ==
    ASSUME RuntimeInvariant, NEW w \in Workers, Refresh(w)
    PROVE  Sound
<1>1. Busy(w) /\ worker[w].pc = "refresh"
  BY BusyAt DEF Refresh, Handlers, At
<1>2. CASE OuterCatch(w)
  BY <1>1, <1>2, OuterCatchSound
<1>3. CASE /\ Holds(w) /\ KeepStore
           /\ worker' = [worker EXCEPT ![w].copy = deliveries[worker[w].delivery],
                                       ![w].pc = "authority"]
  <2>1. PICK d, c, fresh : /\ d = worker[w].delivery /\ c = worker[w].copy
                           /\ fresh = deliveries[d]
    OBVIOUS
  <2>2. /\ CopyOf(w, d, c) /\ Untouched(w, d, c) /\ ActiveClaim(d, w, c.token)
        /\ worker[w] \in Jobs /\ d \in DeliveryIds
    BY <1>1, <1>3, <2>1, WorkerType
       DEF RuntimeInvariant, Fit, WorkersFit, WorkerFits, Early, Holds, CopyOf
  <2>3. fresh \in Delivery /\ RecordFits(fresh)
    BY <2>1, <2>2, StoreFacts DEF RuntimeInvariant, Fit, DeliveriesFit
  <2>4. CopyOf(w, d, fresh) /\ Untouched(w, d, fresh)
    <3>1. /\ fresh.owner = w /\ fresh.delay = 0 /\ fresh.attempt < fresh.token
          /\ fresh.token <= deliveries[d].token
      BY <2>1, <2>2, <2>3 DEF ActiveClaim, RecordFits, Untouched, Delivery
    <3> QED
      BY <2>1, <2>2, <2>3, <3>1 DEF CopyOf, Untouched, RecordFits
  <2>5. /\ worker' = [worker EXCEPT ![w] = [worker[w] EXCEPT !.copy = fresh, !.pc = "authority"]]
        /\ \A v \in Workers : worker[v] \in Jobs
    BY <1>3, <2>1 DEF RuntimeInvariant, Fit, WorkersTyped
  <2>6. /\ [worker[w] EXCEPT !.copy = fresh, !.pc = "authority"] \in Jobs
        /\ worker'[w].pc = "authority" /\ worker'[w].copy = fresh /\ worker'[w].delivery = d
        /\ \A v \in Workers \ {w} : worker'[v] = worker[v]
    BY <2>1, <2>2, <2>3, <2>5 DEF Jobs, Places, Handlers, RuntimeInvariant, Fit, WorkersTyped
  <2>7. WorkersTyped'
    BY <2>5, <2>6 DEF RuntimeInvariant, Fit, WorkersTyped
  <2>8. CopyOf(w, d, fresh)' /\ Untouched(w, d, fresh)'
    BY <1>3, <2>4 DEF KeepStore, vars, CopyOf, Untouched, Exists, ActiveClaim
  <2>9. WorkerFits(w)'
    BY <2>6, <2>8 DEF WorkerFits
  <2>10. \A v \in Workers \ {w} : WorkerFits(v)'
    BY <1>3, <2>6, StillMoves, WorkerStill DEF RuntimeInvariant, Fit, KeepStore
  <2> QED
    BY <1>3, <2>7, <2>9, <2>10, FitStill
       DEF KeepStore, vars, Sound, WorkersFit, RuntimeInvariant, Fit
<1> QED
  BY <1>2, <1>3 DEF Refresh, CleanUp, Leak

LEMMA ProcessSound ==
    ASSUME RuntimeInvariant, NEW w \in Workers, Process(w)
    PROVE  Sound
\* A turn that only moves the worker on, from a place of processDelivery.
<1>1. ASSUME Busy(w), NEW pc \in Handlers \ Early, Goto(w, pc), KeepStore PROVE Sound
  BY <1>1, GotoSound DEF Places
<1>2. ASSUME NEW from \in Early, At(w, from), NEW pc \in Handlers, Goto(w, pc), KeepStore
      PROVE  Sound
  <2>1. Busy(w) /\ worker[w].pc \in Early
    BY <1>2, EarlyIsBusy DEF At, Busy
  <2> QED
    BY <1>2, <2>1, GotoSound DEF Places
<1>3. ASSUME Busy(w), CleanUp(w) PROVE Sound
  BY <1>3, OuterCatchSound DEF CleanUp
<1>4. ASSUME Busy(w), Leak(w) PROVE Sound
  BY <1>4, OuterCatchSound DEF Leak
<1>5. CASE Admit(w)
  <2>1. \A pc \in {"enter", "recover"} : pc \in Handlers
    BY DEF Handlers
  <2>2. "claimed" \in Early
    BY DEF Early
  <2>3. CASE Rest(w) /\ KeepStore
    BY <2>3, RestSound
  <2>4. CASE At(w, "claimed") /\ KeepStore /\ \E pc \in {"enter", "recover"} : Goto(w, pc)
    BY <1>2, <2>1, <2>2, <2>4
  <2> QED
    BY <1>5, <2>3, <2>4 DEF Admit
<1>6. CASE Enter(w)
  BY <1>2, <1>6 DEF Enter, Early, Handlers
<1>7. CASE Reconcile(w)
  <2>1. Busy(w)
    BY <1>7, BusyAt DEF Reconcile, Handlers
  <2> QED
    BY <1>2, <1>3, <1>7, <2>1 DEF Reconcile, Early, Handlers
<1>8. CASE Refresh(w)
  BY <1>8, RefreshSound
<1>9. CASE AuthorityAborted(w)
  <2>1. Busy(w)
    BY <1>9, BusyAt DEF AuthorityAborted, Unauthorized, Handlers
  <2> QED
    BY <1>1, <1>3, <1>9, <2>1 DEF AuthorityAborted, Unauthorized, Early, Handlers
<1>10. CASE Withdraw(w)
  <2>1. Busy(w)
    BY <1>10, BusyAt DEF Withdraw, Handlers
  <2> QED
    BY <1>1, <1>10, <2>1, OuterCatchSound DEF Withdraw, Early, Handlers
<1>11. CASE Withdrawn(w)
  <2>1. Busy(w)
    BY <1>11, BusyAt DEF Withdrawn, Handlers
  <2> QED
    BY <1>11, <2>1, EndSound, OuterCatchSound DEF Withdrawn
<1>12. CASE Begin(w)
  <2>1. Busy(w)
    BY <1>12, BusyAt DEF Begin, Handlers
  <2> QED
    BY <1>1, <1>4, <1>12, <2>1 DEF Begin, Early, Handlers
<1>13. CASE Invoke(w)
  <2>1. Busy(w)
    BY <1>13, BusyAt DEF Invoke, Handlers
  <2> QED
    BY <1>1, <1>13, <2>1, InnerCatchSound DEF Invoke, Early, Handlers
<1>14. CASE Complete(w)
  <2>1. Busy(w)
    BY <1>14, BusyAt DEF Complete, Handlers
  <2> QED
    BY <1>1, <1>14, <2>1, InnerCatchSound DEF Complete, Early, Handlers
<1>15. CASE Finish(w)
  <2>1. Busy(w)
    BY <1>15, BusyAt DEF Finish, Handlers
  <2> QED
    BY <1>15, <2>1, EndSound, InnerCatchSound DEF Finish
<1>16. CASE Done(w)
  <2>1. Busy(w)
    BY <1>16, BusyAt DEF Done, Handlers
  <2> QED
    BY <1>16, <2>1, RestSound, InnerCatchSound DEF Done
<1>17. CASE Cancel(w)
  <2>1. Busy(w)
    BY <1>17, BusyAt DEF Cancel, Handlers
  <2> QED
    BY <1>1, <1>3, <1>17, <2>1, RestSound DEF Cancel, Early, Handlers
<1>18. CASE Retry(w)
  <2>1. Busy(w)
    BY <1>18, BusyAt DEF Retry, Handlers
  <2> QED
    BY <1>1, <1>3, <1>18, <2>1, RestSound DEF Retry, Early, Handlers
<1>19. CASE Cancelled(w) \/ Requeue(w) \/ Bury(w)
  BY <1>19, EndsSound DEF Cancelled, Requeue, Bury
<1>20. CASE AddLetter(w)
  BY <1>20, RestSound DEF AddLetter
<1>21. CASE Recover(w)
  BY <1>2, <1>21 DEF Recover, Early, Handlers
<1>22. CASE Resume(w)
  <2>1. Busy(w)
    BY <1>22, BusyAt DEF Resume, Handlers
  <2> QED
    BY <1>2, <1>3, <1>22, <2>1 DEF Resume, Early, Handlers
<1>23. CASE ConfirmAborted(w)
  <2>1. Busy(w)
    BY <1>23, BusyAt DEF ConfirmAborted, ConfirmFails, Handlers
  <2> QED
    BY <1>3, <1>23, <2>1 DEF ConfirmAborted, ConfirmFails
<1> QED
  BY <1>5, <1>6, <1>7, <1>8, <1>9, <1>10, <1>11, <1>12, <1>13, <1>14, <1>15, <1>16, <1>17,
     <1>18, <1>19, <1>20, <1>21, <1>22, <1>23 DEF Process

LEMMA HostSound ==
    ASSUME RuntimeInvariant, NEW w \in Workers, Resolve(w) \/ Observe(w)
    PROVE  Sound
<1>1. ASSUME Busy(w), CleanUp(w) \/ Leak(w) PROVE Sound
  BY <1>1, OuterCatchSound DEF CleanUp, Leak
<1>2. CASE Authorized(w)
  <2>1. Busy(w)
    BY <1>2, BusyAt DEF Authorized, Handlers
  <2> QED
    BY <1>1, <1>2, <2>1, EndSound DEF Authorized
<1>3. CASE Confirm(w)
  <2>1. Busy(w)
    BY <1>3, BusyAt DEF Confirm, Handlers
  <2> QED
    BY <1>1, <1>3, <2>1, EndSound DEF Confirm
<1>4. CASE ObserverReturns(w)
  <2>1. Busy(w)
    BY <1>4, BusyAt DEF ObserverReturns, Handlers
  <2>2. "complete" \in Places \ Early
    BY DEF Places, Handlers, Early
  <2> QED
    BY <1>4, <2>1, <2>2, GotoSound, InnerCatchSound DEF ObserverReturns
<1>5. CASE ObserverThrows(w)
  <2>1. Busy(w)
    BY <1>5, BusyAt DEF ObserverThrows, Handlers
  <2> QED
    BY <1>5, <2>1, InnerCatchSound DEF ObserverThrows
<1>6. CASE AuthorityRejects(w)
  <2>1. Busy(w)
    BY <1>6, BusyAt DEF AuthorityRejects, Unauthorized, Handlers
  <2>2. "withdraw" \in Places \ Early
    BY DEF Places, Handlers, Early
  <2> QED
    BY <1>1, <1>6, <2>1, <2>2, GotoSound DEF AuthorityRejects, Unauthorized
<1>7. CASE ConfirmRejects(w)
  <2>1. Busy(w)
    BY <1>7, BusyAt DEF ConfirmRejects, ConfirmFails, Handlers
  <2> QED
    BY <1>1, <1>7, <2>1 DEF ConfirmRejects, ConfirmFails
<1> QED
  BY <1>2, <1>3, <1>4, <1>5, <1>6, <1>7 DEF Resolve, Observe

-----------------------------------------------------------------------------
(* Heartbeats, publishers, operators and time *)

\* A turn that is not a worker's: the workers stay where they are, but for
\* those that wait and are notified.
LEMMA AsideMoves ==
    ASSUME RuntimeInvariant, worker' = worker \/ worker' = Woken(worker)
    PROVE  WorkersTyped' /\ \A v \in Workers : MovesOn(v)
<1>1. CASE worker' = worker
  BY <1>1, StillMoves DEF RuntimeInvariant, Fit, WorkersTyped
<1>2. CASE worker' = Woken(worker)
  BY <1>2, WokenMoves DEF RuntimeInvariant, Fit, WorkersTyped
<1> QED
  BY <1>1, <1>2

LEMMA AsideSound ==
    ASSUME RuntimeInvariant, KeepStore, UNCHANGED worker
    PROVE  Sound
<1>1. WorkersTyped' /\ \A v \in Workers : MovesOn(v)
  BY AsideMoves
<1> QED
  BY <1>1, WorkerStill, FitStill DEF RuntimeInvariant, Fit, KeepStore, vars, Sound, WorkersFit

LEMMA RunsSound ==
    ASSUME RuntimeInvariant, NEW r \in DOMAIN runs, Heartbeat(r) \/ CancelRun(r)
    PROVE  Sound
<1>1. CASE Renews(r) /\ UNCHANGED worker
  <2>1. r[1] \in DeliveryIds /\ LeaseTime \in 1 .. LeaseTime /\ RenewClaim(r[1], LeaseTime)
    BY <1>1, RuntimeAssumption, ConstantsAssumption DEF Renews, RuntimeInvariant, Fit, RunsFit
  <2>2. Next
    BY <2>1 DEF Next
  <2>3. DeliveriesFit' /\ AttemptsKept
    BY <2>1, FitRenew DEF RuntimeInvariant, Fit
  <2> QED
    BY <1>1, <2>2, <2>3, AsideMoves, HeldExists, StepSound
<1>2. CASE KeepStore /\ UNCHANGED worker
  BY <1>2, AsideSound
<1> QED
  BY <1>1, <1>2 DEF Heartbeat, CancelRun

LEMMA PublishSound ==
    ASSUME RuntimeInvariant, NEW p \in Publishers, BeginPublish(p) \/ Enqueue(p)
    PROVE  Sound
<1>1. CASE Publish(p) /\ (worker' = worker \/ worker' = Woken(worker))
  <2>1. Next
    BY <1>1 DEF Next
  <2>2. DeliveriesFit' /\ AttemptsKept
    BY <1>1, FitPublish DEF RuntimeInvariant, Fit
  <2> QED
    BY <1>1, <2>1, <2>2, AsideMoves, HeldExists, StepSound
<1>2. CASE KeepStore /\ UNCHANGED worker
  BY <1>2, AsideSound
<1> QED
  BY <1>1, <1>2 DEF BeginPublish, Enqueue, Publish

LEMMA RedriveSound ==
    ASSUME RuntimeInvariant, NEW letter \in DOMAIN redrives,
           RequeueDeadLetter(letter) \/ RemoveDeadLetter(letter)
    PROVE  Sound
<1>1. CASE RedriveDelivery(letter[1], FALSE) /\ worker' = Woken(worker)
  <2>1. PICK d \in DeliveryIds : d = letter[1] /\ AllowRedrive
    BY DEF RuntimeInvariant, Fit, LettersFit
  <2>2. RedriveDelivery(d, FALSE)
    BY <1>1, <2>1
  <2>3. Next
    BY <2>1, <2>2 DEF Next
  <2>4. DeliveriesFit' /\ \A e \in DeliveryIds \ {d} : deliveries'[e] = deliveries[e]
    BY <2>2, FitRedrive DEF RuntimeInvariant, Fit
  <2>5. deliveries[d].status \notin Active
    BY <2>2 DEF RedriveDelivery, Terminal, Active
  <2>6. ASSUME NEW v \in Workers, Holds(v), Busy(v)
        PROVE  deliveries'[worker[v].delivery].attempt = deliveries[worker[v].delivery].attempt
    BY <2>4, <2>5, <2>6, BusyCopy DEF Holds, ActiveClaim
  <2> QED
    BY <1>1, <2>3, <2>4, <2>6, AsideMoves, StepSound
<1>2. CASE KeepStore /\ UNCHANGED worker
  BY <1>2, AsideSound
<1> QED
  BY <1>1, <1>2 DEF RequeueDeadLetter, RemoveDeadLetter

\* The lease in a copy runs down with the time that passes.
LEMMA CopyAges ==
    ASSUME NEW w, NEW d, NEW c \in Delivery, CopyOf(w, d, c),
           NEW aged, aged = [c EXCEPT !.lease = Down(c.lease)]
    PROVE  /\ aged \in Delivery /\ CopyOf(w, d, aged)
           /\ Untouched(w, d, c) => Untouched(w, d, aged)
<1>1. Down(c.lease) \in Nat /\ (c.lease <= LeaseTime => Down(c.lease) <= LeaseTime)
  BY ConstantsAssumption DEF Down, Delivery
<1>2. /\ aged \in Delivery /\ aged.lease = Down(c.lease)
      /\ aged.owner = c.owner /\ aged.delay = c.delay /\ aged.run = c.run
      /\ aged.token = c.token /\ aged.attempt = c.attempt /\ aged.invoked = c.invoked
      /\ aged.seq = c.seq /\ aged.event = c.event /\ aged.recovered = c.recovered
  BY <1>1 DEF Delivery
<1> QED
  BY <1>1, <1>2 DEF CopyOf, Untouched

LEMMA PassMoves ==
    ASSUME WorkersTyped, Pass, NEW v \in Workers
    PROVE  /\ worker'[v] \in Jobs /\ worker'[v].pc = worker[v].pc
           /\ worker'[v].delivery = worker[v].delivery
           /\ worker'[v].copy = [worker[v].copy EXCEPT !.lease = Down(worker[v].copy.lease)]
<1> DEFINE left == Down(worker[v].left)
           lease == Down(worker[v].copy.lease)
           aged == [worker[v].copy EXCEPT !.lease = lease]
<1>1. \A u \in Workers : worker[u] \in Jobs
  BY DEF WorkersTyped
<1>2. worker'[v] = [worker[v] EXCEPT !.left = left, !.copy = aged]
  BY <1>1 DEF Pass, Jobs
<1>3. left \in Int /\ lease \in Nat
  BY <1>1 DEF Down, Jobs, Delivery
<1> HIDE DEF left, lease
<1>4. aged \in Delivery
  BY <1>1, <1>3 DEF Jobs, Delivery
<1> QED
  BY <1>1, <1>2, <1>3, <1>4 DEF Jobs, lease

LEMMA PassSound ==
    ASSUME RuntimeInvariant, Pass
    PROVE  Sound
<1>1. Next /\ DeliveriesFit' /\ AttemptsKept
  BY FitTick DEF Pass, Next, RuntimeInvariant, Fit
<1>2. \A v \in Workers : worker[v] \in Jobs
  BY DEF RuntimeInvariant, Fit, WorkersTyped
<1>3. \A v \in Workers :
         /\ worker'[v] \in Jobs /\ worker'[v].pc = worker[v].pc
         /\ worker'[v].delivery = worker[v].delivery
         /\ worker'[v].copy = [worker[v].copy EXCEPT !.lease = Down(worker[v].copy.lease)]
  BY PassMoves DEF RuntimeInvariant, Fit
<1>4. WorkersTyped'
  <2>1. worker' = [w \in Workers |-> [worker[w] EXCEPT !.left = Down(@), !.copy.lease = Down(@)]]
    BY DEF Pass
  <2>2. DOMAIN worker' = Workers /\ worker' = [w \in Workers |-> worker'[w]]
    BY <2>1
  <2> QED
    BY <1>3, <2>2 DEF WorkersTyped
<1>5. ASSUME NEW v \in Workers PROVE WorkerFits(v)'
  <2>1. PICK d, c, aged : /\ d = worker[v].delivery /\ c = worker[v].copy
                          /\ aged = [c EXCEPT !.lease = Down(c.lease)]
    OBVIOUS
  <2>2. /\ worker'[v].pc = worker[v].pc /\ worker'[v].delivery = d /\ worker'[v].copy = aged
        /\ c \in Delivery
    BY <1>2, <1>3, <2>1 DEF Jobs
  <2>3. CASE worker[v].pc \in InLoop
    BY <2>2, <2>3, EarlyIsBusy DEF WorkerFits, Busy
  <2>4. CASE worker[v].pc \notin InLoop
    <3>1. CopyOf(v, d, c) /\ (worker[v].pc \in Early => Untouched(v, d, c))
      BY <2>1, <2>4 DEF RuntimeInvariant, Fit, WorkersFit, WorkerFits, Busy
    <3>2. /\ aged \in Delivery /\ CopyOf(v, d, aged)
          /\ worker[v].pc \in Early => Untouched(v, d, aged)
      BY <2>1, <2>2, <3>1, CopyAges
    <3>3. d \in DeliveryIds /\ Exists(d) /\ deliveries'[d].attempt = deliveries[d].attempt
      BY <1>1, <3>1 DEF CopyOf, AttemptsKept
    <3>4. CopyOf(v, d, aged)' /\ (worker[v].pc \in Early => Untouched(v, d, aged)')
      BY <1>1, <3>2, <3>3, CopyKept, UntouchedKept DEF RuntimeInvariant
    <3> QED
      BY <2>2, <3>4 DEF WorkerFits
  <2> QED
    BY <2>3, <2>4
<1>6. WorkersFit'
  BY <1>5 DEF WorkersFit
<1> QED
  BY <1>1, <1>4, <1>6 DEF Sound

LEMMA NextSound ==
    ASSUME RuntimeInvariant, RuntimeNext
    PROVE  Sound
<1>1. ASSUME NEW letter \in deadLetters, BeginRedrive(letter) PROVE Sound
  BY <1>1, AsideSound DEF BeginRedrive
<1>2. ASSUME NEW drain \in BOOLEAN, Close(drain) PROVE Sound
  BY <1>2, AsideSound DEF Close, KeepWork
<1>3. CASE PublishesSettle \/ Drained \/ Shutdown
  BY <1>3, AsideSound DEF PublishesSettle, Drained, Shutdown, KeepWork
<1>4. CASE TimePasses \/ Stall
  BY <1>4, PassSound DEF TimePasses, Stall
<1> QED
  BY <1>1, <1>2, <1>3, <1>4, LoopSound, ProcessSound, HostSound, RunsSound, PublishSound,
     RedriveSound DEF RuntimeNext

-----------------------------------------------------------------------------
(* The runs and the dead letters *)

LEMMA TurnRuns ==
    ASSUME RuntimeInvariant, NEW w \in Workers,
           Loop(w) \/ Process(w) \/ Resolve(w) \/ Observe(w)
    PROVE  RunsFit'
<1>1. ASSUME UNCHANGED runs \/ Untrack(w) PROVE RunsFit'
  BY <1>1 DEF Untrack, RunsFit, RuntimeInvariant, Fit
<1>2. ASSUME Busy(w), NEW r, r[1] = worker[w].delivery, NEW token, Track(r, w, token)
      PROVE  RunsFit'
  BY <1>2, BusyCopy DEF Track, RunsFit, RuntimeInvariant, Fit
<1>3. ASSUME CleanUp(w) \/ Leak(w) \/ InnerCatch(w) PROVE RunsFit'
  BY <1>1, <1>3 DEF CleanUp, Leak, InnerCatch
<1>4. CASE Loop(w)
  BY <1>1, <1>4 DEF Loop, ClaimNext, LookAhead, Register, SleepEnds, Stop
<1>5. CASE Enter(w)
  <2>1. Busy(w) /\ RunOf(w)[1] = worker[w].delivery
    BY <1>5, BusyAt DEF Enter, Handlers, RunOf
  <2> QED
    BY <1>2, <1>5, <2>1 DEF Enter
<1>6. CASE Recover(w)
  <2>1. Busy(w)
    BY <1>6, BusyAt DEF Recover, Handlers
  <2> QED
    BY <1>2, <1>6, <2>1 DEF Recover
<1>7. CASE Admit(w) \/ Withdraw(w) \/ Withdrawn(w) \/ AddLetter(w)
  BY <1>1, <1>7 DEF Admit, Withdraw, Withdrawn, AddLetter
<1>8. CASE Reconcile(w) \/ Refresh(w) \/ AuthorityAborted(w) \/ Begin(w) \/ Invoke(w)
  BY <1>1, <1>3, <1>8 DEF Reconcile, Refresh, AuthorityAborted, Unauthorized, Begin, Invoke
<1>9. CASE Complete(w) \/ Finish(w) \/ Done(w) \/ Cancel(w) \/ Retry(w)
  BY <1>1, <1>3, <1>9 DEF Complete, Finish, Done, Cancel, Retry
<1>10. CASE Cancelled(w) \/ Requeue(w) \/ Bury(w)
  BY <1>1, <1>3, <1>10 DEF Cancelled, Requeue, Bury, EndsWith
<1>11. CASE Resume(w) \/ ConfirmAborted(w)
  BY <1>1, <1>3, <1>11 DEF Resume, ConfirmAborted, ConfirmFails
<1>12. CASE Resolve(w) \/ Observe(w)
  BY <1>1, <1>3, <1>12 DEF Resolve, Observe, Authorized, Confirm, ObserverReturns,
                           ObserverThrows, AuthorityRejects, Unauthorized, ConfirmRejects,
                           ConfirmFails
<1> QED
  BY <1>4, <1>5, <1>6, <1>7, <1>8, <1>9, <1>10, <1>11, <1>12 DEF Process

LEMMA RunsStep ==
    ASSUME RuntimeInvariant, RuntimeNext
    PROVE  RunsFit'
<1>1. ASSUME DOMAIN runs' \subseteq DOMAIN runs PROVE RunsFit'
  BY <1>1 DEF RunsFit, RuntimeInvariant, Fit
<1>2. ASSUME NEW r \in DOMAIN runs, Heartbeat(r) \/ CancelRun(r) PROVE RunsFit'
  BY <1>1, <1>2 DEF Heartbeat, CancelRun
<1>3. ASSUME NEW p \in Publishers, BeginPublish(p) \/ Enqueue(p) PROVE RunsFit'
  BY <1>1, <1>3 DEF BeginPublish, Enqueue, KeepOthers
<1>4. ASSUME NEW letter, BeginRedrive(letter) \/ RequeueDeadLetter(letter) \/ RemoveDeadLetter(letter)
      PROVE  RunsFit'
  BY <1>1, <1>4 DEF BeginRedrive, RequeueDeadLetter, RemoveDeadLetter, KeepOthers
<1>5. ASSUME NEW drain \in BOOLEAN, Close(drain) PROVE RunsFit'
  BY <1>1, <1>5 DEF Close
<1>6. CASE PublishesSettle \/ Drained \/ Shutdown
  BY <1>1, <1>6 DEF PublishesSettle, Drained, Shutdown, AbortOperations
<1>7. CASE TimePasses \/ Stall
  BY <1>1, <1>7 DEF TimePasses, Stall, Pass
<1> QED
  BY <1>2, <1>3, <1>4, <1>5, <1>6, <1>7, TurnRuns DEF RuntimeNext

LEMMA LettersStep ==
    ASSUME RuntimeInvariant, RuntimeNext
    PROVE  LettersFit'
<1> USE DEF LettersFit
<1>0. LettersFit
  BY DEF RuntimeInvariant, Fit
<1>1. ASSUME UNCHANGED <<deadLetters, redrives>> PROVE LettersFit'
  BY <1>0, <1>1
<1>2. ASSUME NEW w \in Workers, Loop(w) \/ Resolve(w) \/ Observe(w) PROVE LettersFit'
  BY <1>1, <1>2 DEF Loop, ClaimNext, LookAhead, Register, SleepEnds, Stop, Resolve, Observe,
                    Authorized, Confirm, ObserverReturns, ObserverThrows, AuthorityRejects,
                    Unauthorized, ConfirmRejects, ConfirmFails, KeepRest
<1>3. ASSUME NEW w \in Workers, Process(w) PROVE LettersFit'
  <2>1. CASE AddLetter(w)
    <3>1. Busy(w)
      BY <2>1, BusyAt DEF AddLetter, At, Handlers
    <3>2. worker[w].delivery \in DeliveryIds
      BY <3>1, BusyCopy
    <3> QED
      BY <1>0, <2>1, <3>2 DEF AddLetter
  <2>2. CASE ~AddLetter(w)
    <3>1. KeepRest
      BY <1>3, <2>2 DEF Process, Admit, Enter, Reconcile, Refresh, AuthorityAborted, Unauthorized,
                        Withdraw, Withdrawn, Begin, Invoke, Complete, Finish, Done, Cancel,
                        Cancelled, Retry, Requeue, Bury, EndsWith, Recover, Resume,
                        ConfirmAborted, ConfirmFails
    <3> QED
      BY <1>1, <3>1 DEF KeepRest
  <2> QED
    BY <2>1, <2>2
<1>4. ASSUME NEW r \in DOMAIN runs, Heartbeat(r) \/ CancelRun(r) PROVE LettersFit'
  BY <1>1, <1>4 DEF Heartbeat, CancelRun, KeepRest
<1>5. ASSUME NEW p \in Publishers, BeginPublish(p) \/ Enqueue(p) PROVE LettersFit'
  BY <1>1, <1>5 DEF BeginPublish, Enqueue
<1>6. ASSUME NEW letter \in deadLetters, BeginRedrive(letter) PROVE LettersFit'
  BY <1>0, <1>6 DEF BeginRedrive
<1>7. ASSUME NEW letter \in DOMAIN redrives, RequeueDeadLetter(letter) PROVE LettersFit'
  BY <1>0, <1>7 DEF RequeueDeadLetter, RedriveEnds
<1>8. ASSUME NEW letter \in DOMAIN redrives, RemoveDeadLetter(letter) PROVE LettersFit'
  BY <1>0, <1>8 DEF RemoveDeadLetter, RedriveEnds
<1>9. ASSUME NEW drain \in BOOLEAN, Close(drain) PROVE LettersFit'
  BY <1>1, <1>9 DEF Close, KeepWork
<1>10. CASE PublishesSettle \/ Drained \/ Shutdown
  BY <1>1, <1>10 DEF PublishesSettle, Drained, Shutdown, KeepWork
<1>11. CASE TimePasses \/ Stall
  BY <1>1, <1>11 DEF TimePasses, Stall, Pass
<1> QED
  BY <1>2, <1>3, <1>4, <1>5, <1>6, <1>7, <1>8, <1>9, <1>10, <1>11 DEF RuntimeNext

-----------------------------------------------------------------------------
(* The runtime implements the store *)

LEMMA FitInit == RuntimeInit => RuntimeInvariant
<1> SUFFICES ASSUME RuntimeInit PROVE RuntimeInvariant
  OBVIOUS
<1>1. Init /\ StoreInvariant
  BY StoreInit DEF RuntimeInit
<1>2. WorkersTyped
  BY RestingType DEF RuntimeInit, WorkersTyped
<1>3. WorkersFit
  <2>1. \A w \in Workers : worker[w] = Resting
    BY DEF RuntimeInit
  <2>2. \A w \in Workers : worker[w].pc = "loop"
    BY <2>1 DEF Resting
  <2> QED
    BY <2>2 DEF WorkersFit, WorkerFits, Busy, Early, InLoop
<1>4. DeliveriesFit
  <2>1. RecordFits(Absent)
    <3>1. /\ Absent.attempt = 0 /\ Absent.token = 0 /\ Absent.run = 0 /\ Absent.lease = 0
          /\ Absent.invoked = FALSE /\ Absent.status = "absent" /\ 0 <= LeaseTime
      BY ConstantsAssumption DEF Absent
    <3>2. Absent.invoked \in Invocations
      BY <3>1, RuntimeAssumption, Zenon
    <3> QED
      BY <3>1, <3>2 DEF RecordFits, Active
  <2> QED
    BY <1>1, <2>1 DEF Init, DeliveriesFit
<1>5. RunsFit /\ LettersFit
  BY DEF RuntimeInit, RunsFit, LettersFit
<1> QED
  BY <1>1, <1>2, <1>3, <1>4, <1>5 DEF RuntimeInvariant, Fit

LEMMA FitStep ==
    RuntimeInvariant /\ [RuntimeNext]_allVars =>
        (UNCHANGED vars \/ Next) /\ RuntimeInvariant'
<1> SUFFICES ASSUME RuntimeInvariant, [RuntimeNext]_allVars
             PROVE  (UNCHANGED vars \/ Next) /\ RuntimeInvariant'
  OBVIOUS
<1>1. CASE RuntimeNext
  <2>1. Sound /\ RunsFit' /\ LettersFit'
    BY <1>1, NextSound, RunsStep, LettersStep
  <2>2. StoreInvariant'
    BY <2>1, StoreStep DEF Sound, RuntimeInvariant
  <2> QED
    BY <2>1, <2>2 DEF Sound, RuntimeInvariant, Fit
<1>2. CASE UNCHANGED allVars
  <2>1. KeepStore /\ UNCHANGED <<worker, runs, deadLetters, redrives>>
    BY <1>2 DEF allVars, runtime, KeepStore
  <2>2. Sound
    BY <2>1, AsideSound
  <2>3. RunsFit' /\ LettersFit'
    BY <2>1 DEF RuntimeInvariant, Fit, RunsFit, LettersFit
  <2>4. StoreInvariant'
    BY <2>2, StoreStep DEF Sound, RuntimeInvariant
  <2> QED
    BY <2>2, <2>3, <2>4 DEF Sound, RuntimeInvariant, Fit
<1> QED
  BY <1>1, <1>2

\* The copies that the workers of the runtime save are what the store lets the
\* holder of a claim save.
THEOREM CopiesFit == RuntimeSpec => []RuntimeInvariant
<1>1. RuntimeInvariant /\ [RuntimeNext]_allVars => RuntimeInvariant'
  BY FitStep
<1> QED
  BY <1>1, FitInit, PTL DEF RuntimeSpec

\* The runtime implements the store: its workers, heartbeats, publishers,
\* operators and shutdown only ever take steps of EventStore.
THEOREM RuntimeImplementsStore == RuntimeSpec => StoreSpec
<1>1. RuntimeInvariant /\ [RuntimeNext]_allVars =>
          RuntimeInvariant' /\ [UNCHANGED vars \/ Next]_vars
  BY FitStep
<1>2. RuntimeInit => Init
  BY DEF RuntimeInit
<1> QED
  BY <1>1, <1>2, FitInit, PTL DEF RuntimeSpec, StoreSpec

\* What the theorems about the store say of every client holds in the runtime:
\* strict lanes stay in order, and a lost claim stays lost.
THEOREM RuntimeKeepsOrder == RuntimeSpec => []StrictOrder
<1>1. RuntimeInvariant => StrictOrder
  BY DEF RuntimeInvariant, StoreInvariant
<1> QED
  BY <1>1, CopiesFit, PTL

THEOREM RuntimeFences == RuntimeSpec => LostClaimStaysLost
<1>1. [UNCHANGED vars \/ Next]_vars => [Next]_vars
  BY Zenon
<1>2. StoreSpec => Spec
  BY <1>1, PTL DEF StoreSpec, Spec
<1> QED
  BY <1>2, RuntimeImplementsStore, FencingHolds, PTL

\* What the store promises about capacity and waiting holds in the runtime.
THEOREM RuntimeKeepsCapacity ==
    RuntimeSpec => /\ []CapacityRespected
                   /\ [](Coalesced = {} => NoLostWakeup)
<1>1. [UNCHANGED vars \/ Next]_vars => [Next]_vars
  BY Zenon
<1>2. StoreSpec => Spec
  BY <1>1, PTL DEF StoreSpec, Spec
<1> QED
  BY <1>2, RuntimeImplementsStore, CapacityHolds, WaitersAreWoken, PTL

-----------------------------------------------------------------------------
(* After close() has returned *)

LEMMA QuietTurn ==
    ASSUME storeShutdownStarted, NEW w \in Workers,
           Loop(w) \/ Process(w) \/ Resolve(w) \/ Observe(w)
    PROVE  \/ UNCHANGED deliveries
           \/ At(w, "withdrawn") /\ Save(w, Ended(w, "cancelled"))
<1> DEFINE Quiet == UNCHANGED deliveries
<1>1. WorkersAborted /\ Closing
  BY DEF storeShutdownStarted, WorkersAborted, Closing
<1>2. ASSUME KeepStore PROVE Quiet
  BY <1>2 DEF KeepStore, vars
<1>3. ASSUME OuterCatch(w) PROVE Quiet
  BY <1>1, <1>2, <1>3 DEF OuterCatch
<1>4. ASSUME CleanUp(w) \/ Leak(w) PROVE Quiet
  BY <1>3, <1>4 DEF CleanUp, Leak
<1>5. ASSUME InnerCatch(w) PROVE Quiet
  BY <1>2, <1>5 DEF InnerCatch, RunStopped
<1> HIDE DEF Quiet
<1>6. ASSUME Loop(w) PROVE Quiet
  BY <1>1, <1>2, <1>6 DEF Loop, ClaimNext, LookAhead, Register, SleepEnds, Stop
<1>7. ASSUME Admit(w) \/ Enter(w) \/ Withdraw(w) \/ AddLetter(w) \/ Recover(w) PROVE Quiet
  BY <1>2, <1>3, <1>7 DEF Admit, Enter, Withdraw, AddLetter, Recover
<1>8. ASSUME Reconcile(w) \/ Refresh(w) \/ AuthorityAborted(w) \/ Begin(w) \/ Invoke(w) PROVE Quiet
  BY <1>2, <1>4, <1>5, <1>8 DEF Reconcile, Refresh, AuthorityAborted, Unauthorized, Begin,
                                Invoke, RunStopped
<1>9. ASSUME Complete(w) \/ Finish(w) \/ Done(w) \/ Cancel(w) \/ Retry(w) PROVE Quiet
  BY <1>2, <1>4, <1>5, <1>9 DEF Complete, Finish, Done, Cancel, Retry, RunStopped
<1>10. ASSUME Cancelled(w) \/ Requeue(w) \/ Bury(w) PROVE Quiet
  BY <1>2, <1>4, <1>10 DEF Cancelled, Requeue, Bury, EndsWith
<1>11. ASSUME Resume(w) \/ ConfirmAborted(w) PROVE Quiet
  BY <1>2, <1>4, <1>11 DEF Resume, ConfirmAborted, ConfirmFails, RunStopped
<1>12. ASSUME Resolve(w) \/ Observe(w) PROVE Quiet
  BY <1>2, <1>4, <1>5, <1>12 DEF Resolve, Observe, Authorized, Confirm, ObserverReturns,
        ObserverThrows, AuthorityRejects, Unauthorized, ConfirmRejects, ConfirmFails, RunStopped
<1>13. CASE Withdrawn(w)
  BY <1>3, <1>13 DEF Withdrawn, Quiet
<1> QED
  BY <1>6, <1>7, <1>8, <1>9, <1>10, <1>11, <1>12, <1>13 DEF Process, Quiet

LEMMA QuietStep ==
    ASSUME RuntimeInvariant, RuntimeNext, storeShutdownStarted, NEW d \in DeliveryIds
    PROVE  /\ deliveries'[d].status \in {deliveries[d].status, "cancelled"}
           /\ deliveries'[d].lease <= deliveries[d].lease
<1> DEFINE Quiet == /\ deliveries'[d].status \in {deliveries[d].status, "cancelled"}
                    /\ deliveries'[d].lease <= deliveries[d].lease
<1>0. /\ Closing /\ WorkersAborted /\ deliveries[d] \in Delivery /\ deliveries[d].lease \in Nat
  BY StoreFacts DEF storeShutdownStarted, WorkersAborted, Closing, RuntimeInvariant, Delivery
<1>1. ASSUME UNCHANGED deliveries PROVE Quiet
  BY <1>0, <1>1
<1>2. ASSUME KeepStore PROVE Quiet
  BY <1>1, <1>2 DEF KeepStore, vars
<1>3. ASSUME NEW w \in Workers, At(w, "withdrawn"), Save(w, Ended(w, "cancelled")) PROVE Quiet
  <2>1. PICK e, record : e = worker[w].delivery /\ record = Ended(w, "cancelled")
    OBVIOUS
  <2>2. e \in DeliveryIds /\ worker[w].copy \in Delivery
    BY <1>3, <2>1, BusyAt, BusyCopy DEF Handlers
  <2>3. deliveries' = [deliveries EXCEPT ![e] = AtRest(record)]
    BY <1>3, <2>1 DEF Save, SaveDelivery
  <2>4. record.status = "cancelled" /\ AtRest(record).status = "cancelled" /\ AtRest(record).lease = 0
    BY <2>1, <2>2 DEF Ended, AtRest, Active, Delivery
  <2>5. deliveries'[d] \in {deliveries[d], AtRest(record)}
    BY <2>2, <2>3, StoreFacts DEF RuntimeInvariant, TypeOK
  <2> QED
    BY <1>0, <2>4, <2>5
<1>4. ASSUME Tick PROVE Quiet
  <2> DEFINE lease == IF deliveries[d].lease > 0 THEN deliveries[d].lease - 1 ELSE 0
             delay == IF deliveries[d].delay > -PublishTimeout
                      THEN deliveries[d].delay - 1 ELSE deliveries[d].delay
             ticked == [deliveries[d] EXCEPT !.lease = lease, !.delay = delay]
  <2>1. deliveries'[d] = AtRest(ticked)
    BY <1>4 DEF Tick
  <2>2. lease \in Nat /\ lease <= deliveries[d].lease
    BY <1>0
  <2> HIDE DEF lease, delay
  <2>3. AtRest(ticked).status = deliveries[d].status /\ AtRest(ticked).lease \in {lease, 0}
    BY <1>0 DEF AtRest, Delivery
  <2> QED
    BY <1>0, <2>1, <2>2, <2>3
<1> HIDE DEF Quiet
<1>5. ASSUME NEW w \in Workers, Loop(w) \/ Process(w) \/ Resolve(w) \/ Observe(w) PROVE Quiet
  BY <1>1, <1>3, <1>5, QuietTurn
<1>6. ASSUME NEW r \in DOMAIN runs, Heartbeat(r) \/ CancelRun(r) PROVE Quiet
  BY <1>0, <1>2, <1>6 DEF Heartbeat, Beating, CancelRun
<1>7. ASSUME NEW p \in Publishers, BeginPublish(p) \/ Enqueue(p) PROVE Quiet
  BY <1>0, <1>2, <1>7 DEF BeginPublish, Enqueue
<1>8. ASSUME NEW letter, BeginRedrive(letter) \/ RequeueDeadLetter(letter) \/ RemoveDeadLetter(letter)
      PROVE  Quiet
  BY <1>0, <1>2, <1>8 DEF BeginRedrive, RequeueDeadLetter, RemoveDeadLetter
<1>9. ASSUME NEW drain \in BOOLEAN, Close(drain) PROVE Quiet
  BY <1>2, <1>9 DEF Close
<1>10. ASSUME PublishesSettle \/ Drained \/ Shutdown PROVE Quiet
  BY <1>2, <1>10 DEF PublishesSettle, Drained, Shutdown
<1>11. ASSUME TimePasses \/ Stall PROVE Quiet
  BY <1>4, <1>11 DEF TimePasses, Stall, Pass
<1> QED
  BY <1>5, <1>6, <1>7, <1>8, <1>9, <1>10, <1>11 DEF RuntimeNext, Quiet

\* Once close() has returned the runtime leaves the queue alone, but for a
\* cancellation that had begun.
THEOREM ShutdownIsQuiet == RuntimeSpec => QuietAfterShutdown
<1>1. ASSUME RuntimeInvariant, [RuntimeNext]_allVars
      PROVE  [storeShutdownStarted =>
                 \A d \in DeliveryIds :
                     /\ deliveries'[d].status \in {deliveries[d].status, "cancelled"}
                     /\ deliveries'[d].lease <= deliveries[d].lease]_allVars
  BY <1>1, QuietStep
<1> QED
  BY <1>1, CopiesFit, PTL DEF RuntimeSpec, QuietAfterShutdown

-----------------------------------------------------------------------------
(* Dead letters and the barrier of redrive()                               *)
(*                                                                         *)
(* A delivery has at most one dead letter, and has ended when it has one,  *)
(* or waits behind the barrier of the redrive that will remove the letter. *)
(* A worker that is about to add a letter is the only one to be, for a     *)
(* delivery without any.  Whoever is past the barrier with a claim that    *)
(* holds stays past it, since a redrive needs a delivery that has ended.   *)


Pending == {"letter", "lastLetter"}
\* The worker is past the barrier.
InHand(w) == Busy(w) /\ worker[w].pc # "claimed"

Unlettered(d) == \A letter \in deadLetters : letter[1] # d

OneLetter == \A l, m \in deadLetters : l[1] = m[1] => l = m
LettersEnded ==
    \A l \in deadLetters : deliveries[l[1]].status \in Terminal \/ Barrier(l[1])
LetterDue(w) ==
    worker[w].pc \in Pending =>
        /\ deliveries[worker[w].delivery].status = "dead_lettered"
        /\ Unlettered(worker[w].delivery)
LetterDueOnce ==
    \A v, w \in Workers :
        /\ worker[v].pc \in Pending /\ worker[w].pc \in Pending
        /\ worker[v].delivery = worker[w].delivery
        => v = w
PastBarrier(w) == InHand(w) /\ Holds(w) => ~Barrier(worker[w].delivery)

LettersAlone ==
    /\ OneLetter /\ LettersEnded /\ LetterDueOnce
    /\ \A w \in Workers : LetterDue(w)
    /\ \A w \in Workers : PastBarrier(w)

RedriveInvariant == RuntimeInvariant /\ LettersAlone

\* A worker that is past the barrier with a claim has no dead letter around.
LEMMA InHandAlone ==
    ASSUME RedriveInvariant, NEW w \in Workers, InHand(w), Holds(w)
    PROVE  /\ Unlettered(worker[w].delivery)
           /\ worker[w].delivery \in DeliveryIds
           /\ deliveries[worker[w].delivery].status \in Active
           /\ deliveries[worker[w].delivery].status \notin Terminal
           /\ worker[w].pc \notin Pending
<1>1. /\ worker[w].delivery \in DeliveryIds
      /\ deliveries[worker[w].delivery].status \in Active
      /\ ~Barrier(worker[w].delivery)
  BY BusyCopy DEF InHand, Holds, ActiveClaim, RedriveInvariant, LettersAlone, PastBarrier
<1>2. /\ deliveries[worker[w].delivery].status \notin Terminal
      /\ deliveries[worker[w].delivery].status # "dead_lettered"
  BY <1>1 DEF Active, Terminal
<1> QED
  BY <1>1, <1>2 DEF RedriveInvariant, LettersAlone, LettersEnded, Unlettered, LetterDue

-----------------------------------------------------------------------------
(* What a step does to a worker and to the deliveries that have ended *)

\* The worker goes on with its claim past the barrier, or is not past it.
Strides(w) ==
    \/ worker'[w].pc \in InLoop \union {"claimed"}
    \/ /\ InHand(w)
       /\ worker'[w].delivery = worker[w].delivery
       /\ worker'[w].copy.token = worker[w].copy.token
\* The worker stays where it is, or is back in its loop.
Stays(w) ==
    \/ worker'[w].pc \in InLoop
    \/ /\ worker'[w].pc = worker[w].pc
       /\ worker'[w].delivery = worker[w].delivery
       /\ worker'[w].copy.token = worker[w].copy.token
BarriersKept == \A d : Barrier(d)' <=> Barrier(d)
EndedKept ==
    \A d \in DeliveryIds :
        deliveries[d].status \in Terminal => deliveries'[d].status = deliveries[d].status

LEMMA StaysStrides ==
    ASSUME NEW w \in Workers, Stays(w)
    PROVE  Strides(w)
BY DEF Stays, Strides, InHand, Busy

LEMMA StillStays ==
    ASSUME NEW w \in Workers, worker'[w] = worker[w] \/ worker'[w] = Resting
    PROVE  Stays(w)
BY DEF Stays, Resting, InLoop

LEMMA StridesPast ==
    ASSUME RedriveInvariant, UNCHANGED vars \/ Next, NEW w \in Workers, Strides(w), BarriersKept
    PROVE  PastBarrier(w)'
<1>1. CASE worker'[w].pc \in InLoop \union {"claimed"}
  BY <1>1 DEF PastBarrier, InHand, Busy
<1>2. CASE worker'[w].pc \notin InLoop \union {"claimed"}
  <2>1. PICK d, c, t : /\ d = worker[w].delivery /\ c = worker[w].copy /\ t = c.token
    OBVIOUS
  <2>2. /\ InHand(w) /\ worker'[w].delivery = d /\ worker'[w].copy.token = t
    BY <1>2, <2>1 DEF Strides
  <2>3. CopyOf(w, d, c) /\ c \in Delivery
    BY <2>1, <2>2, WorkerType
       DEF RedriveInvariant, RuntimeInvariant, Fit, WorkersFit, WorkerFits, InHand
  <2>4. ActiveClaim(d, w, t)' => ActiveClaim(d, w, t)
    <3>1. CASE Next
      BY <2>1, <2>3, <3>1, CopyKept DEF RedriveInvariant, RuntimeInvariant
    <3>2. CASE UNCHANGED vars
      BY <3>2 DEF vars, ActiveClaim
    <3> QED
      BY <3>1, <3>2
  <2>5. ActiveClaim(d, w, t) => ~Barrier(d)
    BY <2>1, <2>2 DEF RedriveInvariant, LettersAlone, PastBarrier, Holds
  <2>6. Barrier(d)' <=> Barrier(d)
    BY DEF BarriersKept
  <2> QED
    BY <2>2, <2>4, <2>5, <2>6 DEF PastBarrier, Holds
<1> QED
  BY <1>1, <1>2

\* A step that leaves letters and ended deliveries alone.
LEMMA LettersFrame ==
    ASSUME RedriveInvariant, EndedKept, UNCHANGED deadLetters, BarriersKept,
           \A v \in Workers : worker'[v].pc \in Pending =>
               worker[v].pc \in Pending /\ worker'[v].delivery = worker[v].delivery,
           \A v \in Workers : PastBarrier(v)'
    PROVE  LettersAlone'
<1>1. \A d : Barrier(d)' <=> Barrier(d)
  BY DEF BarriersKept
<1>3. \A l \in deadLetters : l[1] \in DeliveryIds
  BY DEF RedriveInvariant, RuntimeInvariant, Fit, LettersFit
<1>4. OneLetter' /\ LettersEnded'
  BY <1>1, <1>3 DEF RedriveInvariant, LettersAlone, OneLetter, LettersEnded, EndedKept
<1>5. LetterDueOnce'
  BY DEF RedriveInvariant, LettersAlone, LetterDueOnce
<1>6. ASSUME NEW v \in Workers PROVE LetterDue(v)'
  <2>1. CASE worker'[v].pc \notin Pending
    BY <2>1 DEF LetterDue
  <2>2. CASE worker'[v].pc \in Pending
    <3>1. PICK d : d = worker[v].delivery
      OBVIOUS
    <3>2. Busy(v)
      BY <2>2 DEF Busy, Pending, InLoop, Asleep
    <3>3. /\ worker'[v].delivery = d /\ d \in DeliveryIds
          /\ deliveries[d].status = "dead_lettered" /\ Unlettered(d)
      BY <2>2, <3>1, <3>2, BusyCopy DEF RedriveInvariant, LettersAlone, LetterDue
    <3>4. deliveries'[d].status = "dead_lettered" /\ Unlettered(d)'
      BY <3>3 DEF EndedKept, Terminal, Unlettered
    <3> QED
      BY <3>3, <3>4 DEF LetterDue
  <2> QED
    BY <2>1, <2>2
<1> QED
  BY <1>4, <1>5, <1>6 DEF LettersAlone

\* The same, for the workers that stay where they are.
LEMMA LettersAside ==
    ASSUME RedriveInvariant, UNCHANGED vars \/ Next, EndedKept,
           UNCHANGED deadLetters, BarriersKept, \A v \in Workers : Stays(v)
    PROVE  LettersAlone'
<1>1. \A v \in Workers : PastBarrier(v)'
  BY StaysStrides, StridesPast
<1>2. \A v \in Workers : worker'[v].pc \in Pending =>
          worker[v].pc \in Pending /\ worker'[v].delivery = worker[v].delivery
  BY DEF Stays, Pending, InLoop, Asleep
<1> QED
  BY <1>1, <1>2, LettersFrame

\* A turn of worker w that leaves the letters alone.
TurnKeeps(w) ==
    /\ \A v \in Workers \ {w} : Stays(v)
    /\ Strides(w)
    /\ \/ EndedKept /\ worker'[w].pc \notin Pending
       \/ /\ InHand(w) /\ Holds(w)
          /\ \A e \in DeliveryIds \ {worker[w].delivery} : deliveries'[e] = deliveries[e]
          /\ worker'[w].pc \in Pending =>
                deliveries'[worker[w].delivery].status = "dead_lettered"

LEMMA LettersTurn ==
    ASSUME RedriveInvariant, UNCHANGED vars \/ Next, NEW w \in Workers, TurnKeeps(w),
           UNCHANGED deadLetters, BarriersKept
    PROVE  LettersAlone'
<1>1. CASE EndedKept /\ worker'[w].pc \notin Pending
  <2>1. \A v \in Workers : worker'[v].pc \in Pending =>
            worker[v].pc \in Pending /\ worker'[v].delivery = worker[v].delivery
    BY <1>1 DEF TurnKeeps, Stays, Pending, InLoop, Asleep
  <2>2. \A v \in Workers : PastBarrier(v)'
    BY StaysStrides, StridesPast DEF TurnKeeps
  <2> QED
    BY <1>1, <2>1, <2>2, LettersFrame
<1>2. CASE /\ InHand(w) /\ Holds(w)
           /\ \A e \in DeliveryIds \ {worker[w].delivery} : deliveries'[e] = deliveries[e]
           /\ worker'[w].pc \in Pending =>
                deliveries'[worker[w].delivery].status = "dead_lettered"
  <2>1. PICK d : d = worker[w].delivery
    OBVIOUS
  <2>2. /\ Unlettered(d) /\ d \in DeliveryIds /\ deliveries[d].status \notin Terminal
        /\ deliveries[d].status # "dead_lettered" /\ worker[w].pc \notin Pending
        /\ \A e \in DeliveryIds \ {d} : deliveries'[e] = deliveries[e]
        /\ worker'[w].pc \in Pending => deliveries'[d].status = "dead_lettered"
    BY <1>2, <2>1, InHandAlone DEF Terminal
  <2>3. \A e : Barrier(e)' <=> Barrier(e)
    BY DEF BarriersKept
  <2>4. \A l \in deadLetters : l[1] \in DeliveryIds \ {d}
    BY <2>2 DEF RedriveInvariant, RuntimeInvariant, Fit, LettersFit, Unlettered
  <2>5. OneLetter' /\ LettersEnded'
    BY <2>2, <2>3, <2>4 DEF RedriveInvariant, LettersAlone, OneLetter, LettersEnded
  <2>6. ASSUME NEW v \in Workers \ {w}, worker'[v].pc \in Pending
        PROVE  /\ worker[v].pc \in Pending /\ worker'[v].delivery = worker[v].delivery
               /\ worker[v].delivery # d /\ LetterDue(v)'
    <3>1. PICK e : e = worker[v].delivery
      OBVIOUS
    <3>2. worker[v].pc \in Pending /\ worker'[v].delivery = e
      BY <2>6, <3>1 DEF TurnKeeps, Stays, Pending, InLoop, Asleep
    <3>3. Busy(v)
      BY <3>2 DEF Busy, Pending, InLoop, Asleep
    <3>4. /\ e \in DeliveryIds /\ deliveries[e].status = "dead_lettered" /\ Unlettered(e)
      BY <3>1, <3>2, <3>3, BusyCopy DEF RedriveInvariant, LettersAlone, LetterDue
    <3>5. e # d /\ deliveries'[e] = deliveries[e] /\ Unlettered(e)'
      BY <2>2, <3>4 DEF Unlettered
    <3> QED
      BY <3>1, <3>2, <3>4, <3>5 DEF LetterDue
  <2>7. worker'[w].pc \in Pending => worker'[w].delivery = d
    BY <2>1 DEF TurnKeeps, Strides, Pending, InLoop, Asleep
  <2>8. LetterDue(w)'
    <3>1. Unlettered(d)'
      BY <2>2 DEF Unlettered
    <3> QED
      BY <2>2, <2>7, <3>1 DEF LetterDue
  <2>9. \A v \in Workers : LetterDue(v)'
    BY <2>6, <2>8 DEF LetterDue
  <2>10. LetterDueOnce'
    BY <2>6, <2>7 DEF RedriveInvariant, LettersAlone, LetterDueOnce
  <2>11. \A v \in Workers : PastBarrier(v)'
    BY StaysStrides, StridesPast DEF TurnKeeps
  <2> QED
    BY <2>5, <2>9, <2>10, <2>11 DEF LettersAlone
<1> QED
  BY <1>1, <1>2 DEF TurnKeeps

-----------------------------------------------------------------------------
(* The turns of a worker *)

LEMMA InHandAt ==
    ASSUME NEW w \in Workers, NEW pc \in Handlers \ {"claimed"}, At(w, pc)
    PROVE  InHand(w)
BY BusyAt DEF InHand, At

LEMMA StoreStillKept == ASSUME KeepStore PROVE EndedKept
BY DEF KeepStore, vars, EndedKept

LEMMA GotoStrides ==
    ASSUME RedriveInvariant, NEW w \in Workers, NEW pc, Goto(w, pc),
           InHand(w) \/ pc \in InLoop
    PROVE  /\ \A v \in Workers \ {w} : Stays(v)
           /\ Strides(w) /\ worker'[w].pc = pc
<1>1. \A v \in Workers : worker[v] \in Jobs
  BY DEF RedriveInvariant, RuntimeInvariant, Fit, WorkersTyped
<1>2. /\ worker'[w] = [worker[w] EXCEPT !.pc = pc]
      /\ \A v \in Workers \ {w} : worker'[v] = worker[v]
  BY DEF Goto, RedriveInvariant, RuntimeInvariant, Fit, WorkersTyped
<1>3. /\ worker'[w].pc = pc /\ worker'[w].delivery = worker[w].delivery
      /\ worker'[w].copy = worker[w].copy
  BY <1>1, <1>2 DEF Jobs
<1> QED
  BY <1>2, <1>3, StillStays DEF Strides

LEMMA RestStrides ==
    ASSUME RedriveInvariant, NEW w \in Workers, Rest(w)
    PROVE  /\ \A v \in Workers \ {w} : Stays(v)
           /\ Strides(w) /\ worker'[w].pc \notin Pending
<1>1. /\ worker'[w] = Resting
      /\ \A v \in Workers \ {w} : worker'[v] = worker[v]
  BY DEF Rest, RedriveInvariant, RuntimeInvariant, Fit, WorkersTyped
<1> QED
  BY <1>1, StillStays DEF Strides, Resting, InLoop, Pending

LEMMA GotoTurn ==
    ASSUME RedriveInvariant, NEW w \in Workers, NEW pc, pc \notin Pending,
           InHand(w) \/ pc \in InLoop, Goto(w, pc), KeepStore
    PROVE  TurnKeeps(w)
BY GotoStrides, StoreStillKept DEF TurnKeeps

LEMMA RestTurn ==
    ASSUME RedriveInvariant, NEW w \in Workers, Rest(w), KeepStore
    PROVE  TurnKeeps(w)
BY RestStrides, StoreStillKept DEF TurnKeeps

LEMMA SaveElsewhere ==
    ASSUME RedriveInvariant, NEW w \in Workers, NEW record, InHand(w), Save(w, record)
    PROVE  /\ \A e \in DeliveryIds \ {worker[w].delivery} : deliveries'[e] = deliveries[e]
           /\ deliveries'[worker[w].delivery] = AtRest(record)
<1>1. PICK d : d = worker[w].delivery
  OBVIOUS
<1>2. deliveries' = [deliveries EXCEPT ![d] = AtRest(record)]
  BY <1>1 DEF Save, SaveDelivery
<1>3. d \in DeliveryIds /\ TypeOK
  BY <1>1, BusyCopy, StoreFacts DEF InHand, RedriveInvariant, RuntimeInvariant
<1> QED
  BY <1>1, <1>2, <1>3 DEF TypeOK

\* A save that ends the turn of the worker without a letter.
LEMMA SaveTurn ==
    ASSUME RedriveInvariant, NEW w \in Workers, NEW record, InHand(w), Holds(w), Save(w, record),
           Rest(w) \/ \E pc \in {"begin", "done"} : Goto(w, pc)
    PROVE  TurnKeeps(w)
<1>1. CASE Rest(w)
  BY <1>1, RestStrides, SaveElsewhere DEF TurnKeeps
<1>2. ASSUME NEW pc \in {"begin", "done"}, Goto(w, pc) PROVE TurnKeeps(w)
  <2>1. pc \notin Pending
    BY DEF Pending
  <2> QED
    BY <1>2, <2>1, GotoStrides, SaveElsewhere DEF TurnKeeps
<1> QED
  BY <1>1, <1>2

LEMMA LetterTurn ==
    ASSUME RedriveInvariant, NEW w \in Workers, NEW record, InHand(w), Holds(w), Save(w, record),
           Spreads(record, worker[w].copy), record.status = "dead_lettered",
           \E pc \in Pending : Goto(w, pc)
    PROVE  TurnKeeps(w)
<1>1. PICK c : c = worker[w].copy
  OBVIOUS
<1>2. c \in Delivery
  BY <1>1, WorkerType DEF RedriveInvariant, RuntimeInvariant, Fit
<1>3. AtRest(record).status = "dead_lettered"
  <2> DEFINE s == record.status y == record.delay a == record.attempt r == record.run
  <2>1. record = [c EXCEPT !.status = s, !.delay = y, !.attempt = a, !.run = r]
    BY <1>1, Zenon DEF Spreads
  <2>2. s = "dead_lettered"
    OBVIOUS
  <2> HIDE DEF s, y, a, r
  <2> QED
    BY <1>2, <2>1, <2>2 DEF AtRest, Delivery
<1> QED
  BY <1>3, GotoStrides, SaveElsewhere DEF TurnKeeps

LEMMA OuterCatchTurn ==
    ASSUME RedriveInvariant, NEW w \in Workers, InHand(w), OuterCatch(w)
    PROVE  TurnKeeps(w)
<1>1. CASE KeepStore /\ Rest(w)
  BY <1>1, RestTurn
<1>2. CASE /\ Holds(w) /\ Goto(w, "lastLetter")
           /\ Save(w, [worker[w].copy EXCEPT !.status = "dead_lettered"])
  <2>1. PICK record : record = [worker[w].copy EXCEPT !.status = "dead_lettered"]
    OBVIOUS
  <2>2. worker[w].copy \in Delivery /\ worker[w].copy.delay = 0
    BY BusyCopy DEF InHand, RedriveInvariant
  <2>3. Spreads(record, worker[w].copy) /\ record.status = "dead_lettered"
    BY <2>1, <2>2, SpreadForms, SavedStatuses DEF Delivery
  <2>4. Save(w, record) /\ "lastLetter" \in Pending
    BY <1>2, <2>1 DEF Pending
  <2> QED
    BY <1>2, <2>3, <2>4, LetterTurn
<1> QED
  BY <1>1, <1>2 DEF OuterCatch

LEMMA InnerCatchTurn ==
    ASSUME RedriveInvariant, NEW w \in Workers, InHand(w), InnerCatch(w)
    PROVE  TurnKeeps(w)
<1>1. ASSUME NEW pc \in {"cancel", "retry", "bury"}, Goto(w, pc), KeepStore PROVE TurnKeeps(w)
  <2>1. pc \notin Pending
    BY DEF Pending
  <2> QED
    BY <1>1, <2>1, GotoTurn
<1> QED
  BY <1>1, RestTurn, OuterCatchTurn DEF InnerCatch, CleanUp

LEMMA EndsTurn ==
    ASSUME RedriveInvariant, NEW w \in Workers, NEW pc \in {"cancelled", "requeue", "bury"},
           NEW status \in {"cancelled", "queued", "dead_lettered"}, EndsWith(w, pc, status)
    PROVE  TurnKeeps(w)
<1>1. InHand(w)
  BY InHandAt DEF EndsWith, Handlers
<1>2. CASE (Rest(w) /\ KeepStore) \/ CleanUp(w)
  BY <1>1, <1>2, RestTurn, OuterCatchTurn DEF CleanUp
<1> DEFINE record == [Ended(w, status) EXCEPT !.delay = IF status = "queued" THEN RetryDelay ELSE @]
<1>3. CASE /\ Holds(w) /\ Save(w, record)
           /\ IF status = "dead_lettered" THEN Goto(w, "letter") /\ UNCHANGED runs
              ELSE /\ Untrack(w)
                   /\ worker' = LET rested == [worker EXCEPT ![w] = Resting]
                                IN  IF status = "queued" THEN Woken(rested) ELSE rested
  <2>1. CASE status = "dead_lettered"
    <3>1. worker[w].copy \in Delivery /\ worker[w].copy.delay = 0
      BY <1>1, BusyCopy DEF InHand, RedriveInvariant
    <3>2. Spreads(record, worker[w].copy)
      BY <3>1, SpreadForms, SavedStatuses
    <3>3. record.status = status
      BY <3>1 DEF Ended, Delivery
    <3>4. "letter" \in Pending
      BY DEF Pending
    <3> HIDE DEF record
    <3> QED
      BY <1>1, <1>3, <2>1, <3>2, <3>3, <3>4, LetterTurn
  <2>2. CASE status = "cancelled"
    <3>1. Rest(w)
      BY <1>3, <2>2 DEF Rest
    <3> HIDE DEF record
    <3> QED
      BY <1>1, <1>3, <3>1, SaveTurn
  <2>3. CASE status = "queued"
    <3>1. worker' = Woken([worker EXCEPT ![w] = Resting])
      BY <1>3, <2>3
    <3>2. /\ worker'[w] = Resting
          /\ \A v \in Workers \ {w} : worker'[v] = worker[v] \/ worker'[v] = Resting
      BY <3>1 DEF Woken, Resting, RedriveInvariant, RuntimeInvariant, Fit, WorkersTyped
    <3>3. /\ \A v \in Workers \ {w} : Stays(v)
          /\ Strides(w) /\ worker'[w].pc \notin Pending
      BY <3>2, StillStays DEF Strides, Resting, InLoop, Pending
    <3> HIDE DEF record
    <3> QED
      BY <1>1, <1>3, <3>3, SaveElsewhere DEF TurnKeeps
  <2> QED
    BY <2>1, <2>2, <2>3
<1> QED
  BY <1>2, <1>3 DEF EndsWith

LEMMA ClaimEnds ==
    ASSUME RedriveInvariant, NEW w \in Workers, Claim(w, LeaseTime)
    PROVE  EndedKept
<1>1. LeaseTime \in 1 .. LeaseTime /\ TypeOK
  BY RuntimeAssumption, ConstantsAssumption, StoreFacts DEF RedriveInvariant, RuntimeInvariant
<1>2. PICK c \in DeliveryIds : /\ Claimable(c)
                               /\ \A d \in DeliveryIds \ {c} : deliveries'[d] = deliveries[d]
  BY <1>1, ClaimStep
<1>3. deliveries[c].status \notin Terminal
  BY <1>2 DEF Claimable, Active, Terminal
<1> QED
  BY <1>2, <1>3 DEF EndedKept

LEMMA LoopTurn ==
    ASSUME RedriveInvariant, NEW w \in Workers, Loop(w)
    PROVE  TurnKeeps(w)
<1>1. ASSUME NEW pc \in {"look", "register", "waiting"}, Goto(w, pc), KeepStore
      PROVE  TurnKeeps(w)
  <2>1. pc \notin Pending /\ pc \in InLoop
    BY DEF Pending, InLoop, Asleep
  <2> QED
    BY <1>1, <2>1, GotoTurn
\* A turn after which only this worker is at another place, which is not past the barrier.
<1>2. ASSUME EndedKept, worker'[w].pc \in Asleep \union {"claimed"},
             \A v \in Workers \ {w} : worker'[v] = worker[v]
      PROVE  TurnKeeps(w)
  BY <1>2, StillStays DEF TurnKeeps, Strides, InLoop, Asleep, Pending
<1>3. worker \in [Workers -> Jobs]
  BY DEF RedriveInvariant, RuntimeInvariant, Fit, WorkersTyped
<1>4. ASSUME NEW left, worker' = [worker EXCEPT ![w].pc = "sleeping", ![w].left = left]
      PROVE  /\ worker'[w].pc \in Asleep \union {"claimed"}
             /\ \A v \in Workers \ {w} : worker'[v] = worker[v]
  <2>1. \A job \in Jobs : [job EXCEPT !.pc = "sleeping", !.left = left].pc = "sleeping"
    BY DEF Jobs
  <2> QED
    BY <1>3, <1>4, <2>1 DEF Asleep
<1>5. CASE ClaimNext(w)
  <2>1. CASE /\ Claim(w, LeaseTime)
             /\ LET d == First({e \in DeliveryIds : Claimable(e)})
                IN  worker' = [worker EXCEPT ![w] = AtWork("claimed", d, deliveries'[d])]
    <3>1. PICK d, c : worker' = [worker EXCEPT ![w] = AtWork("claimed", d, c)]
      BY <2>1
    <3>2. worker'[w].pc = "claimed" /\ \A v \in Workers \ {w} : worker'[v] = worker[v]
      BY <1>3, <3>1 DEF AtWork
    <3> QED
      BY <1>2, <2>1, <3>2, ClaimEnds
  <2>2. CASE KeepStore /\ Goto(w, "look")
    BY <1>1, <2>2
  <2>3. CASE KeepStore /\ worker' = [worker EXCEPT ![w].pc = "sleeping", ![w].left = 1]
    BY <1>2, <1>4, <2>3, StoreStillKept
  <2> QED
    BY <1>5, <2>1, <2>2, <2>3 DEF ClaimNext
<1>6. CASE LookAhead(w)
  <2>1. KeepStore /\ EndedKept
    BY <1>6, StoreStillKept DEF LookAhead
  <2>2. CASE Goto(w, "register")
    BY <1>1, <2>1, <2>2
  <2>3. ASSUME NEW left, worker' = [worker EXCEPT ![w].pc = "sleeping", ![w].left = left]
        PROVE  TurnKeeps(w)
    BY <1>2, <1>4, <2>1, <2>3
  <2> QED
    BY <1>6, <2>2, <2>3 DEF LookAhead
<1>7. CASE Register(w) \/ SleepEnds(w)
  BY <1>1, <1>7, RestTurn DEF Register, SleepEnds
<1>8. CASE Stop(w)
  <2>1. /\ worker'[w] = [Resting EXCEPT !.pc = "stopped"]
        /\ \A v \in Workers \ {w} : worker'[v] = worker[v]
    BY <1>3, <1>8 DEF Stop
  <2>2. worker'[w].pc = "stopped"
    BY <2>1 DEF Resting
  <2> QED
    BY <1>2, <1>8, <2>1, <2>2, StoreStillKept DEF Stop, Asleep
<1> QED
  BY <1>5, <1>6, <1>7, <1>8 DEF Loop

\* The turns that only move the worker on, or end in one of the catches.
LEMMA PlainTurn ==
    ASSUME RedriveInvariant, NEW w \in Workers, InHand(w),
           \/ CleanUp(w) \/ Leak(w) \/ OuterCatch(w) \/ InnerCatch(w)
           \/ Rest(w) /\ KeepStore
           \/ KeepStore /\ \E pc \in Places \ Pending : Goto(w, pc)
    PROVE  TurnKeeps(w)
BY OuterCatchTurn, InnerCatchTurn, RestTurn, GotoTurn DEF CleanUp, Leak

LEMMA ProcessTurn ==
    ASSUME RedriveInvariant, NEW w \in Workers, Process(w), ~Admit(w), ~AddLetter(w)
    PROVE  TurnKeeps(w)
<1>1. Handlers \ Pending \subseteq Places \ Pending
  BY DEF Places
<1>2. CASE Enter(w) \/ Recover(w)
  <2>1. InHand(w)
    BY <1>2, InHandAt DEF Enter, Recover, Handlers
  <2>2. {"reconcile", "resume"} \subseteq Handlers \ Pending
    BY DEF Handlers, Pending
  <2> QED
    BY <1>1, <1>2, <2>1, <2>2, PlainTurn DEF Enter, Recover
<1>3. CASE Reconcile(w) \/ Resume(w)
  <2>1. InHand(w)
    BY <1>3, InHandAt DEF Reconcile, Resume, Handlers
  <2>2. {"refresh", "confirm"} \subseteq Handlers \ Pending
    BY DEF Handlers, Pending
  <2> QED
    BY <1>1, <1>3, <2>1, <2>2, PlainTurn DEF Reconcile, Resume
<1>4. CASE Refresh(w)
  <2>1. InHand(w)
    BY <1>4, InHandAt DEF Refresh, Handlers
  <2>2. CASE /\ Holds(w) /\ KeepStore
             /\ worker' = [worker EXCEPT ![w].copy = deliveries[worker[w].delivery],
                                         ![w].pc = "authority"]
    <3>1. PICK fresh : /\ fresh = deliveries[worker[w].delivery]
                       /\ fresh.token = worker[w].copy.token
      BY <2>2 DEF Holds, ActiveClaim
    <3>2. /\ worker' = [worker EXCEPT ![w] = [worker[w] EXCEPT !.copy = fresh, !.pc = "authority"]]
          /\ worker \in [Workers -> Jobs]
      BY <2>2, <3>1 DEF RedriveInvariant, RuntimeInvariant, Fit, WorkersTyped
    <3>3. /\ worker'[w].pc = "authority" /\ worker'[w].delivery = worker[w].delivery
          /\ worker'[w].copy = fresh
          /\ \A v \in Workers \ {w} : worker'[v] = worker[v]
      BY <3>2 DEF Jobs
    <3>4. Strides(w)
      BY <2>1, <3>1, <3>3 DEF Strides
    <3> QED
      BY <2>2, <3>3, <3>4, StillStays, StoreStillKept DEF TurnKeeps, Pending
  <2>3. CASE CleanUp(w) \/ Leak(w)
    BY <2>1, <2>3, PlainTurn
  <2> QED
    BY <1>4, <2>2, <2>3 DEF Refresh
<1>5. CASE AuthorityAborted(w)
  <2>1. InHand(w)
    BY <1>5, InHandAt DEF AuthorityAborted, Unauthorized, Handlers
  <2>2. "withdraw" \in Handlers \ Pending
    BY DEF Handlers, Pending
  <2> QED
    BY <1>1, <1>5, <2>1, <2>2, PlainTurn DEF AuthorityAborted, Unauthorized
<1>6. CASE Withdraw(w)
  <2>1. InHand(w)
    BY <1>6, InHandAt DEF Withdraw, Handlers
  <2>2. "withdrawn" \in Handlers \ Pending
    BY DEF Handlers, Pending
  <2> QED
    BY <1>1, <1>6, <2>1, <2>2, PlainTurn DEF Withdraw
<1>7. CASE Withdrawn(w)
  <2>1. InHand(w)
    BY <1>7, InHandAt DEF Withdrawn, Handlers
  <2> QED
    BY <1>7, <2>1, PlainTurn, SaveTurn DEF Withdrawn
<1>8. CASE Begin(w) \/ Invoke(w) \/ Complete(w)
  <2>1. InHand(w)
    BY <1>8, InHandAt DEF Begin, Invoke, Complete, Handlers
  <2>2. {"invoke", "body", "finish"} \subseteq Handlers \ Pending
    BY DEF Handlers, Pending
  <2> QED
    BY <1>1, <1>8, <2>1, <2>2, PlainTurn DEF Begin, Invoke, Complete
<1>9. CASE Finish(w) \/ Done(w)
  <2>1. InHand(w)
    BY <1>9, InHandAt DEF Finish, Done, Handlers
  <2> QED
    BY <1>9, <2>1, PlainTurn, SaveTurn DEF Finish, Done
<1>10. CASE Cancel(w) \/ Retry(w)
  <2>1. InHand(w)
    BY <1>10, InHandAt DEF Cancel, Retry, Handlers
  <2>2. {"cancelled", "requeue"} \subseteq Handlers \ Pending
    BY DEF Handlers, Pending
  <2> QED
    BY <1>1, <1>10, <2>1, <2>2, PlainTurn DEF Cancel, Retry
<1>11. CASE Cancelled(w) \/ Requeue(w) \/ Bury(w)
  BY <1>11, EndsTurn DEF Cancelled, Requeue, Bury
<1>12. CASE ConfirmAborted(w)
  <2>1. InHand(w)
    BY <1>12, InHandAt DEF ConfirmAborted, ConfirmFails, Handlers
  <2> QED
    BY <1>12, <2>1, PlainTurn DEF ConfirmAborted, ConfirmFails
<1> QED
  BY <1>2, <1>3, <1>4, <1>5, <1>6, <1>7, <1>8, <1>9, <1>10, <1>11, <1>12 DEF Process

LEMMA HostTurn ==
    ASSUME RedriveInvariant, NEW w \in Workers, Resolve(w) \/ Observe(w)
    PROVE  TurnKeeps(w)
<1>1. {"complete", "withdraw"} \subseteq Places \ Pending
  BY DEF Places, Handlers, Pending
<1>2. CASE Resolve(w)
  <2>1. InHand(w)
    BY <1>2, InHandAt DEF Resolve, Authorized, Confirm, Handlers
  <2> QED
    BY <1>2, <2>1, PlainTurn, SaveTurn DEF Resolve, Authorized, Confirm
<1>3. CASE ObserverReturns(w) \/ ObserverThrows(w)
  <2>1. InHand(w)
    BY <1>3, InHandAt DEF ObserverReturns, ObserverThrows, Handlers
  <2> QED
    BY <1>1, <1>3, <2>1, PlainTurn DEF ObserverReturns, ObserverThrows
<1>4. CASE AuthorityRejects(w) \/ ConfirmRejects(w)
  <2>1. InHand(w)
    BY <1>4, InHandAt DEF AuthorityRejects, Unauthorized, ConfirmRejects, ConfirmFails, Handlers
  <2> QED
    BY <1>1, <1>4, <2>1, PlainTurn
       DEF AuthorityRejects, Unauthorized, ConfirmRejects, ConfirmFails
<1> QED
  BY <1>2, <1>3, <1>4 DEF Observe

-----------------------------------------------------------------------------
(* Barriers and letters that come and go *)

LEMMA AdmitAlone ==
    ASSUME RedriveInvariant, NEW w \in Workers, Admit(w)
    PROVE  LettersAlone'
<1>1. KeepStore /\ UNCHANGED <<deadLetters, redrives>> /\ EndedKept /\ BarriersKept
  BY StoreStillKept DEF Admit, KeepRest, BarriersKept, Barrier
<1>2. PICK pc \in {"loop", "enter", "recover"} :
         /\ worker'[w].pc = pc
         /\ pc # "loop" => worker'[w].delivery = worker[w].delivery
         /\ \A v \in Workers \ {w} : worker'[v] = worker[v]
  <2>1. \A v \in Workers : worker[v] \in Jobs
    BY DEF RedriveInvariant, RuntimeInvariant, Fit, WorkersTyped
  <2>2. CASE Rest(w)
    BY <2>2 DEF Rest, Resting, RedriveInvariant, RuntimeInvariant, Fit, WorkersTyped
  <2>3. ASSUME NEW pc \in {"enter", "recover"}, Goto(w, pc)
        PROVE  /\ worker'[w].pc = pc /\ worker'[w].delivery = worker[w].delivery
               /\ \A v \in Workers \ {w} : worker'[v] = worker[v]
    BY <2>1, <2>3 DEF Goto, Jobs, RedriveInvariant, RuntimeInvariant, Fit, WorkersTyped
  <2> QED
    BY <2>2, <2>3 DEF Admit
<1>3. PastBarrier(w)'
  <2>1. ~Barrier(worker[w].delivery)
    BY DEF Admit, PassesBarrier
  <2>2. CASE pc = "loop"
    BY <1>2, <2>2 DEF PastBarrier, InHand, Busy, InLoop
  <2>3. CASE pc # "loop"
    <3>1. PICK d : d = worker[w].delivery
      OBVIOUS
    <3>2. worker'[w].delivery = d /\ ~Barrier(d)'
      BY <1>1, <1>2, <2>1, <2>3, <3>1 DEF BarriersKept
    <3> QED
      BY <3>2 DEF PastBarrier
  <2> QED
    BY <2>2, <2>3
<1>4. \A v \in Workers : PastBarrier(v)'
  BY <1>1, <1>2, <1>3, StillStays, StaysStrides, StridesPast DEF KeepStore
<1>5. \A v \in Workers : worker'[v].pc \in Pending =>
          worker[v].pc \in Pending /\ worker'[v].delivery = worker[v].delivery
  BY <1>2 DEF Pending
<1> QED
  BY <1>1, <1>4, <1>5, LettersFrame

LEMMA AddLetterAlone ==
    ASSUME RedriveInvariant, NEW w \in Workers, AddLetter(w)
    PROVE  LettersAlone'
<1>1. PICK d, letter :
         /\ d = worker[w].delivery /\ letter[1] = d
         /\ deadLetters' \in {deadLetters, deadLetters \union {letter}}
  <2>1. <<worker[w].delivery, worker[w].copy.token>>[1] = worker[w].delivery
    OBVIOUS
  <2> QED
    BY <2>1 DEF AddLetter
<1>2. worker[w].pc \in Pending
  BY DEF AddLetter, Pending
<1>3. d \in DeliveryIds /\ deliveries[d].status = "dead_lettered" /\ Unlettered(d)
  <2>1. Busy(w)
    BY <1>2 DEF Busy, Pending, InLoop, Asleep
  <2> QED
    BY <1>1, <1>2, <2>1, BusyCopy DEF RedriveInvariant, LettersAlone, LetterDue
<1>4. /\ worker'[w] = Resting
      /\ \A v \in Workers \ {w} : worker'[v] = worker[v]
  BY DEF AddLetter, Rest, RedriveInvariant, RuntimeInvariant, Fit, WorkersTyped
<1>5. KeepStore /\ UNCHANGED redrives /\ UNCHANGED deliveries /\ BarriersKept
  BY DEF AddLetter, KeepStore, vars, BarriersKept, Barrier
<1>6. OneLetter' /\ LettersEnded'
  BY <1>1, <1>3, <1>5 DEF RedriveInvariant, LettersAlone, OneLetter, LettersEnded, Unlettered,
                          BarriersKept, Terminal
<1>7. worker'[w].pc \notin Pending
  BY <1>4 DEF Resting, Pending
<1>8. LetterDueOnce'
  BY <1>4, <1>7 DEF RedriveInvariant, LettersAlone, LetterDueOnce
<1>9. ASSUME NEW v \in Workers, worker'[v].pc \in Pending PROVE LetterDue(v)'
  <2>1. PICK e : e = worker[v].delivery
    OBVIOUS
  <2>2. v # w /\ worker'[v] = worker[v]
    BY <1>4, <1>7, <1>9
  <2>3. /\ e # d /\ deliveries[e].status = "dead_lettered" /\ Unlettered(e)
    BY <1>1, <1>2, <1>9, <2>1, <2>2 DEF RedriveInvariant, LettersAlone, LetterDue, LetterDueOnce
  <2>4. Unlettered(e)'
    BY <1>1, <2>3 DEF Unlettered
  <2> QED
    BY <1>5, <2>1, <2>2, <2>3, <2>4 DEF LetterDue
<1>10. \A v \in Workers : LetterDue(v)'
  BY <1>9 DEF LetterDue
<1>11. \A v \in Workers : PastBarrier(v)'
  BY <1>4, <1>5, StillStays, StaysStrides, StridesPast DEF KeepStore
<1> QED
  BY <1>6, <1>8, <1>10, <1>11 DEF LettersAlone

LEMMA RequeueAlone ==
    ASSUME RedriveInvariant, NEW letter \in deadLetters, Next,
           RedriveDelivery(letter[1], FALSE), letter \in DOMAIN redrives,
           redrives' = [redrives EXCEPT ![letter] = "requeued"],
           worker' = Woken(worker), UNCHANGED deadLetters
    PROVE  LettersAlone'
<1>1. PICK d \in DeliveryIds : d = letter[1]
  BY DEF RedriveInvariant, RuntimeInvariant, Fit, LettersFit
<1>2. /\ deliveries[d].status \in Terminal /\ deliveries'[d].status = "queued"
      /\ \A e \in DeliveryIds \ {d} : deliveries'[e] = deliveries[e]
  BY <1>1, RedriveStep, StoreFacts DEF RedriveInvariant, RuntimeInvariant
<1>3. Barrier(d)' /\ \A e : e # d => (Barrier(e)' <=> Barrier(e))
  BY <1>1 DEF Barrier
<1>4. \A l \in deadLetters : l[1] \in DeliveryIds
  BY DEF RedriveInvariant, RuntimeInvariant, Fit, LettersFit
<1>5. OneLetter' /\ LettersEnded'
  BY <1>2, <1>3, <1>4 DEF RedriveInvariant, LettersAlone, OneLetter, LettersEnded
<1>6. \A v \in Workers : worker'[v] = worker[v] \/ worker'[v] = Resting
  BY DEF Woken
<1>7. \A v \in Workers : worker'[v].pc \in Pending \/ worker'[v].pc \notin InLoop =>
          worker'[v] = worker[v]
  BY <1>6 DEF Resting, Pending, InLoop
<1>8. LetterDueOnce'
  BY <1>7 DEF RedriveInvariant, LettersAlone, LetterDueOnce
<1>9. ASSUME NEW v \in Workers, worker'[v].pc \in Pending PROVE LetterDue(v)'
  <2>1. PICK e : e = worker[v].delivery
    OBVIOUS
  <2>2. worker'[v] = worker[v] /\ Busy(v)
    BY <1>7, <1>9 DEF Busy, Pending, InLoop, Asleep
  <2>3. e \in DeliveryIds /\ deliveries[e].status = "dead_lettered" /\ Unlettered(e)
    BY <1>9, <2>1, <2>2, BusyCopy DEF RedriveInvariant, LettersAlone, LetterDue
  <2>4. e # d /\ deliveries'[e] = deliveries[e] /\ Unlettered(e)'
    BY <1>1, <1>2, <2>3 DEF Unlettered
  <2> QED
    BY <2>1, <2>2, <2>3, <2>4 DEF LetterDue
<1>10. \A v \in Workers : LetterDue(v)'
  BY <1>9 DEF LetterDue
<1>11. ASSUME NEW v \in Workers PROVE PastBarrier(v)'
  <2>1. CASE ~InHand(v)'
    BY <2>1 DEF PastBarrier
  <2>2. CASE InHand(v)'
    <3>1. PICK e, c : e = worker[v].delivery /\ c = worker[v].copy
      OBVIOUS
    <3>2. worker'[v] = worker[v] /\ InHand(v)
      BY <1>7, <2>2 DEF InHand, Busy
    <3>3. e \in DeliveryIds
      BY <3>1, <3>2, BusyCopy DEF InHand, RedriveInvariant
    <3>4. CASE e = d
      <4>1. ~ActiveClaim(e, v, c.token)'
        BY <1>2, <3>4 DEF ActiveClaim, Active
      <4> QED
        BY <3>1, <3>2, <4>1 DEF PastBarrier, Holds
    <3>5. CASE e # d
      <4>1. ActiveClaim(e, v, c.token)' => ActiveClaim(e, v, c.token)
        BY <1>2, <3>3, <3>5 DEF ActiveClaim
      <4>2. ActiveClaim(e, v, c.token) => ~Barrier(e)
        BY <3>1, <3>2 DEF RedriveInvariant, LettersAlone, PastBarrier, Holds
      <4>3. Barrier(e)' <=> Barrier(e)
        BY <1>3, <3>5
      <4> QED
        BY <3>1, <3>2, <4>1, <4>2, <4>3 DEF PastBarrier, Holds
    <3> QED
      BY <3>4, <3>5
  <2> QED
    BY <2>1, <2>2
<1> QED
  BY <1>5, <1>8, <1>10, <1>11 DEF LettersAlone

LEMMA RemoveAlone ==
    ASSUME RedriveInvariant, NEW letter \in DOMAIN redrives, RemoveDeadLetter(letter)
    PROVE  LettersAlone'
<1>1. /\ deadLetters' = deadLetters \ {letter} /\ letter \in deadLetters
      /\ DOMAIN redrives \subseteq deadLetters
      /\ UNCHANGED worker /\ UNCHANGED deliveries
  BY DEF RemoveDeadLetter, KeepStore, vars, RedriveInvariant, RuntimeInvariant, Fit, LettersFit
<1>2. redrives' = [l \in DOMAIN redrives \ {letter} |-> redrives[l]]
  BY DEF RemoveDeadLetter, RedriveEnds
<1>3. \A e : Barrier(e)' => Barrier(e)
  BY <1>2 DEF Barrier
<1>4. ASSUME NEW l \in deadLetters', Barrier(l[1]) PROVE Barrier(l[1])'
  <2>1. PICK m \in DOMAIN redrives : redrives[m] = "requeued" /\ m[1] = l[1]
    BY <1>4 DEF Barrier
  <2>2. m # letter
    BY <1>1, <1>4, <2>1 DEF RedriveInvariant, LettersAlone, OneLetter
  <2> QED
    BY <1>2, <2>1, <2>2 DEF Barrier
<1>5. OneLetter' /\ LettersEnded' /\ LetterDueOnce'
  BY <1>1, <1>4 DEF RedriveInvariant, LettersAlone, OneLetter, LettersEnded, LetterDueOnce
<1>6. ASSUME NEW v \in Workers PROVE LetterDue(v)' /\ PastBarrier(v)'
  <2>1. PICK e, c : e = worker[v].delivery /\ c = worker[v].copy
    OBVIOUS
  <2>2. worker'[v] = worker[v] /\ worker'[v].delivery = e /\ worker'[v].copy = c
    BY <1>1, <2>1
  <2>3. /\ Unlettered(e) => Unlettered(e)'
        /\ ActiveClaim(e, v, c.token)' <=> ActiveClaim(e, v, c.token)
        /\ InHand(v)' <=> InHand(v)
        /\ Barrier(e)' => Barrier(e)
    BY <1>1, <1>3 DEF Unlettered, ActiveClaim, InHand, Busy
  <2>4. /\ worker[v].pc \in Pending => deliveries[e].status = "dead_lettered" /\ Unlettered(e)
        /\ InHand(v) /\ ActiveClaim(e, v, c.token) => ~Barrier(e)
    BY <2>1 DEF RedriveInvariant, LettersAlone, LetterDue, PastBarrier, Holds
  <2>5. LetterDue(v)'
    BY <1>1, <2>2, <2>3, <2>4 DEF LetterDue
  <2>6. PastBarrier(v)'
    BY <2>2, <2>3, <2>4 DEF PastBarrier, Holds
  <2> QED
    BY <2>5, <2>6
<1> QED
  BY <1>5, <1>6 DEF LettersAlone

-----------------------------------------------------------------------------
(* Every step *)

LEMMA PublishEnds ==
    ASSUME RedriveInvariant, NEW p \in Publishers, Publish(p)
    PROVE  EndedKept
<1>1. CASE UNCHANGED deliveries
  BY <1>1 DEF EndedKept
<1>2. CASE Accept(p) /\ publishers[p].pc # "accepted"
  <2> SUFFICES ASSUME NEW d \in DeliveryIds, deliveries[d].status \in Terminal
               PROVE  deliveries'[d].status = deliveries[d].status
    BY DEF EndedKept
  <2>1. /\ TypeOK /\ SequenceBounded /\ NothingBeforeAccepted
    BY DEF RedriveInvariant, RuntimeInvariant, StoreInvariant
  <2>2. ~Created(p, d)
    BY <1>2, <2>1, CreatedIsNew DEF Exists, Terminal
  <2>3. ~Replaced(p, d)
    BY DEF Replaced, Terminal
  <2> QED
    BY <1>2, <2>1, <2>2, <2>3, AcceptShape
<1> QED
  BY <1>1, <1>2, PublishStep

LEMMA AloneStep ==
    ASSUME RedriveInvariant, RuntimeNext
    PROVE  LettersAlone'
<1>0. UNCHANGED vars \/ Next
  BY NextSound DEF Sound, RedriveInvariant
<1>1. ASSUME UNCHANGED redrives PROVE BarriersKept
  BY <1>1 DEF BarriersKept, Barrier
\* A step that is not a worker's, and leaves the letters alone.
<1>2. ASSUME EndedKept, UNCHANGED deadLetters, BarriersKept,
             worker' = worker \/ worker' = Woken(worker)
      PROVE  LettersAlone'
  <2>1. \A v \in Workers : Stays(v)
    BY <1>2, StillStays DEF Woken
  <2> QED
    BY <1>0, <1>2, <2>1, LettersAside
<1>3. ASSUME NEW w \in Workers, Loop(w) \/ Resolve(w) \/ Observe(w) PROVE LettersAlone'
  <2>1. KeepRest
    BY <1>3 DEF Loop, ClaimNext, LookAhead, Register, SleepEnds, Stop, Resolve, Observe,
                Authorized, Confirm, ObserverReturns, ObserverThrows, AuthorityRejects,
                Unauthorized, ConfirmRejects, ConfirmFails
  <2> QED
    BY <1>0, <1>1, <1>3, <2>1, LoopTurn, HostTurn, LettersTurn DEF KeepRest
<1>4. ASSUME NEW w \in Workers, Process(w) PROVE LettersAlone'
  <2>1. CASE ~Admit(w) /\ ~AddLetter(w)
    <3>1. KeepRest
      BY <1>4, <2>1 DEF Process, Enter, Reconcile, Refresh, AuthorityAborted, Unauthorized,
                        Withdraw, Withdrawn, Begin, Invoke, Complete, Finish, Done, Cancel,
                        Cancelled, Retry, Requeue, Bury, EndsWith, Recover, Resume,
                        ConfirmAborted, ConfirmFails
    <3> QED
      BY <1>0, <1>1, <1>4, <2>1, <3>1, ProcessTurn, LettersTurn DEF KeepRest
  <2> QED
    BY <2>1, AdmitAlone, AddLetterAlone
<1>5. ASSUME NEW r \in DOMAIN runs, Heartbeat(r) \/ CancelRun(r) PROVE LettersAlone'
  <2>1. /\ UNCHANGED <<deadLetters, redrives, worker>>
    BY <1>5 DEF Heartbeat, CancelRun, KeepRest
  <2>2. CASE Renews(r)
    <3>1. /\ r[1] \in DeliveryIds /\ LeaseTime \in 1 .. LeaseTime
          /\ RenewClaim(r[1], LeaseTime) /\ TypeOK
      BY <2>2, StoreFacts, RuntimeAssumption, ConstantsAssumption
         DEF Renews, RedriveInvariant, RuntimeInvariant, Fit, RunsFit
    <3>2. EndedKept
      BY <3>1, RenewStep DEF EndedKept
    <3> QED
      BY <1>1, <1>2, <2>1, <3>2
  <2>3. CASE KeepStore
    BY <1>1, <1>2, <2>1, <2>3, StoreStillKept
  <2> QED
    BY <1>5, <2>2, <2>3 DEF Heartbeat, CancelRun
<1>6. ASSUME NEW p \in Publishers, BeginPublish(p) \/ Enqueue(p) PROVE LettersAlone'
  <2>1. UNCHANGED <<deadLetters, redrives>>
    BY <1>6 DEF BeginPublish, Enqueue
  <2>2. EndedKept
    BY <1>6, PublishEnds, StoreStillKept DEF BeginPublish, Enqueue, Publish
  <2>3. worker' = worker \/ worker' = Woken(worker)
    BY <1>6 DEF BeginPublish, Enqueue
  <2> QED
    BY <1>1, <1>2, <2>1, <2>2, <2>3
<1>7. ASSUME NEW letter \in deadLetters, BeginRedrive(letter) PROVE LettersAlone'
  <2>1. BarriersKept
    BY <1>7 DEF BeginRedrive, BarriersKept, Barrier
  <2> QED
    BY <1>2, <1>7, <2>1, StoreStillKept DEF BeginRedrive
<1>8. ASSUME NEW letter \in DOMAIN redrives, RequeueDeadLetter(letter) PROVE LettersAlone'
  <2>1. CASE RedriveDelivery(letter[1], FALSE)
    <3>1. letter \in deadLetters /\ letter[1] \in DeliveryIds /\ AllowRedrive
      BY DEF RedriveInvariant, RuntimeInvariant, Fit, LettersFit
    <3>2. Next
      BY <2>1, <3>1 DEF Next
    <3>3. ~KeepStore
      BY <2>1, <3>1, RedriveStep, StoreFacts
         DEF KeepStore, vars, Terminal, RedriveInvariant, RuntimeInvariant
    <3> QED
      BY <1>8, <2>1, <3>1, <3>2, <3>3, RequeueAlone DEF RequeueDeadLetter
  <2>2. CASE ~RedriveDelivery(letter[1], FALSE)
    <3>1. /\ KeepStore /\ UNCHANGED <<worker, deadLetters>> /\ redrives[letter] = "lookup"
          /\ redrives' = [l \in DOMAIN redrives \ {letter} |-> redrives[l]]
      BY <1>8, <2>2 DEF RequeueDeadLetter, RedriveEnds
    <3>2. BarriersKept
      BY <3>1 DEF BarriersKept, Barrier
    <3> QED
      BY <1>2, <3>1, <3>2, StoreStillKept
  <2> QED
    BY <2>1, <2>2
<1>9. ASSUME NEW letter \in DOMAIN redrives, RemoveDeadLetter(letter) PROVE LettersAlone'
  BY <1>9, RemoveAlone
<1>10. ASSUME NEW drain \in BOOLEAN, Close(drain) PROVE LettersAlone'
  BY <1>1, <1>2, <1>10, StoreStillKept DEF Close, KeepWork
<1>11. CASE PublishesSettle \/ Drained \/ Shutdown
  BY <1>1, <1>2, <1>11, StoreStillKept DEF PublishesSettle, Drained, Shutdown, KeepWork
<1>12. CASE TimePasses \/ Stall
  <2>1. Pass /\ UNCHANGED <<deadLetters, redrives>>
    BY <1>12 DEF TimePasses, Stall, Pass
  <2>2. EndedKept
    BY <2>1, TickStep, StoreFacts DEF Pass, EndedKept, RedriveInvariant, RuntimeInvariant
  <2>3. ASSUME NEW v \in Workers PROVE Stays(v)
    <3>1. WorkersTyped /\ worker[v].copy \in Delivery
      BY WorkerType DEF RedriveInvariant, RuntimeInvariant, Fit
    <3>2. PICK c : c = worker[v].copy
      OBVIOUS
    <3>3. [c EXCEPT !.lease = Down(c.lease)].token = c.token
      BY <3>1, <3>2 DEF Delivery
    <3> QED
      BY <2>1, <3>1, <3>2, <3>3, PassMoves DEF Stays
  <2> QED
    BY <1>0, <1>1, <2>1, <2>2, <2>3, LettersAside
<1> QED
  BY <1>3, <1>4, <1>5, <1>6, <1>7, <1>8, <1>9, <1>10, <1>11, <1>12 DEF RuntimeNext

LEMMA AloneInit == RuntimeInit => LettersAlone
<1> SUFFICES ASSUME RuntimeInit PROVE LettersAlone
  OBVIOUS
<1>1. \A w \in Workers : worker[w].pc = "loop"
  BY DEF RuntimeInit, Resting
<1>2. OneLetter /\ LettersEnded
  BY DEF RuntimeInit, OneLetter, LettersEnded
<1>3. "loop" \notin Pending /\ "loop" \in InLoop
  BY DEF Pending, InLoop
<1> QED
  BY <1>1, <1>2, <1>3
     DEF LettersAlone, LetterDueOnce, LetterDue, PastBarrier, InHand, Busy

\* While a worker processes a delivery under its claim, no dead letter of the
\* delivery is listed.
THEOREM RedriveOrdered == RuntimeSpec => []RedriveInOrder
<1>1. RuntimeInit => RedriveInvariant
  BY FitInit, AloneInit DEF RedriveInvariant
<1>2. RedriveInvariant /\ [RuntimeNext]_allVars => RedriveInvariant'
  <2> SUFFICES ASSUME RedriveInvariant, [RuntimeNext]_allVars PROVE RedriveInvariant'
    OBVIOUS
  <2>1. RuntimeInvariant'
    BY FitStep DEF RedriveInvariant
  <2>2. CASE RuntimeNext
    BY <2>1, <2>2, AloneStep DEF RedriveInvariant
  <2>3. CASE UNCHANGED allVars
    <3>1. KeepStore /\ UNCHANGED <<worker, deadLetters, redrives>>
      BY <2>3 DEF allVars, runtime, KeepStore
    <3>2. BarriersKept /\ EndedKept /\ \A v \in Workers : Stays(v)
      BY <3>1, StoreStillKept, StillStays DEF BarriersKept, Barrier
    <3> QED
      BY <2>1, <3>1, <3>2, LettersAside DEF KeepStore, RedriveInvariant
  <2> QED
    BY <2>2, <2>3
<1>3. RedriveInvariant => RedriveInOrder
  <2> SUFFICES ASSUME RedriveInvariant, NEW w \in Workers, Holds(w),
                      worker[w].pc \notin Asleep \union {"loop", "look", "register", "claimed"}
               PROVE  \A letter \in deadLetters : letter[1] # worker[w].delivery
    BY DEF RedriveInOrder
  <2>1. InHand(w)
    BY DEF InHand, Busy, InLoop
  <2> QED
    BY <2>1, InHandAlone DEF Unlettered
<1> QED
  BY <1>1, <1>2, <1>3, PTL DEF RuntimeSpec

================================================================================
