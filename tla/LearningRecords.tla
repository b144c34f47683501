-------------------------- MODULE LearningRecords --------------------------
(***************************************************************************)
(* Interactions, the reports that grade them, and the engine that turns    *)
(* them into training batches.                                             *)
(*                                                                         *)
(* The store keeps a log with one sequence number per record, the ids that *)
(* were consumed, and a cap that evicts interactions nobody refers to.     *)
(* The engine is a pure reducer over pages of that log: a report trains,   *)
(* waits for the interactions it names, or never trains; what trains is    *)
(* handed out in batches, each stable until it is acknowledged.  Reports   *)
(* may arrive before the interactions they name, twice, or not at all.     *)
(*                                                                         *)
(* Payloads and projections are left out; a unit is its report, its        *)
(* samples are the interactions the report names.                          *)
(*                                                                         *)
(* ForgetWaiters, CountSelected and DropDeferred are mistakes that faulty  *)
(* code could make; they test the properties and are no part of the        *)
(* specification.                                                          *)
(***************************************************************************)
EXTENDS Naturals, SequencesExt

CONSTANTS
  Interactions, Reports,
  References,      \* the interactions each report names
  Eligible,        \* reports that no terminal check refuses
  Slot, Group,     \* of the unit of each report, or NoKey
  NoKey,
  Bytes,           \* of the samples of each report
  BatchSize,       \* processor.batchSize
  MaxSampleBytes,  \* options.maxSampleBytes
  MaxParked,       \* options.maxParkedReports
  MaxRecords,      \* maxRecordsPerScenario
  PageLimit,       \* entries per page
  MaxSequence      \* bound: records appended

ASSUME RecordsAssumption ==
  /\ Interactions \cap Reports = {}
  /\ References \in [Reports -> SUBSET Interactions]
  /\ \A r \in Reports : References[r] # {}
  /\ Eligible \subseteq Reports
  /\ Bytes \in [Reports -> Nat]
  /\ BatchSize \in Nat \ {0} /\ MaxSampleBytes \in Nat \ {0}
  /\ MaxParked \in Nat \ {0} /\ MaxRecords \in Nat \ {0}
  /\ PageLimit \in Nat \ {0} /\ MaxSequence \in Nat

VARIABLES
  log,         \* state.log: ids in the order of their sequence numbers
  sequenceOf,  \* the sequence number of each stored record, 0 if not stored
  sequence,    \* state.sequence
  consumed,    \* state.consumed
  engine,      \* the reducer's state, held by the trainer
  inbox,       \* the records of a page not ingested yet
  cursor       \* afterSequence of the next page

recordVars == <<log, sequenceOf, sequence, consumed, engine, inbox, cursor>>

Records == Interactions \cup Reports
SetOf(s) == {s[i] : i \in DOMAIN s}

(* The elements of s that are in S, in their order.                        *)
Kept(s, S) ==
  FoldLeft(LAMBDA t, x : IF x \in S THEN Append(t, x) ELSE t, <<>>, s)
Without(s, x) == Kept(s, SetOf(s) \ {x})
-----------------------------------------------------------------------------
(* The store.                                                              *)

Graded(stored) == UNION {References[r] : r \in SetOf(stored) \cap Reports}
Evictable(stored, id) == id \in Interactions \ Graded(stored)

(* evict: over the cap, the oldest interaction that no stored report names *)
(* goes, even the one just appended; without one the cap is exceeded.      *)
(* One record arrives at a time, so one leaves at most.                    *)
Evicted(stored) ==
  LET victims == {i \in DOMAIN stored : Evictable(stored, stored[i])}
  IN IF Len(stored) > MaxRecords /\ victims # {}
     THEN {stored[CHOOSE i \in victims : \A j \in victims : i <= j]}
     ELSE {}

(* appendNow.  A consumed or stored id is a duplicate and changes nothing. *)
(* A report whose interactions have all been consumed is not stored but    *)
(* marked; anything else gets the next sequence number.                    *)
AppendRecord(id) ==
  /\ id \notin consumed /\ sequenceOf[id] = 0
  /\ IF id \in Reports /\ References[id] \subseteq consumed
     THEN /\ consumed' = consumed \cup {id}
          /\ UNCHANGED <<log, sequenceOf, sequence>>
     ELSE /\ sequence < MaxSequence
          /\ LET all == Append(log, id)
                 gone == Evicted(all)
             IN /\ log' = Kept(all, Records \ gone)
                /\ sequenceOf' = [other \in Records |->
                                    IF other \in gone THEN 0
                                    ELSE IF other = id THEN sequence + 1
                                    ELSE sequenceOf[other]]
          /\ sequence' = sequence + 1
          /\ UNCHANGED consumed
  /\ UNCHANGED <<engine, inbox, cursor>>

(* page and the cursor its reader keeps: the last entry it was given.      *)
Page ==
  LET available == Kept(log, {id \in Records : sequenceOf[id] > cursor})
      last == IF Len(available) < PageLimit THEN Len(available) ELSE PageLimit
  IN /\ inbox = <<>> /\ available # <<>>
     /\ inbox' = SubSeq(available, 1, last)
     /\ cursor' = sequenceOf[available[last]]
     /\ UNCHANGED <<log, sequenceOf, sequence, consumed, engine>>
-----------------------------------------------------------------------------
(* The engine.  Beside its own fields it carries two histories: the        *)
(* reports refused for a counted reason, and the units acknowledged.       *)

Engine ==
  [known : SUBSET Interactions, waiting : [Interactions -> Seq(Reports)],
   parked : Seq(Reports), seen : SUBSET Reports,
   trained : SUBSET Interactions, ready : Seq(Reports),
   pending : Seq(Reports), refused : SUBSET Reports,
   acknowledged : SUBSET Reports]

NewEngine ==
  [known |-> {}, waiting |-> [i \in Interactions |-> <<>>], parked |-> <<>>,
   seen |-> {}, trained |-> {}, ready |-> <<>>, pending |-> <<>>,
   refused |-> {}, acknowledged |-> {}]

Missing(e, r) == References[r] \ e.known

Release(e, r) ==
  [e EXCEPT !.parked = Without(@, r),
            !.waiting = [i \in Interactions |->
              IF i \in References[r] THEN Without(@[i], r) ELSE @[i]]]

Refuse(e, r) == [Release(e, r) EXCEPT !.refused = @ \cup {r}]

(* park, and the bound on parked reports: the oldest goes, never the one   *)
(* just parked.                                                            *)
Registered(e, r) ==
  [e EXCEPT !.parked = IF r \in SetOf(@) THEN @ ELSE Append(@, r),
            !.waiting = [i \in Interactions |->
              IF i \in Missing(e, r) /\ r \notin SetOf(@[i])
              THEN Append(@[i], r) ELSE @[i]]]
Park(e, r) ==
  LET parked == Registered(e, r)
      oldest == Head(parked.parked)
  IN IF Len(parked.parked) > MaxParked /\ oldest # r
     THEN Refuse(parked, oldest) ELSE parked

OccupiedSlots(e) ==
  {Slot[r] : r \in SetOf(e.ready) \cup SetOf(e.pending)} \ {NoKey}

(* judgeReport: the order of its checks decides what is counted.           *)
Judge(e, r) ==
  IF \/ References[r] \cap e.trained # {}
     \/ r \notin Eligible
     \/ Missing(e, r) = {} /\ Slot[r] \in OccupiedSlots(e)
  THEN Refuse(e, r)
  ELSE IF Missing(e, r) # {} THEN Park(e, r)
  ELSE [Release(e, r) EXCEPT !.ready = Append(@, r)]

(* An interaction re-judges the reports parked on it that are still there. *)
WaitersTaken(e, i) ==
  [e EXCEPT !.waiting = [@ EXCEPT ![i] = <<>>], !.known = @ \cup {i}]
ForgetWaiters(e, i) ==
  IF i \in e.known THEN e ELSE WaitersTaken(e, i)
IngestInteraction(e, i) ==
  IF i \in e.known THEN e
  ELSE FoldLeft(LAMBDA f, r : IF r \in SetOf(f.parked) THEN Judge(f, r) ELSE f,
                WaitersTaken(e, i), e.waiting[i])
IngestReport(e, r) ==
  IF r \in e.seen THEN e ELSE Judge([e EXCEPT !.seen = @ \cup {r}], r)

Ingested(e, id) ==
  IF id \in Interactions THEN IngestInteraction(e, id) ELSE IngestReport(e, id)

Ingest ==
  /\ inbox # <<>>
  /\ engine' = Ingested(engine, Head(inbox))
  /\ inbox' = Tail(inbox)
  /\ UNCHANGED <<log, sequenceOf, sequence, consumed, cursor>>

(* axLearningEngineReady *)
Ready(e) == e.pending # <<>> \/ Len(e.ready) >= BatchSize

(* The units of a batch, oldest first.  The first member of a group pays   *)
(* for the whole group; a group larger than the batch is discarded.        *)
GroupSize(e, r) ==
  IF Group[r] = NoKey THEN 1
  ELSE Cardinality({i \in DOMAIN e.ready : Group[e.ready[i]] = Group[r]})
Taken(selected, r) ==
  Group[r] # NoKey /\ \E s \in SetOf(selected) : Group[s] = Group[r]
CountSelected(reserved, selected, size) == Len(selected) + 1
Reserve(reserved, selected, size) == reserved + size
Chooses(e, f, r) ==
  LET size == GroupSize(e, r)
  IN IF size > BatchSize THEN [f EXCEPT !.discarded = @ \cup {r}]
     ELSE IF Taken(f.selected, r) THEN [f EXCEPT !.selected = Append(@, r)]
     ELSE IF f.reserved + size <= BatchSize
     THEN [f EXCEPT !.selected = Append(@, r),
                    !.reserved = Reserve(@, f.selected, size)]
     ELSE [f EXCEPT !.remaining = Append(@, r)]
NoneChosen ==
  [selected |-> <<>>, remaining |-> <<>>, reserved |-> 0, discarded |-> {}]
Select(e) ==
  FoldLeft(LAMBDA f, r : Chooses(e, f, r), NoneChosen, e.ready)

BatchBytes(units) == FoldLeft(LAMBDA n, r : n + Bytes[r], 0, units)

(* The byte cap defers the oldest units, but keeps one.                    *)
Deferred(units) ==
  CHOOSE n \in 0..Len(units) :
    LET Fits(k) == k + 1 >= Len(units)
                   \/ BatchBytes(SubSeq(units, k + 1, Len(units)))
                        <= MaxSampleBytes
    IN Fits(n) /\ \A k \in 0..(n - 1) : ~Fits(k)

DropDeferred(e) ==
  LET batch == Select(e)
      n == Deferred(batch.selected)
  IN IF e.pending # <<>> THEN e
     ELSE [e EXCEPT !.pending = SubSeq(batch.selected, n + 1,
                                       Len(batch.selected)),
                    !.ready = batch.remaining,
                    !.refused = @ \cup batch.discarded]
BuiltBatch(e) ==
  LET batch == Select(e)
      n == Deferred(batch.selected)
  IN IF e.pending # <<>> THEN e
     ELSE [e EXCEPT !.pending = SubSeq(batch.selected, n + 1,
                                       Len(batch.selected)),
                    !.ready = SubSeq(batch.selected, 1, n) \o batch.remaining,
                    !.refused = @ \cup batch.discarded]
Sources(units) == UNION {References[r] : r \in units}

(* axLearningEngineAcknowledge: the batch is retired and its sources do    *)
(* not train again.                                                        *)
Acknowledged(e) ==
  [e EXCEPT !.pending = <<>>,
            !.trained = @ \cup Sources(SetOf(e.pending)),
            !.acknowledged = @ \cup SetOf(e.pending)]
-----------------------------------------------------------------------------
RecordsInit ==
  /\ log = <<>>
  /\ sequenceOf = [id \in Records |-> 0]
  /\ sequence = 0
  /\ consumed = {}
  /\ engine = NewEngine
  /\ inbox = <<>>
  /\ cursor = 0

(* The reader starts over with a fresh engine and an empty page.           *)
Restart ==
  /\ engine' = NewEngine
  /\ inbox' = <<>>
  /\ cursor' = 0
-----------------------------------------------------------------------------
RecordsTypeOK ==
  /\ log \in Seq(Records) /\ inbox \in Seq(Records)
  /\ sequenceOf \in [Records -> 0..MaxSequence]
  /\ sequence \in 0..MaxSequence /\ cursor \in 0..sequence
  /\ consumed \subseteq Records
  /\ engine \in Engine

(* The log holds each stored record once, in the order of its number, and  *)
(* the reader skips nothing: what is stored below its cursor was folded in *)
(* or is at hand, whatever was evicted or appended while it was reading.   *)
LogOrdered ==
  /\ SetOf(log) = {id \in Records : sequenceOf[id] # 0}
  /\ \A i, j \in DOMAIN log :
       i < j => sequenceOf[log[i]] < sequenceOf[log[j]]
  /\ \A id \in Records : sequenceOf[id] <= sequence
NothingSkipped ==
  \A id \in SetOf(log) : sequenceOf[id] <= cursor =>
    id \in SetOf(inbox) \cup engine.known \cup engine.seen

(* The waiting index is exact: a report is registered with an interaction  *)
(* iff it is parked and that is what it misses, and it always misses one.  *)
(* A report lost from the index would never be judged again.               *)
WaitingExact ==
  /\ \A r \in Reports, i \in Interactions :
       r \in SetOf(engine.waiting[i]) <=>
         r \in SetOf(engine.parked) /\ i \in Missing(engine, r)
  /\ \A r \in SetOf(engine.parked) : Missing(engine, r) # {}
  /\ Len(engine.parked) <= MaxParked

(* What the store and the engine know of the records agrees.               *)
RecordsInvariant ==
  RecordsTypeOK /\ LogOrdered /\ NothingSkipped /\ WaitingExact

(* Feedback never vanishes and never counts twice: a report the engine saw *)
(* is in exactly one place - parked, ready, in the pending batch,          *)
(* acknowledged, or refused for a counted reason.                          *)
FeedbackAccounted ==
  LET places == <<SetOf(engine.parked), SetOf(engine.ready),
                  SetOf(engine.pending), engine.acknowledged, engine.refused>>
  IN /\ engine.seen = UNION {places[i] : i \in DOMAIN places}
     /\ \A i, j \in DOMAIN places : i # j => places[i] \cap places[j] = {}
     /\ \A s \in {engine.parked, engine.ready, engine.pending} :
          IsInjective(s)

(* A batch has at most BatchSize units, and every sample of a unit is      *)
(* there.                                                                  *)
BatchesSound ==
  /\ Len(engine.pending) <= BatchSize
  /\ Sources(SetOf(engine.ready) \cup SetOf(engine.pending))
       \subseteq engine.known
=============================================================================
