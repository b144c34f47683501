---------------------------- MODULE LearningLoop ----------------------------
(***************************************************************************)
(* The learning loop: records, the engine that batches them, and the       *)
(* release chain its evolution nominates on.                               *)
(*                                                                         *)
(* Agents append interactions and reports; a trainer pages them into its   *)
(* engine, builds a batch, lets evolve() judge a candidate and publish it, *)
(* then acknowledges the batch and marks its records consumed, in the      *)
(* order docs/LEARNING_SURFACE.md asks for.  Other hosts publish, promote  *)
(* and roll back on the same chain.  The trainer's process may end         *)
(* anywhere; store and chain are durable, the engine is not.               *)
(***************************************************************************)
EXTENDS LearningRecords, ReleaseChain

CONSTANT Trainer   \* the caller that evolves

VARIABLES
  trainer,    \* what the trainer does
  toConsume,  \* the ids acknowledge() returned
  nominated   \* history: reports whose batch is on the chain

loopVars == <<trainer, toConsume, nominated>>
vars == <<recordVars, chainVars, loopVars>>

ASSUME LoopAssumption == Trainer \in Callers
-----------------------------------------------------------------------------
(* Agents: the receipts of run() and the reports of report().              *)
Agents ==
  /\ \E id \in Records : AppendRecord(id)
  /\ UNCHANGED <<chainVars, loopVars>>

(* The trainer reads and folds records whenever it likes, also while a     *)
(* batch is out.                                                           *)
Reads ==
  /\ Page \/ Ingest
  /\ UNCHANGED <<chainVars, loopVars>>

Build ==
  /\ trainer = "idle" /\ Ready(engine)
  /\ engine' = BuiltBatch(engine)
  /\ trainer' = IF engine'.pending = <<>> THEN "idle" ELSE "evolving"
  /\ UNCHANGED <<log, sequenceOf, sequence, consumed, inbox, cursor>>
  /\ UNCHANGED <<chainVars, toConsume, nominated>>

(* evolve() needs a head, evaluates, and publishes what its gate selects.  *)
Evolve ==
  /\ trainer = "evolving" /\ head # None
  /\ \E content \in Contents : Publish(Trainer, content)
  /\ trainer' = "publishing"
  /\ UNCHANGED <<recordVars, toConsume, nominated>>

(* A step that rejects its candidate appends nothing; the batch stays.     *)
EvolveRejects ==
  /\ trainer = "evolving"
  /\ trainer' = "idle"
  /\ UNCHANGED <<recordVars, chainVars, toConsume, nominated>>

(* publish() resolves, or throws its conflict and the step ends.           *)
Nominate ==
  /\ trainer = "publishing"
  /\ \E id \in Ids : PutRelease(Trainer, id)
  /\ IF Len(releases') > Len(releases)
     THEN /\ trainer' = "nominated"
          /\ nominated' = nominated \cup SetOf(engine.pending)
     ELSE trainer' = "idle" /\ UNCHANGED nominated
  /\ UNCHANGED <<recordVars, toConsume>>

NominateAborted ==
  /\ trainer = "publishing"
  /\ Abort(Trainer)
  /\ trainer' = "idle"
  /\ UNCHANGED <<recordVars, toConsume, nominated>>

AcknowledgeFirst ==
  /\ trainer = "evolving"
  /\ toConsume' = Sources(SetOf(engine.pending)) \cup SetOf(engine.pending)
  /\ engine' = Acknowledged(engine)
  /\ trainer' = "consuming"
  /\ UNCHANGED <<log, sequenceOf, sequence, consumed, inbox, cursor>>
  /\ UNCHANGED <<chainVars, nominated>>
Acknowledge ==
  /\ trainer = "nominated"
  /\ toConsume' = Sources(SetOf(engine.pending)) \cup SetOf(engine.pending)
  /\ engine' = Acknowledged(engine)
  /\ trainer' = "consuming"
  /\ UNCHANGED <<log, sequenceOf, sequence, consumed, inbox, cursor>>
  /\ UNCHANGED <<chainVars, nominated>>
MarkConsumed ==
  /\ trainer = "consuming"
  /\ consumed' = consumed \cup toConsume
  /\ toConsume' = {}
  /\ trainer' = "idle"
  /\ UNCHANGED <<log, sequenceOf, sequence, engine, inbox, cursor>>
  /\ UNCHANGED <<chainVars, nominated>>

TrainerCrash ==
  /\ Crash(Trainer)
  /\ Restart
  /\ trainer' = "idle"
  /\ toConsume' = {}
  /\ UNCHANGED <<log, sequenceOf, sequence, consumed, nominated>>

(* Every other step on the chain, of the other hosts and of the trainer's  *)
(* host when no evolution is at work on it.                                *)
Hosts ==
  /\ \/ \E c \in Callers \ {Trainer} : CallerStep(c)
     \/ /\ trainer # "publishing"
        /\ \/ \E content \in Contents : CreateSeeded(Trainer, content)
           \/ ObserveHead(Trainer)
           \/ calls[Trainer].pc = "new" /\ AskHead(Trainer)
           \/ /\ calls[Trainer].operation = "creation"
              /\ \E id \in Ids : PutRelease(Trainer, id)
           \/ PromoteAppended(Trainer)
  /\ UNCHANGED <<recordVars, loopVars>>
-----------------------------------------------------------------------------
LoopInit ==
  /\ RecordsInit
  /\ Init
  /\ trainer = "idle"
  /\ toConsume = {}
  /\ nominated = {}

LoopNext == \/ Agents \/ Reads \/ Build \/ Evolve \/ EvolveRejects \/ Nominate
            \/ NominateAborted \/ Acknowledge \/ MarkConsumed \/ TrainerCrash
            \/ Hosts

LoopSpec == LoopInit /\ [][LoopNext]_vars
-----------------------------------------------------------------------------
(* The nomination is durable before anything is consumed: whatever a crash *)
(* cuts off, a record that can never train again is the evidence of a      *)
(* batch on the chain, or a report that came after such a batch.           *)
ConsumedNominated ==
  /\ consumed \cap Interactions \subseteq Sources(nominated)
  /\ \A r \in consumed \cap Reports :
       r \in nominated \/ References[r] \subseteq consumed
  /\ toConsume \subseteq nominated \cup Sources(nominated)

(* What was consumed never trains again: no batch holds an exchange that   *)
(* an earlier batch consumed.                                              *)
ConsumedNeverTrains == Sources(SetOf(engine.pending)) \cap consumed = {}
=============================================================================
